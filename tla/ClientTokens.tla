---------------------------- MODULE ClientTokens ----------------------------
(***************************************************************************)
(* The session tokens a user's commands share in a file of the home        *)
(* directory (SessionManager_Client in session_manager.py) and how the     *)
(* commands log in and out (libclient/client.py).                          *)
(*                                                                         *)
(* A command reads the file once, talks to a server and writes all tokens  *)
(* it knows.  The file is truncated when it is opened, then locked; what   *)
(* is written under the lock is flushed after it, when the file is closed. *)
(***************************************************************************)
EXTENDS Naturals, FiniteSets

CONSTANTS
  Command,    \* processes
  Server,     \* servers that require authentication
  Saved,      \* servers for which credentials are saved, or wildcards match
  MaxTokens,  \* bound: tokens a server gives
  MaxBegun,   \* bound: commands begun
  MaxStopped  \* bound: commands that are killed

ASSUME TokensAssumption ==
  /\ Saved \subseteq Server
  /\ MaxTokens \in Nat /\ MaxBegun \in Nat /\ MaxStopped \in Nat

VARIABLES
  tokens,   \* .codechecker.session.json
  session,  \* the user's session at each server
  cmd,      \* the commands that run
  commands, \* commands begun so far
  stopped,  \* commands killed so far
  together, \* history: whether two commands have overlapped
  due       \* history: the token each server has last given or, 0, taken away

tokVars == <<tokens, session, cmd, commands, stopped, together, due>>

NoToken == 0
NoTokens == [s \in Server |-> NoToken]
TokFile(st, t) == [state |-> st, of |-> t]
Idle == [pc |-> "idle", job |-> "none", at |-> "none", of |-> NoTokens]
Running == {c \in Command : cmd[c].pc # "idle"}

\* active: within the soft lifetime; a session that is not may be used again
\* by a login.
NoSession == [token |-> NoToken, active |-> FALSE]

TokTypeOK ==
  /\ tokens.state \in {"absent", "empty", "ok", "garbage"}
  /\ tokens.of \in [Server -> 0..MaxTokens]
  /\ session \in [Server -> [token : 0..MaxTokens, active : BOOLEAN]]
  /\ \A c \in Command :
       /\ cmd[c].pc \in {"idle", "begin", "create", "fill", "talk", "login",
                         "truncate", "flush", "work"}
       /\ cmd[c].job \in {"none", "login", "logout", "other"}
       /\ cmd[c].of \in [Server -> 0..MaxTokens]
  /\ commands \in 0..MaxBegun /\ stopped \in 0..MaxStopped
  /\ due \in [Server -> 0..MaxTokens]

TokInit ==
  /\ tokens = TokFile("absent", NoTokens)
  /\ session = [s \in Server |-> NoSession]
  /\ cmd = [c \in Command |-> Idle]
  /\ commands = 0 /\ stopped = 0 /\ together = FALSE /\ due = NoTokens

-----------------------------------------------------------------------------
(* The servers *)

Given(s) == session[s].token

\* The session gets old, or too old, or the server is restarted.
Age(s) ==
  /\ session[s] # NoSession
  /\ \/ session' = [session EXCEPT ![s] = NoSession]
     \/ session[s].active /\ session' = [session EXCEPT ![s].active = FALSE]
  /\ UNCHANGED <<tokens, cmd, commands, stopped, together, due>>

-----------------------------------------------------------------------------
(* The commands *)

MoveOn(c, pc) == cmd' = [cmd EXCEPT ![c].pc = pc]
Finish(c) == cmd' = [cmd EXCEPT ![c] = Idle]
CountsStay == UNCHANGED <<commands, stopped, together>>

BeginCommand(c, job, s) ==
  /\ cmd[c] = Idle /\ commands < MaxBegun
  /\ commands' = commands + 1
  /\ cmd' = [cmd EXCEPT ![c] = [Idle EXCEPT !.pc = "begin", !.job = job, !.at = s]]
  /\ together' = (together \/ Running # {})
  /\ UNCHANGED <<tokens, session, stopped, due>>

(* Mutant: what is in the file is not read. *)
LoadNothing(c) ==
  /\ cmd[c].pc = "begin"
  /\ CASE tokens.state = "absent" -> MoveOn(c, "create")
       [] tokens.state = "ok" -> cmd' = [cmd EXCEPT ![c].pc = "talk"]
       [] OTHER -> Finish(c)
  /\ UNCHANGED <<tokens, session, due>> /\ CountsStay

\* SessionManager_Client: a file that is not JSON raises ValueError.
Load(c) ==
  /\ cmd[c].pc = "begin"
  /\ CASE tokens.state = "absent" -> MoveOn(c, "create")
       [] tokens.state = "ok" ->
            cmd' = [cmd EXCEPT ![c] = [@ EXCEPT !.pc = "talk", !.of = tokens.of]]
       [] OTHER -> Finish(c)
  /\ UNCHANGED <<tokens, session, due>> /\ CountsStay

\* Both open the file for writing, which truncates it.
OpenForWriting(c) ==
  /\ cmd[c].pc \in {"create", "truncate"}
  /\ tokens' = TokFile("empty", NoTokens)
  /\ MoveOn(c, IF cmd[c].pc = "create" THEN "fill" ELSE "flush")
  /\ UNCHANGED <<session, due>> /\ CountsStay

Length(t) == {s \in Server : t[s] # NoToken}

\* As in the file of instances: a longer content keeps its tail.  Tokens have
\* one length, names of servers have not.
Flushed(t) ==
  LET whole == TokFile("ok", t)
      mixed == TokFile("garbage", NoTokens)
      n == Length(t)
      o == Length(tokens.of)
  IN IF tokens.state \in {"absent", "empty"} \/ (tokens.state = "ok" /\ o \subseteq n)
     THEN {whole}
     ELSE IF tokens.state = "ok" /\ n \subseteq o THEN {mixed} ELSE {whole, mixed}

\* A new file is filled.
CreateFile(c) ==
  /\ cmd[c].pc = "fill"
  /\ tokens' \in Flushed(NoTokens)
  /\ MoveOn(c, "talk")
  /\ UNCHANGED <<session, due>> /\ CountsStay

(* Mutant: only the new token is written. *)
SaveOnlyNew(c) ==
  LET t == [s \in Server |-> IF s = cmd[c].at THEN cmd[c].of[s] ELSE NoToken] IN
  /\ cmd[c].pc = "flush"
  /\ tokens' \in Flushed(t)
  /\ IF cmd[c].job = "other" THEN MoveOn(c, "work") ELSE Finish(c)
  /\ UNCHANGED <<session, due>> /\ CountsStay

\* saveToken: lock, dump and unlock change nothing that others see, the close
\* flushes.  A login or logout is over then, another command goes on.
SaveToken(c) ==
  /\ cmd[c].pc = "flush"
  /\ tokens' \in Flushed(cmd[c].of)
  /\ IF cmd[c].job = "other" THEN MoveOn(c, "work") ELSE Finish(c)
  /\ UNCHANGED <<session, due>> /\ CountsStay

\* The token of the file belongs to the user's session within its lifetime.
Admitted(c) ==
  LET s == cmd[c].at IN
  cmd[c].of[s] # NoToken /\ cmd[c].of[s] = Given(s) /\ session[s].active

(* Mutant: the session is ended but the token stays in the file. *)
LogOutKeepsToken(c) ==
  /\ cmd[c].pc = "talk" /\ cmd[c].job = "logout"
  /\ IF Admitted(c)
     THEN /\ session' = [session EXCEPT ![cmd[c].at] = NoSession]
          /\ due' = [due EXCEPT ![cmd[c].at] = NoToken]
          /\ Finish(c)
     ELSE Finish(c) /\ UNCHANGED <<session, due>>
  /\ UNCHANGED tokens /\ CountsStay

\* handle_auth, logout: destroySession finds the session only while the token
\* is accepted; otherwise the token stays.
LogOut(c) ==
  /\ cmd[c].pc = "talk" /\ cmd[c].job = "logout"
  /\ IF Admitted(c)
     THEN /\ session' = [session EXCEPT ![cmd[c].at] = NoSession]
          /\ due' = [due EXCEPT ![cmd[c].at] = NoToken]
          /\ cmd' = [cmd EXCEPT ![c] =
               [@ EXCEPT !.pc = "truncate", !.of = [cmd[c].of EXCEPT ![cmd[c].at] = NoToken]]]
     ELSE Finish(c) /\ UNCHANGED <<session, due>>
  /\ UNCHANGED tokens /\ CountsStay

\* getAuthParameters of handle_auth and perform_auth_for_handler: already
\* logged in; the access revalidates the session.  A command that is not the
\* login may only use credentials that are saved, if autologin is enabled.
Shake(c) ==
  /\ cmd[c].pc = "talk" /\ cmd[c].job \in {"login", "other"}
  /\ CASE Admitted(c) -> IF cmd[c].job = "login" THEN Finish(c) ELSE MoveOn(c, "work")
       [] ~Admitted(c) /\ (cmd[c].job = "login" \/ cmd[c].at \in Saved) -> MoveOn(c, "login")
       [] OTHER -> Finish(c)
  /\ UNCHANGED <<tokens, session, due>> /\ CountsStay

\* performLogin: create_or_get_session.  The credentials may be wrong.  The
\* number of a new token is one the file and the commands do not know.
LogIn(c) ==
  LET s == cmd[c].at
      known == {tokens.of[s], due[s]} \cup {cmd[d].of[s] : d \in Command} \cup {NoToken}
  IN
  /\ cmd[c].pc = "login"
  /\ \/ /\ IF session[s] = NoSession
           THEN \E t \in (0..MaxTokens) \ known :
                  /\ \A u \in (0..MaxTokens) \ known : t <= u
                  /\ session' = [session EXCEPT ![s] = [token |-> t, active |-> TRUE]]
           ELSE session' = [session EXCEPT ![s].active = TRUE]
        /\ cmd' = [cmd EXCEPT ![c] =
             [@ EXCEPT !.pc = "truncate", !.of = [cmd[c].of EXCEPT ![s] = session'[s].token]]]
        /\ due' = [due EXCEPT ![s] = session'[s].token]
     \/ Finish(c) /\ UNCHANGED <<session, due>>
  /\ UNCHANGED tokens /\ CountsStay

\* The command uses its token and ends.
UseToken(c) ==
  /\ cmd[c].pc = "work"
  /\ Finish(c)
  /\ UNCHANGED <<tokens, session, due>> /\ CountsStay

Stop(c) ==
  /\ c \in Running /\ stopped < MaxStopped
  /\ stopped' = stopped + 1
  /\ Finish(c)
  /\ UNCHANGED <<tokens, session, commands, together, due>>

TokNext ==
  \/ \E s \in Server : Age(s)
  \/ \E c \in Command :
       \/ \E job \in {"login", "logout", "other"}, s \in Server : BeginCommand(c, job, s)
       \/ Load(c) \/ OpenForWriting(c) \/ CreateFile(c) \/ SaveToken(c)
       \/ LogOut(c) \/ Shake(c) \/ LogIn(c) \/ UseToken(c) \/ Stop(c)

TokSpec == TokInit /\ [][TokNext]_tokVars

-----------------------------------------------------------------------------
(* Properties *)

\* Commands that neither overlap nor are killed keep the file in order: for
\* every server it holds the token the server gave last, until the user logs
\* out, whatever commands did with other servers in between.
TokensKept ==
  ~together /\ stopped = 0 /\ Running = {} =>
    \/ tokens.state = "absent" /\ due = NoTokens
    \/ tokens.state = "ok" /\ tokens.of = due

\* The token file holds what the servers gave (SessionManager_Client).
TokensAgree == TokTypeOK /\ TokensKept
=============================================================================
