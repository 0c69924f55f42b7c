--------------------------- MODULE LoginSessions ---------------------------
(***************************************************************************)
(* The login sessions of the server: requests that present a session's     *)
(* token or credentials, logins, logouts and the cleanup of expired        *)
(* sessions (session_manager.py, __check_auth_in_request and its callers   *)
(* in server/server.py, performLogin and destroySession in                 *)
(* server/api/authentication.py).                                          *)
(*                                                                         *)
(* Request threads share one list of sessions and no lock.  A walk of the  *)
(* list goes by position, as Python's iterators do: what another thread    *)
(* removes moves the rest up, and the cleanup puts a new list in place of  *)
(* the one being walked.  A step here is a walk's step, one check of a     *)
(* session or one change of the list.                                      *)
(***************************************************************************)
EXTENDS Naturals, Sequences, SequencesExt

CONSTANTS
  Call,        \* request threads
  Cred,        \* username:password strings clients send
  Listed,      \* those of the superuser and of the dictionary
  External,    \* those an LDAP or PAM authority may accept
  Soft, Hard,  \* session_lifetimes
  LoginsUntilCleanup,
  MaxSessions, \* bound: sessions created
  None

ASSUME LoginAssumption ==
  /\ Listed \cup External \subseteq Cred
  /\ None \notin Cred /\ None \notin Seq(Nat)
  /\ Soft \in Nat /\ Hard \in Nat /\ LoginsUntilCleanup \in Nat
  /\ MaxSessions \in Nat

VARIABLES
  sess,    \* every session there ever was: its number stands for its token
  list,    \* __valid_sessions
  logins,  \* __logins_since_prune
  pc,      \* where each call is
  req,     \* what each call was sent with
  found,   \* the session a call has got hold of, or 0
  pos,     \* the position of a call's walk of the list
  old,     \* the list it walks if that has been replaced
  kept,    \* what a cleanup has collected
  sure,    \* history: calls whose session was valid all along (see below)
  calm,    \* history: logins during which no other call changed the list
  out      \* history: sessions logged out while no cleanup was going on

local == <<found, pos, old, kept>>
vars == <<sess, list, logins, pc, req, local, sure, calm, out>>

(* idle is the time since last_access, no longer counted once the session  *)
(* has expired for good.                                                   *)
Forgotten == IF Soft > Hard THEN Soft + 1 ELSE Hard + 1
Session == [cred : Cred, idle : 0..Forgotten]

Op == {"use", "logout"}

(* auth is the Authorization header, or what a login sends.                *)
Request == [cookie : 0..MaxSessions, auth : Cred \cup {None}, op : Op]
NoRequest == [cookie |-> 0, auth |-> None, op |-> "use"]

Walking == {"is_valid", "get_session", "cleanup", "find"}
PC == Walking \cup {"idle", "valid", "got", "count", "assign", "validate",
                    "reuse", "create", "serve", "remove"}

TypeOK ==
  /\ sess \in Seq(Session) /\ Len(sess) <= MaxSessions
  /\ list \in Seq(DOMAIN sess) /\ IsInjective(list)
  /\ logins \in Nat
  /\ pc \in [Call -> PC] /\ req \in [Call -> Request]
  /\ found \in [Call -> {0} \cup DOMAIN sess]
  /\ pos \in [Call -> Nat]
  /\ old \in [Call -> Seq(DOMAIN sess) \cup {None}]
  /\ kept \in [Call -> Seq(DOMAIN sess)]
  /\ sure \subseteq Call /\ calm \subseteq Call /\ out \subseteq DOMAIN sess

Init ==
  /\ sess = <<>> /\ list = <<>> /\ logins = 0
  /\ pc = [c \in Call |-> "idle"] /\ req = [c \in Call |-> NoRequest]
  /\ found = [c \in Call |-> 0] /\ pos = [c \in Call |-> 0]
  /\ old = [c \in Call |-> None] /\ kept = [c \in Call |-> <<>>]
  /\ sure = {} /\ calm = {} /\ out = {}

StillReusable(s) == sess[s].idle <= Hard

StillValid(s) == sess[s].idle <= Soft /\ StillReusable(s)

(* A call is sure as long as the session of its cookie has been valid and  *)
(* in the list since it was received, and no session was logged out.       *)
Present(c) == req[c].cookie \in Range(list) /\ StillValid(req[c].cookie)
Watch == sure' = {c \in sure : Present(c)'}

Move(c, p) == pc' = [pc EXCEPT ![c] = p]

(* Mutant: the loop misses the first element.                              *)
WalkFromSecond(c, p) ==
  /\ Move(c, p)
  /\ pos' = [pos EXCEPT ![c] = 2] /\ old' = [old EXCEPT ![c] = None]

(* The call begins a loop over the list, and leaves it.                    *)
Walk(c, p) ==
  /\ Move(c, p)
  /\ pos' = [pos EXCEPT ![c] = 1] /\ old' = [old EXCEPT ![c] = None]

Leave(c, p) ==
  /\ Move(c, p)
  /\ pos' = [pos EXCEPT ![c] = 0] /\ old' = [old EXCEPT ![c] = None]

Walked(c) == IF old[c] = None THEN list ELSE old[c]
AtEnd(c) == pos[c] > Len(Walked(c))
At(c) == Walked(c)[pos[c]]

(* One round of a loop that ends with the first session that fits.         *)
Look(c, fits, p) ==
  \/ /\ fits
     /\ Leave(c, p) /\ found' = [found EXCEPT ![c] = At(c)]
  \/ /\ ~fits
     /\ pos' = [pos EXCEPT ![c] = @ + 1] /\ UNCHANGED <<pc, old, found>>

(* Without a valid cookie the request may still authenticate itself; a     *)
(* login always does, in performLogin.                                     *)
NoCookie(r) == IF r.auth # None THEN "count" ELSE "serve"

(* The call has been answered: its locals are gone.                        *)
Clear(c) ==
  /\ req' = [req EXCEPT ![c] = NoRequest]
  /\ found' = [found EXCEPT ![c] = 0]
  /\ UNCHANGED <<pos, old, kept>>
End(c) == Move(c, "idle") /\ Clear(c) /\ calm' = calm \ {c}

Tick ==
  /\ sess' = [s \in DOMAIN sess |->
               IF sess[s].idle < Forgotten
               THEN [sess[s] EXCEPT !.idle = @ + 1] ELSE sess[s]]
  /\ UNCHANGED <<list, logins, pc, req, local, calm, out>>
  /\ Watch

(* A request arrives, with the token of some session or none, and with     *)
(* credentials or none: a browser sends them in the header, a client that  *)
(* has no token calls performLogin with them.                              *)
Receive(c) ==
  /\ pc[c] = "idle"
  /\ \E r \in [cookie : {0} \cup DOMAIN sess, auth : Cred \cup {None}, op : Op] :
       /\ r.op = "logout" => r.auth = None
       /\ req' = [req EXCEPT ![c] = r]
       /\ IF r.cookie # 0
          THEN Walk(c, "is_valid")
          ELSE Move(c, NoCookie(r)) /\ UNCHANGED <<pos, old>>
  /\ UNCHANGED <<sess, list, logins, found, kept, calm, out>>
  /\ sure' = IF Present(c)' THEN sure \cup {c} ELSE sure \ {c}

(* The token's session is looked for and checked; then it is looked for    *)
(* and checked again, to be returned.                                      *)
IsValid(c) ==
  /\ pc[c] = "is_valid"
  /\ IF AtEnd(c)
     THEN Leave(c, NoCookie(req[c])) /\ UNCHANGED found
     ELSE Look(c, At(c) = req[c].cookie /\ StillValid(At(c)), "valid")
  /\ UNCHANGED <<sess, list, logins, req, kept, calm, out>>
  /\ Watch

GetSession(c) ==
  /\ pc[c] = "get_session"
  /\ IF AtEnd(c)
     THEN Leave(c, NoCookie(req[c])) /\ UNCHANGED found
     ELSE Look(c, At(c) = req[c].cookie /\ StillValid(At(c)), "got")
  /\ UNCHANGED <<sess, list, logins, req, kept, calm, out>>
  /\ Watch

(* Mutant: the session that is used again is added to the list again.      *)
RevalidateAppends(c) ==
  /\ pc[c] \in {"valid", "got", "reuse"}
  /\ sess' = IF StillReusable(found[c])
             THEN [sess EXCEPT ![found[c]].idle = 0]
             ELSE sess
  /\ IF pc[c] = "valid"
     THEN Walk(c, "get_session") /\ found' = [found EXCEPT ![c] = 0]
     ELSE /\ Move(c, "serve")
          /\ UNCHANGED <<pos, old, found>>
  /\ list' = IF pc[c] = "reuse" THEN Append(list, found[c]) ELSE list
  /\ UNCHANGED <<logins, req, kept, calm, out>>
  /\ Watch

(* The lifetime of the session that was found is extended.                 *)
Revalidate(c) ==
  /\ pc[c] \in {"valid", "got", "reuse"}
  /\ sess' = IF StillReusable(found[c])
             THEN [sess EXCEPT ![found[c]].idle = 0]
             ELSE sess
  /\ IF pc[c] = "valid"
     THEN Walk(c, "get_session") /\ found' = [found EXCEPT ![c] = 0]
     ELSE /\ Move(c, "serve")
          /\ UNCHANGED <<pos, old, found>>
  /\ UNCHANGED <<list, logins, req, kept, calm, out>>
  /\ Watch

(* Mutant: one login too many before the cleanup.                          *)
CountLoginTooFar(c) ==
  /\ pc[c] = "count"
  /\ req' = [req EXCEPT ![c].cookie = 0]
  /\ calm' = calm \cup {c}
  /\ logins' = logins + 1
  /\ IF logins + 1 > LoginsUntilCleanup
     THEN Walk(c, "cleanup")
     ELSE Move(c, "validate") /\ UNCHANGED <<pos, old>>
  /\ UNCHANGED <<sess, list, found, kept, out>>
  /\ Watch

(* create_or_get_session counts the attempt, and may clean up first; the   *)
(* cookie is of no use any more.                                           *)
CountLogin(c) ==
  /\ pc[c] = "count"
  /\ req' = [req EXCEPT ![c].cookie = 0]
  /\ calm' = calm \cup {c}
  /\ logins' = logins + 1
  /\ IF logins + 1 >= LoginsUntilCleanup
     THEN Walk(c, "cleanup")
     ELSE Move(c, "validate") /\ UNCHANGED <<pos, old>>
  /\ UNCHANGED <<sess, list, found, kept, out>>
  /\ Watch

(* Mutant: the cleanup drops the sessions that are hibernated.             *)
CleanupSessionValid(c) ==
  /\ pc[c] = "cleanup"
  /\ IF AtEnd(c)
     THEN Leave(c, "assign") /\ UNCHANGED kept
     ELSE /\ pos' = [pos EXCEPT ![c] = @ + 1]
          /\ kept' = [kept EXCEPT ![c] =
                        IF StillValid(At(c)) THEN Append(@, At(c)) ELSE @]
          /\ UNCHANGED <<pc, old>>
  /\ UNCHANGED <<sess, list, logins, req, found, calm, out>>
  /\ Watch

CleanupSession(c) ==
  /\ pc[c] = "cleanup"
  /\ IF AtEnd(c)
     THEN Leave(c, "assign") /\ UNCHANGED kept
     ELSE /\ pos' = [pos EXCEPT ![c] = @ + 1]
          /\ kept' = [kept EXCEPT ![c] =
                        IF StillReusable(At(c)) THEN Append(@, At(c)) ELSE @]
          /\ UNCHANGED <<pc, old>>
  /\ UNCHANGED <<sess, list, logins, req, found, calm, out>>
  /\ Watch

(* Whoever walks the list goes on with the one that was there.             *)
CleanupAssign(c) ==
  /\ pc[c] = "assign"
  /\ list' = kept[c] /\ logins' = 0
  /\ kept' = [kept EXCEPT ![c] = <<>>]
  /\ old' = [d \in Call |->
               IF pc[d] \in Walking /\ old[d] = None THEN list ELSE old[d]]
  /\ Move(c, "validate")
  /\ calm' = calm \cap {c}
  /\ UNCHANGED <<sess, req, found, pos, out>>
  /\ Watch

(* The authorities are asked: the superuser's hash, the dictionary, PAM,   *)
(* LDAP.                                                                   *)
Validate(c) ==
  /\ pc[c] = "validate"
  /\ \/ /\ req[c].auth \in Listed \cup External
        /\ Walk(c, "find")
     \/ /\ req[c].auth \notin Listed
        /\ Move(c, "serve") /\ UNCHANGED <<pos, old>>
  /\ found' = [found EXCEPT ![c] = 0]
  /\ UNCHANGED <<sess, list, logins, req, kept, calm, out>>
  /\ Watch

(* Mutant: hibernated sessions are not used again.                         *)
FindSessionValid(c) ==
  /\ pc[c] = "find"
  /\ IF AtEnd(c)
     THEN Leave(c, "create") /\ UNCHANGED found
     ELSE Look(c, StillValid(At(c)) /\ sess[At(c)].cred = req[c].auth, "reuse")
  /\ UNCHANGED <<sess, list, logins, req, kept, calm, out>>
  /\ Watch

(* The first session with the same credentials that can be reused.         *)
FindSession(c) ==
  /\ pc[c] = "find"
  /\ IF AtEnd(c)
     THEN Leave(c, "create") /\ UNCHANGED found
     ELSE Look(c, StillReusable(At(c)) /\ sess[At(c)].cred = req[c].auth, "reuse")
  /\ UNCHANGED <<sess, list, logins, req, kept, calm, out>>
  /\ Watch

CreateSession(c) ==
  /\ pc[c] = "create" /\ Len(sess) < MaxSessions
  /\ sess' = Append(sess, [cred |-> req[c].auth, idle |-> 0])
  /\ list' = Append(list, Len(sess'))
  /\ found' = [found EXCEPT ![c] = Len(sess')]
  /\ Move(c, "serve")
  /\ calm' = {}
  /\ UNCHANGED <<logins, req, pos, old, kept, out>>
  /\ Watch

(* do_GET and do_POST: without a session the request is refused; otherwise *)
(* it is served in the name of the session's user, and a login is sent the *)
(* token.                                                                  *)
Serve(c) ==
  /\ pc[c] = "serve" /\ req[c].op # "logout"
  /\ End(c)
  /\ UNCHANGED <<sess, list, logins, out>>
  /\ Watch

(* destroySession: invalidate goes over a copy of the list, ...            *)
DestroySession(c) ==
  /\ pc[c] = "serve" /\ req[c].op = "logout"
  /\ IF found[c] \in Range(list)
     THEN Move(c, "remove") /\ UNCHANGED <<req, local, calm>>
     ELSE End(c)
  /\ UNCHANGED <<sess, list, logins, out>>
  /\ Watch

(* Mutant: the session is removed from the copy.                           *)
InvalidateCopy(c) ==
  /\ pc[c] = "remove"
  /\ list' = list
  /\ out' = IF \E d \in Call : pc[d] \in {"cleanup", "assign"}
            THEN out ELSE out \cup {found[c]}
  /\ Move(c, "idle") /\ Clear(c)
  /\ calm' = {} /\ sure' = {}
  /\ UNCHANGED <<sess, logins>>

(* ... and removes from the list that is there then; it raises ValueError  *)
(* if somebody else has removed the session from it.                       *)
Invalidate(c) ==
  /\ pc[c] = "remove"
  /\ list' = RemoveFirst(list, found[c])
  /\ out' = IF \E d \in Call : pc[d] \in {"cleanup", "assign"}
            THEN out ELSE out \cup {found[c]}
  /\ Move(c, "idle") /\ Clear(c)
  /\ calm' = {} /\ sure' = {}
  /\ UNCHANGED <<sess, logins>>

Step(c) ==
  \/ IsValid(c) \/ GetSession(c) \/ Revalidate(c)
  \/ CountLogin(c) \/ CleanupSession(c) \/ CleanupAssign(c)
  \/ Validate(c) \/ FindSession(c) \/ CreateSession(c)
  \/ Serve(c) \/ DestroySession(c) \/ Invalidate(c)

Next == Tick \/ \E c \in Call : Receive(c) \/ Step(c)

Spec == Init /\ [][Next]_vars
-----------------------------------------------------------------------------
(* A request whose session was valid and in the list from its arrival on   *)
(* gets that session, whatever other requests do at the same time, unless  *)
(* one of them logs out: then a loop over the list may miss an element.    *)
ValidIsServed ==
  \A c \in sure : pc[c] = "serve" => found[c] = req[c].cookie

(* A session that was logged out never is in the list again; only a        *)
(* cleanup that was collecting sessions during the logout may put it back. *)
OutStaysOut == out \cap Range(list) = {}

(* Who logs in again gets the session there is: a second one for the same  *)
(* credentials is created only if another call changed the list meanwhile. *)
OneSessionEach ==
  [][\A c \in calm : CreateSession(c) =>
        \A s \in Range(list) : StillReusable(s) => sess[s].cred # req[c].auth
    ]_vars

(* A cleanup drops only sessions nobody can use any more and brings none   *)
(* back, unless another call has changed the list since it began.          *)
CleanupIsHarmless ==
  [][\A c \in calm : CleanupAssign(c) =>
        /\ Range(list') \subseteq Range(list)
        /\ \A s \in Range(list) \ Range(list') : ~StillReusable(s)]_vars

(* Once logins_until_cleanup logins were attempted, one of them cleans up. *)
PruneDue ==
  logins >= LoginsUntilCleanup /\ LoginsUntilCleanup > 0 =>
    \E c \in Call : pc[c] \in {"cleanup", "assign"}

(* A session that can still be used leaves the list only by its logout:    *)
(* nobody has to log in again before soft_expire.                          *)
LoginLasts ==
  [][\A s \in Range(list) \ Range(list') :
        StillReusable(s) => \E c \in Call : Invalidate(c) /\ found[c] = s]_vars

(* The list of sessions and its counter are as logins, logouts and         *)
(* cleanups should leave them.                                             *)
ListAgrees == TypeOK /\ OutStaysOut /\ PruneDue
=============================================================================
