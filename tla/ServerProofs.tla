---------------------------- MODULE ServerProofs ----------------------------
(***************************************************************************)
(* Theorems about the server process and its clients' access to it, for    *)
(* any number of processes, threads and users: its login sessions          *)
(* (LoginSessions), the list of a user's servers (Instances), the start of *)
(* a server on its configuration directory (ServerStart), and the session  *)
(* tokens clients keep (ClientTokens).  The four share no state; each has  *)
(* an invariant of its own.                                                *)
(***************************************************************************)
EXTENDS LoginSessions, Instances, ServerStart, ClientTokens,
        SequenceTheorems, TLAPS

(***************************************************************************)
(* Login sessions: what the list that is shared without a lock still       *)
(* guarantees.                                                             *)
(***************************************************************************)

LoggingIn == {"count", "cleanup", "assign", "validate", "find", "create"}

(* What the control state of a call says of its data.                      *)
ControlOf(c) ==
  /\ pc[c] \in Walking => pos[c] # 0
  /\ kept[c] # <<>> => pc[c] \in {"cleanup", "assign"}
  /\ pc[c] \in {"valid", "got", "reuse", "remove"} => found[c] # 0
  /\ pc[c] \in LoggingIn => req[c].auth # None

(* What a cleanup has collected has no session twice, nor one that is      *)
(* still ahead.                                                            *)
KeptOf(c) ==
  /\ IsInjective(kept[c])
  /\ pc[c] = "cleanup" =>
       /\ IsInjective(Walked(c))
       /\ \A i \in pos[c]..Len(Walked(c)) : Walked(c)[i] \notin Range(kept[c])

(* Nor a session that was logged out while no cleanup was going on.        *)
OutOf(c) ==
  /\ out \cap Range(kept[c]) = {}
  /\ pc[c] = "cleanup" => out \cap Range(Walked(c)) = {}

(* A walk that looks for a session that is there still has it ahead.       *)
Ahead(c) == \E i \in pos[c]..Len(Walked(c)) : Walked(c)[i] = req[c].cookie

SureOf(c) ==
  c \in sure =>
    /\ Present(c)
    /\ pc[c] \in {"is_valid", "valid", "get_session", "got", "serve", "remove"}
    /\ pc[c] \in {"is_valid", "get_session"} => Ahead(c)
    /\ pc[c] \in {"valid", "got", "serve", "remove"} => found[c] = req[c].cookie

(* A login that nobody disturbs: its cleanup has taken every session it    *)
(* passed that can be used again, its search passed none that it could     *)
(* have used.                                                              *)
Unfit(c, s) == StillReusable(s) => sess[s].cred # req[c].auth

CalmOf(c) ==
  c \in calm =>
    /\ pc[c] \in {"cleanup", "find"} => old[c] = None
    /\ pc[c] \in {"cleanup", "assign"} => Range(kept[c]) \subseteq Range(list)
    /\ pc[c] = "cleanup" =>
         \A i \in DOMAIN list :
            i < pos[c] /\ StillReusable(list[i]) => list[i] \in Range(kept[c])
    /\ pc[c] = "assign" =>
         \A s \in Range(list) : StillReusable(s) => s \in Range(kept[c])
    /\ pc[c] = "find" =>
         \A i \in DOMAIN list : i < pos[c] => Unfit(c, list[i])
    /\ pc[c] = "create" => \A s \in Range(list) : Unfit(c, s)

CallOf(c) == ControlOf(c) /\ KeptOf(c) /\ OutOf(c) /\ SureOf(c) /\ CalmOf(c)

Inv == /\ TypeOK
       /\ \A c \in Call : CallOf(c)
       /\ OutStaysOut
       /\ PruneDue
-----------------------------------------------------------------------------
(* Sequences.                                                              *)

LEMMA SeqTyped ==
  ASSUME NEW S, NEW q \in Seq(S)
  PROVE  /\ Len(q) \in Nat /\ DOMAIN q = 1..Len(q)
         /\ \A i \in 1..Len(q) : q[i] \in S /\ q[i] \in Range(q)
         /\ \A x \in Range(q) : x \in S /\ \E i \in 1..Len(q) : q[i] = x
  BY DEF Range

LEMMA RangeOf ==
  ASSUME NEW S, NEW q \in Seq(S), NEW x \in S
  PROVE  LET a == Append(q, x)
         IN  /\ a \in Seq(S) /\ Len(a) = Len(q) + 1
             /\ \A i \in 1..Len(q) : a[i] = q[i]
             /\ a[Len(q) + 1] = x
             /\ Range(a) = Range(q) \cup {x}
  <1> DEFINE a == Append(q, x)
  <1>1. /\ a \in Seq(S) /\ Len(a) = Len(q) + 1
        /\ \A i \in 1..Len(q) : a[i] = q[i]
        /\ a[Len(q) + 1] = x
    BY AppendProperties
  <1> HIDE DEF a
  <1>2. Len(q) \in Nat /\ DOMAIN q = 1..Len(q) /\ DOMAIN a = 1..(Len(q) + 1)
    BY <1>1
  <1>3. Range(a) \subseteq Range(q) \cup {x}
    <2> SUFFICES ASSUME NEW y \in Range(a)
                 PROVE  y \in Range(q) \cup {x}
      OBVIOUS
    <2>1. PICK i \in DOMAIN a : y = a[i]
      BY DEF Range
    <2>2. i \in 1..Len(q) \/ i = Len(q) + 1
      BY <1>2
    <2> QED
      BY <1>1, <1>2, <2>1, <2>2 DEF Range
  <1>4. Range(q) \cup {x} \subseteq Range(a)
    <2>1. x \in Range(a)
      BY <1>1, <1>2 DEF Range
    <2>2. ASSUME NEW y \in Range(q)
          PROVE  y \in Range(a)
      <3>1. PICK i \in DOMAIN q : y = q[i]
        BY DEF Range
      <3>2. i \in DOMAIN a /\ a[i] = y
        BY <1>1, <1>2, <3>1
      <3> QED
        BY <3>2 DEF Range
    <2> QED
      BY <2>1, <2>2
  <1> QED
    BY <1>1, <1>3, <1>4 DEF a

LEMMA InjectiveAppend ==
  ASSUME NEW S, NEW q \in Seq(S), NEW x \in S, IsInjective(q),
         x \notin Range(q)
  PROVE  IsInjective(Append(q, x))
  <1> DEFINE a == Append(q, x)
  <1>1. /\ a \in Seq(S) /\ Len(a) = Len(q) + 1
        /\ \A i \in 1..Len(q) : a[i] = q[i]
        /\ a[Len(q) + 1] = x
    BY RangeOf
  <1> HIDE DEF a
  <1>2. Len(q) \in Nat /\ DOMAIN q = 1..Len(q) /\ DOMAIN a = 1..(Len(q) + 1)
    BY <1>1
  <1>3. \A i \in 1..Len(q) : q[i] # x
    BY <1>2 DEF Range
  <1>4. \A i, j \in 1..Len(q) : q[i] = q[j] => i = j
    BY <1>2 DEF IsInjective
  <1>5. \A i \in DOMAIN a : i \in 1..Len(q) \/ i = Len(q) + 1
    BY <1>2
  <1>6. IsInjective(a)
    BY <1>1, <1>3, <1>4, <1>5 DEF IsInjective
  <1> QED
    BY <1>6 DEF a

LEMMA MinOne ==
  ASSUME NEW i \in Int
  PROVE  Min({i}) = i
  BY DEF Min

LEMMA RemovedAt ==
  ASSUME NEW S, NEW q \in Seq(S), NEW i \in 1..Len(q), IsInjective(q)
  PROVE  LET r == RemoveFirst(q, q[i])
         IN  /\ r \in Seq(S) /\ Len(r) = Len(q) - 1
             /\ \A j \in 1..Len(r) : r[j] = q[IF j < i THEN j ELSE j + 1]
  <1>1. {k \in 1..Len(q) : q[k] = q[i]} = {i}
    BY DEF IsInjective
  <1>2. SelectInSeq(q, LAMBDA v : v = q[i]) = i
    BY <1>1, MinOne DEF SelectInSeq
  <1>3. RemoveFirst(q, q[i]) = SubSeq(q, 1, i - 1) \o SubSeq(q, i + 1, Len(q))
    BY <1>2 DEF RemoveFirst, RemoveAt
  <1>4. /\ SubSeq(q, 1, i - 1) \in Seq(S)
        /\ Len(SubSeq(q, 1, i - 1)) = i - 1
        /\ \A j \in 1..(i - 1) : SubSeq(q, 1, i - 1)[j] = q[j]
    OBVIOUS
  <1>5. /\ SubSeq(q, i + 1, Len(q)) \in Seq(S)
        /\ Len(SubSeq(q, i + 1, Len(q))) = Len(q) - i
        /\ \A j \in 1..(Len(q) - i) : SubSeq(q, i + 1, Len(q))[j] = q[i + j]
    OBVIOUS
  <1> DEFINE u == SubSeq(q, 1, i - 1)
             v == SubSeq(q, i + 1, Len(q))
             r == RemoveFirst(q, q[i])
  <1>6. /\ r \in Seq(S) /\ Len(r) = (i - 1) + (Len(q) - i)
        /\ \A j \in 1..Len(r) :
             r[j] = IF j <= i - 1 THEN u[j] ELSE v[j - (i - 1)]
    <2>1. r = u \o v /\ u \in Seq(S) /\ v \in Seq(S)
      BY <1>3, <1>4, <1>5
    <2>2. Len(u) = i - 1 /\ Len(v) = Len(q) - i
      BY <1>4, <1>5
    <2> HIDE DEF u, v, r
    <2>3. /\ u \o v \in Seq(S) /\ Len(u \o v) = Len(u) + Len(v)
          /\ \A j \in 1..(Len(u) + Len(v)) :
               (u \o v)[j] = IF j <= Len(u) THEN u[j] ELSE v[j - Len(u)]
      BY <2>1, ConcatProperties
    <2> QED BY <2>1, <2>2, <2>3
  <1>7. \A j \in 1..(i - 1) : u[j] = q[j]
    BY <1>4
  <1>8. \A j \in 1..(Len(q) - i) : v[j] = q[i + j]
    BY <1>5
  <1> HIDE DEF u, v, r
  <1>9. ASSUME NEW j \in 1..Len(r)
        PROVE  r[j] = q[IF j < i THEN j ELSE j + 1]
    <2>1. Len(q) \in Nat /\ j \in 1..(Len(q) - 1)
      BY <1>6
    <2>2. CASE j < i
      BY <1>6, <1>7, <2>1, <2>2
    <2>3. CASE ~(j < i)
      <3>1. j - (i - 1) \in 1..(Len(q) - i) /\ i + (j - (i - 1)) = j + 1
        BY <2>1, <2>3
      <3>2. r[j] = v[j - (i - 1)]
        BY <1>6, <2>1, <2>3
      <3>3. v[j - (i - 1)] = q[i + (j - (i - 1))]
        BY <1>8, <3>1
      <3> QED
        BY <3>1, <3>2, <3>3, <2>3
    <2> QED
      BY <2>2, <2>3
  <1> QED
    BY <1>6, <1>9 DEF r
-----------------------------------------------------------------------------
(* What a step leaves alone.                                               *)
Same(d) == /\ pc'[d] = pc[d] /\ req'[d] = req[d] /\ found'[d] = found[d]
           /\ pos'[d] = pos[d] /\ old'[d] = old[d] /\ kept'[d] = kept[d]

(* No session becomes another's or can be used again.                      *)
Ages ==
  /\ sess' \in Seq(Session) /\ Len(sess') = Len(sess)
  /\ \A s \in 1..Len(sess) : /\ sess'[s].cred = sess[s].cred
                             /\ StillReusable(s)' => StillReusable(s)

LEMMA NoneIsNoList == \A S : S \subseteq Nat => None \notin Seq(S)
  <1> SUFFICES ASSUME NEW S, S \subseteq Nat, None \in Seq(S)
               PROVE  None \in Seq(Nat)
    BY LoginAssumption
  <1> QED
    BY SeqMonotonic

LEMMA Typed ==
  ASSUME TypeOK
  PROVE  /\ DOMAIN sess = 1..Len(sess) /\ Len(sess) \in Nat
         /\ Len(list) \in Nat /\ DOMAIN list = 1..Len(list)
         /\ \A s \in Range(list) : s \in 1..Len(sess)
         /\ \A i \in 1..Len(list) : list[i] \in 1..Len(sess)
         /\ \A c \in Call :
              /\ Walked(c) \in Seq(1..Len(sess))
              /\ Len(Walked(c)) \in Nat /\ pos[c] \in Nat
              /\ DOMAIN Walked(c) = 1..Len(Walked(c))
              /\ \A i \in 1..Len(Walked(c)) : Walked(c)[i] \in 1..Len(sess)
  <1>1. DOMAIN sess = 1..Len(sess) /\ Len(sess) \in Nat
    BY DEF TypeOK
  <1>2. list \in Seq(1..Len(sess))
    BY <1>1 DEF TypeOK
  <1>3. \A c \in Call : Walked(c) \in Seq(1..Len(sess)) /\ pos[c] \in Nat
    <2> TAKE c \in Call
    <2>1. old[c] \in Seq(1..Len(sess)) \cup {None} /\ pos[c] \in Nat
      BY <1>1 DEF TypeOK
    <2> QED
      BY <1>2, <2>1 DEF Walked
  <1> QED
    BY <1>1, <1>2, <1>3, SeqTyped

LEMMA SameCall ==
  ASSUME Inv, NEW d \in Call, Same(d), list' = list, out' = out, Ages,
         Watch, d \in calm' => d \in calm
  PROVE  CallOf(d)'
  <1>1. CallOf(d)
    BY DEF Inv
  <1>2. Walked(d)' = Walked(d)
    BY DEF Same, Walked
  <1>3. ControlOf(d)'
    BY <1>1 DEF CallOf, ControlOf, Same
  <1>4. KeptOf(d)'
    BY <1>1, <1>2 DEF CallOf, KeptOf, Same
  <1>5. OutOf(d)'
    BY <1>1, <1>2 DEF CallOf, OutOf, Same
  <1>6. SureOf(d)'
    <2>1. d \in sure' => d \in sure /\ Present(d)'
      BY DEF Watch
    <2>2. Ahead(d) => Ahead(d)'
      BY <1>2 DEF Ahead, Same
    <2> QED
      BY <1>1, <2>1, <2>2 DEF CallOf, SureOf, Same
  <1>7. CalmOf(d)'
    <2>1. \A s \in 1..Len(sess) :
            /\ StillReusable(s)' => StillReusable(s)
            /\ Unfit(d, s) => Unfit(d, s)'
      BY DEF Ages, Same, Unfit
    <2>2. /\ DOMAIN list = 1..Len(list)
          /\ \A s \in Range(list) : s \in 1..Len(sess)
          /\ \A i \in 1..Len(list) : list[i] \in 1..Len(sess)
      BY Typed DEF Inv
    <2>3. \A i \in DOMAIN list : StillReusable(list[i])' => StillReusable(list[i])
      BY <2>1, <2>2
    <2>4. \A i \in DOMAIN list : Unfit(d, list[i]) => Unfit(d, list[i])'
      BY <2>1, <2>2
    <2> QED
      BY <1>1, <2>1, <2>2, <2>3, <2>4 DEF CallOf, CalmOf, Same
  <1> QED
    BY <1>3, <1>4, <1>5, <1>6, <1>7 DEF CallOf

(* A step of a call that leaves the list alone.                            *)
LEMMA ByCall ==
  ASSUME Inv, NEW c \in Call, list' = list, out' = out, Ages, Watch,
         calm' \subseteq calm \cup {c},
         \A d \in Call \ {c} : Same(d),
         TypeOK', CallOf(c)', PruneDue'
  PROVE  Inv'
  <1>1. \A d \in Call \ {c} : CallOf(d)'
    BY SameCall
  <1>2. OutStaysOut'
    BY DEF Inv, OutStaysOut
  <1> QED
    BY <1>1, <1>2 DEF Inv

LEMMA PruneKept ==
  ASSUME PruneDue, NEW c \in Call, logins' = logins,
         \A d \in Call \ {c} : Same(d),
         pc[c] \in {"cleanup", "assign"} => pc'[c] \in {"cleanup", "assign"}
  PROVE  PruneDue'
  BY DEF PruneDue, Same

LEMMA NoAging ==
  ASSUME TypeOK, sess' = sess
  PROVE  Ages
  BY DEF Ages, TypeOK, StillReusable

LEMMA StepTick ==
  ASSUME Inv, Tick
  PROVE  Inv'
  <1> USE DEF Tick
  <1>1. sess \in Seq(Session) /\ Len(sess) \in Nat /\ DOMAIN sess = 1..Len(sess)
    BY DEF Inv, TypeOK
  <1>0. \A s \in 1..Len(sess) : sess[s] \in Session
    BY <1>1
  <1>2. \A s \in 1..Len(sess) : sess'[s] \in Session
    <2> TAKE s \in 1..Len(sess)
    <2>1. sess[s] \in Session /\ sess[s].idle \in 0..Forgotten
      BY <1>0, LoginAssumption DEF Session, Forgotten
    <2>2. Forgotten \in Nat
      BY LoginAssumption DEF Forgotten
    <2>3. CASE sess[s].idle < Forgotten
      <3>1. sess'[s] = [sess[s] EXCEPT !.idle = sess[s].idle + 1]
        BY <1>1, <2>3
      <3>2. sess[s].idle + 1 \in 0..Forgotten
        BY <2>1, <2>2, <2>3
      <3> QED
        BY <2>1, <3>1, <3>2 DEF Session
    <2>4. CASE ~(sess[s].idle < Forgotten)
      BY <1>1, <2>1, <2>4
    <2> QED
      BY <2>3, <2>4
  <1>3. sess' \in [1..Len(sess) -> Session]
    BY <1>1, <1>2
  <1>4. sess' \in Seq(Session) /\ Len(sess') = Len(sess)
    BY <1>1, <1>3
  <1>5. Ages
    <2> SUFFICES ASSUME NEW s \in 1..Len(sess)
                 PROVE  /\ sess'[s].cred = sess[s].cred
                        /\ StillReusable(s)' => StillReusable(s)
      BY <1>4 DEF Ages
    <2>1. sess[s] \in Session /\ sess[s].idle \in Nat
      BY <1>0, LoginAssumption DEF Session, Forgotten
    <2>2. \/ sess'[s] = [sess[s] EXCEPT !.idle = sess[s].idle + 1]
          \/ sess'[s] = sess[s]
      BY <1>1
    <2> QED
      BY <2>1, <2>2, LoginAssumption DEF StillReusable, Session
  <1>6. DOMAIN sess' = DOMAIN sess
    BY <1>1, <1>3
  <1>7. TypeOK'
    BY <1>4, <1>6 DEF Inv, TypeOK, local, Watch
  <1>8. \A d \in Call : CallOf(d)'
    <2> TAKE d \in Call
    <2>1. Same(d) /\ list' = list /\ out' = out /\ calm' = calm /\ Watch
      BY DEF Same, local
    <2> QED
      BY <1>5, <2>1, SameCall
  <1>9. OutStaysOut' /\ PruneDue'
    BY DEF Inv, OutStaysOut, PruneDue
  <1> QED
    BY <1>7, <1>8, <1>9 DEF Inv
-----------------------------------------------------------------------------
(* The steps of a call.                                                    *)
LEMMA WalkTyped ==
  ASSUME TypeOK, NEW c \in Call, NEW p \in Walking, Walk(c, p)
  PROVE  /\ pc' \in [Call -> PC] /\ pos' \in [Call -> Nat]
         /\ old' \in [Call -> Seq(DOMAIN sess) \cup {None}]
         /\ pc'[c] = p /\ pos'[c] = 1 /\ old'[c] = None
  <1>1. p \in PC
    BY DEF PC
  <1>2. pc' = [pc EXCEPT ![c] = p]
    BY DEF Walk, Move
  <1>3. pos' = [pos EXCEPT ![c] = 1] /\ old' = [old EXCEPT ![c] = None]
    BY DEF Walk
  <1> QED
    BY <1>1, <1>2, <1>3 DEF TypeOK

LEMMA LeaveTyped ==
  ASSUME TypeOK, NEW c \in Call, NEW p \in PC, Leave(c, p)
  PROVE  /\ pc' \in [Call -> PC] /\ pos' \in [Call -> Nat]
         /\ old' \in [Call -> Seq(DOMAIN sess) \cup {None}]
         /\ pc'[c] = p /\ pos'[c] = 0 /\ old'[c] = None
  <1>2. pc' = [pc EXCEPT ![c] = p]
    BY DEF Leave, Move
  <1>3. pos' = [pos EXCEPT ![c] = 0] /\ old' = [old EXCEPT ![c] = None]
    BY DEF Leave
  <1> QED
    BY <1>2, <1>3 DEF TypeOK

LEMMA StepReceive ==
  ASSUME Inv, NEW c \in Call, Receive(c)
  PROVE  Inv'
  <1>1. PICK r \in [cookie : {0} \cup DOMAIN sess, auth : Cred \cup {None}, op : Op] :
          /\ req' = [req EXCEPT ![c] = r]
          /\ IF r.cookie # 0
             THEN Walk(c, "is_valid")
             ELSE Move(c, NoCookie(r)) /\ UNCHANGED <<pos, old>>
    BY DEF Receive
  <1>2. /\ UNCHANGED <<sess, list, logins, found, kept, calm, out>>
        /\ pc[c] = "idle"
        /\ sure' = IF Present(c)' THEN sure \cup {c} ELSE sure \ {c}
    BY DEF Receive
  <1>3. TypeOK /\ CallOf(c)
    BY DEF Inv
  <1>4. /\ req'[c] = r
        /\ r.cookie # 0 => /\ pc'[c] = "is_valid" /\ pos'[c] = 1
                           /\ old'[c] = None
        /\ r.cookie = 0 => /\ pc'[c] = NoCookie(r) /\ pos'[c] = pos[c]
                           /\ old'[c] = old[c]
    BY <1>1, <1>3 DEF TypeOK, Walk, Move
  <1>5. \A d \in Call \ {c} : Same(d)
    BY <1>1, <1>2, <1>3 DEF TypeOK, Walk, Move, Same
  <1>6. r \in Request
    <2>1. DOMAIN sess \subseteq 0..MaxSessions
      BY <1>3, LoginAssumption DEF TypeOK
    <2> QED
      BY <2>1, LoginAssumption DEF Request
  <1>7. TypeOK'
    <2>1. req' \in [Call -> Request]
      BY <1>1, <1>3, <1>6 DEF TypeOK
    <2>2. pc' \in [Call -> PC] /\ pos' \in [Call -> Nat]
          /\ old' \in [Call -> Seq(DOMAIN sess) \cup {None}]
      <3>1. CASE r.cookie # 0
        BY <1>1, <1>3, <3>1, WalkTyped DEF Walking
      <3>2. CASE r.cookie = 0
        <4>1. NoCookie(r) \in PC
          BY DEF NoCookie, PC
        <4> QED
          BY <1>1, <1>3, <3>2, <4>1 DEF TypeOK, Move
      <3> QED
        BY <3>1, <3>2
    <2>3. sure' \subseteq Call
      BY <1>2, <1>3 DEF TypeOK
    <2> QED
      BY <1>2, <1>3, <2>1, <2>2, <2>3 DEF TypeOK
  <1>8. kept[c] = <<>>
    BY <1>2, <1>3 DEF CallOf, ControlOf
  <1>9. CallOf(c)'
    <2>1. ControlOf(c)'
      BY <1>2, <1>4, <1>8 DEF ControlOf, Walking, LoggingIn, NoCookie
    <2>2. KeptOf(c)' /\ OutOf(c)'
      <3>1. kept'[c] = <<>> /\ pc'[c] # "cleanup"
        BY <1>2, <1>4, <1>8 DEF NoCookie
      <3> QED
        BY <3>1 DEF KeptOf, OutOf, IsInjective, Range
    <2>3. SureOf(c)'
      <3> SUFFICES ASSUME c \in sure'
                   PROVE  /\ Present(c)' /\ pc'[c] = "is_valid"
                          /\ Ahead(c)'
        BY DEF SureOf
      <3>1. Present(c)'
        BY <1>2
      <3>2. r.cookie \in Range(list)
        BY <1>2, <1>4, <3>1 DEF Present
      <3>3. PICK i \in 1..Len(list) : list[i] = r.cookie /\ r.cookie # 0
        BY <1>3, <3>2, Typed DEF Range
      <3>4. pc'[c] = "is_valid" /\ pos'[c] = 1 /\ Walked(c)' = list
        BY <1>2, <1>4, <3>3 DEF Walked
      <3> QED
        BY <1>2, <1>4, <3>1, <3>3, <3>4 DEF Ahead
    <2>4. CalmOf(c)'
      BY <1>4 DEF CalmOf, NoCookie
    <2> QED
      BY <2>1, <2>2, <2>3, <2>4 DEF CallOf
  <1>10. \A d \in Call \ {c} : CallOf(d)'
    <2> TAKE d \in Call \ {c}
    <2>1. CallOf(d) /\ Same(d) /\ Walked(d)' = Walked(d)
      BY <1>2, <1>5 DEF Inv, Walked, Same
    <2>2. d \in sure' => d \in sure
      BY <1>2
    <2>3. ControlOf(d)' /\ KeptOf(d)' /\ OutOf(d)' /\ CalmOf(d)'
      BY <1>2, <2>1 DEF CallOf, ControlOf, KeptOf, OutOf, CalmOf, Same,
                        Unfit, StillReusable
    <2>4. SureOf(d)'
      BY <1>2, <2>1, <2>2 DEF CallOf, SureOf, Present, Ahead, StillValid,
                             StillReusable, Same
    <2> QED
      BY <2>3, <2>4 DEF CallOf
  <1>11. PruneDue'
    BY <1>2, <1>5, PruneKept DEF Inv
  <1> QED
    BY <1>2, <1>7, <1>9, <1>10, <1>11 DEF Inv, OutStaysOut

(* The two loops over the list that look for the session of the cookie.    *)
Looks(c, p, q) ==
  /\ <<p, q>> \in {<<"is_valid", "valid">>, <<"get_session", "got">>}
  /\ pc[c] = p
  /\ IF AtEnd(c)
     THEN Leave(c, NoCookie(req[c])) /\ UNCHANGED found
     ELSE Look(c, At(c) = req[c].cookie /\ StillValid(At(c)), q)
  /\ UNCHANGED <<sess, list, logins, req, kept, calm, out>>
  /\ Watch

LEMMA StepLooks ==
  ASSUME Inv, NEW c \in Call, NEW p, NEW q, Looks(c, p, q)
  PROVE  Inv'
  <1>0. \/ p = "is_valid" /\ q = "valid"
        \/ p = "get_session" /\ q = "got"
    BY DEF Looks
  <1>1. TypeOK /\ CallOf(c)
    BY DEF Inv
  <1>2. /\ UNCHANGED <<sess, list, logins, req, kept, calm, out>> /\ Watch
        /\ pc[c] = p /\ pc[c] \in Walking
        /\ pc[c] \notin {"cleanup", "assign"}
    BY <1>0 DEF Looks, Walking
  <1>3. /\ Walked(c) \in Seq(1..Len(sess))
        /\ Len(Walked(c)) \in Nat /\ pos[c] \in Nat \ {0}
        /\ DOMAIN Walked(c) = 1..Len(Walked(c)) /\ DOMAIN sess = 1..Len(sess)
        /\ \A i \in 1..Len(Walked(c)) : Walked(c)[i] \in 1..Len(sess)
    BY <1>1, <1>2, Typed DEF CallOf, ControlOf
  <1>4. \/ /\ AtEnd(c) /\ Leave(c, NoCookie(req[c])) /\ UNCHANGED found
        \/ /\ ~AtEnd(c) /\ At(c) = req[c].cookie /\ StillValid(At(c))
           /\ Leave(c, q) /\ found' = [found EXCEPT ![c] = At(c)]
        \/ /\ ~AtEnd(c) /\ ~(At(c) = req[c].cookie /\ StillValid(At(c)))
           /\ pos' = [pos EXCEPT ![c] = @ + 1] /\ UNCHANGED <<pc, old, found>>
    BY DEF Looks, Look
  <1>5. \A d \in Call \ {c} : Same(d)
    BY <1>1, <1>2, <1>4 DEF TypeOK, Leave, Move, Same
  <1>6. ~AtEnd(c) => At(c) \in DOMAIN sess /\ pos[c] \in 1..Len(Walked(c))
    BY <1>3 DEF AtEnd, At
  <1>7. TypeOK'
    <2>1. pc' \in [Call -> PC] /\ pos' \in [Call -> Nat]
          /\ old' \in [Call -> Seq(DOMAIN sess) \cup {None}]
      <3>1. NoCookie(req[c]) \in PC /\ q \in PC
        BY <1>0 DEF NoCookie, PC
      <3> HIDE DEF PC
      <3>2. CASE pos' = [pos EXCEPT ![c] = @ + 1] /\ UNCHANGED <<pc, old, found>>
        BY <1>1, <3>2 DEF TypeOK
      <3> QED
        BY <1>1, <1>4, <3>1, <3>2, LeaveTyped
    <2>2. found' \in [Call -> {0} \cup DOMAIN sess]
      BY <1>1, <1>4, <1>6 DEF TypeOK
    <2>3. sure' \subseteq Call
      BY <1>1, <1>2 DEF TypeOK, Watch
    <2> QED
      BY <1>1, <1>2, <2>1, <2>2, <2>3 DEF TypeOK
  <1>8. /\ kept'[c] = kept[c] /\ kept[c] = <<>> /\ req'[c] = req[c]
        /\ pc'[c] \in {p, q, "count", "serve"}
        /\ pc'[c] = "count" => req[c].auth # None
    BY <1>0, <1>1, <1>2, <1>4
       DEF TypeOK, CallOf, ControlOf, Leave, Move, NoCookie
  <1>9. CallOf(c)'
    <2>1. ControlOf(c)'
      <3>1. CASE pc'[c] = p
        BY <1>0, <1>1, <1>2, <1>3, <1>4, <1>8, <3>1
           DEF ControlOf, CallOf, Walking, LoggingIn, TypeOK, Leave, Move, NoCookie
      <3>2. CASE pc'[c] = q
        <4>1. found'[c] # 0
          BY <1>0, <1>1, <1>2, <1>3, <1>4, <1>6, <3>2
             DEF TypeOK, Leave, Move, NoCookie
        <4> QED
          BY <1>0, <1>8, <3>2, <4>1 DEF ControlOf, Walking, LoggingIn
      <3>3. CASE pc'[c] \in {"count", "serve"}
        BY <1>0, <1>8, <3>3 DEF ControlOf, Walking, LoggingIn
      <3> QED
        BY <1>0, <1>8, <3>1, <3>2, <3>3
    <2>2. KeptOf(c)' /\ OutOf(c)'
      BY <1>0, <1>2, <1>8 DEF KeptOf, OutOf, IsInjective, Range
    <2>3. SureOf(c)'
      <3> SUFFICES ASSUME c \in sure'
                   PROVE  SureOf(c)'
        BY DEF SureOf
      <3>1. c \in sure /\ Present(c)'
        BY <1>2 DEF Watch
      <3>2. Present(c) /\ Ahead(c)
        BY <1>0, <1>1, <1>2, <3>1 DEF CallOf, SureOf, Looks
      <3>3. PICK i \in pos[c]..Len(Walked(c)) : Walked(c)[i] = req[c].cookie
        BY <3>2 DEF Ahead
      <3>4. ~AtEnd(c)
        BY <1>3, <3>3 DEF AtEnd
      <3>5. CASE At(c) = req[c].cookie
        <4>1. pc'[c] = q /\ found'[c] = req[c].cookie
          BY <1>1, <1>4, <3>2, <3>4, <3>5 DEF Present, TypeOK, Leave, Move
        <4> QED
          BY <1>0, <1>8, <3>1, <4>1 DEF SureOf
      <3>6. CASE At(c) # req[c].cookie
        <4>1. /\ pos'[c] = pos[c] + 1 /\ pc'[c] = pc[c] /\ old'[c] = old[c]
          BY <1>1, <1>4, <3>4, <3>6 DEF TypeOK
        <4>2. Walked(c)' = Walked(c)
          BY <1>2, <4>1 DEF Walked
        <4>3. i \in (pos[c] + 1)..Len(Walked(c))
          BY <1>3, <3>3, <3>6 DEF At
        <4>4. Ahead(c)'
          BY <1>8, <3>3, <4>1, <4>2, <4>3 DEF Ahead
        <4> QED
          BY <1>0, <1>2, <3>1, <4>1, <4>4 DEF SureOf
      <3> QED
        BY <3>5, <3>6
    <2>4. CalmOf(c)'
      BY <1>0, <1>8 DEF CalmOf
    <2> QED
      BY <2>1, <2>2, <2>3, <2>4 DEF CallOf
  <1>10. PruneDue'
    BY <1>2, <1>5, PruneKept DEF Inv
  <1> QED
    BY <1>1, <1>2, <1>5, <1>7, <1>9, <1>10, ByCall, NoAging

LEMMA StepIsValid ==
  ASSUME Inv, NEW c \in Call, IsValid(c)
  PROVE  Inv'
  <1>1. Looks(c, "is_valid", "valid")
    BY DEF IsValid, Looks
  <1> QED
    BY <1>1, StepLooks

LEMMA StepGetSession ==
  ASSUME Inv, NEW c \in Call, GetSession(c)
  PROVE  Inv'
  <1>1. Looks(c, "get_session", "got")
    BY DEF GetSession, Looks
  <1> QED
    BY <1>1, StepLooks

(* A walk that begins has every session of the list ahead.                 *)
LEMMA AllAhead ==
  ASSUME TypeOK, NEW c \in Call, Present(c)', list' = list,
         pos'[c] = 1, old'[c] = None
  PROVE  Ahead(c)'
  <1>1. req'[c].cookie \in Range(list)
    BY DEF Present
  <1>2. PICK i \in 1..Len(list) : list[i] = req'[c].cookie
    BY <1>1, Typed DEF Range
  <1>3. Walked(c)' = list
    BY DEF Walked
  <1> QED
    BY <1>2, <1>3 DEF Ahead

LEMMA StepRevalidate ==
  ASSUME Inv, NEW c \in Call, Revalidate(c)
  PROVE  Inv'
  <1>1. TypeOK /\ CallOf(c)
    BY DEF Inv
  <1>2. /\ UNCHANGED <<list, logins, req, kept, calm, out>> /\ Watch
        /\ pc[c] \in {"valid", "got", "reuse"}
        /\ sess' = IF StillReusable(found[c])
                   THEN [sess EXCEPT ![found[c]].idle = 0] ELSE sess
    BY DEF Revalidate
  <1>3. \/ /\ pc[c] = "valid" /\ Walk(c, "get_session")
           /\ found' = [found EXCEPT ![c] = 0]
        \/ /\ pc[c] # "valid" /\ Move(c, "serve") /\ UNCHANGED <<pos, old, found>>
    BY DEF Revalidate
  <1>4. found[c] \in 1..Len(sess) /\ Len(sess) \in Nat
        /\ DOMAIN sess = 1..Len(sess)
    BY <1>1, <1>2, Typed DEF CallOf, ControlOf, TypeOK
  <1>5. Ages /\ DOMAIN sess' = DOMAIN sess
    <2>1. CASE ~StillReusable(found[c])
      BY <1>1, <1>2, <2>1, NoAging
    <2>2. CASE StillReusable(found[c])
      <3>1. sess \in [1..Len(sess) -> Session]
        BY <1>1 DEF TypeOK
      <3>2. [sess[found[c]] EXCEPT !.idle = 0] \in Session
        BY <1>4, <3>1, LoginAssumption DEF Session, Forgotten
      <3>3. sess' = [sess EXCEPT ![found[c]] = [sess[found[c]] EXCEPT !.idle = 0]]
        BY <1>2, <2>2
      <3>4. sess' \in [1..Len(sess) -> Session]
        BY <3>1, <3>2, <3>3
      <3>5. sess' \in Seq(Session) /\ Len(sess') = Len(sess)
        BY <1>4, <3>4
      <3>6. ASSUME NEW s \in 1..Len(sess)
            PROVE  /\ sess'[s].cred = sess[s].cred
                   /\ StillReusable(s)' => StillReusable(s)
        <4>1. CASE s = found[c]
          <5>1. sess'[s] = [sess[s] EXCEPT !.idle = 0] /\ sess[s] \in Session
            BY <3>1, <3>3, <4>1
          <5> QED
            BY <2>2, <4>1, <5>1 DEF Session
        <4>2. CASE s # found[c]
          BY <3>1, <3>3, <4>2 DEF StillReusable
        <4> QED
          BY <4>1, <4>2
      <3> QED
        BY <1>4, <3>4, <3>5, <3>6 DEF Ages
    <2> QED
      BY <2>1, <2>2
  <1>6. /\ pc' \in [Call -> PC] /\ pos' \in [Call -> Nat]
        /\ old' \in [Call -> Seq(DOMAIN sess) \cup {None}]
        /\ found' \in [Call -> {0} \cup DOMAIN sess]
    <2>1. CASE pc[c] = "valid"
      BY <1>1, <1>3, <2>1, WalkTyped DEF Walking, TypeOK
    <2>2. CASE pc[c] # "valid"
      BY <1>1, <1>3, <2>2 DEF TypeOK, Move, PC
    <2> QED
      BY <2>1, <2>2
  <1>7. TypeOK'
    <2>1. sure' \subseteq Call
      BY <1>1, <1>2 DEF TypeOK, Watch
    <2>2. sess' \in Seq(Session) /\ Len(sess') <= MaxSessions
      BY <1>1, <1>5 DEF TypeOK, Ages
    <2> QED
      BY <1>1, <1>2, <1>5, <1>6, <2>1, <2>2 DEF TypeOK
  <1>8. \A d \in Call \ {c} : Same(d)
    BY <1>1, <1>2, <1>3 DEF TypeOK, Walk, Move, Same
  <1>9. kept'[c] = kept[c] /\ kept[c] = <<>> /\ req'[c] = req[c]
    BY <1>1, <1>2 DEF CallOf, ControlOf
  <1>10. c \in sure' => c \in sure /\ Present(c)'
    BY <1>2 DEF Watch
  <1>11. CASE pc[c] = "valid"
    <2>1. pc'[c] = "get_session" /\ pos'[c] = 1 /\ old'[c] = None
      BY <1>1, <1>3, <1>11, WalkTyped DEF Walking
    <2>2. c \in sure' => Ahead(c)'
      BY <1>1, <1>2, <1>10, <2>1, AllAhead
    <2>3. ControlOf(c)' /\ KeptOf(c)' /\ OutOf(c)'
      BY <1>9, <2>1
         DEF ControlOf, KeptOf, OutOf, IsInjective, Range, LoggingIn, Walking
    <2>4. SureOf(c)' /\ CalmOf(c)'
      BY <1>10, <2>1, <2>2 DEF SureOf, CalmOf
    <2> QED
      BY <1>1, <1>2, <1>5, <1>7, <1>8, <2>1, <2>3, <2>4, ByCall, PruneKept
         DEF CallOf, Inv
  <1>12. CASE pc[c] # "valid"
    <2>1. pc'[c] = "serve" /\ found' = found
      BY <1>1, <1>3, <1>12 DEF TypeOK, Move
    <2>2. ControlOf(c)' /\ KeptOf(c)' /\ OutOf(c)'
      BY <1>9, <2>1
         DEF ControlOf, KeptOf, OutOf, IsInjective, Range, LoggingIn, Walking
    <2>3. SureOf(c)' /\ CalmOf(c)'
      BY <1>1, <1>2, <1>9, <1>10, <1>12, <2>1 DEF SureOf, CalmOf, CallOf
    <2> QED
      BY <1>1, <1>2, <1>5, <1>7, <1>8, <2>1, <2>2, <2>3, ByCall, PruneKept
         DEF CallOf, Inv
  <1> QED
    BY <1>11, <1>12

(* The steps of a login or logout that leave the sessions and the list.    *)
LEMMA StepCountLogin ==
  ASSUME Inv, NEW c \in Call, CountLogin(c)
  PROVE  Inv'
  <1>1. TypeOK /\ CallOf(c) /\ PruneDue
    BY DEF Inv
  <1>2. /\ UNCHANGED <<sess, list, found, kept, out>> /\ Watch
        /\ pc[c] = "count" /\ calm' = calm \cup {c} /\ logins' = logins + 1
        /\ req' = [req EXCEPT ![c].cookie = 0]
    BY DEF CountLogin
  <1>3. \/ logins' >= LoginsUntilCleanup /\ Walk(c, "cleanup")
        \/ /\ ~(logins' >= LoginsUntilCleanup)
           /\ Move(c, "validate") /\ UNCHANGED <<pos, old>>
    BY DEF CountLogin
  <1>4. /\ req' = [req EXCEPT ![c] = [req[c] EXCEPT !.cookie = 0]]
        /\ [req[c] EXCEPT !.cookie = 0] \in Request
    <2>1. req[c] \in Request
      BY <1>1 DEF TypeOK
    <2>2. [req[c] EXCEPT !.cookie = 0] \in Request
      BY <2>1, LoginAssumption DEF Request
    <2> QED
      BY <1>2, <2>2
  <1>5. /\ req' \in [Call -> Request]
        /\ req'[c].cookie = 0 /\ req'[c].auth = req[c].auth
    <2>1. req[c] \in Request /\ req \in [Call -> Request]
      BY <1>1 DEF TypeOK
    <2>2. req'[c] = [req[c] EXCEPT !.cookie = 0]
      BY <1>4, <2>1
    <2> QED
      BY <1>4, <2>1, <2>2 DEF Request
  <1>6. /\ pc' \in [Call -> PC] /\ pos' \in [Call -> Nat]
        /\ old' \in [Call -> Seq(DOMAIN sess) \cup {None}]
        /\ pc'[c] \in {"cleanup", "validate"}
        /\ pc'[c] = "cleanup" => pos'[c] = 1 /\ old'[c] = None
    <2>1. CASE Walk(c, "cleanup")
      BY <1>1, <2>1, WalkTyped DEF Walking
    <2>2. CASE Move(c, "validate") /\ UNCHANGED <<pos, old>>
      BY <1>1, <2>2 DEF TypeOK, Move, PC
    <2> QED
      BY <1>3, <2>1, <2>2
  <1>7. TypeOK'
    BY <1>1, <1>2, <1>5, <1>6 DEF TypeOK, Watch
  <1>8. \A d \in Call \ {c} : Same(d)
    BY <1>1, <1>2, <1>3, <1>4 DEF TypeOK, Walk, Move, Same
  <1>9. kept'[c] = kept[c] /\ kept[c] = <<>> /\ req[c].auth # None
    BY <1>1, <1>2 DEF CallOf, ControlOf, LoggingIn
  <1>10. pc'[c] = "cleanup" => Walked(c)' = list
    BY <1>2, <1>6 DEF Walked
  <1>11. CallOf(c)'
    <2>1. ControlOf(c)'
      BY <1>5, <1>6, <1>9 DEF ControlOf, Walking
    <2>2. KeptOf(c)' /\ OutOf(c)'
      <3>1. Range(kept'[c]) = {} /\ IsInjective(kept'[c])
        BY <1>9 DEF Range, IsInjective
      <3> QED
        BY <1>1, <1>2, <1>10, <3>1 DEF KeptOf, OutOf, Inv, OutStaysOut, TypeOK
    <2>3. SureOf(c)'
      BY <1>1, <1>2 DEF CallOf, SureOf, Watch
    <2>4. CalmOf(c)'
      <3>1. \A i \in DOMAIN list : ~(i < 1)
        BY <1>1, Typed
      <3>2. Range(kept'[c]) \subseteq Range(list)
        BY <1>9 DEF Range
      <3> QED
        BY <1>2, <1>6, <3>1, <3>2 DEF CalmOf
    <2> QED
      BY <2>1, <2>2, <2>3, <2>4 DEF CallOf
  <1>12. PruneDue'
    <2>1. CASE logins' >= LoginsUntilCleanup
      <3>1. pc'[c] = "cleanup"
        BY <1>1, <1>3, <2>1 DEF Walk, Move, TypeOK
      <3> QED
        BY <3>1 DEF PruneDue
    <2>2. CASE ~(logins' >= LoginsUntilCleanup)
      BY <2>2 DEF PruneDue
    <2> QED
      BY <2>1, <2>2
  <1> QED
    BY <1>1, <1>2, <1>7, <1>8, <1>11, <1>12, ByCall, NoAging

LEMMA StepCleanupSession ==
  ASSUME Inv, NEW c \in Call, CleanupSession(c)
  PROVE  Inv'
  <1>1. TypeOK /\ CallOf(c)
    BY DEF Inv
  <1>2. /\ UNCHANGED <<sess, list, logins, req, found, calm, out>> /\ Watch
        /\ pc[c] = "cleanup"
    BY DEF CleanupSession
  <1>3. \/ AtEnd(c) /\ Leave(c, "assign") /\ UNCHANGED kept
        \/ /\ ~AtEnd(c) /\ pos' = [pos EXCEPT ![c] = @ + 1]
           /\ kept' = [kept EXCEPT ![c] =
                         IF StillReusable(At(c)) THEN Append(@, At(c)) ELSE @]
           /\ UNCHANGED <<pc, old>>
    BY DEF CleanupSession
  <1>4. /\ Walked(c) \in Seq(1..Len(sess))
        /\ Len(Walked(c)) \in Nat /\ pos[c] \in Nat \ {0}
        /\ DOMAIN Walked(c) = 1..Len(Walked(c)) /\ DOMAIN sess = 1..Len(sess)
        /\ \A i \in 1..Len(Walked(c)) : Walked(c)[i] \in 1..Len(sess)
        /\ DOMAIN list = 1..Len(list)
    BY <1>1, <1>2, Typed DEF CallOf, ControlOf, Walking
  <1>5. c \notin sure /\ c \notin sure'
    BY <1>1, <1>2 DEF CallOf, SureOf, Watch
  <1>6. \A d \in Call \ {c} : Same(d)
    BY <1>1, <1>2, <1>3 DEF TypeOK, Leave, Move, Same
  <1>7. CASE AtEnd(c)
    <2>1. Leave(c, "assign") /\ UNCHANGED kept
      BY <1>3, <1>7
    <2>2. /\ pc' \in [Call -> PC] /\ pos' \in [Call -> Nat]
          /\ old' \in [Call -> Seq(DOMAIN sess) \cup {None}]
          /\ pc'[c] = "assign"
      BY <1>1, <2>1, LeaveTyped DEF PC
    <2>3. TypeOK'
      BY <1>1, <1>2, <2>1, <2>2 DEF TypeOK, Watch
    <2>4. ControlOf(c)' /\ KeptOf(c)' /\ OutOf(c)'
      BY <1>1, <1>2, <2>1, <2>2
         DEF CallOf, ControlOf, KeptOf, OutOf, Walking, LoggingIn
    <2>5. CalmOf(c)'
      <3> SUFFICES ASSUME c \in calm
                   PROVE  /\ Range(kept[c]) \subseteq Range(list)
                          /\ \A s \in Range(list) :
                               StillReusable(s) => s \in Range(kept[c])
        BY <1>2, <2>1, <2>2 DEF CalmOf, StillReusable
      <3>1. Walked(c) = list
        BY <1>1, <1>2 DEF CallOf, CalmOf, Walked
      <3>2. \A i \in DOMAIN list : i < pos[c]
        BY <1>4, <1>7, <3>1 DEF AtEnd
      <3> QED
        BY <1>1, <1>2, <3>2 DEF CallOf, CalmOf, Range
    <2>6. CallOf(c)'
      BY <1>5, <2>4, <2>5 DEF CallOf, SureOf
    <2> QED
      BY <1>1, <1>2, <1>6, <2>2, <2>3, <2>6, ByCall, NoAging, PruneKept DEF Inv
  <1>8. CASE ~AtEnd(c)
    <2> DEFINE s == Walked(c)[pos[c]]
    <2>1. /\ pos[c] \in 1..Len(Walked(c)) /\ At(c) = s
          /\ s \in 1..Len(sess) /\ s \in Range(Walked(c))
      BY <1>4, <1>8 DEF AtEnd, At, Range
    <2> HIDE DEF s
    <2>2. /\ pos'[c] = pos[c] + 1 /\ pc' = pc /\ old' = old
          /\ pos' \in [Call -> Nat]
      <3>1. pos' = [pos EXCEPT ![c] = pos[c] + 1] /\ pc' = pc /\ old' = old
        BY <1>3, <1>8
      <3> QED
        BY <1>1, <3>1 DEF TypeOK
    <2>3. kept[c] \in Seq(1..Len(sess)) /\ kept \in [Call -> Seq(1..Len(sess))]
      BY <1>1, <1>4 DEF TypeOK
    <2>4. kept'[c] = IF StillReusable(s) THEN Append(kept[c], s) ELSE kept[c]
      BY <1>1, <1>3, <1>8, <2>1 DEF TypeOK
    <2>5. /\ kept'[c] \in Seq(1..Len(sess))
          /\ StillReusable(s) => Range(kept'[c]) = Range(kept[c]) \cup {s}
          /\ ~StillReusable(s) => Range(kept'[c]) = Range(kept[c])
      <3>1. /\ Append(kept[c], s) \in Seq(1..Len(sess))
            /\ Range(Append(kept[c], s)) = Range(kept[c]) \cup {s}
        BY <2>1, <2>3, RangeOf
      <3> QED
        BY <2>3, <2>4, <3>1
    <2>6. kept' \in [Call -> Seq(1..Len(sess))]
      BY <1>3, <1>8, <2>3, <2>5
    <2>7. TypeOK'
      BY <1>1, <1>2, <1>4, <2>2, <2>6 DEF TypeOK, Watch
    <2>8. Walked(c)' = Walked(c)
      BY <1>2, <2>2 DEF Walked
    <2>9. ControlOf(c)'
      BY <1>1, <1>2, <1>4, <2>2 DEF CallOf, ControlOf
    <2>10. /\ IsInjective(Walked(c)) /\ IsInjective(kept[c])
           /\ \A i \in pos[c]..Len(Walked(c)) : Walked(c)[i] \notin Range(kept[c])
      BY <1>1, <1>2 DEF CallOf, KeptOf
    <2>11. KeptOf(c)'
      <3>1. s \notin Range(kept[c])
        BY <1>4, <2>1, <2>10 DEF s
      <3>2. IsInjective(kept'[c])
        BY <2>1, <2>3, <2>4, <2>10, <3>1, InjectiveAppend
      <3>3. ASSUME NEW i \in (pos[c] + 1)..Len(Walked(c))
            PROVE  Walked(c)[i] \notin Range(kept'[c])
        <4>1. Walked(c)[i] \notin Range(kept[c])
          BY <1>4, <2>10
        <4>2. Walked(c)[i] # s
          <5>1. i \in DOMAIN Walked(c) /\ pos[c] \in DOMAIN Walked(c) /\ i # pos[c]
            BY <1>4, <2>1
          <5> QED
            BY <2>10, <5>1 DEF IsInjective, s
        <4> QED
          BY <2>5, <4>1, <4>2
      <3> QED
        BY <2>2, <2>8, <2>10, <3>2, <3>3 DEF KeptOf
    <2>12. OutOf(c)'
      BY <1>1, <1>2, <2>1, <2>2, <2>5, <2>8 DEF CallOf, OutOf
    <2>13. CalmOf(c)'
      <3> SUFFICES ASSUME c \in calm
                   PROVE  /\ old[c] = None
                          /\ Range(kept'[c]) \subseteq Range(list)
                          /\ \A i \in DOMAIN list :
                               i < pos[c] + 1 /\ StillReusable(list[i]) =>
                                 list[i] \in Range(kept'[c])
        BY <1>2, <2>2 DEF CalmOf, StillReusable
      <3>1. /\ old[c] = None /\ Range(kept[c]) \subseteq Range(list)
            /\ \A i \in DOMAIN list :
                 i < pos[c] /\ StillReusable(list[i]) =>
                   list[i] \in Range(kept[c])
        BY <1>1, <1>2 DEF CallOf, CalmOf
      <3>2. Walked(c) = list
        BY <3>1 DEF Walked
      <3>3. \A i \in DOMAIN list : i < pos[c] + 1 => i < pos[c] \/ list[i] = s
        BY <1>4, <3>2 DEF s
      <3> QED
        BY <2>1, <2>5, <3>1, <3>2, <3>3
    <2>14. CallOf(c)'
      BY <1>5, <2>9, <2>11, <2>12, <2>13 DEF CallOf, SureOf
    <2> QED
      BY <1>1, <1>2, <1>6, <2>2, <2>7, <2>14, ByCall, NoAging, PruneKept DEF Inv
  <1> QED
    BY <1>7, <1>8

LEMMA StepValidate ==
  ASSUME Inv, NEW c \in Call, Validate(c)
  PROVE  Inv'
  <1>1. TypeOK /\ CallOf(c)
    BY DEF Inv
  <1>2. /\ UNCHANGED <<sess, list, logins, req, kept, calm, out>> /\ Watch
        /\ pc[c] = "validate" /\ found' = [found EXCEPT ![c] = 0]
        /\ \/ Walk(c, "find")
           \/ Move(c, "serve") /\ UNCHANGED <<pos, old>>
    BY DEF Validate
  <1>3. /\ pc' \in [Call -> PC] /\ pos' \in [Call -> Nat]
        /\ old' \in [Call -> Seq(DOMAIN sess) \cup {None}]
        /\ pc'[c] \in {"find", "serve"}
        /\ pc'[c] = "find" => pos'[c] = 1 /\ old'[c] = None
    <2>1. CASE Walk(c, "find")
      BY <1>1, <2>1, WalkTyped DEF Walking
    <2>2. CASE Move(c, "serve") /\ UNCHANGED <<pos, old>>
      BY <1>1, <2>2 DEF TypeOK, Move, PC
    <2> QED
      BY <1>2, <2>1, <2>2
  <1>4. TypeOK'
    BY <1>1, <1>2, <1>3 DEF TypeOK, Watch
  <1>5. \A d \in Call \ {c} : Same(d)
    BY <1>1, <1>2 DEF TypeOK, Walk, Move, Same
  <1>6. /\ kept'[c] = kept[c] /\ kept[c] = <<>> /\ req'[c] = req[c]
        /\ req[c].auth # None /\ c \notin sure'
    BY <1>1, <1>2 DEF CallOf, ControlOf, SureOf, LoggingIn, Watch
  <1>7. ControlOf(c)'
    BY <1>3, <1>6 DEF ControlOf, Walking
  <1>8. KeptOf(c)' /\ OutOf(c)'
    BY <1>3, <1>6 DEF KeptOf, OutOf, IsInjective, Range
  <1>9. CalmOf(c)'
    <2>1. \A i \in DOMAIN list : ~(i < 1)
      BY <1>1, Typed
    <2> QED
      BY <1>2, <1>3, <2>1 DEF CalmOf
  <1>10. CallOf(c)'
    BY <1>6, <1>7, <1>8, <1>9 DEF CallOf, SureOf
  <1> QED
    BY <1>1, <1>2, <1>4, <1>5, <1>10, ByCall, NoAging, PruneKept DEF Inv

LEMMA StepFindSession ==
  ASSUME Inv, NEW c \in Call, FindSession(c)
  PROVE  Inv'
  <1>1. TypeOK /\ CallOf(c)
    BY DEF Inv
  <1> DEFINE fits == StillReusable(At(c)) /\ sess[At(c)].cred = req[c].auth
  <1>2. /\ UNCHANGED <<sess, list, logins, req, kept, calm, out>> /\ Watch
        /\ pc[c] = "find"
    BY DEF FindSession
  <1>3. \/ AtEnd(c) /\ Leave(c, "create") /\ UNCHANGED found
        \/ /\ ~AtEnd(c) /\ fits
           /\ Leave(c, "reuse") /\ found' = [found EXCEPT ![c] = At(c)]
        \/ /\ ~AtEnd(c) /\ ~fits
           /\ pos' = [pos EXCEPT ![c] = @ + 1] /\ UNCHANGED <<pc, old, found>>
    BY DEF FindSession, Look
  <1> HIDE DEF fits
  <1>4. /\ Walked(c) \in Seq(1..Len(sess))
        /\ Len(Walked(c)) \in Nat /\ pos[c] \in Nat \ {0}
        /\ DOMAIN Walked(c) = 1..Len(Walked(c)) /\ DOMAIN sess = 1..Len(sess)
        /\ \A i \in 1..Len(Walked(c)) : Walked(c)[i] \in 1..Len(sess)
        /\ DOMAIN list = 1..Len(list)
    BY <1>1, <1>2, Typed DEF CallOf, ControlOf, Walking
  <1>5. ~AtEnd(c) => At(c) \in 1..Len(sess)
    BY <1>4 DEF AtEnd, At
  <1>6. /\ pc' \in [Call -> PC] /\ pos' \in [Call -> Nat]
        /\ old' \in [Call -> Seq(DOMAIN sess) \cup {None}]
        /\ found' \in [Call -> {0} \cup DOMAIN sess]
    <2>1. CASE AtEnd(c)
      BY <1>1, <1>3, <2>1, LeaveTyped DEF PC, TypeOK
    <2>2. CASE ~AtEnd(c) /\ fits
      BY <1>1, <1>3, <1>4, <1>5, <2>2, LeaveTyped DEF PC, TypeOK
    <2>3. CASE ~AtEnd(c) /\ ~fits
      <3>1. pos' = [pos EXCEPT ![c] = pos[c] + 1] /\ UNCHANGED <<pc, old, found>>
        BY <1>3, <2>3
      <3> QED
        BY <1>1, <3>1 DEF TypeOK
    <2> QED
      BY <2>1, <2>2, <2>3
  <1>7. TypeOK'
    BY <1>1, <1>2, <1>6 DEF TypeOK, Watch
  <1>8. \A d \in Call \ {c} : Same(d)
    BY <1>1, <1>2, <1>3 DEF TypeOK, Leave, Move, Same
  <1>9. /\ kept'[c] = kept[c] /\ kept[c] = <<>> /\ req'[c] = req[c]
        /\ req[c].auth # None /\ c \notin sure'
        /\ pc'[c] \in {"create", "reuse", "find"}
    BY <1>1, <1>2, <1>3
       DEF CallOf, ControlOf, SureOf, LoggingIn, Watch, TypeOK, Leave, Move
  <1>10. KeptOf(c)' /\ OutOf(c)'
    BY <1>9 DEF KeptOf, OutOf, IsInjective, Range
  <1>11. ControlOf(c)'
    <2>1. pc'[c] = "find" => pos'[c] # 0
      BY <1>1, <1>2, <1>3, <1>4 DEF TypeOK, Leave, Move
    <2>2. pc'[c] = "reuse" => found'[c] # 0
      BY <1>1, <1>2, <1>3, <1>5, <1>4 DEF TypeOK, Leave, Move
    <2> QED
      BY <1>9, <2>1, <2>2 DEF ControlOf, Walking
  <1>12. CalmOf(c)'
    <2> SUFFICES ASSUME c \in calm
                 PROVE  /\ pc'[c] = "find" =>
                             /\ old'[c] = None
                             /\ \A i \in DOMAIN list :
                                  i < pos'[c] => Unfit(c, list[i])
                        /\ pc'[c] = "create" =>
                             \A s \in Range(list) : Unfit(c, s)
      BY <1>2, <1>9 DEF CalmOf, Unfit, StillReusable
    <2>1. /\ old[c] = None
          /\ \A i \in DOMAIN list : i < pos[c] => Unfit(c, list[i])
      BY <1>1, <1>2 DEF CallOf, CalmOf
    <2>2. Walked(c) = list
      BY <2>1 DEF Walked
    <2>3. CASE pc'[c] = "find"
      <3>1. ~fits /\ pos'[c] = pos[c] + 1 /\ old' = old
        BY <1>1, <1>2, <1>3, <2>3 DEF TypeOK, Leave, Move
      <3>2. \A i \in DOMAIN list : i < pos[c] + 1 => i < pos[c] \/ list[i] = At(c)
        BY <1>4, <2>2 DEF At
      <3>3. Unfit(c, At(c))
        BY <3>1 DEF fits, Unfit
      <3> QED
        BY <2>1, <2>3, <3>1, <3>2, <3>3
    <2>4. CASE pc'[c] = "create"
      <3>1. AtEnd(c)
        BY <1>1, <1>2, <1>3, <2>4 DEF TypeOK, Leave, Move
      <3>2. \A i \in DOMAIN list : i < pos[c]
        BY <1>4, <2>2, <3>1 DEF AtEnd
      <3> QED
        BY <2>1, <2>4, <3>2 DEF Range
    <2> QED
      BY <2>3, <2>4
  <1>13. CallOf(c)'
    BY <1>9, <1>10, <1>11, <1>12 DEF CallOf, SureOf
  <1> QED
    BY <1>1, <1>2, <1>7, <1>8, <1>13, ByCall, NoAging, PruneKept DEF Inv

LEMMA StepServe ==
  ASSUME Inv, NEW c \in Call, Serve(c)
  PROVE  Inv'
  <1>1. TypeOK /\ CallOf(c)
    BY DEF Inv
  <1>2. /\ UNCHANGED <<sess, list, logins, pos, old, kept, out>> /\ Watch
        /\ pc[c] = "serve" /\ pc' = [pc EXCEPT ![c] = "idle"]
        /\ req' = [req EXCEPT ![c] = NoRequest]
        /\ found' = [found EXCEPT ![c] = 0] /\ calm' = calm \ {c}
    BY DEF Serve, End, Clear, Move
  <1>3. NoRequest \in Request
    BY LoginAssumption DEF NoRequest, Request, Op
  <1>4. TypeOK'
    BY <1>1, <1>2, <1>3 DEF TypeOK, Watch, PC
  <1>5. \A d \in Call \ {c} : Same(d)
    BY <1>1, <1>2 DEF TypeOK, Same
  <1>6. pc'[c] = "idle" /\ req'[c].cookie = 0 /\ kept'[c] = <<>>
    BY <1>1, <1>2 DEF TypeOK, CallOf, ControlOf, NoRequest
  <1>7. c \notin sure'
    <2>1. 0 \notin Range(list)
      BY <1>1, Typed
    <2> QED
      BY <1>2, <1>6, <2>1 DEF Watch, Present
  <1>8. ControlOf(c)' /\ KeptOf(c)' /\ OutOf(c)' /\ CalmOf(c)'
    BY <1>6 DEF ControlOf, KeptOf, OutOf, CalmOf, Walking, LoggingIn,
                IsInjective, Range
  <1>9. CallOf(c)'
    BY <1>7, <1>8 DEF CallOf, SureOf
  <1> QED
    BY <1>1, <1>2, <1>4, <1>5, <1>9, ByCall, NoAging, PruneKept DEF Inv

LEMMA StepDestroySession ==
  ASSUME Inv, NEW c \in Call, DestroySession(c)
  PROVE  Inv'
  <1>1. TypeOK /\ CallOf(c)
    BY DEF Inv
  <1>2. /\ UNCHANGED <<sess, list, logins, pos, old, kept, out>> /\ Watch
        /\ pc[c] = "serve"
        /\ \/ /\ found[c] \in Range(list)
              /\ pc' = [pc EXCEPT ![c] = "remove"]
              /\ UNCHANGED <<req, found, calm>>
           \/ /\ pc' = [pc EXCEPT ![c] = "idle"]
              /\ req' = [req EXCEPT ![c] = NoRequest]
              /\ found' = [found EXCEPT ![c] = 0] /\ calm' = calm \ {c}
    BY DEF DestroySession, End, Clear, Move, local
  <1>3. NoRequest \in Request
    BY LoginAssumption DEF NoRequest, Request, Op
  <1>4. TypeOK'
    <2>1. /\ pc' \in [Call -> PC] /\ req' \in [Call -> Request]
          /\ found' \in [Call -> {0} \cup DOMAIN sess] /\ calm' \subseteq Call
      <3>1. CASE UNCHANGED <<req, found, calm>>
        BY <1>1, <1>2, <3>1 DEF TypeOK, PC
      <3>2. CASE /\ req' = [req EXCEPT ![c] = NoRequest]
                 /\ found' = [found EXCEPT ![c] = 0] /\ calm' = calm \ {c}
        BY <1>1, <1>2, <1>3, <3>2 DEF TypeOK, PC
      <3> QED
        BY <1>2, <3>1, <3>2
    <2> QED
      BY <1>1, <1>2, <2>1 DEF TypeOK, Watch
  <1>5. \A d \in Call \ {c} : Same(d)
    BY <1>1, <1>2 DEF TypeOK, Same
  <1>6. kept'[c] = <<>>
    BY <1>1, <1>2 DEF CallOf, ControlOf
  <1>7. 0 \notin Range(list)
    BY <1>1, Typed
  <1>8. ASSUME pc'[c] = "remove"
        PROVE  CallOf(c)'
    <2>1. found[c] # 0 /\ UNCHANGED <<req, found, calm>>
      BY <1>1, <1>2, <1>7, <1>8 DEF TypeOK
    <2>2. ControlOf(c)' /\ KeptOf(c)' /\ OutOf(c)' /\ CalmOf(c)'
      BY <1>6, <1>8, <2>1 DEF ControlOf, KeptOf, OutOf, CalmOf, Walking,
                              LoggingIn, IsInjective, Range
    <2>3. SureOf(c)'
      BY <1>1, <1>2, <1>8, <2>1 DEF CallOf, SureOf, Watch
    <2> QED
      BY <2>2, <2>3 DEF CallOf
  <1>9. ASSUME pc'[c] # "remove"
        PROVE  CallOf(c)'
    <2>1. pc'[c] = "idle" /\ req'[c].cookie = 0
      BY <1>1, <1>2, <1>9 DEF TypeOK, NoRequest
    <2>2. c \notin sure'
      BY <1>2, <1>7, <2>1 DEF Watch, Present
    <2>3. ControlOf(c)' /\ KeptOf(c)' /\ OutOf(c)' /\ CalmOf(c)'
      BY <1>6, <2>1 DEF ControlOf, KeptOf, OutOf, CalmOf, Walking, LoggingIn,
                        IsInjective, Range
    <2> QED
      BY <2>2, <2>3 DEF CallOf, SureOf
  <1> QED
    BY <1>1, <1>2, <1>4, <1>5, <1>8, <1>9, ByCall, NoAging, PruneKept DEF Inv

LEMMA StepCleanupAssign ==
  ASSUME Inv, NEW c \in Call, CleanupAssign(c)
  PROVE  Inv'
  <1>1. TypeOK /\ CallOf(c)
    BY DEF Inv
  <1>2. /\ UNCHANGED <<sess, req, found, pos, out>> /\ Watch
        /\ pc[c] = "assign" /\ pc' = [pc EXCEPT ![c] = "validate"]
        /\ list' = kept[c] /\ logins' = 0
        /\ kept' = [kept EXCEPT ![c] = <<>>] /\ calm' = calm \cap {c}
        /\ old' = [d \in Call |->
             IF pc[d] \in Walking /\ old[d] = None THEN list ELSE old[d]]
    BY DEF CleanupAssign, Move
  <1>3. kept[c] \in Seq(DOMAIN sess) /\ IsInjective(kept[c])
    BY <1>1 DEF TypeOK, CallOf, KeptOf
  <1>4. TypeOK'
    <2>1. old' \in [Call -> Seq(DOMAIN sess) \cup {None}]
      BY <1>1, <1>2 DEF TypeOK
    <2>2. kept' \in [Call -> Seq(DOMAIN sess)]
      BY <1>1, <1>2 DEF TypeOK
    <2>3. pc' \in [Call -> PC]
      BY <1>1, <1>2 DEF TypeOK, PC
    <2> QED
      BY <1>1, <1>2, <1>3, <2>1, <2>2, <2>3 DEF TypeOK, Watch
  <1>5. CallOf(c)'
    <2>1. pc'[c] = "validate" /\ kept'[c] = <<>> /\ req'[c].auth # None
      BY <1>1, <1>2 DEF TypeOK, CallOf, ControlOf, LoggingIn
    <2>2. c \notin sure'
      BY <1>1, <1>2 DEF CallOf, SureOf, Watch
    <2>3. ControlOf(c)' /\ KeptOf(c)' /\ OutOf(c)' /\ CalmOf(c)'
      BY <2>1 DEF ControlOf, KeptOf, OutOf, CalmOf, Walking, LoggingIn,
                  IsInjective, Range
    <2> QED
      BY <2>2, <2>3 DEF CallOf, SureOf
  <1>6. ASSUME NEW d \in Call \ {c}
        PROVE  CallOf(d)'
    <2>1. CallOf(d)
      BY DEF Inv
    <2>2. /\ pc'[d] = pc[d] /\ req'[d] = req[d] /\ found'[d] = found[d]
          /\ pos'[d] = pos[d] /\ kept'[d] = kept[d] /\ d \notin calm'
      BY <1>1, <1>2 DEF TypeOK
    <2>3. list # None
      <3>1. DOMAIN sess \subseteq Nat
        BY <1>1, Typed
      <3> QED
        BY <1>1, <3>1, NoneIsNoList DEF TypeOK
    <2>4. pc[d] \in Walking => Walked(d)' = Walked(d)
      BY <1>2, <2>3 DEF Walked
    <2>5. ControlOf(d)'
      BY <2>1, <2>2 DEF CallOf, ControlOf
    <2>6. KeptOf(d)' /\ OutOf(d)'
      BY <1>2, <2>1, <2>2, <2>4 DEF CallOf, KeptOf, OutOf, Walking
    <2>7. SureOf(d)'
      <3>1. d \in sure' => d \in sure /\ Present(d)'
        BY <1>2 DEF Watch
      <3>2. pc[d] \in Walking /\ Ahead(d) => Ahead(d)'
        BY <2>2, <2>4 DEF Ahead
      <3> QED
        BY <2>1, <2>2, <3>1, <3>2 DEF CallOf, SureOf, Walking
    <2> QED
      BY <2>2, <2>5, <2>6, <2>7 DEF CallOf, CalmOf
  <1>7. OutStaysOut' /\ PruneDue'
    BY <1>1, <1>2, LoginAssumption DEF CallOf, OutOf, OutStaysOut, PruneDue
  <1> QED
    BY <1>4, <1>5, <1>6, <1>7 DEF Inv

LEMMA StepCreateSession ==
  ASSUME Inv, NEW c \in Call, CreateSession(c)
  PROVE  Inv'
  <1> DEFINE n == Len(sess) + 1
  <1>1. TypeOK /\ CallOf(c)
    BY DEF Inv
  <1>2. /\ UNCHANGED <<logins, req, pos, old, kept, out>> /\ Watch
        /\ pc[c] = "create" /\ Len(sess) < MaxSessions
        /\ sess' = Append(sess, [cred |-> req[c].auth, idle |-> 0])
        /\ list' = Append(list, Len(sess'))
        /\ found' = [found EXCEPT ![c] = Len(sess')]
        /\ pc' = [pc EXCEPT ![c] = "serve"] /\ calm' = {}
    BY DEF CreateSession, Move
  <1>3. [cred |-> req[c].auth, idle |-> 0] \in Session
    <2>1. req[c].auth \in Cred
      BY <1>1, <1>2 DEF TypeOK, CallOf, ControlOf, LoggingIn, Request
    <2> QED
      BY <2>1, LoginAssumption DEF Session, Forgotten
  <1>4. /\ sess' \in Seq(Session) /\ Len(sess') = n
        /\ \A i \in 1..Len(sess) : sess'[i] = sess[i]
    BY <1>1, <1>2, <1>3, RangeOf DEF TypeOK
  <1>5. /\ Len(sess) \in Nat /\ DOMAIN sess = 1..Len(sess)
        /\ DOMAIN sess' = 1..n /\ 1..Len(sess) \subseteq 1..n
        /\ n \in 1..n /\ n \notin 1..Len(sess)
    BY <1>1, <1>4 DEF TypeOK
  <1>6. Seq(1..Len(sess)) \subseteq Seq(1..n)
    BY <1>5, SeqMonotonic
  <1> HIDE DEF n
  <1>7. /\ list \in Seq(1..Len(sess)) /\ list \in Seq(1..n)
        /\ IsInjective(list)
    BY <1>1, <1>5, <1>6 DEF TypeOK
  <1>8. n \notin Range(list)
    BY <1>1, <1>5, Typed
  <1>9. /\ list' \in Seq(1..n) /\ Len(list') = Len(list) + 1
        /\ \A i \in 1..Len(list) : list'[i] = list[i]
        /\ list'[Len(list) + 1] = n
        /\ Range(list') = Range(list) \cup {n}
        /\ IsInjective(list')
    BY <1>2, <1>4, <1>5, <1>7, <1>8, RangeOf, InjectiveAppend
  <1>10. Len(list) \in Nat
    BY <1>7
  <1>11. TypeOK'
    <2>1. found' \in [Call -> {0} \cup 1..n]
      BY <1>1, <1>2, <1>4, <1>5 DEF TypeOK
    <2>2. old' \in [Call -> Seq(1..n) \cup {None}]
          /\ kept' \in [Call -> Seq(1..n)]
      BY <1>1, <1>2, <1>5, <1>6 DEF TypeOK
    <2>3. pc' \in [Call -> PC]
      BY <1>1, <1>2 DEF TypeOK, PC
    <2>4. Len(sess') <= MaxSessions
      BY <1>2, <1>4, <1>5, LoginAssumption DEF n
    <2>5. out' \subseteq 1..n /\ sure' \subseteq Call
      BY <1>1, <1>2, <1>5 DEF TypeOK, Watch
    <2> QED
      BY <1>1, <1>2, <1>4, <1>5, <1>9, <2>1, <2>2, <2>3, <2>4, <2>5 DEF TypeOK
  <1>12. CallOf(c)'
    <2>1. pc'[c] = "serve" /\ kept'[c] = <<>> /\ c \notin sure'
      BY <1>1, <1>2 DEF TypeOK, CallOf, ControlOf, SureOf, Watch
    <2> QED
      BY <2>1 DEF CallOf, ControlOf, KeptOf, OutOf, SureOf, CalmOf, Walking,
                  LoggingIn, IsInjective, Range
  <1>13. ASSUME NEW d \in Call \ {c}
         PROVE  CallOf(d)'
    <2>1. CallOf(d)
      BY DEF Inv
    <2>2. /\ Same(d) /\ d \notin calm'
      BY <1>1, <1>2 DEF TypeOK, Same
    <2>3. ControlOf(d)'
      BY <2>1, <2>2 DEF CallOf, ControlOf, Same
    <2>4. \/ Walked(d)' = Walked(d)
          \/ Walked(d) = list /\ Walked(d)' = list'
      BY <1>2, <2>2 DEF Walked, Same
    <2>5. Range(kept[d]) \subseteq 1..Len(sess) /\ out \subseteq 1..Len(sess)
      <3>1. kept[d] \in Seq(1..Len(sess))
        BY <1>1, <1>5 DEF TypeOK
      <3> QED
        BY <1>1, <1>5, <3>1, SeqTyped DEF TypeOK
    <2>6. n \notin Range(kept[d]) /\ n \notin out
      BY <1>5, <2>5
    <2>7. pos[d] \in Nat
      BY <1>1 DEF TypeOK
    <2>8. KeptOf(d)'
      <3>1. CASE Walked(d) = list /\ Walked(d)' = list'
        <4>1. \A i \in pos[d]..Len(list') :
                i \in pos[d]..Len(list) \/ i = Len(list) + 1
          BY <1>9, <1>10, <2>7
        <4>2. pc[d] = "cleanup" => pos[d] # 0
          BY <2>1 DEF CallOf, ControlOf, Walking
        <4>3. \A i \in pos[d]..Len(list) : pos[d] # 0 => list'[i] = list[i]
          BY <1>9, <1>10, <2>7
        <4> QED
          BY <1>9, <2>1, <2>2, <2>6, <3>1, <4>1, <4>2, <4>3
             DEF CallOf, KeptOf, Same
      <3>2. CASE Walked(d)' = Walked(d)
        BY <2>1, <2>2, <3>2 DEF CallOf, KeptOf, Same
      <3> QED
        BY <2>4, <3>1, <3>2
    <2>9. OutOf(d)'
      BY <1>2, <1>9, <2>1, <2>2, <2>4, <2>6 DEF CallOf, OutOf, Same
    <2>10. SureOf(d)'
      <3>1. d \in sure' => d \in sure /\ Present(d)'
        BY <1>2 DEF Watch
      <3>2. pos[d] # 0 /\ Ahead(d) => Ahead(d)'
        <4>1. CASE Walked(d)' = Walked(d)
          BY <2>2, <4>1 DEF Ahead, Same
        <4>2. CASE Walked(d) = list /\ Walked(d)' = list'
          <5> SUFFICES ASSUME pos[d] # 0, Ahead(d)
                       PROVE  Ahead(d)'
            OBVIOUS
          <5>1. PICK i \in pos[d]..Len(list) : list[i] = req[d].cookie
            BY <4>2 DEF Ahead
          <5>2. i \in pos[d]..Len(list') /\ list'[i] = list[i]
            BY <1>9, <1>10, <2>7
          <5> QED
            BY <2>2, <4>2, <5>1, <5>2 DEF Ahead, Same
        <4> QED
          BY <2>4, <4>1, <4>2
      <3> QED
        BY <2>1, <2>2, <3>1, <3>2 DEF CallOf, ControlOf, SureOf, Same, Walking
    <2> QED
      BY <2>2, <2>3, <2>8, <2>9, <2>10 DEF CallOf, CalmOf
  <1>14. OutStaysOut'
    BY <1>1, <1>2, <1>5, <1>9 DEF Inv, OutStaysOut, TypeOK
  <1>15. PruneDue'
    <2>1. \A d \in Call \ {c} : Same(d)
      BY <1>1, <1>2 DEF TypeOK, Same
    <2> QED
      BY <1>2, <2>1, PruneKept DEF Inv
  <1> QED
    BY <1>11, <1>12, <1>13, <1>14, <1>15 DEF Inv

LEMMA TakenOut ==
  ASSUME NEW S, NEW q \in Seq(S), IsInjective(q), NEW e
  PROVE  LET r == RemoveFirst(q, e)
         IN  /\ r \in Seq(S) /\ IsInjective(r)
             /\ Range(r) = Range(q) \ {e}
             /\ \A j \in 1..Len(r) : \E k \in 1..Len(q) : j <= k /\ r[j] = q[k]
  <1> DEFINE r == RemoveFirst(q, e)
  <1>0. /\ Len(q) \in Nat /\ DOMAIN q = 1..Len(q)
        /\ \A j, k \in 1..Len(q) : q[j] = q[k] => j = k
    BY DEF IsInjective
  <1>1. CASE ~ \E i \in 1..Len(q) : q[i] = e
    <2>1. r = q
      BY <1>1 DEF RemoveFirst
    <2>2. e \notin Range(q)
      BY <1>0, <1>1 DEF Range
    <2> HIDE DEF r
    <2> QED
      BY <1>0, <2>1, <2>2 DEF r
  <1>2. CASE \E i \in 1..Len(q) : q[i] = e
    <2>1. PICK i \in 1..Len(q) : q[i] = e
      BY <1>2
    <2>2. /\ r \in Seq(S) /\ Len(r) = Len(q) - 1
          /\ \A j \in 1..Len(r) : r[j] = q[IF j < i THEN j ELSE j + 1]
      BY <2>1, RemovedAt
    <2> HIDE DEF r
    <2>3. DOMAIN r = 1..(Len(q) - 1)
      BY <1>0, <2>2
    <2>4. \A j \in 1..Len(r) :
            LET k == IF j < i THEN j ELSE j + 1
            IN  k \in 1..Len(q) /\ j <= k /\ k # i /\ r[j] = q[k]
      BY <1>0, <2>2
    <2>5. IsInjective(r)
      <3> SUFFICES ASSUME NEW j \in DOMAIN r, NEW k \in DOMAIN r, r[j] = r[k]
                   PROVE  j = k
        BY DEF IsInjective
      <3> DEFINE f(x) == IF x < i THEN x ELSE x + 1
      <3>1. f(j) \in 1..Len(q) /\ f(k) \in 1..Len(q) /\ r[j] = q[f(j)]
            /\ r[k] = q[f(k)]
        BY <1>0, <2>2, <2>3, <2>4
      <3>2. f(j) = f(k)
        <4> HIDE DEF f
        <4> QED
          BY <1>0, <3>1
      <3> QED
        BY <1>0, <2>3, <3>2
    <2>6. Range(r) \subseteq Range(q) \ {e}
      <3> SUFFICES ASSUME NEW x \in Range(r)
                   PROVE  x \in Range(q) /\ x # e
        OBVIOUS
      <3>1. PICK j \in 1..Len(r) : r[j] = x
        BY <2>2, <2>3, <1>0 DEF Range
      <3>2. PICK k \in 1..Len(q) : k # i /\ q[k] = x
        BY <2>4, <3>1
      <3> QED
        BY <1>0, <2>1, <3>2 DEF Range
    <2>7. Range(q) \ {e} \subseteq Range(r)
      <3> SUFFICES ASSUME NEW x \in Range(q), x # e
                   PROVE  x \in Range(r)
        OBVIOUS
      <3>1. PICK k \in 1..Len(q) : q[k] = x
        BY <1>0 DEF Range
      <3>2. k # i
        BY <2>1, <3>1
      <3>3. CASE k < i
        <4>1. k \in 1..Len(r) /\ r[k] = q[k]
          BY <1>0, <2>2, <3>3
        <4> QED
          BY <1>0, <2>2, <2>3, <3>1, <4>1 DEF Range
      <3>4. CASE k > i
        <4>1. k - 1 \in 1..Len(r) /\ ~(k - 1 < i) /\ (k - 1) + 1 = k
          BY <1>0, <2>2, <3>4
        <4>2. r[k - 1] = q[(k - 1) + 1]
          BY <2>2, <4>1
        <4> QED
          BY <1>0, <2>2, <2>3, <3>1, <4>1, <4>2 DEF Range
      <3> QED
        BY <1>0, <3>2, <3>3, <3>4
    <2>8. \A j \in 1..Len(r) : \E k \in 1..Len(q) : j <= k /\ r[j] = q[k]
      BY <2>4
    <2> QED
      BY <2>2, <2>5, <2>6, <2>7, <2>8 DEF r
  <1> QED
    BY <1>1, <1>2

LEMMA StepInvalidate ==
  ASSUME Inv, NEW c \in Call, Invalidate(c)
  PROVE  Inv'
  <1>1. TypeOK /\ CallOf(c)
    BY DEF Inv
  <1>2. /\ UNCHANGED <<sess, logins, pos, old, kept>>
        /\ pc[c] = "remove" /\ pc' = [pc EXCEPT ![c] = "idle"]
        /\ list' = RemoveFirst(list, found[c])
        /\ out' = IF \E d \in Call : pc[d] \in {"cleanup", "assign"}
                  THEN out ELSE out \cup {found[c]}
        /\ req' = [req EXCEPT ![c] = NoRequest]
        /\ found' = [found EXCEPT ![c] = 0]
        /\ calm' = {} /\ sure' = {}
    BY DEF Invalidate, Move, Clear
  <1>3. NoRequest \in Request
    BY LoginAssumption DEF NoRequest, Request, Op
  <1>4. found[c] \in DOMAIN sess
    BY <1>1, <1>2 DEF TypeOK, CallOf, ControlOf
  <1>5. /\ list' \in Seq(DOMAIN sess) /\ IsInjective(list')
        /\ Range(list') = Range(list) \ {found[c]}
        /\ \A j \in 1..Len(list') :
             \E k \in 1..Len(list) : j <= k /\ list'[j] = list[k]
    <2>1. list \in Seq(DOMAIN sess) /\ IsInjective(list)
      BY <1>1 DEF TypeOK
    <2> QED
      BY <1>2, <2>1, TakenOut
  <1>6. TypeOK'
    <2>1. /\ pc' \in [Call -> PC] /\ req' \in [Call -> Request]
          /\ found' \in [Call -> {0} \cup DOMAIN sess]
      BY <1>1, <1>2, <1>3 DEF TypeOK, PC
    <2>2. out' \subseteq DOMAIN sess
      BY <1>1, <1>2, <1>4 DEF TypeOK
    <2> QED
      BY <1>1, <1>2, <1>5, <2>1, <2>2 DEF TypeOK
  <1>7. CallOf(c)'
    <2>1. pc'[c] = "idle" /\ kept'[c] = <<>>
      BY <1>1, <1>2 DEF TypeOK, CallOf, ControlOf
    <2> QED
      BY <1>2, <2>1 DEF CallOf, ControlOf, KeptOf, OutOf, SureOf, CalmOf,
                        Walking, LoggingIn, IsInjective, Range
  <1>8. ASSUME NEW d \in Call \ {c}
        PROVE  CallOf(d)'
    <2>1. CallOf(d)
      BY DEF Inv
    <2>2. Same(d)
      BY <1>1, <1>2 DEF TypeOK, Same
    <2>3. ControlOf(d)'
      BY <2>1, <2>2 DEF CallOf, ControlOf, Same
    <2>4. \/ Walked(d)' = Walked(d)
          \/ Walked(d) = list /\ Walked(d)' = list'
      BY <1>2, <2>2 DEF Walked, Same
    <2>5. KeptOf(d)'
      <3>1. CASE Walked(d)' = Walked(d)
        BY <2>1, <2>2, <3>1 DEF CallOf, KeptOf, Same
      <3>2. CASE Walked(d) = list /\ Walked(d)' = list'
        <4> SUFFICES ASSUME pc[d] = "cleanup"
                     PROVE  \A i \in pos[d]..Len(list') :
                              list'[i] \notin Range(kept[d])
          BY <1>5, <2>1, <2>2, <3>2 DEF CallOf, KeptOf, Same
        <4>1. pos[d] \in Nat /\ pos[d] # 0 /\ Len(list) \in Nat
              /\ Len(list') \in Nat
          BY <1>1, <1>5, <2>1 DEF TypeOK, CallOf, ControlOf, Walking
        <4>2. ASSUME NEW i \in pos[d]..Len(list')
              PROVE  list'[i] \notin Range(kept[d])
          <5>1. PICK k \in 1..Len(list) : i <= k /\ list'[i] = list[k]
            BY <1>5, <4>1
          <5>2. k \in pos[d]..Len(list)
            BY <4>1, <5>1
          <5> QED
            BY <2>1, <3>2, <5>1, <5>2 DEF CallOf, KeptOf
        <4> QED
          BY <4>2
      <3> QED
        BY <2>4, <3>1, <3>2
    <2>6. OutOf(d)'
      <3>1. Range(Walked(d)') \subseteq Range(Walked(d))
        BY <1>5, <2>4
      <3>2. CASE out' = out
        BY <2>1, <2>2, <3>1, <3>2 DEF CallOf, OutOf, Same
      <3>3. CASE out' # out
        <4>1. pc[d] \notin {"cleanup", "assign"}
          BY <1>2, <3>3
        <4>2. kept[d] = <<>>
          BY <2>1, <4>1 DEF CallOf, ControlOf
        <4> QED
          BY <2>2, <4>1, <4>2 DEF OutOf, Same, Range
      <3> QED
        BY <3>2, <3>3
    <2> QED
      BY <1>2, <2>3, <2>5, <2>6 DEF CallOf, SureOf, CalmOf
  <1>9. OutStaysOut'
    BY <1>2, <1>5 DEF Inv, OutStaysOut
  <1>10. PruneDue'
    <2>1. \A d \in Call \ {c} : Same(d)
      BY <1>1, <1>2 DEF TypeOK, Same
    <2> QED
      BY <1>2, <2>1, PruneKept DEF Inv
  <1> QED
    BY <1>6, <1>7, <1>8, <1>9, <1>10 DEF Inv
-----------------------------------------------------------------------------
LEMMA InvInit ==
  ASSUME Init
  PROVE  Inv
  <1> USE DEF Init
  <1>1. TypeOK
    <2>1. NoRequest \in Request
      BY LoginAssumption DEF NoRequest, Request, Op
    <2>2. Len(sess) <= MaxSessions
      BY LoginAssumption
    <2> QED
      BY <2>1, <2>2 DEF TypeOK, IsInjective, PC, Walking
  <1>2. ASSUME NEW c \in Call
        PROVE  CallOf(c)
    BY DEF CallOf, ControlOf, KeptOf, OutOf, SureOf, CalmOf, Walking,
           LoggingIn, IsInjective, Range
  <1>3. OutStaysOut /\ PruneDue
    BY LoginAssumption DEF OutStaysOut, PruneDue
  <1> QED
    BY <1>1, <1>2, <1>3 DEF Inv

LEMMA InvStutter ==
  ASSUME Inv, UNCHANGED vars
  PROVE  Inv'
  <1>1. /\ UNCHANGED <<sess, list, logins, pc, req, sure, calm, out>>
        /\ UNCHANGED <<found, pos, old, kept>>
    BY DEF vars, local
  <1>2. TypeOK' /\ OutStaysOut' /\ PruneDue'
    BY <1>1 DEF Inv, TypeOK, OutStaysOut, PruneDue
  <1>3. ASSUME NEW d \in Call
        PROVE  CallOf(d)'
    <2>1. CallOf(d) /\ Walked(d)' = Walked(d)
      BY <1>1 DEF Inv, Walked
    <2>2. ControlOf(d)' /\ KeptOf(d)' /\ OutOf(d)'
      BY <1>1, <2>1 DEF CallOf, ControlOf, KeptOf, OutOf
    <2>3. SureOf(d)'
      BY <1>1, <2>1
         DEF CallOf, SureOf, Present, Ahead, StillValid, StillReusable
    <2>4. CalmOf(d)'
      BY <1>1, <2>1 DEF CallOf, CalmOf, Unfit, StillReusable
    <2> QED
      BY <2>2, <2>3, <2>4 DEF CallOf
  <1> QED
    BY <1>2, <1>3 DEF Inv

LEMMA InvNext ==
  ASSUME Inv, [Next]_vars
  PROVE  Inv'
  <1>1. CASE Tick
    BY <1>1, StepTick
  <1>2. ASSUME NEW c \in Call, Receive(c) \/ Step(c)
        PROVE  Inv'
    BY <1>2, StepReceive, StepIsValid, StepGetSession, StepRevalidate,
       StepCountLogin, StepCleanupSession, StepCleanupAssign, StepValidate,
       StepFindSession, StepCreateSession, StepServe, StepDestroySession,
       StepInvalidate DEF Step
  <1>3. CASE UNCHANGED vars
    BY <1>3, InvStutter
  <1> QED
    BY <1>1, <1>2, <1>3 DEF Next

LEMMA Invariance == Spec => []Inv
  BY InvInit, InvNext, PTL DEF Spec

(* The list never has a session twice, and refers only to sessions there   *)
(* are, whatever walks, removals and replacements overlap; a session that  *)
(* was logged out while no cleanup was going on never comes back; and the  *)
(* counter of logins passes its limit only if a cleanup is under way.      *)
THEOREM ListAgreesCorrect == Spec => []ListAgrees
  <1>1. Inv => ListAgrees
    BY DEF Inv, ListAgrees
  <1> QED
    BY <1>1, Invariance, PTL

(* A request whose session was valid and in the list from its arrival on   *)
(* is served in the name of that session, for any number of requests,      *)
(* logins and cleanups meanwhile.                                          *)
THEOREM ValidIsServedCorrect == Spec => []ValidIsServed
  <1>1. Inv => ValidIsServed
    BY DEF Inv, ValidIsServed, CallOf, SureOf, TypeOK
  <1> QED
    BY <1>1, Invariance, PTL

(* A login that nobody disturbs creates a session only if the list has     *)
(* none that it could have used.                                           *)
CreatesFirst ==
  \A c \in calm : CreateSession(c) =>
    \A s \in Range(list) : StillReusable(s) => sess[s].cred # req[c].auth

THEOREM OneSessionEachCorrect == Spec => OneSessionEach
  <1>1. Inv => CreatesFirst
    BY DEF Inv, CreatesFirst, CallOf, CalmOf, CreateSession, Unfit, TypeOK
  <1>2. Spec => [][CreatesFirst]_vars
    BY <1>1, Invariance, PTL
  <1> QED
    BY <1>2, PTL DEF OneSessionEach, CreatesFirst

(* A cleanup that nobody disturbs brings no session back and drops none    *)
(* that could be used again.                                               *)
DropsDead ==
  \A c \in calm : CleanupAssign(c) =>
    /\ Range(list') \subseteq Range(list)
    /\ \A s \in Range(list) \ Range(list') : ~StillReusable(s)

THEOREM CleanupIsHarmlessCorrect == Spec => CleanupIsHarmless
  <1>1. Inv => DropsDead
    <2> SUFFICES ASSUME Inv, NEW c \in calm, CleanupAssign(c)
                 PROVE  /\ Range(list') \subseteq Range(list)
                        /\ \A s \in Range(list) \ Range(list') :
                             ~StillReusable(s)
      BY DEF DropsDead
    <2>1. c \in Call /\ pc[c] = "assign" /\ list' = kept[c]
      BY DEF Inv, TypeOK, CleanupAssign
    <2>2. CalmOf(c)
      BY <2>1 DEF Inv, CallOf
    <2> QED
      BY <2>1, <2>2 DEF CalmOf
  <1>2. Spec => [][DropsDead]_vars
    BY <1>1, Invariance, PTL
  <1> QED
    BY <1>2, PTL DEF CleanupIsHarmless, DropsDead

-----------------------------------------------------------------------------
(***************************************************************************)
(* The list of servers.                                                    *)
(***************************************************************************)

Procs == [kind : {"none", "server", "command", "bare", "other"},
          pc : {"none", "exists", "make", "fill", "lock", "rewrite", "flush",
                "serve", "list", "kill"},
          job : {"none", "register", "unregister", "list", "stop", "stop_all"},
          place : Place \cup {Nobody}, recs : SUBSET Record, no : Nat,
          seen : SUBSET (Id \X Nat), before : SUBSET (Id \X Nat)]
Files == [state : {"absent", "empty", "ok", "garbage"}, recs : SUBSET Record]

InstTyped ==
  /\ proc \in [Id -> Procs]
  /\ file \in Files
  /\ lock \in Id \cup {Nobody}
  /\ begun \in 0..MaxProcesses /\ kills \in 0..MaxKills
  /\ damage \subseteq {"created twice", "cut", "same pid"}

(* What a process of a kind may be doing.                                  *)
KindOK(p) ==
  /\ p.kind \in {"none", "bare", "other"} => p.pc = "none"
  /\ p.kind = "none" => p = Nothing
  /\ p.kind = "server" =>
       /\ p.pc \in {"exists", "make", "fill", "lock", "rewrite", "flush", "serve"}
       /\ p.place \in Place /\ p.job \in {"register", "unregister"}
       /\ p.pc = "serve" => p.job = "register"
  /\ p.kind = "command" =>
       p.pc \in {"list", "kill"} /\ p.job \in {"list", "stop", "stop_all"}
  /\ p.kind # "none" => p.no \in 1..begun

Locked == \A i \in Id : lock = i <=> proc[i].pc = "rewrite"

(* Servers that have registered and not yet unregistered.                  *)
Leaving(p) ==
  p.kind = "server" /\ p.job = "unregister" /\ p.pc \in {"exists", "make", "lock"}
Registered == {i \in Id : proc[i].pc = "serve" \/ Leaving(proc[i])}
Busy == {i \in Id : proc[i].pc \in {"fill", "rewrite", "flush"}}

(* A list that has each registered server once.                            *)
Lists(recs) ==
  \A s \in Registered :
    RecordOf(s) \in recs /\ \A r \in recs : r.id = s => r = RecordOf(s)

(* One process at a time has the file in hand, and who has it knows every  *)
(* registered server.                                                      *)
InHand(i) ==
  /\ proc[i].pc \in {"fill", "rewrite", "flush"} => Busy = {i}
  /\ proc[i].pc \in {"fill", "flush"} => file.state = "empty"
  /\ proc[i].pc = "rewrite" => file.state = "ok"
  /\ proc[i].pc = "fill" => Registered = {} /\ proc[i].job = "register"
  /\ proc[i].pc \in {"rewrite", "flush"} =>
       /\ Lists(proc[i].recs)
       /\ proc[i].job = "register" =>
            /\ RecordOf(i) \in proc[i].recs
            /\ \A r \in proc[i].recs : r.id = i => r = RecordOf(i)

FileIntact ==
  /\ file.state # "garbage"
  /\ file.state = "absent" => Busy = {} /\ Registered = {} /\ file.recs = {}
  /\ file.state = "empty" => Writing # {}
  /\ Writing = {} => Lists(file.recs)

(* What a command knows is still so of the processes it has seen.          *)
Alive(b) == proc[b[1]].no = b[2]
Knows(i) ==
  proc[i].kind = "command" =>
    /\ \A b \in proc[i].before \cup proc[i].seen : b[2] \in 1..begun
    /\ proc[i].pc = "list" => proc[i].seen = {}
    /\ proc[i].job = "list" => proc[i].before = {} /\ proc[i].pc = "list"
    /\ \A b \in proc[i].before : Alive(b) =>
         /\ proc[i].pc = "list" =>
              /\ proc[b[1]].kind = "server" /\ b[1][1] = i[1]
              /\ proc[b[1]].pc = "serve" \/ proc[b[1]].job = "unregister"
              /\ proc[i].job = "stop" => proc[b[1]].place = proc[i].place
         /\ proc[i].pc = "kill" => \E r \in proc[i].recs : r.id = b[1]
    /\ proc[i].pc = "kill" =>
         \A r \in proc[i].recs :
           /\ proc[i].job = "stop" => r.place = proc[i].place
           /\ <<r.id, proc[r.id].no>> \in proc[i].seen => r.place = proc[r.id].place

InstInv ==
  /\ InstTyped
  /\ \A i \in Id : KindOK(proc[i])
  /\ Locked
  /\ damage = {} => FileIntact /\ \A i \in Id : InHand(i) /\ Knows(i)

LEMMA NothingIs ==
  /\ Nothing \in Procs
  /\ Nothing.kind = "none" /\ Nothing.pc = "none" /\ Nothing.job = "none"
  /\ Nothing.recs = {} /\ Nothing.no = 0 /\ Nothing.seen = {} /\ Nothing.before = {}
  BY DEF Nothing, Procs

LEMMA OverwriteIs ==
  ASSUME NEW recs
  PROVE  /\ Overwrite(recs) \subseteq {InstFile("ok", recs), InstFile("garbage", {})}
         /\ file.state \in {"absent", "empty"} => Overwrite(recs) = {InstFile("ok", recs)}
  BY DEF Overwrite

LEMMA InstFileIs ==
  ASSUME NEW s \in {"absent", "empty", "ok", "garbage"}, NEW recs \in SUBSET Record
  PROVE  /\ InstFile(s, recs) \in Files
         /\ InstFile(s, recs).state = s /\ InstFile(s, recs).recs = recs
  BY DEF InstFile, Files

LEMMA InstInitInv == InstInit => InstInv
<1> SUFFICES ASSUME InstInit PROVE InstInv
  OBVIOUS
<1>1. \A i \in Id : proc[i] = Nothing
  BY DEF InstInit
<1>2. InstTyped
  <2>1. proc \in [Id -> Procs]
    BY NothingIs DEF InstInit
  <2>2. file \in Files
    BY InstFileIs DEF InstInit
  <2>3. begun \in 0..MaxProcesses /\ kills \in 0..MaxKills
    <3>1. begun = 0 /\ kills = 0 /\ MaxProcesses \in Nat /\ MaxKills \in Nat
      BY InstancesAssumption DEF InstInit
    <3> QED BY <3>1
  <2> QED BY <2>1, <2>2, <2>3 DEF InstInit, InstTyped
<1>3. \A i \in Id : KindOK(proc[i])
  BY <1>1, NothingIs DEF KindOK
<1>4. Locked
  BY <1>1, NothingIs, InstancesAssumption DEF InstInit, Locked, Id
<1>5. Registered = {} /\ Busy = {}
  BY <1>1, NothingIs DEF Registered, Leaving, Busy
<1>6. FileIntact
  BY <1>5, InstFileIs DEF InstInit, FileIntact, Lists
<1>7. \A i \in Id : InHand(i) /\ Knows(i)
  BY <1>1, NothingIs DEF InHand, Knows
<1> QED BY <1>2, <1>3, <1>4, <1>6, <1>7 DEF InstInv

LEMMA BegunIs == InstInv => begun \in Nat
<1>1. InstInv => begun \in 0..MaxProcesses
  BY DEF InstInv, InstTyped
<1> QED BY <1>1

(* Who is what.                                                            *)
LEMMA WhoIs ==
  ASSUME InstInv, NEW i \in Id
  PROVE  /\ proc[i] \in Procs
         /\ proc[i].pc \in {"exists", "make", "fill", "lock", "rewrite", "flush", "serve"} <=>
              proc[i].kind = "server"
         /\ proc[i].pc \in {"list", "kill"} <=> proc[i].kind = "command"
         /\ proc[i].no \in 0..begun
         /\ proc[i].kind # "none" => proc[i].no \in 1..begun
<1>0. proc[i] \in Procs /\ begun \in Nat
  <2>1. proc \in [Id -> Procs] /\ begun \in 0..MaxProcesses
    BY DEF InstInv, InstTyped
  <2> QED BY <2>1
<1>1. KindOK(proc[i])
  BY DEF InstInv
<1>2. proc[i].kind = "none" => proc[i].no = 0
  BY <1>1, NothingIs DEF KindOK
<1> QED BY <1>0, <1>1, <1>2 DEF KindOK, Procs

(* A step after which a process is over or goes on as what it is; what a   *)
(* command has dropped from its list is over.                              *)
Survives(k) ==
  \/ proc'[k] = Nothing
  \/ /\ proc'[k].kind = proc[k].kind /\ proc'[k].place = proc[k].place
     /\ proc'[k].no = proc[k].no
     /\ proc[k].kind = "server" /\ (proc[k].pc = "serve" \/ proc[k].job = "unregister") =>
          proc'[k].pc = "serve" \/ proc'[k].job = "unregister"
GoesOn(k) ==
  /\ Survives(k)
  /\ proc'[k] = Nothing \/
       /\ proc'[k].before = proc[k].before /\ proc'[k].seen = proc[k].seen
       /\ proc[k].kind = "command" =>
            /\ proc'[k].pc = proc[k].pc /\ proc'[k].job = proc[k].job
            /\ proc'[k].recs \subseteq proc[k].recs
            /\ \A r \in proc[k].recs \ proc'[k].recs : proc'[r.id] = Nothing

LEMMA KnowsKept ==
  ASSUME InstInv, damage = {}, \A k \in Id : Survives(k), begun' = begun,
         NEW i \in Id, GoesOn(i)
  PROVE  Knows(i)'
<1> SUFFICES ASSUME proc'[i].kind = "command" PROVE Knows(i)'
  BY DEF Knows
<1>1. /\ proc[i].kind = "command" /\ proc'[i].place = proc[i].place
      /\ proc'[i].before = proc[i].before /\ proc'[i].seen = proc[i].seen
      /\ proc'[i].pc = proc[i].pc /\ proc'[i].job = proc[i].job
      /\ proc'[i].recs \subseteq proc[i].recs
      /\ \A r \in proc[i].recs \ proc'[i].recs : proc'[r.id] = Nothing
  BY NothingIs DEF GoesOn, Survives
<1>2. Knows(i)
  BY DEF InstInv
<1>3. begun \in Nat /\ proc[i] \in Procs
  BY DEF InstInv, InstTyped
<1>4. ASSUME NEW b \in Id \X Nat, b[2] \in 1..begun, Alive(b)'
      PROVE  Alive(b) /\ Survives(b[1]) /\ proc'[b[1]] # Nothing
  BY <1>3, <1>4, NothingIs DEF Alive, Survives
<1>5. ASSUME NEW b \in proc[i].before, Alive(b)'
      PROVE  /\ proc[i].pc = "list" =>
                  /\ proc'[b[1]].kind = "server" /\ b[1][1] = i[1]
                  /\ proc'[b[1]].pc = "serve" \/ proc'[b[1]].job = "unregister"
                  /\ proc[i].job = "stop" => proc'[b[1]].place = proc[i].place
             /\ proc[i].pc = "kill" => \E r \in proc'[i].recs : r.id = b[1]
  <2>1. b \in Id \X Nat /\ b[2] \in 1..begun
    BY <1>1, <1>2, <1>3 DEF Knows, Procs
  <2>2. Alive(b) /\ Survives(b[1]) /\ proc'[b[1]] # Nothing
    BY <1>4, <1>5, <2>1
  <2>3. CASE proc[i].pc = "list"
    <3>1. /\ proc[b[1]].kind = "server" /\ b[1][1] = i[1]
          /\ proc[b[1]].pc = "serve" \/ proc[b[1]].job = "unregister"
          /\ proc[i].job = "stop" => proc[b[1]].place = proc[i].place
      BY <1>1, <1>2, <2>2, <2>3 DEF Knows
    <3> QED BY <2>2, <2>3, <3>1 DEF Survives
  <2>4. CASE proc[i].pc = "kill"
    <3>1. PICK r \in proc[i].recs : r.id = b[1]
      BY <1>1, <1>2, <2>2, <2>4 DEF Knows
    <3>2. r \in proc'[i].recs
      BY <1>1, <2>2, <3>1
    <3> QED BY <2>4, <3>1, <3>2
  <2> QED BY <2>3, <2>4
<1>6. ASSUME proc[i].pc = "kill", NEW r \in proc'[i].recs
      PROVE  /\ proc[i].job = "stop" => r.place = proc[i].place
             /\ <<r.id, proc'[r.id].no>> \in proc[i].seen => r.place = proc'[r.id].place
  <2>1. r \in proc[i].recs
    BY <1>1
  <2>2. /\ proc[i].job = "stop" => r.place = proc[i].place
        /\ <<r.id, proc[r.id].no>> \in proc[i].seen => r.place = proc[r.id].place
    BY <1>1, <1>2, <1>6, <2>1 DEF Knows
  <2>3. ASSUME <<r.id, proc'[r.id].no>> \in proc[i].seen PROVE r.place = proc'[r.id].place
    <3> DEFINE b == <<r.id, proc'[r.id].no>>
    <3>1. PICK n : n = proc'[r.id].no
      OBVIOUS
    <3>2. <<r.id, n>> \in Id \X Nat /\ n \in 1..begun
      BY <1>1, <1>2, <1>3, <2>3, <3>1 DEF Knows, Procs
    <3>3. Alive(<<r.id, n>>)'
      BY <3>1 DEF Alive
    <3>4. Alive(<<r.id, n>>) /\ Survives(r.id) /\ proc'[r.id] # Nothing
      BY <1>4, <3>2, <3>3
    <3> QED BY <2>2, <2>3, <3>1, <3>4 DEF Alive, Survives
  <2> QED BY <2>2, <2>3
<1> QED BY <1>1, <1>2, <1>5, <1>6 DEF Knows

(* A new process, about which nothing is known.                            *)
LEMMA BeginProcessInv ==
  ASSUME InstInv, NEW i \in Id, NEW p \in Procs, BeginProcess(i, p),
         p.kind # "none", p.seen = {}, p.pc \notin {"fill", "rewrite", "flush", "serve"},
         p.job # "unregister",
         p.kind \in {"bare", "other"} => p.pc = "none",
         p.kind = "server" => p.pc = "exists" /\ p.place \in Place /\ p.job = "register",
         p.kind = "command" =>
           /\ p.pc = "list" /\ p.job \in {"list", "stop", "stop_all"}
           /\ p.job = "list" => p.before = {}
           /\ \A b \in p.before :
                /\ b[1] \in Serving /\ b[2] = proc[b[1]].no /\ b[1][1] = i[1]
                /\ p.job = "stop" => proc[b[1]].place = p.place
  PROVE  InstInv'
<1>1. /\ proc[i] = Nothing /\ begun' = begun + 1 /\ begun' \in 1..MaxProcesses
      /\ begun \in Nat /\ file' = file /\ lock' = lock /\ kills' = kills /\ damage' = damage
  <2>1. begun \in 0..MaxProcesses /\ MaxProcesses \in Nat
    BY InstancesAssumption DEF InstInv, InstTyped
  <2>2. begun < MaxProcesses /\ begun' = begun + 1
    BY DEF BeginProcess
  <2> QED BY <2>1, <2>2 DEF BeginProcess
<1>2. PICK new \in Procs :
        /\ proc' = [proc EXCEPT ![i] = new]
        /\ new.kind = p.kind /\ new.pc = p.pc /\ new.job = p.job /\ new.place = p.place
        /\ new.recs = p.recs /\ new.seen = p.seen /\ new.before = p.before
        /\ new.no = begun + 1
  <2> DEFINE n == [p EXCEPT !.no = begun + 1]
  <2>1. n \in Procs
    BY <1>1 DEF Procs
  <2>2. proc' = [proc EXCEPT ![i] = n]
    BY DEF BeginProcess
  <2>3. /\ n.kind = p.kind /\ n.pc = p.pc /\ n.job = p.job /\ n.place = p.place
        /\ n.recs = p.recs /\ n.seen = p.seen /\ n.before = p.before /\ n.no = begun + 1
    BY DEF Procs
  <2> HIDE DEF n
  <2> QED BY <2>1, <2>2, <2>3
<1>3. proc' \in [Id -> Procs] /\ proc'[i] = new /\ \A k \in Id \ {i} : proc'[k] = proc[k]
  BY <1>2 DEF InstInv, InstTyped
<1>4. InstTyped'
  <2>1. begun' \in 0..MaxProcesses
    BY <1>1, InstancesAssumption
  <2> QED BY <1>1, <1>3, <2>1 DEF InstInv, InstTyped
<1>5. \A k \in Id : KindOK(proc[k])'
  <2>1. KindOK(proc[i])'
    BY <1>1, <1>2, <1>3 DEF KindOK
  <2>2. ASSUME NEW k \in Id \ {i} PROVE KindOK(proc[k])'
    <3>1. KindOK(proc[k]) /\ proc'[k] = proc[k]
      BY <1>3 DEF InstInv
    <3> QED BY <1>1, <3>1 DEF KindOK
  <2> QED BY <2>1, <2>2
<1>6. proc[i].pc = "none" /\ proc[i].kind = "none"
  BY <1>1, NothingIs
<1>7. Locked'
  BY <1>1, <1>2, <1>3, <1>6 DEF InstInv, Locked
<1>8. Registered' = Registered /\ Busy' = Busy /\ Writing' = Writing
  BY <1>2, <1>3, <1>6 DEF Registered, Leaving, Busy, Writing
<1>9. \A s \in Registered : proc'[s] = proc[s] /\ s # i
  BY <1>3, <1>6 DEF Registered, Leaving
<1>10. ASSUME damage = {} PROVE FileIntact' /\ \A k \in Id : InHand(k)'
  <2>1. ASSUME NEW recs, Lists(recs) PROVE Lists(recs)'
    BY <1>8, <1>9, <2>1 DEF Lists, RecordOf
  <2>2. FileIntact'
    <3>1. FileIntact
      BY <1>10 DEF InstInv
    <3>2. Lists(file.recs) => Lists(file.recs)'
      BY <1>1, <2>1
    <3> QED BY <1>1, <1>8, <3>1, <3>2 DEF FileIntact
  <2>3. ASSUME NEW k \in Id PROVE InHand(k)'
    <3>1. CASE k = i
      BY <1>2, <1>3, <3>1 DEF InHand
    <3>2. CASE k # i
      <4>1. InHand(k) /\ proc'[k] = proc[k]
        BY <1>3, <1>10, <3>2 DEF InstInv
      <4>2. Lists(proc[k].recs) => Lists(proc[k].recs)'
        BY <2>1, <4>1 DEF Lists, RecordOf
      <4> QED BY <1>1, <1>8, <4>1, <4>2 DEF InHand, RecordOf
    <3> QED BY <3>1, <3>2
  <2> QED BY <2>2, <2>3
<1>11. ASSUME damage = {}, NEW k \in Id PROVE Knows(k)'
  <2>1. CASE k = i
    <3> SUFFICES ASSUME p.kind = "command" PROVE Knows(k)'
      BY <1>2, <1>3, <2>1 DEF Knows
    <3>1. ASSUME NEW b \in p.before
          PROVE  /\ b[2] \in 1..begun' /\ proc'[b[1]].kind = "server" /\ b[1][1] = i[1]
                 /\ proc'[b[1]].pc = "serve"
                 /\ p.job = "stop" => proc'[b[1]].place = p.place
      <4>1. b[1] \in Id /\ b[1] # i /\ proc[b[1]].kind = "server" /\ proc[b[1]].pc = "serve"
        BY <1>6, <3>1 DEF Serving, Servers
      <4>2. proc[b[1]].no \in 1..begun
        BY <4>1, WhoIs
      <4> QED BY <1>1, <1>3, <3>1, <4>1, <4>2
    <3>2. /\ proc'[k].before = p.before /\ proc'[k].seen = {} /\ proc'[k].pc = "list"
          /\ proc'[k].place = p.place /\ proc'[k].job = p.job
      BY <1>2, <1>3, <2>1
    <3>3. p.job = "list" => p.before = {}
      OBVIOUS
    <3>4. \A b \in proc'[k].before \cup proc'[k].seen : b[2] \in 1..begun'
      BY <3>1, <3>2
    <3>5. \A b \in proc'[k].before :
            /\ proc'[b[1]].kind = "server" /\ b[1][1] = k[1]
            /\ proc'[b[1]].pc = "serve" \/ proc'[b[1]].job = "unregister"
            /\ proc'[k].job = "stop" => proc'[b[1]].place = proc'[k].place
      BY <2>1, <3>1, <3>2
    <3> QED BY <3>2, <3>3, <3>4, <3>5 DEF Knows
  <2>2. CASE k # i
    <3> SUFFICES ASSUME proc[k].kind = "command" PROVE Knows(k)'
      BY <1>3, <2>2 DEF Knows
    <3>1. Knows(k) /\ proc'[k] = proc[k] /\ proc[k] \in Procs
      BY <1>3, <1>11, <2>2, WhoIs DEF InstInv
    <3>2. ASSUME NEW b \in Id \X Nat, b[2] \in 1..begun, Alive(b)'
          PROVE  Alive(b) /\ proc'[b[1]] = proc[b[1]]
      <4>1. b[1] # i
        BY <1>1, <1>2, <1>3, <3>2 DEF Alive
      <4> QED BY <1>3, <3>2, <4>1 DEF Alive
    <3>3. \A b \in proc[k].before \cup proc[k].seen : b \in Id \X Nat /\ b[2] \in 1..begun
      BY <3>1 DEF Knows, Procs
    <3>4. ASSUME NEW b \in proc[k].before, Alive(b)'
          PROVE  /\ proc[k].pc = "list" =>
                      /\ proc'[b[1]].kind = "server" /\ b[1][1] = k[1]
                      /\ proc'[b[1]].pc = "serve" \/ proc'[b[1]].job = "unregister"
                      /\ proc[k].job = "stop" => proc'[b[1]].place = proc[k].place
                 /\ proc[k].pc = "kill" => \E r \in proc[k].recs : r.id = b[1]
      <4>1. Alive(b) /\ proc'[b[1]] = proc[b[1]]
        BY <3>2, <3>3, <3>4
      <4> QED BY <3>1, <4>1 DEF Knows
    <3>5. ASSUME proc[k].pc = "kill", NEW r \in proc[k].recs,
                 <<r.id, proc'[r.id].no>> \in proc[k].seen
          PROVE  r.place = proc'[r.id].place
      <4>1. PICK n : n = proc'[r.id].no
        OBVIOUS
      <4>2. Alive(<<r.id, n>>)'
        BY <4>1 DEF Alive
      <4>3. Alive(<<r.id, n>>) /\ proc'[r.id] = proc[r.id]
        BY <3>2, <3>3, <3>5, <4>1, <4>2
      <4> QED BY <3>1, <3>5, <4>1, <4>3 DEF Knows
    <3>6. \A b \in proc[k].before \cup proc[k].seen : b[2] \in 1..begun'
      BY <1>1, <3>3
    <3>7. /\ proc[k].pc = "list" => proc[k].seen = {}
          /\ proc[k].job = "list" => proc[k].before = {} /\ proc[k].pc = "list"
          /\ proc[k].pc = "kill" /\ proc[k].job = "stop" =>
               \A r \in proc[k].recs : r.place = proc[k].place
      BY <3>1 DEF Knows
    <3>8. proc'[k] = proc[k]
      BY <3>1
    <3> QED BY <3>4, <3>5, <3>6, <3>7, <3>8 DEF Knows
  <2> QED BY <2>1, <2>2
<1> QED BY <1>1, <1>4, <1>5, <1>7, <1>10, <1>11 DEF InstInv

LEMMA StartServerInv ==
  ASSUME InstInv, NEW i \in Id, NEW place \in Place, StartServer(i, place)
  PROVE  InstInv'
<1> DEFINE p == [Nothing EXCEPT !.kind = "server", !.pc = "exists",
                                !.job = "register", !.place = place]
<1>1. p \in Procs
  BY NothingIs DEF Procs
<1>2. /\ p.kind = "server" /\ p.pc = "exists" /\ p.job = "register" /\ p.place = place
      /\ p.seen = {}
  BY NothingIs DEF Procs
<1>3. BeginProcess(i, p)
  BY DEF StartServer
<1> HIDE DEF p
<1> QED BY <1>1, <1>2, <1>3, BeginProcessInv

LEMMA StartOtherInv ==
  ASSUME InstInv, NEW i \in Id, StartOther(i)
  PROVE  InstInv'
<1>1. PICK k \in {"bare", "other"} : BeginProcess(i, [Nothing EXCEPT !.kind = k])
  BY DEF StartOther
<1> DEFINE p == [Nothing EXCEPT !.kind = k]
<1>2. p \in Procs
  BY NothingIs DEF Procs
<1>3. p.kind = k /\ p.pc = "none" /\ p.job = "none" /\ p.seen = {}
  BY NothingIs DEF Procs
<1>4. BeginProcess(i, p)
  BY <1>1
<1> HIDE DEF p
<1> QED BY <1>2, <1>3, <1>4, BeginProcessInv

LEMMA StartCommandInv ==
  ASSUME InstInv, NEW i \in Id, NEW place \in Place, NEW job \in {"list", "stop", "stop_all"},
         StartCommand(i, job, place)
  PROVE  InstInv'
<1>1. PICK before : before = IF job = "list" THEN {}
                      ELSE {<<s, proc[s].no>> : s \in
                             {s \in Serving : s[1] = i[1] /\ (job = "stop" => proc[s].place = place)}}
  OBVIOUS
<1> DEFINE p == [Nothing EXCEPT !.kind = "command", !.pc = "list", !.job = job,
                                !.place = place, !.before = before]
<1>2. before \in SUBSET (Id \X Nat)
  <2>1. \A s \in Serving : s \in Id /\ proc[s].no \in Nat
    BY DEF Serving, Servers, InstInv, InstTyped, Procs
  <2> QED BY <1>1, <2>1
<1>3. p \in Procs
  BY <1>2, NothingIs DEF Procs
<1>4. /\ p.kind = "command" /\ p.pc = "list" /\ p.job = job /\ p.place = place
      /\ p.seen = {} /\ p.before = before
  BY NothingIs DEF Procs
<1>5. BeginProcess(i, p)
  BY <1>1 DEF StartCommand
<1>6. \A b \in before : /\ b[1] \in Serving /\ b[2] = proc[b[1]].no /\ b[1][1] = i[1]
                        /\ job = "stop" => proc[b[1]].place = place
  BY <1>1
<1>7. job = "list" => before = {}
  BY <1>1
<1> HIDE DEF p
<1> QED BY <1>3, <1>4, <1>5, <1>6, <1>7, BeginProcessInv

LEMMA GoesOnInv ==
  ASSUME InstInv, \A k \in Id : GoesOn(k), InstTyped', \A k \in Id : KindOK(proc[k])',
         Locked', begun' = begun, damage \subseteq damage',
         damage' = {} => FileIntact' /\ \A k \in Id : InHand(k)'
  PROVE  InstInv'
<1>1. ASSUME damage' = {}, NEW k \in Id PROVE Knows(k)'
  <2>1. damage = {}
    BY <1>1
  <2> QED BY <2>1, KnowsKept DEF GoesOn
<1> QED BY <1>1 DEF InstInv

(* What else a step may do while a process ends.                           *)
Keeps(k, j) ==
  \/ proc'[k] = proc[k]
  \/ /\ proc[k].kind = "command" /\ proc'[k].kind = "command"
     /\ proc'[k].pc = proc[k].pc /\ proc'[k].job = proc[k].job
     /\ proc'[k].place = proc[k].place /\ proc'[k].no = proc[k].no
     /\ proc'[k].before = proc[k].before /\ proc'[k].seen = proc[k].seen
     /\ proc'[k].recs \subseteq proc[k].recs
     /\ \A r \in proc[k].recs \ proc'[k].recs : r.id = j

(* A process ends and leaves the file as it is.                            *)
LEMMA EndedInv ==
  ASSUME InstInv, NEW j \in Id, proc' \in [Id -> Procs], proc'[j] = Nothing,
         \A k \in Id \ {j} : Keeps(k, j),
         lock' = IF lock = j THEN Nobody ELSE lock,
         file' = file, begun' = begun, kills' \in 0..MaxKills,
         damage' \subseteq {"created twice", "cut", "same pid"}, damage \subseteq damage',
         j \in Writing => damage' # {}
  PROVE  InstInv'
<1>1. InstTyped'
  <2>1. /\ lock \in Id \cup {Nobody} /\ file \in Files
        /\ begun \in 0..MaxProcesses
    BY DEF InstInv, InstTyped
  <2> QED BY <2>1 DEF InstTyped
<1>2. \A k \in Id : GoesOn(k)
  <2>1. GoesOn(j)
    BY DEF GoesOn, Survives
  <2>2. ASSUME NEW k \in Id \ {j} PROVE GoesOn(k)
    <3>1. CASE proc'[k] = proc[k]
      BY <3>1 DEF GoesOn, Survives
    <3>2. CASE proc'[k] # proc[k]
      BY <3>2 DEF Keeps, GoesOn, Survives
    <3> QED BY <3>1, <3>2
  <2> QED BY <2>1, <2>2
<1>3. ASSUME NEW k \in Id PROVE KindOK(proc[k])'
  <2>1. CASE k = j
    BY <2>1, NothingIs DEF KindOK
  <2>2. CASE k # j /\ proc'[k] = proc[k]
    BY <2>2 DEF InstInv, KindOK
  <2>3. CASE k # j /\ proc'[k] # proc[k]
    <3>1. KindOK(proc[k]) /\ Keeps(k, j)
      BY <2>3 DEF InstInv
    <3> QED BY <2>3, <3>1 DEF Keeps, KindOK
  <2> QED BY <2>1, <2>2, <2>3
<1>4. ASSUME NEW k \in Id \ {j}
      PROVE  /\ proc'[k].pc = proc[k].pc /\ proc'[k].kind = proc[k].kind
             /\ proc'[k].job = proc[k].job /\ proc'[k].place = proc[k].place
             /\ proc[k].kind # "command" => proc'[k] = proc[k]
  BY DEF Keeps
<1>5. Locked'
  <2>1. proc'[j].pc = "none"
    BY NothingIs
  <2>2. Nobody \notin Id
    BY InstancesAssumption DEF Id
  <2> QED BY <1>4, <2>1, <2>2 DEF InstInv, Locked
<1>6. /\ Registered' = Registered \ {j} /\ Busy' = Busy \ {j}
      /\ Writing' = Writing \ {j}
  <2>1. Busy' = Busy \ {j} /\ Writing' = Writing \ {j}
    BY <1>4, NothingIs DEF Busy, Writing
  <2>2. \A k \in Id \ {j} : Leaving(proc[k])' <=> Leaving(proc[k])
    BY <1>4 DEF Leaving
  <2>3. ~Leaving(proc[j])' /\ proc'[j].pc # "serve"
    BY NothingIs DEF Leaving
  <2>4. Registered' = Registered \ {j}
    BY <1>4, <2>2, <2>3 DEF Registered
  <2> QED BY <2>1, <2>4
<1>7. ASSUME damage' = {} PROVE FileIntact' /\ \A k \in Id : InHand(k)'
  <2>1. damage = {} /\ FileIntact /\ j \notin Writing
    BY <1>7 DEF InstInv
  <2>2. \A k \in Id \ {j} : RecordOf(k)' = RecordOf(k)
    BY <1>4 DEF RecordOf
  <2>3. ASSUME NEW recs, Lists(recs)
        PROVE  \A k \in Registered' :
                 RecordOf(k)' \in recs /\ \A r \in recs : r.id = k => r = RecordOf(k)'
    <3>1. \A k \in Registered' : k \in Registered /\ k \in Id \ {j}
      BY <1>6 DEF Registered
    <3> QED BY <2>2, <2>3, <3>1 DEF Lists
  <2>4. FileIntact'
    <3>1. Writing' = Writing
      BY <1>6, <2>1
    <3>2. Lists(file.recs) => Lists(file.recs)'
      BY <2>3 DEF Lists
    <3> QED BY <1>6, <2>1, <3>1, <3>2 DEF FileIntact
  <2>5. ASSUME NEW k \in Id PROVE InHand(k)'
    <3>1. CASE k = j
      BY <3>1, NothingIs DEF InHand
    <3>2. CASE k # j /\ proc[k].pc \notin {"fill", "rewrite", "flush"}
      BY <1>4, <3>2 DEF InHand
    <3>3. CASE k # j /\ proc[k].pc \in {"fill", "rewrite", "flush"}
      <4>1. proc'[k] = proc[k] /\ InHand(k)
        BY <1>4, <2>1, <3>3, WhoIs DEF InstInv
      <4>2. Lists(proc[k].recs) => Lists(proc[k].recs)'
        <5>1. PICK recs : recs = proc[k].recs
          OBVIOUS
        <5>2. Lists(recs) => Lists(recs)'
          BY <2>3 DEF Lists
        <5> QED BY <4>1, <5>1, <5>2
      <4>3. Busy' = {k}
        BY <1>6, <3>3, <4>1 DEF InHand
      <4>4. RecordOf(k)' = RecordOf(k)
        BY <2>2, <3>3
      <4> QED BY <1>6, <4>1, <4>2, <4>3, <4>4 DEF InHand
    <3> QED BY <3>1, <3>2, <3>3
  <2> QED BY <2>4, <2>5
<1> QED BY <1>1, <1>2, <1>3, <1>5, <1>7, GoesOnInv

(* The usual case: nobody else changes.                                    *)
LEMMA OverInv ==
  ASSUME InstInv, NEW i \in Id, Ended(i), UNCHANGED <<file, begun>>,
         kills' \in 0..MaxKills,
         damage' = damage \/ Cut(i), i \in Writing => Cut(i)
  PROVE  InstInv'
<1>1. proc \in [Id -> Procs] /\ damage \subseteq {"created twice", "cut", "same pid"}
  BY DEF InstInv, InstTyped
<1>2. /\ proc' \in [Id -> Procs] /\ proc'[i] = Nothing
      /\ \A k \in Id \ {i} : Keeps(k, i)
  BY <1>1, NothingIs DEF Ended, Keeps
<1>3. lock' = IF lock = i THEN Nobody ELSE lock
  BY DEF Ended
<1>4. /\ damage' \subseteq {"created twice", "cut", "same pid"} /\ damage \subseteq damage'
      /\ i \in Writing => damage' # {}
  BY <1>1 DEF Cut
<1> QED BY <1>2, <1>3, <1>4, EndedInv

LEMMA EndOtherInv ==
  ASSUME InstInv, NEW i \in Id, EndOther(i)
  PROVE  InstInv'
<1>1. i \notin Writing
  BY WhoIs DEF EndOther, Writing
<1>2. kills' \in 0..MaxKills
  BY DEF EndOther, InstInv, InstTyped
<1> QED BY <1>1, <1>2, OverInv DEF EndOther

LEMMA DieInv ==
  ASSUME InstInv, NEW i \in Id, Die(i)
  PROVE  InstInv'
<1>1. kills' \in 0..MaxKills
  <2>1. kills \in 0..MaxKills /\ MaxKills \in Nat
    BY InstancesAssumption DEF InstInv, InstTyped
  <2>2. kills < MaxKills /\ kills' = kills + 1
    BY DEF Die
  <2> QED BY <2>1, <2>2
<1> QED BY <1>1, OverInv DEF Die

LEMMA StopDoneInv ==
  ASSUME InstInv, NEW i \in Id, StopDone(i)
  PROVE  InstInv'
<1>1. i \notin Writing
  BY DEF StopDone, Writing
<1>2. kills' \in 0..MaxKills
  BY DEF StopDone, InstInv, InstTyped
<1> QED BY <1>1, <1>2, OverInv DEF StopDone

LEMMA KillOneInv ==
  ASSUME InstInv, NEW i \in Id, KillOne(i)
  PROVE  InstInv'
<1>1. proc[i].pc = "kill" /\ file' = file /\ begun' = begun /\ kills' = kills
  BY DEF KillOne
<1>2. kills' \in 0..MaxKills
  BY <1>1 DEF InstInv, InstTyped
<1>3. PICK r \in proc[i].recs :
        \/ Ended(i) /\ UNCHANGED damage
        \/ /\ proc' = [[proc EXCEPT ![i].recs = proc[i].recs \ {r}] EXCEPT ![r.id] = Nothing]
           /\ lock' = IF lock = r.id THEN Nobody ELSE lock
           /\ Cut(r.id)
  BY DEF KillOne
<1>4. CASE Ended(i) /\ UNCHANGED damage
  <2>1. i \notin Writing
    BY <1>1 DEF Writing
  <2> QED BY <1>1, <1>2, <1>4, <2>1, OverInv
<1>5. CASE /\ proc' = [[proc EXCEPT ![i].recs = proc[i].recs \ {r}] EXCEPT ![r.id] = Nothing]
           /\ lock' = IF lock = r.id THEN Nobody ELSE lock
           /\ Cut(r.id)
  <2>1. proc \in [Id -> Procs] /\ damage \subseteq {"created twice", "cut", "same pid"}
    BY DEF InstInv, InstTyped
  <2>2. r.id \in Id /\ proc[i].kind = "command"
    BY <1>1, <2>1, WhoIs DEF Procs, Record
  <2>3. PICK new \in Procs :
          /\ new = [proc[i] EXCEPT !.recs = proc[i].recs \ {r}]
          /\ new.kind = proc[i].kind /\ new.pc = proc[i].pc /\ new.job = proc[i].job
          /\ new.place = proc[i].place /\ new.no = proc[i].no
          /\ new.before = proc[i].before /\ new.seen = proc[i].seen
          /\ new.recs = proc[i].recs \ {r}
    <3> DEFINE n == [proc[i] EXCEPT !.recs = proc[i].recs \ {r}]
    <3>0. proc[i] \in Procs
      BY <2>1
    <3>1. n \in Procs
      BY <3>0 DEF Procs
    <3>2. /\ n.kind = proc[i].kind /\ n.pc = proc[i].pc /\ n.job = proc[i].job
          /\ n.place = proc[i].place /\ n.no = proc[i].no
          /\ n.before = proc[i].before /\ n.seen = proc[i].seen
          /\ n.recs = proc[i].recs \ {r}
      BY <3>0 DEF Procs
    <3> HIDE DEF n
    <3> QED BY <3>1, <3>2 DEF n
  <2>4. PICK mid \in [Id -> Procs] :
          /\ mid[i] = new /\ \A k \in Id \ {i} : mid[k] = proc[k]
          /\ proc' = [mid EXCEPT ![r.id] = Nothing]
    <3> DEFINE m == [proc EXCEPT ![i].recs = proc[i].recs \ {r}]
    <3>1. m = [proc EXCEPT ![i] = new]
      BY <2>1, <2>3
    <3>2. m \in [Id -> Procs] /\ m[i] = new /\ \A k \in Id \ {i} : m[k] = proc[k]
      BY <2>1, <3>1
    <3>3. proc' = [m EXCEPT ![r.id] = Nothing]
      BY <1>5
    <3> HIDE DEF m
    <3> QED BY <3>2, <3>3
  <2>5. proc' \in [Id -> Procs] /\ proc'[r.id] = Nothing
    BY <2>2, <2>4, NothingIs
  <2>6. ASSUME NEW k \in Id \ {r.id} PROVE Keeps(k, r.id)
    <3>1. proc'[k] = mid[k]
      BY <2>2, <2>4
    <3> QED BY <2>2, <2>3, <2>4, <3>1 DEF Keeps
  <2>7. /\ damage' \subseteq {"created twice", "cut", "same pid"} /\ damage \subseteq damage'
        /\ r.id \in Writing => damage' # {}
    BY <1>5, <2>1 DEF Cut
  <2> QED BY <1>1, <1>2, <1>5, <2>2, <2>5, <2>6, <2>7, EndedInv
<1> QED BY <1>3, <1>4, <1>5

(* A server goes on.                                                       *)
ServerPcs == {"exists", "make", "fill", "lock", "rewrite", "flush", "serve"}
Steps(i, to, job, recs) ==
  /\ proc' \in [Id -> Procs]
  /\ \A k \in Id \ {i} : proc'[k] = proc[k]
  /\ proc[i].kind = "server" /\ proc'[i].kind = "server"
  /\ proc'[i].place = proc[i].place /\ proc'[i].no = proc[i].no
  /\ proc'[i].before = proc[i].before /\ proc'[i].seen = proc[i].seen
  /\ proc'[i].pc = to /\ proc'[i].job = job /\ proc'[i].recs = recs

LEMMA ServerStepInv ==
  ASSUME InstInv, NEW i \in Id, NEW to \in ServerPcs, NEW job \in {"register", "unregister"},
         NEW recs, Steps(i, to, job, recs), to = "serve" => job = "register",
         proc[i].pc = "serve" \/ proc[i].job = "unregister" => to = "serve" \/ job = "unregister",
         lock' \in Id \cup {Nobody}, Locked', file' \in Files, begun' = begun, kills' = kills,
         damage' \subseteq {"created twice", "cut", "same pid"}, damage \subseteq damage',
         damage' = {} => FileIntact' /\ \A k \in Id : InHand(k)'
  PROVE  InstInv'
<1>1. InstTyped'
  <2>1. begun \in 0..MaxProcesses /\ kills \in 0..MaxKills
    BY DEF InstInv, InstTyped
  <2> QED BY <2>1 DEF InstTyped, Steps
<1>2. \A k \in Id : GoesOn(k)
  <2>1. GoesOn(i)
    BY DEF GoesOn, Survives, Steps
  <2>2. ASSUME NEW k \in Id \ {i} PROVE GoesOn(k)
    BY DEF GoesOn, Survives, Steps
  <2> QED BY <2>1, <2>2
<1>3. ASSUME NEW k \in Id PROVE KindOK(proc[k])'
  <2>1. KindOK(proc[k])
    BY DEF InstInv
  <2>2. CASE k = i
    BY <2>1, <2>2 DEF Steps, KindOK, ServerPcs
  <2>3. CASE k # i
    BY <2>1, <2>3 DEF Steps, KindOK
  <2> QED BY <2>2, <2>3
<1> QED BY <1>1, <1>2, <1>3, GoesOnInv

(* Steps away from the file.                                               *)
LEMMA AwayInv ==
  ASSUME InstInv, NEW i \in Id, NEW to \in {"exists", "make", "lock"},
         NEW job \in {"register", "unregister"}, Steps(i, to, job, proc[i].recs),
         proc[i].pc \in {"serve", "exists"},
         proc[i].pc = "serve" => job = "unregister",
         proc[i].pc = "exists" => job = proc[i].job,
         UNCHANGED <<file, lock, begun, kills, damage>>
  PROVE  InstInv'
<1>1. /\ lock \in Id \cup {Nobody} /\ file \in Files
      /\ damage \subseteq {"created twice", "cut", "same pid"}
  BY DEF InstInv, InstTyped
<1>2. Locked'
  BY DEF InstInv, Locked, Steps
<1>3. Registered' = Registered
  <2>1. i \in Registered <=> job = "unregister"
    BY DEF Registered, Leaving, Steps
  <2>2. (proc'[i].pc = "serve" \/ Leaving(proc[i])') <=> job = "unregister"
    BY DEF Leaving, Steps
  <2>3. \A k \in Id \ {i} : (proc'[k].pc = "serve" \/ Leaving(proc[k])') <=>
                             (proc[k].pc = "serve" \/ Leaving(proc[k]))
    BY DEF Steps, Leaving
  <2> QED BY <2>1, <2>2, <2>3 DEF Registered
<1>4. Busy' = Busy /\ Writing' = Writing
  BY DEF Busy, Writing, Steps
<1>5. \A k \in Id : RecordOf(k)' = RecordOf(k)
  BY DEF Steps, RecordOf
<1>6. ASSUME damage = {} PROVE FileIntact' /\ \A k \in Id : InHand(k)'
  <2>1. FileIntact'
    <3>1. Lists(file.recs)' <=> Lists(file.recs)
      BY <1>3, <1>5 DEF Lists, Registered
    <3> QED BY <1>3, <1>4, <1>6, <3>1 DEF InstInv, FileIntact
  <2>2. ASSUME NEW k \in Id PROVE InHand(k)'
    <3>1. CASE k = i
      BY <3>1 DEF InHand, Steps
    <3>2. CASE k # i
      <4>1. proc'[k] = proc[k] /\ InHand(k)
        BY <1>6, <3>2 DEF InstInv, Steps
      <4>2. Lists(proc[k].recs)' <=> Lists(proc[k].recs)
        BY <1>3, <1>5, <4>1 DEF Lists, Registered
      <4> QED BY <1>3, <1>4, <1>5, <4>1, <4>2 DEF InHand
    <3> QED BY <3>1, <3>2
  <2> QED BY <2>1, <2>2
<1>7. \/ proc[i].job # "unregister" \/ proc[i].pc = "serve" \/ job = "unregister"
  OBVIOUS
<1>8. to \in ServerPcs /\ (proc[i].pc = "serve" \/ proc[i].job = "unregister" => job = "unregister")
  BY DEF ServerPcs
<1>9. PICK recs : recs = proc[i].recs
  OBVIOUS
<1> QED BY <1>1, <1>2, <1>6, <1>8, <1>9, ServerStepInv

LEMMA InterruptServerInv ==
  ASSUME InstInv, NEW i \in Id, InterruptServer(i)
  PROVE  InstInv'
<1>1. proc[i].pc = "serve" /\ proc[i] \in Procs /\ proc \in [Id -> Procs] /\ proc[i].kind = "server"
  BY DEF InterruptServer, Serving, Servers, InstInv, InstTyped
<1> DEFINE n == [proc[i] EXCEPT !.pc = "exists", !.job = "unregister"]
<1>2. n \in Procs
  BY <1>1 DEF Procs
<1>3. /\ n.kind = proc[i].kind /\ n.place = proc[i].place /\ n.no = proc[i].no
      /\ n.before = proc[i].before /\ n.seen = proc[i].seen /\ n.recs = proc[i].recs
      /\ n.pc = "exists" /\ n.job = "unregister"
  BY <1>1 DEF Procs
<1>4. proc' = [proc EXCEPT ![i] = n]
  BY DEF InterruptServer
<1> HIDE DEF n
<1>5. Steps(i, "exists", "unregister", proc[i].recs)
  BY <1>1, <1>2, <1>3, <1>4 DEF Steps
<1> QED BY <1>1, <1>5, AwayInv DEF InterruptServer

LEMMA GotoIs ==
  ASSUME InstInv, NEW i \in Id, proc[i].kind = "server",
         NEW to \in ServerPcs, Goto(i, to)
  PROVE  Steps(i, to, proc[i].job, proc[i].recs)
<1>1. proc[i] \in Procs /\ proc \in [Id -> Procs]
  BY DEF InstInv, InstTyped
<1> DEFINE n == [proc[i] EXCEPT !.pc = to]
<1>2. n \in Procs
  BY <1>1 DEF Procs, ServerPcs
<1>3. /\ n.kind = proc[i].kind /\ n.place = proc[i].place /\ n.no = proc[i].no
      /\ n.before = proc[i].before /\ n.seen = proc[i].seen /\ n.recs = proc[i].recs
      /\ n.pc = to /\ n.job = proc[i].job
  BY <1>1 DEF Procs
<1>4. proc' = [proc EXCEPT ![i] = n]
  BY <1>1 DEF Goto
<1> HIDE DEF n
<1> QED BY <1>1, <1>2, <1>3, <1>4 DEF Steps

LEMMA LookForFileInv ==
  ASSUME InstInv, NEW i \in Id, LookForFile(i)
  PROVE  InstInv'
<1>1. proc[i].pc = "exists" /\ UNCHANGED <<file, lock, begun, kills, damage>>
  BY DEF LookForFile
<1>2. proc[i].kind = "server" /\ proc[i].job \in {"register", "unregister"}
  BY <1>1, WhoIs DEF InstInv, KindOK
<1>3. PICK to \in {"make", "lock"} : Goto(i, to)
  BY DEF LookForFile
<1>4. Steps(i, to, proc[i].job, proc[i].recs)
  BY <1>2, <1>3, GotoIs DEF ServerPcs
<1>5. PICK job \in {"register", "unregister"} : job = proc[i].job
  BY <1>2
<1> QED BY <1>1, <1>3, <1>4, <1>5, AwayInv

LEMMA MakeFileInv ==
  ASSUME InstInv, NEW i \in Id, MakeFile(i)
  PROVE  InstInv'
<1>1. /\ proc[i].pc = "make" /\ lock' = lock /\ begun' = begun /\ kills' = kills
      /\ file' = InstFile("empty", {})
      /\ damage' = IF file.state = "absent" THEN damage ELSE damage \cup {"created twice"}
  BY DEF MakeFile
<1>2. proc[i].kind = "server" /\ proc[i].job \in {"register", "unregister"}
  BY <1>1, WhoIs DEF InstInv, KindOK
<1>3. Steps(i, "fill", proc[i].job, proc[i].recs)
  BY <1>2, GotoIs DEF MakeFile, ServerPcs
<1>4. /\ lock \in Id \cup {Nobody}
      /\ damage \subseteq {"created twice", "cut", "same pid"}
  BY DEF InstInv, InstTyped
<1>5. file' \in Files /\ file'.state = "empty"
  BY <1>1, InstFileIs
<1>6. Locked'
  BY <1>1, <1>3 DEF InstInv, Locked, Steps
<1>7. ASSUME damage' = {} PROVE FileIntact' /\ \A k \in Id : InHand(k)'
  <2>1. damage = {} /\ Busy = {} /\ Registered = {}
    BY <1>1, <1>7 DEF InstInv, FileIntact
  <2>2. proc[i].job = "register"
    BY <1>1, <1>2, <2>1 DEF Registered, Leaving
  <2>3. Busy' = {i} /\ Writing' = {i}
    BY <1>3, <2>1 DEF Busy, Writing, Steps
  <2>4. Registered' = {}
    BY <1>3, <2>1, <2>2 DEF Registered, Leaving, Steps
  <2>5. FileIntact'
    BY <1>5, <2>3 DEF FileIntact
  <2>6. ASSUME NEW k \in Id PROVE InHand(k)'
    <3>1. CASE k = i
      BY <1>3, <1>5, <2>2, <2>3, <2>4, <3>1 DEF InHand, Steps
    <3>2. CASE k # i
      BY <2>3, <3>2 DEF InHand, Busy
    <3> QED BY <3>1, <3>2
  <2> QED BY <2>5, <2>6
<1>8. PICK job, recs : job = proc[i].job /\ recs = proc[i].recs /\ job \in {"register", "unregister"}
  BY <1>2
<1>9. \A to : to = "fill" => to \in ServerPcs /\ to # "serve"
  BY DEF ServerPcs
<1>10. proc[i].pc # "serve" /\ damage \subseteq damage'
       /\ damage' \subseteq {"created twice", "cut", "same pid"}
  BY <1>1, <1>4
<1> QED BY <1>1, <1>3, <1>4, <1>5, <1>6, <1>7, <1>8, <1>9, <1>10, ServerStepInv

LEMMA FillInv ==
  ASSUME InstInv, NEW i \in Id, Fill(i)
  PROVE  InstInv'
<1>1. /\ proc[i].pc = "fill" /\ lock' = lock /\ begun' = begun /\ kills' = kills
      /\ file' \in Overwrite({}) /\ damage' = damage
  BY DEF Fill
<1>2. proc[i].kind = "server" /\ proc[i].job \in {"register", "unregister"}
  BY <1>1, WhoIs DEF InstInv, KindOK
<1>3. Steps(i, "lock", proc[i].job, proc[i].recs)
  BY <1>2, GotoIs DEF Fill, ServerPcs
<1>4. /\ lock \in Id \cup {Nobody}
      /\ damage \subseteq {"created twice", "cut", "same pid"}
  BY DEF InstInv, InstTyped
<1>5. file' \in Files
  BY <1>1, OverwriteIs, InstFileIs
<1>6. Locked'
  BY <1>1, <1>3 DEF InstInv, Locked, Steps
<1>7. ASSUME damage = {} PROVE FileIntact' /\ \A k \in Id : InHand(k)'
  <2>1. Busy = {i} /\ file.state = "empty" /\ Registered = {} /\ proc[i].job = "register"
    BY <1>1, <1>7 DEF InstInv, InHand
  <2>2. file' = InstFile("ok", {})
    BY <1>1, <2>1, OverwriteIs
  <2>3. file'.state = "ok"
    BY <2>2, InstFileIs
  <2>4. Busy' = {}
    BY <1>3, <2>1 DEF Busy, Steps
  <2>5. Registered' = {}
    BY <1>3, <2>1 DEF Registered, Leaving, Steps
  <2>6. FileIntact'
    BY <2>3, <2>5 DEF FileIntact, Lists
  <2>7. \A k \in Id : InHand(k)'
    BY <2>4 DEF InHand, Busy
  <2> QED BY <2>6, <2>7
<1>8. PICK job, recs : job = proc[i].job /\ recs = proc[i].recs /\ job \in {"register", "unregister"}
  BY <1>2
<1>9. \A to : to = "lock" => to \in ServerPcs /\ to # "serve"
  BY DEF ServerPcs
<1> QED BY <1>1, <1>3, <1>4, <1>5, <1>6, <1>7, <1>8, <1>9, ServerStepInv

(* Nobody has the file in hand when it is whole and not locked.            *)
LEMMA AtRest ==
  ASSUME InstInv, damage = {}, lock = Nobody, file.state = "ok"
  PROVE  Busy = {} /\ Writing = {} /\ Lists(file.recs)
<1>1. ASSUME NEW k \in Busy PROVE FALSE
  <2>1. k \in Id /\ InHand(k) /\ proc[k].pc \in {"fill", "rewrite", "flush"}
    BY DEF Busy, InstInv
  <2>2. proc[k].pc = "rewrite"
    BY <2>1 DEF InHand
  <2>3. lock = k
    BY <2>1, <2>2 DEF InstInv, Locked
  <2> QED BY <2>1, <2>3, InstancesAssumption DEF Id
<1>2. Writing = {}
  BY <1>1 DEF Writing, Busy
<1> QED BY <1>1, <1>2 DEF InstInv, FileIntact

LEMMA ReadInv ==
  ASSUME InstInv, NEW i \in Id, Read(i)
  PROVE  InstInv'
<1>1. /\ proc[i].pc = "lock" /\ lock = Nobody /\ UNCHANGED <<file, begun, kills>>
  BY DEF Read
<1>2. /\ proc[i].kind = "server" /\ proc[i].job \in {"register", "unregister"}
      /\ proc[i] \in Procs /\ proc \in [Id -> Procs] /\ file \in Files
      /\ damage \subseteq {"created twice", "cut", "same pid"}
  BY <1>1, WhoIs DEF InstInv, KindOK, InstTyped
<1>3. CASE Ended(i) /\ UNCHANGED damage
  <2>1. i \notin Writing /\ kills' \in 0..MaxKills
    BY <1>1 DEF Writing, InstInv, InstTyped
  <2> QED BY <1>1, <1>3, <2>1, OverInv
<1>4. CASE /\ ~Unreadable /\ lock' = i
           /\ proc' = [proc EXCEPT ![i] = [proc[i] EXCEPT !.pc = "rewrite",
               !.recs = {r \in Remaining(i) : CheckInstance(i[1], r)} \cup
                 (IF proc[i].job = "register" THEN {RecordOf(i)} ELSE {})]]
           /\ damage' = damage \cup
               (IF \E r \in file.recs \ Remaining(i) : r.id[1] # i[1]
                THEN {"same pid"} ELSE {})
  <2>1. PICK recs : recs = {r \in Remaining(i) : CheckInstance(i[1], r)} \cup
                 (IF proc[i].job = "register" THEN {RecordOf(i)} ELSE {})
    OBVIOUS
  <2>2. RecordOf(i) \in Record /\ RecordOf(i).id = i /\ Remaining(i) \subseteq file.recs
    <3>1. KindOK(proc[i])
      BY DEF InstInv
    <3> QED BY <1>2, <3>1 DEF RecordOf, Record, Remaining, KindOK
  <2>3. recs \subseteq Record
    BY <1>2, <2>1, <2>2 DEF Files
  <2>4. Steps(i, "rewrite", proc[i].job, recs)
    <3> DEFINE n == [proc[i] EXCEPT !.pc = "rewrite", !.recs = recs]
    <3>1. n \in Procs
      BY <1>2, <2>3 DEF Procs
    <3>2. /\ n.kind = proc[i].kind /\ n.place = proc[i].place /\ n.no = proc[i].no
          /\ n.before = proc[i].before /\ n.seen = proc[i].seen /\ n.recs = recs
          /\ n.pc = "rewrite" /\ n.job = proc[i].job
      BY <1>2 DEF Procs
    <3>3. proc' = [proc EXCEPT ![i] = n]
      BY <1>4, <2>1
    <3> HIDE DEF n
    <3> QED BY <1>2, <3>1, <3>2, <3>3 DEF Steps
  <2>5. Locked'
    <3>1. \A k \in Id \ {i} : proc'[k].pc # "rewrite"
      BY <1>1, <2>4, InstancesAssumption DEF InstInv, Locked, Steps, Id
    <3> QED BY <1>4, <2>4, <3>1 DEF Locked, Steps
  <2>6. ASSUME damage' = {} PROVE FileIntact' /\ \A k \in Id : InHand(k)'
    <3>1. damage = {} /\ \A r \in file.recs \ Remaining(i) : r.id[1] = i[1]
      BY <1>4, <2>6
    <3>2. file.state = "ok" /\ Busy = {} /\ Writing = {} /\ Lists(file.recs)
      BY <1>1, <1>4, <3>1, AtRest DEF Unreadable
    <3>3. Busy' = {i} /\ Writing' = {}
      BY <2>4, <3>2 DEF Busy, Writing, Steps
    <3>4. /\ Registered' \subseteq Registered \ {i}
          /\ \A k \in Id : RecordOf(k)' = RecordOf(k)
      <4>1. proc'[i].pc # "serve" /\ ~Leaving(proc[i])'
        BY <2>4 DEF Steps, Leaving
      <4>2. \A k \in Id \ {i} : Leaving(proc[k])' <=> Leaving(proc[k])
        BY <2>4 DEF Steps, Leaving
      <4>3. \A k \in Id : RecordOf(k)' = RecordOf(k)
        BY <2>4 DEF Steps, RecordOf
      <4> QED BY <2>4, <4>1, <4>2, <4>3 DEF Steps, Registered
    <3>5. ASSUME NEW r \in file.recs, r.id # i PROVE r \in Remaining(i)
      <4>1. r.id \in Id
        BY <1>2 DEF Files, Record
      <4>2. r.id[1] # i[1] \/ r.id[2] # i[2]
        BY <3>5, <4>1 DEF Id
      <4> QED BY <1>2, <3>1, <4>2 DEF Remaining
    <3>6. ASSUME NEW r \in Remaining(i) PROVE r.id # i
      BY <3>6 DEF Remaining
    <3>7. ASSUME NEW s \in Registered, s # i
          PROVE  RecordOf(s) \in recs /\ \A r \in recs : r.id = s => r = RecordOf(s)
      <4>1. /\ RecordOf(s) \in file.recs /\ RecordOf(s).id = s
            /\ \A r \in file.recs : r.id = s => r = RecordOf(s)
        BY <3>2, <3>7 DEF Lists, RecordOf
      <4>2. proc[s].kind = "server" /\ s \in Id
        BY <3>7, WhoIs DEF Registered, Leaving
      <4>3. CheckInstance(i[1], RecordOf(s))
        BY <4>1, <4>2 DEF CheckInstance
      <4>4. RecordOf(s) \in Remaining(i)
        BY <3>5, <3>7, <4>1
      <4>5. ASSUME NEW r \in recs, r.id = s PROVE r = RecordOf(s)
        BY <2>1, <2>2, <3>7, <4>1, <4>5
      <4> QED BY <2>1, <4>3, <4>4, <4>5
    <3>8. proc[i].job = "register" =>
            RecordOf(i) \in recs /\ \A r \in recs : r.id = i => r = RecordOf(i)
      BY <2>1, <3>6
    <3>9. file'.state = "ok" /\ file'.recs = file.recs
      BY <1>1, <3>2
    <3>10. \A s \in Registered' : s \in Registered /\ s # i /\ RecordOf(s)' = RecordOf(s)
      BY <3>4 DEF Registered
    <3>11. FileIntact'
      <4>1. Lists(file.recs)'
        BY <3>2, <3>9, <3>10 DEF Lists
      <4> QED BY <3>3, <3>9, <4>1 DEF FileIntact
    <3>12. ASSUME NEW k \in Id PROVE InHand(k)'
      <4>1. CASE k = i
        <5>1. proc'[i].pc = "rewrite" /\ proc'[i].job = proc[i].job /\ proc'[i].recs = recs
          BY <2>4 DEF Steps
        <5>2. Lists(proc[i].recs)'
          BY <3>7, <3>10, <5>1 DEF Lists
        <5>3. RecordOf(i)' = RecordOf(i)
          BY <3>4
        <5> QED BY <3>3, <3>8, <3>9, <4>1, <5>1, <5>2, <5>3 DEF InHand
      <4>2. CASE k # i
        BY <3>3, <4>2 DEF InHand, Busy
      <4> QED BY <4>1, <4>2
    <3> QED BY <3>11, <3>12
  <2>7. PICK job \in {"register", "unregister"} : job = proc[i].job
    BY <1>2
  <2>8. \A to : to = "rewrite" => to \in ServerPcs /\ to # "serve"
    BY DEF ServerPcs
  <2>9. damage' \subseteq {"created twice", "cut", "same pid"} /\ damage \subseteq damage'
    BY <1>2, <1>4
  <2>10. lock' \in Id \cup {Nobody} /\ file' \in Files
    BY <1>1, <1>2, <1>4
  <2> QED BY <1>1, <2>4, <2>5, <2>6, <2>7, <2>8, <2>9, <2>10, ServerStepInv
<1> QED BY <1>3, <1>4 DEF Read

LEMMA RewriteInv ==
  ASSUME InstInv, NEW i \in Id, Rewrite(i)
  PROVE  InstInv'
<1>1. /\ proc[i].pc = "rewrite" /\ lock' = Nobody /\ begun' = begun /\ kills' = kills
      /\ file' = InstFile("empty", {}) /\ damage' = damage
  BY DEF Rewrite
<1>2. proc[i].kind = "server" /\ proc[i].job \in {"register", "unregister"}
  BY <1>1, WhoIs DEF InstInv, KindOK
<1>3. Steps(i, "flush", proc[i].job, proc[i].recs)
  BY <1>2, GotoIs DEF Rewrite, ServerPcs
<1>4. damage \subseteq {"created twice", "cut", "same pid"} /\ lock' \in Id \cup {Nobody}
  BY <1>1 DEF InstInv, InstTyped
<1>5. file' \in Files /\ file'.state = "empty"
  BY <1>1, InstFileIs
<1>6. Locked'
  <2>1. \A k \in Id : proc'[k].pc # "rewrite"
    BY <1>1, <1>3 DEF InstInv, Locked, Steps
  <2>2. Nobody \notin Id
    BY InstancesAssumption DEF Id
  <2> QED BY <1>1, <2>1, <2>2 DEF Locked
<1>7. ASSUME damage = {} PROVE FileIntact' /\ \A k \in Id : InHand(k)'
  <2>1. Busy = {i} /\ InHand(i)
    BY <1>1, <1>7 DEF InstInv, InHand
  <2>2. Busy' = {i} /\ Writing' = {i}
    BY <1>3, <2>1 DEF Busy, Writing, Steps
  <2>3. /\ Registered' = Registered
        /\ \A k \in Id : RecordOf(k)' = RecordOf(k)
    <3>1. proc'[i].pc # "serve" /\ ~Leaving(proc[i])'
      BY <1>3 DEF Steps, Leaving
    <3>2. proc[i].pc # "serve" /\ ~Leaving(proc[i])
      BY <1>1 DEF Leaving
    <3>3. \A k \in Id \ {i} : Leaving(proc[k])' <=> Leaving(proc[k])
      BY <1>3 DEF Steps, Leaving
    <3>4. \A k \in Id : RecordOf(k)' = RecordOf(k)
      BY <1>3 DEF Steps, RecordOf
    <3> QED BY <1>3, <3>1, <3>2, <3>3, <3>4 DEF Steps, Registered
  <2>4. FileIntact'
    BY <1>5, <2>2 DEF FileIntact
  <2>5. ASSUME NEW k \in Id PROVE InHand(k)'
    <3>1. CASE k = i
      <4>1. proc'[i].pc = "flush" /\ proc'[i].job = proc[i].job /\ proc'[i].recs = proc[i].recs
        BY <1>3 DEF Steps
      <4>2. Lists(proc[i].recs)' <=> Lists(proc[i].recs)
        BY <2>3, <4>1 DEF Lists, Registered
      <4>3. RecordOf(i)' = RecordOf(i)
        BY <2>3
      <4> QED BY <1>1, <1>5, <2>1, <2>2, <3>1, <4>1, <4>2, <4>3 DEF InHand
    <3>2. CASE k # i
      BY <2>2, <3>2 DEF InHand, Busy
    <3> QED BY <3>1, <3>2
  <2> QED BY <2>4, <2>5
<1>8. PICK job, recs : job = proc[i].job /\ recs = proc[i].recs /\ job \in {"register", "unregister"}
  BY <1>2
<1>9. \A to : to = "flush" => to \in ServerPcs /\ to # "serve"
  BY DEF ServerPcs
<1> QED BY <1>1, <1>3, <1>4, <1>5, <1>6, <1>7, <1>8, <1>9, ServerStepInv

LEMMA FlushInv ==
  ASSUME InstInv, NEW i \in Id, Flush(i)
  PROVE  InstInv'
<1>1. /\ proc[i].pc = "flush" /\ UNCHANGED <<lock, begun, kills, damage>>
      /\ file' \in Overwrite(proc[i].recs)
  BY DEF Flush
<1>2. /\ proc[i].kind = "server" /\ proc[i].job \in {"register", "unregister"}
      /\ proc[i] \in Procs /\ proc \in [Id -> Procs] /\ KindOK(proc[i])
  BY <1>1, WhoIs DEF InstInv, InstTyped, KindOK
<1>3. PICK new \in Procs :
        /\ proc' = [proc EXCEPT ![i] = new]
        /\ IF proc[i].job = "register"
           THEN /\ new.kind = "server" /\ new.pc = "serve" /\ new.job = "register"
                /\ new.place = proc[i].place /\ new.no = proc[i].no
                /\ new.before = proc[i].before /\ new.seen = proc[i].seen
           ELSE new = Nothing
  <2>1. CASE proc[i].job = "register"
    <3> DEFINE n == [proc[i] EXCEPT !.pc = "serve", !.recs = {}]
    <3>1. n \in Procs
      BY <1>2 DEF Procs
    <3>2. /\ n.kind = "server" /\ n.pc = "serve" /\ n.job = "register"
          /\ n.place = proc[i].place /\ n.no = proc[i].no
          /\ n.before = proc[i].before /\ n.seen = proc[i].seen
      BY <1>2, <2>1 DEF Procs
    <3>3. proc' = [proc EXCEPT ![i] = n]
      BY <2>1 DEF Flush
    <3> HIDE DEF n
    <3> QED BY <2>1, <3>1, <3>2, <3>3
  <2>2. CASE proc[i].job # "register"
    BY <2>2, NothingIs DEF Flush
  <2> QED BY <2>1, <2>2
<1>4. /\ proc' \in [Id -> Procs] /\ proc'[i] = new
      /\ \A k \in Id \ {i} : proc'[k] = proc[k]
  BY <1>2, <1>3
<1>5. \A k \in Id : GoesOn(k)
  <2>1. GoesOn(i)
    BY <1>2, <1>3, <1>4 DEF GoesOn, Survives
  <2>2. ASSUME NEW k \in Id \ {i} PROVE GoesOn(k)
    BY <1>4 DEF GoesOn, Survives
  <2> QED BY <2>1, <2>2
<1>6. InstTyped'
  <2>1. file' \in Files
    BY <1>1, <1>2, OverwriteIs, InstFileIs DEF Procs
  <2> QED BY <1>1, <1>4, <2>1 DEF InstInv, InstTyped
<1>7. ASSUME NEW k \in Id PROVE KindOK(proc[k])'
  <2>1. CASE k = i /\ proc[i].job = "register"
    BY <1>1, <1>2, <1>3, <1>4, <2>1 DEF KindOK
  <2>2. CASE k = i /\ proc[i].job # "register"
    BY <1>3, <1>4, <2>2, NothingIs DEF KindOK
  <2>3. CASE k # i
    BY <1>1, <1>4, <2>3 DEF InstInv, KindOK
  <2> QED BY <2>1, <2>2, <2>3
<1>8. new.pc \notin {"fill", "rewrite", "flush"} /\ ~Leaving(new)
      /\ (new.pc = "serve" => proc[i].job = "register" /\ new.place = proc[i].place)
  BY <1>3, NothingIs DEF Leaving
<1>9. Locked'
  BY <1>1, <1>4, <1>8 DEF InstInv, Locked
<1>10. ASSUME damage = {} PROVE FileIntact' /\ \A k \in Id : InHand(k)'
  <2>1. /\ Busy = {i} /\ file.state = "empty" /\ Lists(proc[i].recs)
        /\ proc[i].job = "register" =>
             /\ RecordOf(i) \in proc[i].recs
             /\ \A r \in proc[i].recs : r.id = i => r = RecordOf(i)
    BY <1>1, <1>10 DEF InstInv, InHand
  <2>2. file' = InstFile("ok", proc[i].recs)
    BY <1>1, <2>1, OverwriteIs
  <2>3. file'.state = "ok" /\ file'.recs = proc[i].recs
    BY <1>2, <2>2, InstFileIs DEF Procs
  <2>4. Busy' = {}
    BY <1>4, <1>8, <2>1 DEF Busy
  <2>5. ASSUME NEW s \in Registered'
        PROVE  /\ RecordOf(s)' \in proc[i].recs
               /\ \A r \in proc[i].recs : r.id = s => r = RecordOf(s)'
    <3>1. CASE s = i
      <4>1. proc[i].job = "register" /\ RecordOf(s)' = RecordOf(i)
        BY <1>4, <1>8, <2>5, <3>1 DEF Registered, RecordOf
      <4> QED BY <2>1, <3>1, <4>1
    <3>2. CASE s # i
      <4>1. s \in Id /\ proc'[s] = proc[s]
        BY <1>4, <2>5, <3>2 DEF Registered
      <4>2. s \in Registered /\ RecordOf(s)' = RecordOf(s)
        BY <2>5, <4>1 DEF Registered, Leaving, RecordOf
      <4> QED BY <2>1, <4>2 DEF Lists
    <3> QED BY <3>1, <3>2
  <2>6. FileIntact'
    <3>1. Lists(file.recs)'
      BY <2>3, <2>5 DEF Lists
    <3> QED BY <2>3, <3>1 DEF FileIntact
  <2>7. \A k \in Id : InHand(k)'
    BY <2>4 DEF InHand, Busy
  <2> QED BY <2>6, <2>7
<1> QED BY <1>1, <1>5, <1>6, <1>7, <1>9, <1>10, GoesOnInv

LEMMA ListInstancesInv ==
  ASSUME InstInv, NEW i \in Id, ListInstances(i)
  PROVE  InstInv'
<1>1. /\ proc[i].pc = "list" /\ lock = Nobody
      /\ UNCHANGED <<file, begun, kills, damage>>
  BY DEF ListInstances
<1>2. /\ proc[i].kind = "command" /\ proc[i].job \in {"list", "stop", "stop_all"}
      /\ proc[i] \in Procs /\ proc \in [Id -> Procs] /\ KindOK(proc[i])
      /\ file \in Files
  BY <1>1, WhoIs DEF InstInv, InstTyped, KindOK
<1>3. CASE Ended(i)
  <2>1. i \notin Writing /\ kills' \in 0..MaxKills
    BY <1>1 DEF Writing, InstInv, InstTyped
  <2> QED BY <1>1, <1>3, <2>1, OverInv
<1>4. CASE ~Ended(i)
  <2>1. /\ proc[i].job # "list" /\ lock' = lock
        /\ file.state = "absent" \/ ~Unreadable
        /\ proc' = [proc EXCEPT ![i] =
               [proc[i] EXCEPT !.pc = "kill", !.recs = Meant(i),
                               !.seen = {<<s, proc[s].no>> : s \in Serving}]]
    BY <1>4 DEF ListInstances
  <2>2. PICK recs, seen : recs = Meant(i) /\ seen = {<<s, proc[s].no>> : s \in Serving}
    OBVIOUS
  <2>3. ASSUME NEW s \in Serving
        PROVE  s \in Id /\ proc[s].kind = "server" /\ proc[s].no \in 1..begun /\ begun \in Nat
    <3>1. s \in Id /\ proc[s].kind = "server"
      BY DEF Serving, Servers
    <3>2. proc[s].no \in 1..begun
      BY <3>1, WhoIs
    <3>3. begun \in Nat
      BY BegunIs
    <3> QED BY <3>1, <3>2, <3>3
  <2>4. recs \subseteq Record /\ seen \subseteq (Id \X Nat)
    <3>1. recs \subseteq file.recs
      BY <2>2 DEF Meant
    <3>2. \A s \in Serving : s \in Id /\ proc[s].no \in Nat
      BY <2>3
    <3> QED BY <1>2, <2>2, <3>1, <3>2 DEF Files
  <2>5. PICK new \in Procs :
          /\ proc' = [proc EXCEPT ![i] = new]
          /\ new.kind = "command" /\ new.pc = "kill" /\ new.job = proc[i].job
          /\ new.place = proc[i].place /\ new.no = proc[i].no
          /\ new.before = proc[i].before /\ new.seen = seen /\ new.recs = recs
    <3> DEFINE n == [proc[i] EXCEPT !.pc = "kill", !.recs = recs, !.seen = seen]
    <3>1. n \in Procs
      BY <1>2, <2>4 DEF Procs
    <3>2. /\ n.kind = "command" /\ n.pc = "kill" /\ n.job = proc[i].job
          /\ n.place = proc[i].place /\ n.no = proc[i].no
          /\ n.before = proc[i].before /\ n.seen = seen /\ n.recs = recs
      BY <1>2 DEF Procs
    <3>3. proc' = [proc EXCEPT ![i] = n]
      BY <2>1, <2>2
    <3> HIDE DEF n
    <3> QED BY <3>1, <3>2, <3>3
  <2>6. /\ proc' \in [Id -> Procs] /\ proc'[i] = new
        /\ \A k \in Id \ {i} : proc'[k] = proc[k]
    BY <1>2, <2>5
  <2>7. InstTyped'
    BY <1>1, <2>1, <2>6 DEF InstInv, InstTyped
  <2>8. ASSUME NEW k \in Id PROVE KindOK(proc[k])'
    <3>1. CASE k = i
      BY <1>1, <1>2, <2>5, <2>6, <3>1 DEF KindOK
    <3>2. CASE k # i
      BY <1>1, <2>6, <3>2 DEF InstInv, KindOK
    <3> QED BY <3>1, <3>2
  <2>9. Locked'
    BY <1>1, <2>1, <2>5, <2>6 DEF InstInv, Locked
  <2>10. /\ Busy' = Busy /\ Writing' = Writing /\ Registered' = Registered
         /\ \A k \in Id : RecordOf(k)' = RecordOf(k)
    <3>1. Busy' = Busy /\ Writing' = Writing
      BY <1>1, <2>5, <2>6 DEF Busy, Writing
    <3>2. ~Leaving(proc[i]) /\ ~Leaving(new)
      BY <1>2, <2>5 DEF Leaving
    <3>3. Registered' = Registered
      BY <1>1, <2>5, <2>6, <3>2 DEF Registered, Leaving
    <3>4. \A k \in Id : RecordOf(k)' = RecordOf(k)
      BY <2>5, <2>6 DEF RecordOf
    <3> QED BY <3>1, <3>3, <3>4
  <2>11. ASSUME damage = {} PROVE FileIntact' /\ \A k \in Id : InHand(k)'
    <3>1. FileIntact'
      <4>1. Lists(file.recs)' <=> Lists(file.recs)
        BY <1>1, <2>10 DEF Lists, Registered
      <4> QED BY <1>1, <2>10, <2>11, <4>1 DEF InstInv, FileIntact
    <3>2. ASSUME NEW k \in Id PROVE InHand(k)'
      <4>1. CASE k = i
        BY <2>5, <2>6, <4>1 DEF InHand
      <4>2. CASE k # i
        <5>1. proc'[k] = proc[k] /\ InHand(k)
          BY <2>6, <2>11, <4>2 DEF InstInv
        <5>2. Lists(proc[k].recs)' <=> Lists(proc[k].recs)
          BY <2>10, <5>1 DEF Lists, Registered
        <5>3. RecordOf(k)' = RecordOf(k)
          BY <2>10
        <5> QED BY <1>1, <2>10, <5>1, <5>2, <5>3 DEF InHand
      <4> QED BY <4>1, <4>2
    <3> QED BY <3>1, <3>2
  <2>12. ASSUME damage = {}, NEW k \in Id \ {i} PROVE Knows(k)'
    <3>1. GoesOn(k)
      BY <2>6 DEF GoesOn, Survives
    <3>2. ASSUME NEW j \in Id PROVE Survives(j)
      BY <1>2, <2>5, <2>6 DEF Survives
    <3> QED BY <1>1, <2>12, <3>1, <3>2, KnowsKept
  <2>13. ASSUME damage = {} PROVE Knows(i)'
    <3>1. Knows(i) /\ FileIntact
      BY <2>13 DEF InstInv
    <3>2. Busy = {}
      BY <1>1, <2>1, <2>13, <3>1, AtRest DEF FileIntact, Unreadable
    <3>3. file.state = "absent" => Registered = {} /\ file.recs = {}
      BY <3>1 DEF FileIntact
    <3>4. file.state # "absent" => Lists(file.recs)
      BY <1>1, <2>1, <2>13, AtRest DEF Unreadable
    <3>5. ASSUME NEW s \in Id, proc[s].kind = "server", proc[s].pc = "serve" \/ proc[s].job = "unregister"
          PROVE  /\ s \in Registered /\ RecordOf(s) \in file.recs
                 /\ \A r \in file.recs : r.id = s => r = RecordOf(s)
      <4>1. proc[s].pc \in {"exists", "make", "fill", "lock", "rewrite", "flush", "serve"}
        BY <3>5, WhoIs
      <4>2. s \in Registered
        BY <3>2, <3>5, <4>1 DEF Busy, Registered, Leaving
      <4> QED BY <3>3, <3>4, <4>2 DEF Lists
    <3>6. ASSUME NEW b \in seen
          PROVE  /\ b[1] \in Serving /\ b[2] = proc[b[1]].no
      BY <2>2, <3>6
    <3>7. \A b \in proc[i].before \cup seen : b[2] \in 1..begun
      BY <1>2, <2>3, <3>1, <3>6 DEF Knows
    <3>8. ASSUME NEW b \in proc[i].before, Alive(b)'
          PROVE  \E r \in recs : r.id = b[1]
      <4>1. b[1] \in Id /\ Alive(b)
        BY <1>2, <2>5, <2>6, <3>8 DEF Alive, Procs
      <4>2. /\ proc[b[1]].kind = "server" /\ b[1][1] = i[1]
            /\ proc[b[1]].pc = "serve" \/ proc[b[1]].job = "unregister"
            /\ proc[i].job = "stop" => proc[b[1]].place = proc[i].place
        BY <1>1, <1>2, <3>1, <4>1 DEF Knows
      <4>3. RecordOf(b[1]) \in file.recs
        BY <3>5, <4>1, <4>2
      <4>4. RecordOf(b[1]).id = b[1] /\ RecordOf(b[1]).place = proc[b[1]].place
        BY DEF RecordOf
      <4>5. CheckInstance(i[1], RecordOf(b[1]))
        BY <4>2, <4>4 DEF CheckInstance
      <4>6. RecordOf(b[1]) \in recs
        BY <2>2, <4>2, <4>3, <4>4, <4>5 DEF Meant
      <4> QED BY <4>4, <4>6
    <3>9. ASSUME NEW r \in recs
          PROVE  /\ proc[i].job = "stop" => r.place = proc[i].place
                 /\ <<r.id, proc'[r.id].no>> \in seen => r.place = proc'[r.id].place
      <4>1. r \in file.recs /\ (proc[i].job = "stop" => r.place = proc[i].place)
        BY <2>2 DEF Meant
      <4>2. ASSUME <<r.id, proc'[r.id].no>> \in seen PROVE r.place = proc'[r.id].place
        <5>1. r.id \in Serving
          BY <3>6, <4>2
        <5>2. r.id \in Id /\ proc[r.id].kind = "server" /\ proc[r.id].pc = "serve"
          BY <5>1 DEF Serving, Servers
        <5>3. r = RecordOf(r.id)
          BY <3>5, <4>1, <5>2
        <5>4. r.place = proc[r.id].place
          <6>1. PICK s : s = r.id
            OBVIOUS
          <6>2. r = RecordOf(s)
            BY <5>3, <6>1
          <6> QED BY <6>1, <6>2 DEF RecordOf
        <5> QED BY <1>2, <2>6, <5>2, <5>4
      <4> QED BY <4>1, <4>2
    <3>10. /\ proc'[i].before = proc[i].before /\ proc'[i].seen = seen
           /\ proc'[i].pc = "kill" /\ proc'[i].job = proc[i].job
           /\ proc'[i].place = proc[i].place /\ proc'[i].recs = recs
      BY <2>5, <2>6
    <3> QED BY <1>1, <2>1, <3>7, <3>8, <3>9, <3>10 DEF Knows
  <2> QED BY <1>1, <2>7, <2>8, <2>9, <2>11, <2>12, <2>13 DEF InstInv
<1> QED BY <1>3, <1>4

LEMMA InstNextInv == InstInv /\ [InstNext]_instVars => InstInv'
<1> SUFFICES ASSUME InstInv, [InstNext]_instVars PROVE InstInv'
  OBVIOUS
<1>1. CASE InstNext
  <2>1. PICK i \in Id :
          \/ \E p \in Place : StartServer(i, p)
          \/ StartOther(i) \/ EndOther(i)
          \/ \E p \in Place, job \in {"list", "stop", "stop_all"} : StartCommand(i, job, p)
          \/ InterruptServer(i) \/ Die(i)
          \/ LookForFile(i) \/ MakeFile(i) \/ Fill(i)
          \/ Read(i) \/ Rewrite(i) \/ Flush(i)
          \/ ListInstances(i) \/ KillOne(i) \/ StopDone(i)
    BY <1>1 DEF InstNext
  <2>2. CASE \E p \in Place : StartServer(i, p)
    BY <2>2, StartServerInv
  <2>3. CASE StartOther(i)
    BY <2>3, StartOtherInv
  <2>4. CASE EndOther(i)
    BY <2>4, EndOtherInv
  <2>5. CASE \E p \in Place, job \in {"list", "stop", "stop_all"} : StartCommand(i, job, p)
    BY <2>5, StartCommandInv
  <2>6. CASE InterruptServer(i)
    BY <2>6, InterruptServerInv
  <2>7. CASE Die(i)
    BY <2>7, DieInv
  <2>8. CASE LookForFile(i)
    BY <2>8, LookForFileInv
  <2>9. CASE MakeFile(i)
    BY <2>9, MakeFileInv
  <2>10. CASE Fill(i)
    BY <2>10, FillInv
  <2>11. CASE Read(i)
    BY <2>11, ReadInv
  <2>12. CASE Rewrite(i)
    BY <2>12, RewriteInv
  <2>13. CASE Flush(i)
    BY <2>13, FlushInv
  <2>14. CASE ListInstances(i)
    BY <2>14, ListInstancesInv
  <2>15. CASE KillOne(i)
    BY <2>15, KillOneInv
  <2>16. CASE StopDone(i)
    BY <2>16, StopDoneInv
  <2> QED BY <2>1, <2>2, <2>3, <2>4, <2>5, <2>6, <2>7, <2>8, <2>9, <2>10, <2>11,
             <2>12, <2>13, <2>14, <2>15, <2>16
<1>2. CASE UNCHANGED instVars
  <2>1. UNCHANGED <<proc, file, lock, begun, kills, damage>>
    BY <1>2 DEF instVars
  <2>2. InstTyped' /\ Locked' /\ \A k \in Id : KindOK(proc[k])'
    BY <2>1 DEF InstInv, InstTyped, Locked, KindOK
  <2>3. /\ Busy' = Busy /\ Writing' = Writing /\ Registered' = Registered
        /\ \A k \in Id : RecordOf(k)' = RecordOf(k)
    BY <2>1 DEF Busy, Writing, Registered, Leaving, RecordOf
  <2>4. ASSUME damage = {} PROVE FileIntact' /\ \A k \in Id : InHand(k)'
    <3>1. FileIntact'
      <4>1. Lists(file.recs)' <=> Lists(file.recs)
        BY <2>1, <2>3 DEF Lists, Registered
      <4> QED BY <2>1, <2>3, <2>4, <4>1 DEF InstInv, FileIntact
    <3>2. ASSUME NEW k \in Id PROVE InHand(k)'
      <4>1. Lists(proc[k].recs)' <=> Lists(proc[k].recs)
        BY <2>1, <2>3 DEF Lists, Registered
      <4>2. InHand(k) /\ RecordOf(k)' = RecordOf(k)
        BY <2>3, <2>4 DEF InstInv
      <4> QED BY <2>1, <2>3, <4>1, <4>2 DEF InHand
    <3> QED BY <3>1, <3>2
  <2>5. \A k \in Id : GoesOn(k)
    BY <2>1 DEF GoesOn, Survives
  <2> QED BY <2>1, <2>2, <2>4, <2>5, GoesOnInv
<1> QED BY <1>1, <1>2

LEMMA InstInvListed == InstInv => ServersListed
<1> SUFFICES ASSUME InstInv PROVE ServersListed
  OBVIOUS
<1>1. InstTypeOK
  <2>1. \A i \in Id : proc[i] \in Procs
    BY DEF InstInv, InstTyped
  <2>2. file \in Files /\ file.recs \subseteq Record
    BY DEF InstInv, InstTyped, Files
  <2>3. \A i \in Id :
          /\ proc[i].kind \in {"none", "server", "command", "bare", "other"}
          /\ proc[i].pc \in {"none", "exists", "make", "fill", "lock", "rewrite",
                             "flush", "serve", "list", "kill"}
          /\ proc[i].job \in {"none", "register", "unregister", "list", "stop", "stop_all"}
          /\ proc[i].recs \subseteq Record
    BY <2>1 DEF Procs
  <2>4. file.state \in {"absent", "empty", "ok", "garbage"}
    BY <2>2 DEF Files
  <2> QED BY <2>2, <2>3, <2>4 DEF InstInv, InstTyped, InstTypeOK
<1>2. ReadableAtRest
  <2>1. file \in Files
    BY DEF InstInv, InstTyped
  <2>2. ASSUME damage = {}, Writing = {} PROVE file.state \in {"absent", "ok"}
    BY <2>1, <2>2 DEF InstInv, FileIntact, Files
  <2> QED BY <2>2 DEF ReadableAtRest
<1>3. LiveListed
  <2> SUFFICES ASSUME damage = {}, NEW s \in Serving
               PROVE  \/ RecordOf(s) \in file.recs
                      \/ \E j \in Writing : RecordOf(s) \in proc[j].recs
    BY DEF LiveListed
  <2>1. s \in Registered
    BY DEF Serving, Servers, Registered
  <2>2. CASE Writing = {}
    BY <2>1, <2>2 DEF InstInv, FileIntact, Lists
  <2>3. CASE Writing # {}
    <3>1. PICK j \in Writing : j \in Id /\ proc[j].pc \in {"fill", "flush"}
      BY <2>3 DEF Writing
    <3>2. InHand(j)
      BY <3>1 DEF InstInv
    <3>3. proc[j].pc = "flush"
      BY <2>1, <3>1, <3>2 DEF InHand
    <3>4. Lists(proc[j].recs)
      BY <3>2, <3>3 DEF InHand
    <3> QED BY <2>1, <3>1, <3>4 DEF Lists
  <2> QED BY <2>2, <2>3
<1> QED BY <1>1, <1>2, <1>3 DEF ServersListed

(* Between rewrites of undamaged state the list of servers is readable and *)
(* holds every server that serves, however starts, ends and stops of       *)
(* servers on any number of hosts interleave (instance_manager.py).        *)
THEOREM ServersListedCorrect == InstSpec => []ServersListed
<1>1. InstInit => InstInv
  BY InstInitInv
<1>2. InstInv /\ [InstNext]_instVars => InstInv'
  BY InstNextInv
<1>3. InstInv => ServersListed
  BY InstInvListed
<1> QED BY <1>1, <1>2, <1>3, PTL DEF InstSpec

(* What a step does to one process.                                        *)
OneChanges(i) ==
  /\ \A k \in Id \ {i} : proc'[k] = proc[k]
  /\ proc'[i].no \in {0, begun + 1, proc[i].no}

LEMMA EndedSingle ==
  ASSUME InstInv, NEW i \in Id, Ended(i)
  PROVE  OneChanges(i) /\ proc'[i] = Nothing
<1>1. proc \in [Id -> Procs] /\ proc' = [proc EXCEPT ![i] = Nothing]
  BY DEF InstInv, InstTyped, Ended
<1> QED BY <1>1, NothingIs DEF OneChanges

LEMMA BeginSingle ==
  ASSUME InstInv, NEW i \in Id, NEW p \in Procs, BeginProcess(i, p)
  PROVE  OneChanges(i)
<1>1. proc \in [Id -> Procs]
  BY DEF InstInv, InstTyped
<1> DEFINE n == [p EXCEPT !.no = begun + 1]
<1>2. n.no = begun + 1
  BY DEF Procs
<1>3. proc' = [proc EXCEPT ![i] = n]
  BY DEF BeginProcess
<1> HIDE DEF n
<1> QED BY <1>1, <1>2, <1>3 DEF OneChanges

LEMMA GotoSingle ==
  ASSUME InstInv, NEW i \in Id, NEW to, Goto(i, to)
  PROVE  OneChanges(i)
<1>1. proc \in [Id -> Procs] /\ proc[i] \in Procs
  BY DEF InstInv, InstTyped
<1> DEFINE n == [proc[i] EXCEPT !.pc = to]
<1>2. n.no = proc[i].no
  BY <1>1 DEF Procs
<1>3. proc' = [proc EXCEPT ![i] = n]
  BY <1>1 DEF Goto
<1> HIDE DEF n
<1> QED BY <1>1, <1>2, <1>3 DEF OneChanges

LEMMA StepIs ==
  ASSUME InstInv, InstNext
  PROVE  \E i \in Id : OneChanges(i) \/ (KillOne(i) /\ ~Ended(i))
<1>1. PICK i \in Id :
        \/ \E p \in Place : StartServer(i, p)
        \/ StartOther(i) \/ EndOther(i)
        \/ \E p \in Place, job \in {"list", "stop", "stop_all"} : StartCommand(i, job, p)
        \/ InterruptServer(i) \/ Die(i)
        \/ LookForFile(i) \/ MakeFile(i) \/ Fill(i)
        \/ Read(i) \/ Rewrite(i) \/ Flush(i)
        \/ ListInstances(i) \/ KillOne(i) \/ StopDone(i)
  BY DEF InstNext
<1>2. proc \in [Id -> Procs] /\ proc[i] \in Procs
  BY DEF InstInv, InstTyped
<1>3. ASSUME NEW n, proc' = [proc EXCEPT ![i] = n], n = Nothing \/ n.no = proc[i].no
      PROVE  OneChanges(i)
  BY <1>2, <1>3, NothingIs DEF OneChanges
<1>4. CASE \E p \in Place : StartServer(i, p)
  <2>1. PICK place \in Place : StartServer(i, place)
    BY <1>4
  <2> DEFINE p == [Nothing EXCEPT !.kind = "server", !.pc = "exists",
                                  !.job = "register", !.place = place]
  <2>2. p \in Procs
    BY NothingIs DEF Procs
  <2>3. BeginProcess(i, p)
    BY <2>1 DEF StartServer
  <2> HIDE DEF p
  <2> QED BY <2>2, <2>3, BeginSingle
<1>5. CASE StartOther(i)
  <2>1. PICK k \in {"bare", "other"} : BeginProcess(i, [Nothing EXCEPT !.kind = k])
    BY <1>5 DEF StartOther
  <2> DEFINE p == [Nothing EXCEPT !.kind = k]
  <2>2. p \in Procs
    BY NothingIs DEF Procs
  <2>3. BeginProcess(i, p)
    BY <2>1
  <2> HIDE DEF p
  <2> QED BY <2>2, <2>3, BeginSingle
<1>6. CASE \E p \in Place, job \in {"list", "stop", "stop_all"} : StartCommand(i, job, p)
  <2>1. PICK place \in Place, job \in {"list", "stop", "stop_all"} : StartCommand(i, job, place)
    BY <1>6
  <2>2. PICK before : before = IF job = "list" THEN {}
                        ELSE {<<s, proc[s].no>> : s \in
                               {s \in Serving : s[1] = i[1] /\ (job = "stop" => proc[s].place = place)}}
    OBVIOUS
  <2>3. before \in SUBSET (Id \X Nat)
    <3>1. \A s \in Serving : s \in Id /\ proc[s].no \in Nat
      BY DEF Serving, Servers, InstInv, InstTyped, Procs
    <3> QED BY <2>2, <3>1
  <2> DEFINE p == [Nothing EXCEPT !.kind = "command", !.pc = "list", !.job = job,
                                  !.place = place, !.before = before]
  <2>4. p \in Procs
    BY <2>3, NothingIs DEF Procs
  <2>5. BeginProcess(i, p)
    BY <2>1, <2>2 DEF StartCommand
  <2> HIDE DEF p
  <2> QED BY <2>4, <2>5, BeginSingle
<1>7. CASE Ended(i)
  BY <1>7, EndedSingle
<1>8. CASE EndOther(i) \/ Die(i) \/ StopDone(i)
  BY <1>7, <1>8 DEF EndOther, Die, StopDone
<1>9. CASE InterruptServer(i)
  <2> DEFINE n == [proc[i] EXCEPT !.pc = "exists", !.job = "unregister"]
  <2>1. n.no = proc[i].no
    BY <1>2 DEF Procs
  <2>2. proc' = [proc EXCEPT ![i] = n]
    BY <1>9 DEF InterruptServer
  <2> HIDE DEF n
  <2> QED BY <1>3, <2>1, <2>2
<1>10. CASE LookForFile(i)
  BY <1>10, GotoSingle DEF LookForFile
<1>11. CASE MakeFile(i)
  <2>1. Goto(i, "fill")
    BY <1>11 DEF MakeFile
  <2> QED BY <2>1, GotoSingle
<1>12. CASE Fill(i)
  <2>1. Goto(i, "lock")
    BY <1>12 DEF Fill
  <2> QED BY <2>1, GotoSingle
<1>13. CASE Rewrite(i)
  <2>1. Goto(i, "flush")
    BY <1>13 DEF Rewrite
  <2> QED BY <2>1, GotoSingle
<1>14. CASE Read(i) /\ ~Ended(i)
  <2>1. PICK recs : recs = {r \in Remaining(i) : CheckInstance(i[1], r)} \cup
                 (IF proc[i].job = "register" THEN {RecordOf(i)} ELSE {})
    OBVIOUS
  <2> DEFINE n == [proc[i] EXCEPT !.pc = "rewrite", !.recs = recs]
  <2>2. n.no = proc[i].no
    BY <1>2 DEF Procs
  <2>3. proc' = [proc EXCEPT ![i] = n]
    BY <1>14, <2>1 DEF Read
  <2> HIDE DEF n
  <2> QED BY <1>3, <2>2, <2>3
<1>15. CASE Flush(i)
  <2>1. CASE proc[i].job = "register"
    <3> DEFINE n == [proc[i] EXCEPT !.pc = "serve", !.recs = {}]
    <3>1. n.no = proc[i].no
      BY <1>2 DEF Procs
    <3>2. proc' = [proc EXCEPT ![i] = n]
      BY <1>15, <2>1 DEF Flush
    <3> HIDE DEF n
    <3> QED BY <1>3, <3>1, <3>2
  <2>2. CASE proc[i].job # "register"
    BY <1>3, <1>15, <2>2 DEF Flush
  <2> QED BY <2>1, <2>2
<1>16. CASE ListInstances(i) /\ ~Ended(i)
  <2>1. PICK recs, seen : recs = Meant(i) /\ seen = {<<s, proc[s].no>> : s \in Serving}
    OBVIOUS
  <2> DEFINE n == [proc[i] EXCEPT !.pc = "kill", !.recs = recs, !.seen = seen]
  <2>2. n.no = proc[i].no
    BY <1>2 DEF Procs
  <2>3. proc' = [proc EXCEPT ![i] = n]
    BY <1>16, <2>1 DEF ListInstances
  <2> HIDE DEF n
  <2> QED BY <1>3, <2>2, <2>3
<1> QED BY <1>1, <1>4, <1>5, <1>6, <1>7, <1>8, <1>9, <1>10, <1>11, <1>12, <1>13, <1>14,
           <1>15, <1>16

LEMMA KillOneIs ==
  ASSUME InstInv, NEW i \in Id, KillOne(i), ~Ended(i)
  PROVE  \E r \in proc[i].recs :
           /\ r.id \in Id /\ proc'[r.id] = Nothing
           /\ \A k \in Id \ {r.id} : proc'[k].no = proc[k].no
           /\ \A k \in Id \ {r.id, i} : proc'[k] = proc[k]
<1>1. proc \in [Id -> Procs] /\ proc[i] \in Procs
  BY DEF InstInv, InstTyped
<1>2. PICK r \in proc[i].recs :
        proc' = [[proc EXCEPT ![i].recs = proc[i].recs \ {r}] EXCEPT ![r.id] = Nothing]
  BY DEF KillOne
<1>3. r.id \in Id
  BY <1>1 DEF Procs, Record
<1> DEFINE n == [proc[i] EXCEPT !.recs = proc[i].recs \ {r}]
           m == [proc EXCEPT ![i].recs = proc[i].recs \ {r}]
<1>4. n \in Procs /\ n.no = proc[i].no
  BY <1>1 DEF Procs
<1>5. m = [proc EXCEPT ![i] = n]
  BY <1>1
<1>6. m \in [Id -> Procs] /\ m[i].no = proc[i].no /\ \A k \in Id \ {i} : m[k] = proc[k]
  <2> HIDE DEF n
  <2> QED BY <1>1, <1>4, <1>5
<1>7. proc' = [m EXCEPT ![r.id] = Nothing]
  BY <1>2
<1> HIDE DEF m, n
<1>8. proc'[r.id] = Nothing /\ \A k \in Id \ {r.id} : proc'[k] = m[k]
  BY <1>3, <1>6, <1>7
<1> QED BY <1>3, <1>6, <1>8

LEMMA StopStep ==
  ASSUME InstInv, InstNext, damage = {}, NEW i \in Id,
         proc[i].pc = "kill", proc[i].recs = {}, proc'[i] = Nothing,
         NEW b \in proc[i].before
  PROVE  proc'[b[1]].no # b[2]
<1>1. /\ proc[i].kind = "command" /\ Knows(i) /\ begun \in Nat
      /\ b[1] \in Id /\ b[2] \in Nat
  <2>1. proc[i].kind = "command" /\ proc[i] \in Procs
    BY WhoIs
  <2>2. Knows(i)
    BY DEF InstInv
  <2> QED BY <2>1, <2>2, BegunIs DEF Procs
<1>2. b[2] \in 1..begun /\ proc[b[1]].no # b[2]
  BY <1>1 DEF Knows, Alive
<1>3. proc'[b[1]].no \in {0, begun + 1, proc[b[1]].no}
  <2>1. PICK k \in Id : OneChanges(k) \/ (KillOne(k) /\ ~Ended(k))
    BY StepIs
  <2>2. CASE OneChanges(k)
    BY <1>1, <2>2 DEF OneChanges
  <2>3. CASE KillOne(k) /\ ~Ended(k)
    BY <1>1, <2>3, KillOneIs, NothingIs
  <2> QED BY <2>1, <2>2, <2>3
<1> QED BY <1>1, <1>2, <1>3

LEMMA SpareStep ==
  ASSUME InstInv, InstNext, damage = {}, NEW i \in Id, NEW j \in Serving,
         proc[i].job = "stop", <<j, proc[j].no>> \in proc[i].seen,
         proc'[i] # Nothing, proc'[i].recs # proc[i].recs, proc'[j] = Nothing
  PROVE  proc[j].place = proc[i].place
<1>1. j \in Id /\ proc[j].kind = "server" /\ proc[j].pc = "serve"
  BY DEF Serving, Servers
<1>2. i # j
  <2>1. KindOK(proc[j])
    BY <1>1 DEF InstInv
  <2> QED BY <1>1, <2>1 DEF KindOK
<1>3. proc'[j] # proc[j]
  BY <1>1, NothingIs
<1>4. PICK k \in Id : OneChanges(k) \/ (KillOne(k) /\ ~Ended(k))
  BY StepIs
<1>5. KillOne(k) /\ ~Ended(k)
  BY <1>1, <1>2, <1>3, <1>4 DEF OneChanges
<1>6. PICK r \in proc[k].recs :
        /\ r.id \in Id /\ proc'[r.id] = Nothing
        /\ \A c \in Id \ {r.id, k} : proc'[c] = proc[c]
  BY <1>5, KillOneIs
<1>7. k = i /\ r.id = j
  <2>1. i = r.id \/ i = k
    BY <1>6
  <2>2. i = k
    BY <1>6, <2>1
  <2>3. j = r.id
    BY <1>1, <1>2, <1>3, <1>6, <2>2
  <2> QED BY <2>2, <2>3
<1>8. proc[i].pc = "kill" /\ proc[i].kind = "command" /\ Knows(i)
  <2>1. proc[i].pc = "kill"
    BY <1>5, <1>7 DEF KillOne
  <2> QED BY <2>1, WhoIs DEF InstInv
<1>9. /\ r.place = proc[i].place
      /\ <<r.id, proc[r.id].no>> \in proc[i].seen => r.place = proc[r.id].place
  BY <1>6, <1>7, <1>8 DEF Knows
<1> QED BY <1>7, <1>9

(* A stop that ends with success has ended the servers it was meant for    *)
(* that were serving when it began, and a stop ends no server of another   *)
(* workspace or port, while the list is undamaged (libhandlers/server.py,  *)
(* __instance_management).                                                 *)
THEOREM StopsJustThemCorrect == InstSpec => StopsJustThem
<1>1. InstInit => InstInv
  BY InstInitInv
<1>2. InstInv /\ [InstNext]_instVars => InstInv'
  BY InstNextInv
<1>3. InstInv /\ [InstNext]_instVars =>
        [damage = {} =>
           \A i \in Id : proc[i].pc = "kill" /\ proc[i].recs = {} /\ proc'[i] = Nothing =>
             \A b \in proc[i].before : proc'[b[1]].no # b[2]]_instVars
  BY StopStep
<1>4. InstInv /\ [InstNext]_instVars =>
        [damage = {} =>
           \A i \in Id, j \in Serving :
             proc[i].job = "stop" /\ <<j, proc[j].no>> \in proc[i].seen
               /\ proc'[i] # Nothing /\ proc'[i].recs # proc[i].recs
               /\ proc'[j] = Nothing
             => proc[j].place = proc[i].place]_instVars
  BY SpareStep
<1>5. InstSpec => StopEndsThem
  BY <1>1, <1>2, <1>3, PTL DEF InstSpec, StopEndsThem
<1>6. InstSpec => StopSparesOthers
  BY <1>1, <1>2, <1>4, PTL DEF InstSpec, StopSparesOthers
<1> QED BY <1>5, <1>6 DEF StopsJustThem

-----------------------------------------------------------------------------
(***************************************************************************)
(* Starts of a server.                                                     *)
(***************************************************************************)

Dbs == {"config", "default"}
Srvs == [pc : Over \cup Phases \cup
              {"begin", "product", "root", "make", "write", "chmod", "load", "bind"},
         on : Dbs, add : BOOLEAN, first : BOOLEAN, reset : BOOLEAN,
         sha : Start \cup {Unset}, file : Nat]
Roots == [exists : BOOLEAN, sha : Start \cup {Unset}, readonly : BOOLEAN, no : Nat]

StartTyped ==
  /\ srv \in [Start -> Srvs]
  /\ db \in [Dbs -> Database]
  /\ product \in {"none", "there", "removed"}
  /\ root \in Roots
  /\ cuts \in 0..MaxCuts /\ met \subseteq Start

Begun(s) == ~StartAt(s, "not begun")

(* Starts begin in the order of their numbers; one that has met no other   *)
(* was alone, the earlier ones being over, and later ones begin after it.  *)
(* Nobody has reset anything before it begins.                             *)
InTurn ==
  /\ \A s, t \in Start : t < s /\ Begun(s) => Begun(t)
  /\ \A s \in Start : Begun(s) /\ s \notin met =>
       \A t \in Start \ {s} :
         /\ t \in Starting => t > s
         /\ s \in Starting => t \notin Starting
         /\ s \in Starting /\ Begun(t) => t < s
  /\ \A s \in Start : srv[s].pc \in {"not begun", "begin"} => ~srv[s].reset

(* What a start no longer needs it has forgotten.                          *)
MarkForgotten ==
  \A s \in Start : srv[s].pc \notin Phases =>
    srv[s].on = "config" /\ ~srv[s].add /\ ~srv[s].first

(* Whoever has created tables will record their migration and, being the   *)
(* one that found none, their version.                                     *)
Schema(d) ==
  /\ db[d].version => db[d].tables
  /\ db[d].tables /\ ~db[d].head =>
       Killed # {} \/ \E s \in Start : StartAt(s, "commit") /\ srv[s].on = d
  /\ db[d].tables /\ ~db[d].version =>
       Killed # {} \/ \E s \in Start :
                        srv[s].pc \in {"commit", "row"} /\ srv[s].on = d /\ srv[s].add
  /\ \A s \in Start : srv[s].on = d =>
       /\ StartAt(s, "tables") /\ ~srv[s].add => db[d].tables
       /\ srv[s].pc \in {"commit", "row"} => db[d].tables

(* Whatever comes later, the configuration database was there before; the  *)
(* other one is opened only by a start that means to make the product.     *)
Opened ==
  /\ \A s \in Start : srv[s].on = "default" => srv[s].first
  /\ product # "none" => db["config"].exists
  /\ \A s \in Start :
       srv[s].on = "default" \/
       srv[s].pc \in {"tables", "commit", "row", "product", "root", "make", "write",
                      "chmod", "load", "bind", "serve", "ended"} =>
         db["config"].exists

(* What a start has seen that has met no other.                            *)
Sees(s) ==
  s \in Starting /\ s \notin met =>
    /\ srv[s].pc \in {"tables", "commit", "row"} /\ srv[s].add => ~db[srv[s].on].version
    /\ srv[s].first \/ StartAt(s, "product") =>
         product = "none" /\ \A t \in Start : srv[t].pc \notin {"serve", "ended"}
    /\ StartAt(s, "make") => ~root.exists
    /\ StartAt(s, "write") => root.exists /\ ~root.readonly /\ srv[s].file = root.no
    /\ StartAt(s, "chmod") => root.exists /\ srv[s].sha = s /\ root.sha = s
    /\ StartAt(s, "bind") => root.exists /\ srv[s].sha = root.sha /\ (Killed = {} => root.sha # Unset)

(* Credentials that are missing in the file are about to be written.       *)
RootFile ==
  /\ root.readonly => root.exists
  /\ root.exists /\ root.sha = Unset =>
       Killed # {} \/ \E s \in Start : StartAt(s, "write") /\ srv[s].file = root.no

(* The file of a server that started alone stays as long as nobody resets  *)
(* it: no start makes it.                                                  *)
Served(s) ==
  /\ StartAt(s, "serve") /\ s \notin met
  /\ \A t \in Killed : ~(t < s)
  /\ \A t \in Start : t > s => ~srv[t].reset

RootOf(s) ==
  Served(s) =>
    /\ root.exists /\ root.sha # Unset /\ srv[s].sha = root.sha
    /\ \A t \in Start : srv[t].pc \notin {"make", "write", "chmod"}

(* How far the installation is when nothing has gone wrong.                *)
Ready == db["config"] = Complete /\ db["default"] = Complete /\ product # "none"
RootReady == root.exists /\ root.sha # Unset /\ root.readonly
Fresh == db["config"] = NoDatabase /\ db["default"] = NoDatabase /\ product = "none" /\ ~root.exists

Stage(p) == [exists |-> p # "version", tables |-> p \in {"commit", "row"},
             head |-> p = "row", version |-> FALSE]

Installs(s) ==
  /\ StartAt(s, "begin") => Fresh \/ (Ready /\ RootReady)
  /\ srv[s].pc \in Phases =>
       /\ ~srv[s].first =>
            /\ Ready /\ (root.exists => RootReady)
            /\ srv[s].on = "config" /\ ~srv[s].add
       /\ srv[s].first =>
            /\ product = "none" /\ ~root.exists
            /\ ~StartAt(s, "version") => srv[s].add
            /\ srv[s].on = "config" =>
                 db["config"] = Stage(srv[s].pc) /\ db["default"] = NoDatabase
            /\ srv[s].on = "default" =>
                 db["config"] = Complete /\ db["default"] = Stage(srv[s].pc)
  /\ StartAt(s, "product") =>
       /\ db["config"] = Complete /\ db["default"] = Complete
       /\ product = "none" /\ ~root.exists
  /\ srv[s].pc \in {"root", "make", "load", "write", "chmod", "bind"} => Ready
  /\ StartAt(s, "root") => (root.exists => RootReady)
  /\ srv[s].pc \in {"load", "bind"} => RootReady

Installed ==
  met = {} /\ Killed = {} =>
    /\ Starting = {} => Fresh \/ (Ready /\ RootReady)
    /\ \A s \in Starting : Installs(s)

StartInv ==
  /\ StartTyped
  /\ InTurn /\ MarkForgotten
  /\ Schema("config") /\ Schema("default")
  /\ Opened
  /\ \A s \in Start : Sees(s)
  /\ RootFile
  /\ \A s \in Start : RootOf(s)
  /\ Installed
  /\ FailsForAReason

LEMMA StartValues ==
  /\ {"not begun", "serve", "failed", "ended", "killed"} = Over
  /\ {"version", "tables", "commit", "row"} = Phases
  /\ NoDatabase \in Database /\ Complete \in Database
  /\ "config" \in Dbs /\ "default" \in Dbs
  BY DEF Over, Phases, NoDatabase, Complete, Database, Dbs

LEMMA DatabaseFields ==
  /\ ~NoDatabase.exists /\ ~NoDatabase.tables /\ ~NoDatabase.head /\ ~NoDatabase.version
  /\ Complete.exists /\ Complete.tables /\ Complete.head /\ Complete.version
  BY DEF NoDatabase, Complete

LEMMA StageIs ==
  ASSUME NEW p \in Phases
  PROVE  /\ Stage(p) \in Database
         /\ Stage(p).exists <=> p # "version"
         /\ Stage(p).tables <=> p \in {"commit", "row"}
         /\ Stage(p).head <=> p = "row"
         /\ ~Stage(p).version
<1>1. /\ Stage(p).exists = (p # "version")
      /\ Stage(p).tables = (p \in {"commit", "row"})
      /\ Stage(p).head = (p = "row")
      /\ Stage(p).version = FALSE
  BY DEF Stage
<1>2. Stage(p) \in Database
  BY DEF Stage, Database
<1> QED BY <1>1, <1>2

LEMMA SameDb ==
  ASSUME NEW a \in Database, NEW b \in Database,
         a.exists <=> b.exists, a.tables <=> b.tables, a.head <=> b.head,
         a.version <=> b.version
  PROVE  a = b
  BY DEF Database

LEMMA FirstStage == Stage("version") = NoDatabase
<1>1. "version" \in Phases
  BY DEF Phases
<1> QED BY <1>1, StageIs, StartValues, DatabaseFields, SameDb

LEMMA StartInitInv == StartInit => StartInv
<1> SUFFICES ASSUME StartInit PROVE StartInv
  OBVIOUS
<1>1. StartTyped
  <2>1. srv \in [Start -> Srvs]
    BY DEF StartInit, Srvs, Over, Dbs
  <2>2. db \in [Dbs -> Database]
    BY StartValues DEF StartInit, Dbs
  <2>3. root \in Roots
    BY DEF StartInit, NoRoot, Roots
  <2>4. cuts \in 0..MaxCuts
    <3>1. cuts = 0 /\ MaxCuts \in Nat
      BY ServerStartAssumption DEF StartInit
    <3> QED BY <3>1
  <2>5. product = "none" /\ met = {}
    BY DEF StartInit
  <2> QED BY <2>1, <2>2, <2>3, <2>4, <2>5 DEF StartTyped
<1>2. \A s \in Start : /\ srv[s].pc = "not begun" /\ srv[s].on = "config"
                       /\ ~srv[s].reset /\ ~srv[s].add /\ ~srv[s].first
  BY DEF StartInit
<1>3. Starting = {} /\ Killed = {}
  BY <1>2 DEF Starting, Killed, StartAt, Over
<1>4. db["config"] = NoDatabase /\ db["default"] = NoDatabase
  BY DEF StartInit
<1>5. InTurn
  BY <1>2 DEF InTurn, Begun, StartAt
<1>q. MarkForgotten
  BY <1>2 DEF MarkForgotten
<1>6. \A d \in Dbs : Schema(d)
  <2>1. \A d \in Dbs : ~db[d].tables /\ ~db[d].version
    BY <1>4 DEF Dbs, NoDatabase
  <2> QED BY <1>2, <2>1 DEF Schema, StartAt
<1>p. product = "none"
  BY DEF StartInit
<1>7. Opened
  BY <1>2, <1>p DEF Opened
<1>8. /\ ~root.exists /\ ~root.readonly
  BY DEF StartInit, NoRoot
<1>9. RootFile
  BY <1>8 DEF RootFile
<1>10. \A s \in Start : Sees(s) /\ RootOf(s)
  BY <1>2, <1>3 DEF Sees, RootOf, Served, StartAt
<1>11. Installed
  <2>1. Fresh
    BY <1>4, <1>8, <1>p DEF Fresh
  <2> QED BY <1>3, <2>1 DEF Installed
<1>12. FailsForAReason
  BY <1>2 DEF FailsForAReason, StartAt
<1> QED BY <1>1, <1>5, <1>q, <1>6, <1>7, <1>9, <1>10, <1>11, <1>12, StartValues DEF StartInv

(* Who has met nobody while going on has the directory for itself.         *)
LEMMA Single ==
  ASSUME StartInv, NEW s \in Starting, s \notin met
  PROVE  /\ Starting = {s}
         /\ \A t \in Start : Begun(t) /\ t # s => t < s
<1>1. s \in Start /\ Begun(s)
  BY DEF Starting, Begun, StartAt, Over
<1> QED BY <1>1 DEF StartInv, InTurn, Starting

LEMMA NobodyKilled ==
  ASSUME StartInv, NEW s \in Starting, s \notin met, \A t \in Killed : ~(t < s)
  PROVE  Killed = {}
<1>1. \A t \in Killed : t \in Start /\ Begun(t) /\ t # s
  BY DEF Killed, Starting, Begun, StartAt, Over
<1> QED BY <1>1, Single

(* The steps of a start that has begun.                                    *)
Elsewhere(s) == \A t \in Start \ {s} : srv'[t] = srv[t]

LEMMA AdvanceInv ==
  ASSUME StartInv, NEW s \in Starting, StartTyped', Elsewhere(s), met' = met,
         srv'[s].pc \notin {"not begun", "begin", "killed"}, srv[s].reset => srv'[s].reset,
         srv'[s].pc \notin Phases =>
           srv'[s].on = "config" /\ ~srv'[s].add /\ ~srv'[s].first,
         Schema("config")', Schema("default")', Opened', RootFile', Sees(s)', RootOf(s)',
         \/ srv'[s].reset
         \/ srv[s].pc \notin {"make", "write", "chmod"} /\ root.exists =>
              root' = root /\ srv'[s].pc \notin {"make", "write", "chmod"},
         met = {} /\ Killed = {} /\ Installs(s) =>
           IF srv'[s].pc \notin Over THEN Installs(s)' ELSE Ready' /\ RootReady',
         srv'[s].pc = "failed" /\ s \notin met /\ Killed = {} =>
           \E t \in Start : t < s /\ Port[t] = Port[s]
  PROVE  StartInv'
<1>1. s \in Start /\ s \in Starting /\ Begun(s) /\ Begun(s)' /\ ~StartAt(s, "killed")
  BY DEF Starting, Begun, StartAt, Over
<1>2. Killed' = Killed
  BY <1>1 DEF Killed, Elsewhere, StartAt
<1>3. Starting' \subseteq Starting /\ \A t \in Start : Begun(t)' <=> Begun(t)
  BY <1>1 DEF Starting, Elsewhere, Begun, StartAt
<1>4. InTurn'
  <2>1. \A t, u \in Start : t < u /\ Begun(u)' => Begun(t)'
    BY <1>3 DEF StartInv, InTurn
  <2>2. \A t \in Start : Begun(t)' /\ t \notin met' =>
          \A u \in Start \ {t} :
            /\ u \in Starting' => u > t
            /\ t \in Starting' => u \notin Starting'
            /\ t \in Starting' /\ Begun(u)' => u < t
    BY <1>3 DEF StartInv, InTurn
  <2>3. \A t \in Start : srv'[t].pc \in {"not begun", "begin"} => ~srv'[t].reset
    BY DEF StartInv, InTurn, Elsewhere
  <2> QED BY <2>1, <2>2, <2>3 DEF InTurn
<1>q. MarkForgotten'
  BY DEF StartInv, MarkForgotten, Elsewhere
<1>5. ASSUME NEW t \in Start \ {s} PROVE Sees(t)'
  <2>1. t \in Starting => t \in met
    BY <1>1 DEF StartInv, InTurn, Begun, Starting, StartAt, Over
  <2> QED BY <2>1, <1>3 DEF Sees
<1>6. ASSUME NEW t \in Start \ {s} PROVE RootOf(t)'
  <2> SUFFICES ASSUME Served(t)'
               PROVE  /\ root'.exists /\ root'.sha # Unset /\ srv'[t].sha = root'.sha
                      /\ \A u \in Start : srv'[u].pc \notin {"make", "write", "chmod"}
    BY DEF RootOf
  <2>1. srv'[t] = srv[t] /\ srv[t].pc = "serve" /\ t \notin met
    BY DEF Served, Elsewhere, StartAt
  <2>2. s > t
    BY <1>1, <2>1 DEF StartInv, InTurn, Begun, StartAt
  <2>3. ~srv'[s].reset
    BY <2>2, <1>1 DEF Served
  <2>4. Served(t)
    <3>1. \A u \in Killed : ~(u < t)
      BY <1>2 DEF Served
    <3>2. \A u \in Start : u > t => ~srv[u].reset
      <4>1. ASSUME NEW u \in Start, u > t, u # s PROVE ~srv[u].reset
        BY <4>1 DEF Served, Elsewhere
      <4>2. ~srv[s].reset
        BY <2>3
      <4> QED BY <4>1, <4>2
    <3> QED BY <2>1, <3>1, <3>2 DEF Served, StartAt
  <2>5. /\ root.exists /\ root.sha # Unset /\ srv[t].sha = root.sha
        /\ \A u \in Start : srv[u].pc \notin {"make", "write", "chmod"}
    BY <2>4 DEF StartInv, RootOf
  <2>6. root' = root /\ srv'[s].pc \notin {"make", "write", "chmod"}
    BY <1>1, <2>3, <2>5
  <2> QED BY <2>1, <2>5, <2>6 DEF Elsewhere
<1>7. Installed'
  <2> SUFFICES ASSUME met = {}, Killed = {}
               PROVE  /\ Starting' = {} => Fresh' \/ (Ready' /\ RootReady')
                      /\ \A t \in Starting' : Installs(t)'
    BY <1>2 DEF Installed
  <2>1. Starting = {s}
    BY <1>1, Single
  <2>2. Installs(s)
    BY <2>1 DEF StartInv, Installed
  <2>3. CASE srv'[s].pc \notin Over
    <3>1. Starting' = {s}
      BY <1>1, <1>3, <2>1, <2>3 DEF Starting, StartAt
    <3> QED BY <2>2, <2>3, <3>1
  <2>4. CASE srv'[s].pc \in Over
    <3>1. Starting' = {}
      BY <1>1, <1>3, <2>1, <2>4 DEF Starting, StartAt
    <3> QED BY <2>2, <2>4, <3>1
  <2> QED BY <2>3, <2>4
<1>8. FailsForAReason'
  <2> SUFFICES ASSUME NEW t \in Start, srv'[t].pc = "failed", t \notin met,
                      \A u \in Killed : ~(u < t)
               PROVE  \E u \in Start : u < t /\ Port[u] = Port[t]
    BY <1>2 DEF FailsForAReason, StartAt
  <2>1. CASE t = s
    <3>1. Killed = {}
      BY <2>1, NobodyKilled
    <3> QED BY <2>1, <3>1
  <2>2. CASE t # s
    <3>1. srv[t].pc = "failed"
      BY <2>2 DEF Elsewhere
    <3> QED BY <3>1 DEF StartInv, FailsForAReason, StartAt
  <2> QED BY <2>1, <2>2
<1> QED BY <1>4, <1>q, <1>5, <1>6, <1>7, <1>8 DEF StartInv

Pcs == Over \cup Phases \cup
         {"begin", "product", "root", "make", "write", "chmod", "load", "bind"}

LEMMA ToIs ==
  ASSUME StartTyped, NEW s \in Start, NEW to \in Pcs, To(s, to)
  PROVE  /\ srv' \in [Start -> Srvs] /\ Elsewhere(s)
         /\ srv'[s].pc = to
         /\ srv'[s].reset = srv[s].reset
         /\ IF to \in Phases
            THEN /\ srv'[s].add = srv[s].add /\ srv'[s].first = srv[s].first
                 /\ srv'[s].on = srv[s].on
            ELSE ~srv'[s].add /\ ~srv'[s].first /\ srv'[s].on = "config"
         /\ to # "write" => srv'[s].file = 0
         /\ srv'[s].sha = IF to \in {"failed", "ended", "killed"} THEN Unset ELSE srv[s].sha
<1> DEFINE new == [pc    |-> to,
     add   |-> IF to \in Phases THEN srv[s].add ELSE FALSE,
     first |-> IF to \in Phases THEN srv[s].first ELSE FALSE,
     on    |-> IF to \in Phases THEN srv[s].on ELSE "config",
     file  |-> IF to = "write" THEN srv[s].file ELSE 0,
     sha   |-> IF to \in {"failed", "ended", "killed"} THEN Unset ELSE srv[s].sha,
     reset |-> srv[s].reset]
<1>1. srv' = [srv EXCEPT ![s] = new]
  BY DEF To
<1>2. srv \in [Start -> Srvs] /\ srv[s] \in Srvs
  BY DEF StartTyped
<1>3. new \in Srvs
  BY <1>2 DEF Srvs, Pcs, Dbs
<1> HIDE DEF new
<1>4. srv' \in [Start -> Srvs] /\ srv'[s] = new /\ Elsewhere(s)
  BY <1>1, <1>2, <1>3 DEF Elsewhere
<1> QED BY <1>4 DEF new

Later == {"product", "root", "make", "write", "chmod", "load", "bind"}

(* A step that touches no database.                                        *)
LEMMA QuietStep ==
  ASSUME StartInv, NEW s \in Starting, Elsewhere(s), db' = db,
         srv[s].pc \in Later \cup {"begin"},
         srv'[s].pc \in Later \cup {"version", "serve", "failed"},
         srv[s].pc = "begin" => srv'[s].pc = "version" /\ product' = product,
         srv'[s].on = "config"
  PROVE  Schema("config")' /\ Schema("default")' /\ Opened'
<1>1. s \in Start
  BY DEF Starting
<1>2. Killed' = Killed
  BY <1>1 DEF Killed, Elsewhere, StartAt, Later
<1>3. ASSUME NEW d \in Dbs PROVE Schema(d)'
  <2>1. Schema(d)
    BY <1>3 DEF StartInv, Dbs
  <2> QED BY <1>1, <1>2, <2>1 DEF Schema, Elsewhere, StartAt, Later
<1>4. Opened'
  BY <1>1 DEF StartInv, Opened, Elsewhere, Later
<1> QED BY <1>3, <1>4, StartValues

(* A step that leaves root.user alone.                                     *)
LEMMA RootLeft ==
  ASSUME StartInv, NEW s \in Starting, Elsewhere(s), root' = root,
         srv[s].pc # "write", srv'[s].pc # "killed"
  PROVE  RootFile'
<1>1. s \in Start
  BY DEF Starting
<1>2. Killed' = Killed
  BY <1>1 DEF Killed, Starting, Elsewhere, StartAt, Over
<1> QED BY <1>1, <1>2 DEF StartInv, RootFile, Elsewhere, StartAt

LEMMA BeginInv ==
  ASSUME StartInv, NEW s \in Start, NEW reset \in BOOLEAN, Begin(s, reset)
  PROVE  StartInv'
<1>1. srv[s].pc = "begin" /\ s \in Starting /\ srv \in [Start -> Srvs] /\ srv[s] \in Srvs
  BY DEF Begin, StartAt, Starting, Over, StartInv, StartTyped
<1>2. PICK new \in Srvs :
        /\ srv' = [srv EXCEPT ![s] = new]
        /\ new.pc = "version" /\ new.reset = reset /\ new.on = srv[s].on
        /\ new.first = (~db["config"].exists /\ ~db["default"].exists)
        /\ new.add = srv[s].add
  <2> DEFINE n == [srv[s] EXCEPT !.pc = "version", !.reset = reset,
                     !.first = ~db["config"].exists /\ ~db["default"].exists]
  <2>1. n \in Srvs
    BY <1>1, StartValues DEF Srvs, Phases
  <2>2. srv' = [srv EXCEPT ![s] = n]
    BY DEF Begin
  <2>3. /\ n.pc = "version" /\ n.reset = reset /\ n.on = srv[s].on
        /\ n.first = (~db["config"].exists /\ ~db["default"].exists)
        /\ n.add = srv[s].add
    BY <1>1 DEF Srvs
  <2> HIDE DEF n
  <2> QED BY <2>1, <2>2, <2>3
<1>3. srv' \in [Start -> Srvs] /\ srv'[s] = new /\ Elsewhere(s)
  BY <1>1, <1>2 DEF Elsewhere
<1>4. db' = db /\ product' = product /\ cuts' = cuts /\ met' = met
  BY DEF Begin, Rest
<1>5. root' = (IF reset THEN Removed ELSE root)
  BY DEF Begin
<1>6. root \in Roots /\ root' \in Roots /\ (root' = root \/ (reset /\ ~root'.exists /\ ~root'.readonly))
  <2>1. root \in Roots
    BY DEF StartInv, StartTyped
  <2> QED BY <1>5, <2>1 DEF Removed, NoRoot, Roots
<1>7. StartTyped'
  BY <1>3, <1>4, <1>6 DEF StartInv, StartTyped
<1>8. ~srv[s].add /\ srv[s].on = "config" /\ ~srv[s].reset
  BY <1>1 DEF StartInv, InTurn, MarkForgotten, Phases
<1>9. Schema("config")' /\ Schema("default")' /\ Opened'
  BY <1>1, <1>2, <1>3, <1>4, <1>8, QuietStep DEF Later
<1>10. RootFile'
  <2>1. CASE root' = root
    BY <1>1, <1>2, <1>3, <2>1, RootLeft
  <2>2. CASE ~root'.exists /\ ~root'.readonly
    BY <2>2 DEF RootFile
  <2> QED BY <1>6, <2>1, <2>2
<1>11. Sees(s)'
  <2>1. new.first => product = "none" /\ \A t \in Start : srv[t].pc \notin {"serve", "ended"}
    BY <1>2 DEF StartInv, Opened
  <2> QED BY <1>2, <1>3, <1>4, <2>1 DEF Sees, StartAt, Elsewhere
<1>12. RootOf(s)'
  BY <1>2, <1>3 DEF RootOf, Served, StartAt
<1>13. ASSUME met = {}, Killed = {}, Installs(s) PROVE Installs(s)'
  <2>1. Fresh \/ (Ready /\ RootReady)
    BY <1>1, <1>13 DEF Installs, StartAt
  <2>2. new.first <=> Fresh
    BY <1>2, <2>1, DatabaseFields DEF Fresh, Ready
  <2>3. ~new.first => Ready' /\ (root'.exists => RootReady')
    BY <1>4, <1>6, <2>1, <2>2 DEF Ready, RootReady
  <2>4. new.first => /\ product = "none" /\ ~root'.exists
                     /\ db["config"] = Stage("version") /\ db["default"] = NoDatabase
    BY <1>6, <2>2, FirstStage DEF Fresh
  <2> QED BY <1>2, <1>3, <1>4, <1>8, <2>3, <2>4 DEF Installs, StartAt, Phases
<1>14. srv'[s].pc \notin Over /\ srv'[s].pc \in Phases
  BY <1>2, <1>3 DEF Over, Phases
<1> QED BY <1>1, <1>2, <1>3, <1>4, <1>6, <1>7, <1>8, <1>9, <1>10, <1>11, <1>12, <1>13,
           <1>14, AdvanceInv

LEMMA CheckDbVersionInv ==
  ASSUME StartInv, NEW s \in Start, CheckDbVersion(s)
  PROVE  StartInv'
<1> DEFINE d == srv[s].on
<1>1. srv[s].pc = "version" /\ s \in Starting /\ srv \in [Start -> Srvs] /\ srv[s] \in Srvs
  BY DEF CheckDbVersion, StartAt, Starting, Over, StartInv, StartTyped
<1>2. /\ d \in Dbs /\ db \in [Dbs -> Database] /\ db' = [db EXCEPT ![d].exists = TRUE]
      /\ root' = root /\ product' = product /\ cuts' = cuts /\ met' = met
  BY <1>1 DEF CheckDbVersion, Rest, StartInv, StartTyped, Srvs
<1>3. /\ db' \in [Dbs -> Database]
      /\ db'[d].exists /\ db'[d].tables = db[d].tables
      /\ db'[d].head = db[d].head /\ db'[d].version = db[d].version
      /\ \A e \in Dbs \ {d} : db'[e] = db[e]
  <2> HIDE DEF d
  <2> QED BY <1>2 DEF Database
<1>4. /\ srv' \in [Start -> Srvs] /\ Elsewhere(s)
      /\ srv'[s].reset = srv[s].reset
      /\ \/ /\ srv'[s].pc = "failed" /\ srv'[s].on = "config"
            /\ ~srv'[s].add /\ ~srv'[s].first
            /\ db[d].tables /\ ~db[d].version
         \/ /\ srv'[s].pc = "tables" /\ srv'[s].on = d /\ srv'[s].first = srv[s].first
            /\ srv'[s].add = ~db[d].tables
            /\ ~(db[d].tables /\ ~db[d].version)
  <2>1. CASE db[d].tables /\ ~db[d].version
    <3>1. To(s, "failed") /\ "failed" \in Pcs /\ "failed" \notin Phases
      BY <2>1 DEF CheckDbVersion, Pcs, Over, Phases
    <3> QED BY <2>1, <3>1, ToIs DEF StartInv
  <2>2. CASE ~(db[d].tables /\ ~db[d].version)
    <3> DEFINE n == [srv[s] EXCEPT !.pc = "tables", !.add = ~db[d].tables]
    <3>1. srv' = [srv EXCEPT ![s] = n]
      BY <2>2 DEF CheckDbVersion
    <3>2. n \in Srvs
      BY <1>1 DEF Srvs, Phases
    <3>3. /\ n.pc = "tables" /\ n.add = ~db[d].tables /\ n.on = d
          /\ n.first = srv[s].first /\ n.reset = srv[s].reset
      BY <1>1 DEF Srvs
    <3> HIDE DEF n
    <3> QED BY <1>1, <2>2, <3>1, <3>2, <3>3 DEF Elsewhere
  <2> QED BY <2>1, <2>2
<1> HIDE DEF d
<1>d. d = srv[s].on
  BY DEF d
<1>5. StartTyped'
  BY <1>2, <1>3, <1>4 DEF StartInv, StartTyped
<1>6. Killed' = Killed
  BY <1>1, <1>4 DEF Killed, Elsewhere, StartAt
<1>7. ASSUME NEW e \in Dbs PROVE Schema(e)'
  <2>1. Schema(e)
    BY <1>7 DEF StartInv, Dbs
  <2>2. /\ db'[e].tables = db[e].tables /\ db'[e].head = db[e].head
        /\ db'[e].version = db[e].version
    BY <1>2, <1>3
  <2>3. /\ db'[e].tables /\ ~db'[e].head =>
             Killed # {} \/ \E t \in Start \ {s} : StartAt(t, "commit") /\ srv[t].on = e
        /\ db'[e].tables /\ ~db'[e].version =>
             Killed # {} \/ \E t \in Start \ {s} :
                        srv[t].pc \in {"commit", "row"} /\ srv[t].on = e /\ srv[t].add
    BY <1>1, <2>1, <2>2 DEF Schema, StartAt
  <2>4. \A t \in Start : srv'[t].on = e =>
          /\ srv'[t].pc = "tables" /\ ~srv'[t].add => db[e].tables
          /\ srv'[t].pc \in {"commit", "row"} => db[e].tables
    BY <1>2, <1>4, <2>1 DEF Schema, StartAt, Elsewhere
  <2>5. db'[e].tables /\ ~db'[e].head =>
          Killed # {} \/ \E t \in Start : srv'[t].pc = "commit" /\ srv'[t].on = e
    <3> SUFFICES ASSUME db'[e].tables, ~db'[e].head, Killed = {}
                 PROVE  \E t \in Start : srv'[t].pc = "commit" /\ srv'[t].on = e
      OBVIOUS
    <3>1. PICK t \in Start \ {s} : srv[t].pc = "commit" /\ srv[t].on = e
      BY <2>3 DEF StartAt
    <3> QED BY <1>4, <3>1 DEF Elsewhere
  <2>6. db'[e].tables /\ ~db'[e].version =>
          Killed # {} \/ \E t \in Start :
            srv'[t].pc \in {"commit", "row"} /\ srv'[t].on = e /\ srv'[t].add
    <3> SUFFICES ASSUME db'[e].tables, ~db'[e].version, Killed = {}
                 PROVE  \E t \in Start : /\ srv'[t].pc \in {"commit", "row"}
                                         /\ srv'[t].on = e /\ srv'[t].add
      OBVIOUS
    <3>1. PICK t \in Start \ {s} :
            srv[t].pc \in {"commit", "row"} /\ srv[t].on = e /\ srv[t].add
      BY <2>3
    <3> QED BY <1>4, <3>1 DEF Elsewhere
  <2>7. db'[e].version => db'[e].tables
    BY <2>1, <2>2 DEF Schema
  <2> QED BY <1>6, <2>2, <2>4, <2>5, <2>6, <2>7 DEF Schema, StartAt
<1>8. Opened'
  <2>1. db["config"].exists => db'["config"].exists
    BY <1>2, <1>3 DEF Dbs
  <2>2. d = "default" => db["config"].exists
    BY <1>d DEF StartInv, Opened
  <2>3. db'["config"].exists
    BY <1>2, <1>3, <2>1, <2>2 DEF Dbs
  <2>4. \A t \in Start : srv'[t].on = "default" => srv'[t].first
    BY <1>d, <1>4 DEF StartInv, Opened, Elsewhere
  <2> QED BY <2>3, <2>4 DEF Opened
<1>9. RootFile'
  BY <1>1, <1>2, <1>4, RootLeft
<1>10. Sees(s)'
  <2> SUFFICES ASSUME s \notin met, srv'[s].pc = "tables" PROVE Sees(s)'
    BY <1>2, <1>4 DEF Sees, Starting, StartAt, Over
  <2>1. Sees(s) /\ Schema(d)
    BY <1>1, <1>2 DEF StartInv, Dbs
  <2>2. srv'[s].add => ~db'[d].version
    BY <1>3, <1>4, <2>1 DEF Schema
  <2>3. srv'[s].first => product = "none" /\ \A t \in Start : srv'[t].pc \notin {"serve", "ended"}
    BY <1>1, <1>4, <2>1 DEF Sees, Elsewhere
  <2> QED BY <1>2, <1>4, <2>2, <2>3 DEF Sees, StartAt
<1>11. RootOf(s)'
  BY <1>4 DEF RootOf, Served, StartAt
<1>12. ASSUME srv'[s].pc = "failed", s \notin met, Killed = {}
       PROVE  FALSE
  <2>1. Schema(d) /\ db[d].tables /\ ~db[d].version
    BY <1>2, <1>4, <1>12 DEF StartInv, Dbs
  <2>2. PICK t \in Start : srv[t].pc \in {"commit", "row"}
    BY <1>12, <2>1 DEF Schema
  <2>3. t \in Starting
    BY <2>2 DEF Starting, StartAt, Over
  <2> QED BY <1>1, <1>12, <2>2, <2>3, Single
<1>13. ASSUME met = {}, Killed = {}, Installs(s) PROVE srv'[s].pc = "tables" /\ Installs(s)'
  <2>1. srv'[s].pc = "tables"
    BY <1>4, <1>12, <1>13
  <2>2. srv'[s].on = d /\ srv'[s].first = srv[s].first /\ srv'[s].add = ~db[d].tables
    BY <1>4, <2>1
  <2>3. CASE ~srv[s].first
    <3>1. Ready /\ (root.exists => RootReady) /\ d = "config"
      BY <1>d, <1>1, <1>13, <2>3 DEF Installs, Phases
    <3>2. db' = db
      <4>1. db["config"] = Complete /\ Complete \in Database /\ db'["config"] \in Database
        BY <1>3, <3>1, StartValues DEF Ready, Dbs
      <4>2. db'["config"] = db["config"]
        BY <1>3, <3>1, <4>1, SameDb, DatabaseFields
      <4> QED BY <1>2, <1>3, <3>1, <4>2 DEF Dbs
    <3>3. ~srv'[s].add
      BY <2>2, <3>1, DatabaseFields DEF Ready
    <3> QED BY <1>2, <2>1, <2>2, <2>3, <3>1, <3>2, <3>3 DEF Installs, StartAt, Phases, Ready, RootReady
  <2>4. CASE srv[s].first
    <3>1. /\ product = "none" /\ ~root.exists
          /\ d = "config" => db["config"] = NoDatabase /\ db["default"] = NoDatabase
          /\ d = "default" => db["config"] = Complete /\ db["default"] = NoDatabase
      BY <1>d, <1>1, <1>13, <2>4, FirstStage DEF Installs, Phases
    <3>2. ~db[d].exists /\ ~db[d].tables /\ ~db[d].head /\ ~db[d].version
      BY <1>2, <3>1, DatabaseFields DEF Dbs
    <3>3. db'[d] = Stage("tables")
      <4>1. "tables" \in Phases /\ db'[d] \in Database
        BY <1>2, <1>3 DEF Phases
      <4> QED BY <1>3, <3>2, <4>1, StageIs, SameDb
    <3>4. srv'[s].add
      BY <2>2, <3>2
    <3>5. d = "config" => db'["default"] = NoDatabase
      BY <1>3, <3>1 DEF Dbs
    <3>6. d = "default" => db'["config"] = Complete
      BY <1>3, <3>1 DEF Dbs
    <3> QED BY <1>2, <2>1, <2>2, <2>4, <3>1, <3>3, <3>4, <3>5, <3>6 DEF Installs, StartAt, Phases
  <2> QED BY <2>1, <2>3, <2>4
<1>14. "tables" \notin Over /\ "tables" \in Phases
  BY DEF Over, Phases
<1>15. Schema("config")' /\ Schema("default")'
  BY <1>7, StartValues
<1> QED BY <1>1, <1>2, <1>4, <1>5, <1>8, <1>9, <1>10, <1>11, <1>12, <1>13, <1>14, <1>15,
           AdvanceInv

LEMMA CreateTablesInv ==
  ASSUME StartInv, NEW s \in Start, CreateTables(s)
  PROVE  StartInv'
<1>d. PICK d : d = srv[s].on
  OBVIOUS
<1>1. srv[s].pc = "tables" /\ s \in Starting /\ srv \in [Start -> Srvs] /\ srv[s] \in Srvs
  BY DEF CreateTables, StartAt, Starting, Over, StartInv, StartTyped
<1>2. /\ d \in Dbs /\ db \in [Dbs -> Database]
      /\ root' = root /\ product' = product /\ cuts' = cuts /\ met' = met
  BY <1>d, <1>1 DEF CreateTables, Rest, StartInv, StartTyped, Srvs
<1>3. /\ "failed" \in Pcs /\ "failed" \notin Phases
      /\ "commit" \in Pcs /\ "commit" \in Phases /\ "commit" \notin Over
  BY DEF Pcs, Over, Phases
<1>4. Schema(d) /\ Sees(s) /\ db["config"].exists
  BY <1>1, <1>2 DEF StartInv, Dbs, Opened
<1>5. CASE db[d].tables /\ ~db[d].head
  <2>1. db' = db /\ srv' \in [Start -> Srvs] /\ Elsewhere(s) /\ srv'[s].pc = "failed"
        /\ srv'[s].on = "config" /\ srv'[s].reset = srv[s].reset
        /\ ~srv'[s].add /\ ~srv'[s].first
    BY <1>d, <1>3, <1>5, ToIs DEF CreateTables, StartInv
  <2>2. StartTyped'
    BY <1>2, <2>1 DEF StartInv, StartTyped
  <2>3. Killed' = Killed
    BY <1>1, <2>1 DEF Killed, Elsewhere, StartAt
  <2>4. ASSUME NEW e \in Dbs PROVE Schema(e)'
    <3>1. Schema(e)
      BY <2>4 DEF StartInv, Dbs
    <3> QED BY <1>1, <2>1, <2>3, <3>1 DEF Schema, Elsewhere, StartAt
  <2>5. Schema("config")' /\ Schema("default")'
    BY <2>4, StartValues
  <2>6. Opened'
    BY <1>4, <2>1 DEF StartInv, Opened, Elsewhere
  <2>7. RootFile'
    BY <1>1, <1>2, <2>1, RootLeft
  <2>8. Sees(s)' /\ RootOf(s)'
    BY <2>1 DEF Sees, Starting, RootOf, Served, StartAt, Over
  <2>9. ASSUME s \notin met, Killed = {} PROVE FALSE
    <3>1. PICK t \in Start : srv[t].pc = "commit"
      BY <1>4, <1>5, <2>9 DEF Schema, StartAt
    <3>2. t \in Starting
      BY <3>1 DEF Starting, StartAt, Over
    <3> QED BY <1>1, <2>9, <3>1, <3>2, Single
  <2> QED BY <1>1, <1>2, <2>1, <2>2, <2>5, <2>6, <2>7, <2>8, <2>9, AdvanceInv
<1>6. CASE ~(db[d].tables /\ ~db[d].head)
  <2>1. /\ srv' \in [Start -> Srvs] /\ Elsewhere(s) /\ srv'[s].pc = "commit"
        /\ srv'[s].on = d /\ srv'[s].reset = srv[s].reset
        /\ srv'[s].add = srv[s].add /\ srv'[s].first = srv[s].first
    BY <1>d, <1>3, <1>6, ToIs DEF CreateTables, StartInv
  <2>2. db' = [db EXCEPT ![d].tables = TRUE]
    BY <1>d, <1>6 DEF CreateTables
  <2>3. /\ db' \in [Dbs -> Database]
        /\ db'[d].tables /\ db'[d].exists = db[d].exists
        /\ db'[d].head = db[d].head /\ db'[d].version = db[d].version
        /\ \A e \in Dbs \ {d} : db'[e] = db[e]
    BY <1>2, <2>2 DEF Database
  <2>4. StartTyped'
    BY <1>2, <2>1, <2>3 DEF StartInv, StartTyped
  <2>5. Killed' = Killed
    BY <1>1, <2>1 DEF Killed, Elsewhere, StartAt
  <2>6. ASSUME NEW e \in Dbs \ {d} PROVE Schema(e)'
    <3>1. Schema(e) /\ db'[e] = db[e]
      BY <2>3, <2>6 DEF StartInv, Dbs
    <3> QED BY <1>1, <1>d, <2>1, <2>5, <3>1 DEF Schema, Elsewhere, StartAt
  <2>7. Schema(d)'
    <3>1. db'[d].tables /\ ~db'[d].version =>
            Killed # {} \/ \E t \in Start :
              srv'[t].pc \in {"commit", "row"} /\ srv'[t].on = d /\ srv'[t].add
      <4> SUFFICES ASSUME ~db[d].version, Killed = {}
                   PROVE  \E t \in Start : /\ srv'[t].pc \in {"commit", "row"}
                                           /\ srv'[t].on = d /\ srv'[t].add
        BY <2>3
      <4>1. CASE db[d].tables
        <5>1. PICK t \in Start :
                srv[t].pc \in {"commit", "row"} /\ srv[t].on = d /\ srv[t].add
          BY <1>4, <4>1 DEF Schema
        <5> QED BY <1>1, <2>1, <5>1 DEF Elsewhere
      <4>2. CASE ~db[d].tables
        <5>1. srv[s].add
          BY <1>1, <1>4, <1>d, <4>2 DEF Schema, StartAt
        <5> QED BY <2>1, <5>1
      <4> QED BY <4>1, <4>2
    <3> QED BY <2>1, <2>3, <2>5, <3>1 DEF Schema, StartAt
  <2>8. Schema("config")' /\ Schema("default")'
    BY <2>6, <2>7, StartValues
  <2>9. Opened'
    <3>1. db'["config"].exists
      BY <1>4, <1>2, <2>3 DEF Dbs
    <3> QED BY <1>d, <2>1, <3>1 DEF StartInv, Opened, Elsewhere
  <2>10. RootFile'
    BY <1>1, <1>2, <2>1, RootLeft
  <2>11. Sees(s)'
    <3> SUFFICES ASSUME s \notin met PROVE Sees(s)'
      BY <1>2 DEF Sees
    <3>1. srv'[s].add => ~db'[d].version
      BY <1>1, <1>4, <1>d, <2>1, <2>3 DEF Sees
    <3>2. srv'[s].first => product = "none" /\ \A t \in Start : srv'[t].pc \notin {"serve", "ended"}
      BY <1>1, <1>4, <2>1 DEF Sees, Elsewhere
    <3> QED BY <1>2, <2>1, <3>1, <3>2 DEF Sees, StartAt
  <2>12. RootOf(s)'
    BY <2>1 DEF RootOf, Served, StartAt
  <2>13. ASSUME Installs(s) PROVE Installs(s)'
    <3>1. CASE ~srv[s].first
      <4>1. Ready /\ (root.exists => RootReady) /\ d = "config" /\ ~srv[s].add
        BY <1>d, <1>1, <2>13, <3>1 DEF Installs, Phases
      <4>2. db'["config"] = db["config"]
        <5>1. db["config"] \in Database /\ db'["config"] \in Database
          BY <1>2, <2>3 DEF Dbs
        <5> QED BY <2>3, <4>1, <5>1, SameDb, DatabaseFields DEF Ready
      <4>3. Ready'
        BY <1>2, <2>3, <4>1, <4>2 DEF Ready, Dbs
      <4> QED BY <1>2, <2>1, <3>1, <4>1, <4>3 DEF Installs, StartAt, Phases, RootReady
    <3>2. CASE srv[s].first
      <4>1. /\ product = "none" /\ ~root.exists /\ srv[s].add
            /\ d = "config" => db["config"] = Stage("tables") /\ db["default"] = NoDatabase
            /\ d = "default" => db["config"] = Complete /\ db["default"] = Stage("tables")
        BY <1>d, <1>1, <2>13, <3>2 DEF Installs, Phases, StartAt
      <4>2. db'[d] = Stage("commit")
        <5>1. "tables" \in Phases /\ "commit" \in Phases /\ db'[d] \in Database
          BY <1>2, <2>3 DEF Phases
        <5>2. db[d] = Stage("tables")
          BY <1>2, <4>1 DEF Dbs
        <5> QED BY <2>3, <5>1, <5>2, StageIs, SameDb
      <4>3. d = "config" => db'["default"] = NoDatabase
        BY <2>3, <4>1 DEF Dbs
      <4>4. d = "default" => db'["config"] = Complete
        BY <2>3, <4>1 DEF Dbs
      <4> QED BY <1>2, <2>1, <3>2, <4>1, <4>2, <4>3, <4>4 DEF Installs, StartAt, Phases
    <3> QED BY <3>1, <3>2
  <2> QED BY <1>1, <1>2, <1>3, <2>1, <2>4, <2>8, <2>9, <2>10, <2>11, <2>12, <2>13, AdvanceInv
<1> QED BY <1>5, <1>6

LEMMA CommitMigrationsInv ==
  ASSUME StartInv, NEW s \in Start, CommitMigrations(s)
  PROVE  StartInv'
<1>d. PICK d : d = srv[s].on
  OBVIOUS
<1>1. srv[s].pc = "commit" /\ s \in Starting /\ srv \in [Start -> Srvs] /\ srv[s] \in Srvs
  BY DEF CommitMigrations, StartAt, Starting, Over, StartInv, StartTyped
<1>2. /\ d \in Dbs /\ db \in [Dbs -> Database] /\ db' = [db EXCEPT ![d].head = TRUE]
      /\ root' = root /\ product' = product /\ cuts' = cuts /\ met' = met
  BY <1>d, <1>1 DEF CommitMigrations, Rest, StartInv, StartTyped, Srvs
<1>3. "row" \in Pcs /\ "row" \in Phases /\ "row" \notin Over
  BY DEF Pcs, Over, Phases
<1>4. Schema(d) /\ Sees(s) /\ db["config"].exists
  BY <1>1, <1>2 DEF StartInv, Dbs, Opened
<1>5. /\ srv' \in [Start -> Srvs] /\ Elsewhere(s) /\ srv'[s].pc = "row"
      /\ srv'[s].on = d /\ srv'[s].reset = srv[s].reset
      /\ srv'[s].add = srv[s].add /\ srv'[s].first = srv[s].first
  BY <1>d, <1>3, ToIs DEF CommitMigrations, StartInv
<1>6. /\ db' \in [Dbs -> Database]
      /\ db'[d].head /\ db'[d].exists = db[d].exists
      /\ db'[d].tables = db[d].tables /\ db'[d].version = db[d].version
      /\ \A e \in Dbs \ {d} : db'[e] = db[e]
  BY <1>2 DEF Database
<1>7. StartTyped'
  BY <1>2, <1>5, <1>6 DEF StartInv, StartTyped
<1>8. Killed' = Killed
  BY <1>1, <1>5 DEF Killed, Elsewhere, StartAt
<1>9. ASSUME NEW e \in Dbs \ {d} PROVE Schema(e)'
  <2>1. Schema(e) /\ db'[e] = db[e]
    BY <1>6, <1>9 DEF StartInv, Dbs
  <2> QED BY <1>1, <1>d, <1>5, <1>8, <2>1 DEF Schema, Elsewhere, StartAt
<1>10. Schema(d)'
  <2>1. db'[d].tables /\ ~db'[d].version =>
          Killed # {} \/ \E t \in Start :
            srv'[t].pc \in {"commit", "row"} /\ srv'[t].on = d /\ srv'[t].add
    <3> SUFFICES ASSUME db[d].tables, ~db[d].version, Killed = {}
                 PROVE  \E t \in Start : /\ srv'[t].pc \in {"commit", "row"}
                                         /\ srv'[t].on = d /\ srv'[t].add
      BY <1>6
    <3>1. PICK t \in Start :
            srv[t].pc \in {"commit", "row"} /\ srv[t].on = d /\ srv[t].add
      BY <1>4 DEF Schema
    <3> QED BY <1>5, <3>1 DEF Elsewhere
  <2>2. \A t \in Start : srv'[t].on = d =>
          /\ srv'[t].pc = "tables" /\ ~srv'[t].add => db[d].tables
          /\ srv'[t].pc \in {"commit", "row"} => db[d].tables
    BY <1>1, <1>d, <1>4, <1>5 DEF Schema, Elsewhere, StartAt
  <2>3. db'[d].version => db'[d].tables
    BY <1>4, <1>6 DEF Schema
  <2> QED BY <1>6, <1>8, <2>1, <2>2, <2>3 DEF Schema, StartAt
<1>11. Schema("config")' /\ Schema("default")'
  BY <1>9, <1>10, StartValues
<1>12. Opened'
  <2>1. db'["config"].exists
    BY <1>4, <1>2, <1>6 DEF Dbs
  <2> QED BY <1>d, <1>5, <2>1 DEF StartInv, Opened, Elsewhere
<1>13. RootFile'
  BY <1>1, <1>2, <1>5, RootLeft
<1>14. Sees(s)'
  <2> SUFFICES ASSUME s \notin met PROVE Sees(s)'
    BY <1>2 DEF Sees
  <2>1. srv'[s].add => ~db'[d].version
    BY <1>1, <1>4, <1>d, <1>5, <1>6 DEF Sees
  <2>2. srv'[s].first => product = "none" /\ \A t \in Start : srv'[t].pc \notin {"serve", "ended"}
    BY <1>1, <1>4, <1>5 DEF Sees, Elsewhere
  <2> QED BY <1>2, <1>5, <2>1, <2>2 DEF Sees, StartAt
<1>15. RootOf(s)'
  BY <1>5 DEF RootOf, Served, StartAt
<1>16. ASSUME Installs(s) PROVE Installs(s)'
  <2>1. CASE ~srv[s].first
    <3>1. Ready /\ (root.exists => RootReady) /\ d = "config" /\ ~srv[s].add
      BY <1>d, <1>1, <1>16, <2>1 DEF Installs, Phases
    <3>2. db'["config"] = db["config"]
      <4>1. db["config"] \in Database /\ db'["config"] \in Database
        BY <1>2, <1>6 DEF Dbs
      <4> QED BY <1>6, <3>1, <4>1, SameDb, DatabaseFields DEF Ready
    <3>3. Ready'
      BY <1>2, <1>6, <3>1, <3>2 DEF Ready, Dbs
    <3> QED BY <1>2, <1>5, <2>1, <3>1, <3>3 DEF Installs, StartAt, Phases, RootReady
  <2>2. CASE srv[s].first
    <3>1. /\ product = "none" /\ ~root.exists /\ srv[s].add
          /\ d = "config" => db["config"] = Stage("commit") /\ db["default"] = NoDatabase
          /\ d = "default" => db["config"] = Complete /\ db["default"] = Stage("commit")
      BY <1>d, <1>1, <1>16, <2>2 DEF Installs, Phases, StartAt
    <3>2. db'[d] = Stage("row")
      <4>1. "row" \in Phases /\ "commit" \in Phases /\ db'[d] \in Database
        BY <1>2, <1>6 DEF Phases
      <4>2. db[d] = Stage("commit")
        BY <1>2, <3>1 DEF Dbs
      <4> QED BY <1>6, <4>1, <4>2, StageIs, SameDb
    <3>3. d = "config" => db'["default"] = NoDatabase
      BY <1>6, <3>1 DEF Dbs
    <3>4. d = "default" => db'["config"] = Complete
      BY <1>6, <3>1 DEF Dbs
    <3> QED BY <1>2, <1>5, <2>2, <3>1, <3>2, <3>3, <3>4 DEF Installs, StartAt, Phases
  <2> QED BY <2>1, <2>2
<1> QED BY <1>1, <1>2, <1>3, <1>5, <1>7, <1>11, <1>12, <1>13, <1>14, <1>15, <1>16, AdvanceInv

LEMMA AddVersionInv ==
  ASSUME StartInv, NEW s \in Start, AddVersion(s)
  PROVE  StartInv'
<1>d. PICK d : d = srv[s].on
  OBVIOUS
<1>1. srv[s].pc = "row" /\ s \in Starting /\ srv \in [Start -> Srvs] /\ srv[s] \in Srvs
  BY DEF AddVersion, StartAt, Starting, Over, StartInv, StartTyped
<1>2. /\ d \in Dbs /\ db \in [Dbs -> Database]
      /\ root' = root /\ product' = product /\ cuts' = cuts /\ met' = met
  BY <1>d, <1>1 DEF AddVersion, Rest, StartInv, StartTyped, Srvs
<1>3. /\ "failed" \in Pcs /\ "failed" \notin Phases
      /\ "product" \in Pcs /\ "product" \notin Phases
      /\ "root" \in Pcs /\ "root" \notin Phases
  BY DEF Pcs, Over, Phases
<1>4. Schema(d) /\ Sees(s) /\ db["config"].exists /\ (d = "default" => srv[s].first)
  BY <1>d, <1>1, <1>2 DEF StartInv, Dbs, Opened
<1>5. CASE srv[s].add /\ db[d].version
  <2>1. db' = db /\ srv' \in [Start -> Srvs] /\ Elsewhere(s) /\ srv'[s].pc = "failed"
        /\ srv'[s].on = "config" /\ srv'[s].reset = srv[s].reset
        /\ ~srv'[s].add /\ ~srv'[s].first
    BY <1>d, <1>3, <1>5, ToIs DEF AddVersion, StartInv
  <2>2. StartTyped'
    BY <1>2, <2>1 DEF StartInv, StartTyped
  <2>3. Killed' = Killed
    BY <1>1, <2>1 DEF Killed, Elsewhere, StartAt
  <2>4. ASSUME NEW e \in Dbs PROVE Schema(e)'
    <3>1. Schema(e)
      BY <2>4 DEF StartInv, Dbs
    <3> QED BY <1>d, <1>1, <1>5, <2>1, <2>3, <3>1 DEF Schema, Elsewhere, StartAt
  <2>5. Schema("config")' /\ Schema("default")'
    BY <2>4, StartValues
  <2>6. Opened'
    BY <1>4, <2>1 DEF StartInv, Opened, Elsewhere
  <2>7. RootFile'
    BY <1>1, <1>2, <2>1, RootLeft
  <2>8. Sees(s)' /\ RootOf(s)'
    BY <2>1 DEF Sees, Starting, RootOf, Served, StartAt, Over
  <2>9. s \in met
    BY <1>d, <1>1, <1>4, <1>5 DEF Sees
  <2> QED BY <1>1, <1>2, <2>1, <2>2, <2>5, <2>6, <2>7, <2>8, <2>9, AdvanceInv
<1>6. CASE ~(srv[s].add /\ db[d].version)
  <2>1. /\ srv' \in [Start -> Srvs] /\ Elsewhere(s) /\ srv'[s].reset = srv[s].reset
        /\ \/ /\ d = "default" /\ srv'[s].pc = "product"
              /\ srv'[s].on = "config" /\ ~srv'[s].add /\ ~srv'[s].first
           \/ /\ d = "config" /\ ~srv[s].first /\ srv'[s].pc = "root"
              /\ srv'[s].on = "config" /\ ~srv'[s].add /\ ~srv'[s].first
           \/ /\ d = "config" /\ srv[s].first /\ srv'[s].pc = "version"
              /\ srv'[s].on = "default" /\ srv'[s].first
    <3>1. CASE d = "default"
      <4>1. To(s, "product")
        BY <1>d, <1>6, <3>1 DEF AddVersion
      <4> QED BY <1>3, <3>1, <4>1, ToIs DEF StartInv
    <3>2. CASE d = "config" /\ ~srv[s].first
      <4>1. To(s, "root")
        BY <1>d, <1>6, <3>2 DEF AddVersion
      <4> QED BY <1>3, <3>2, <4>1, ToIs DEF StartInv
    <3>3. CASE d = "config" /\ srv[s].first
      <4> DEFINE n == [srv[s] EXCEPT !.pc = "version", !.on = "default"]
      <4>1. srv' = [srv EXCEPT ![s] = n]
        BY <1>d, <1>6, <3>3 DEF AddVersion
      <4>2. n \in Srvs
        BY <1>1 DEF Srvs, Phases, Dbs
      <4>3. /\ n.pc = "version" /\ n.on = "default"
            /\ n.first = srv[s].first /\ n.reset = srv[s].reset
        BY <1>1 DEF Srvs
      <4> HIDE DEF n
      <4> QED BY <1>1, <3>3, <4>1, <4>2, <4>3 DEF Elsewhere
    <3> QED BY <1>2, <3>1, <3>2, <3>3 DEF Dbs
  <2>2. db' = [db EXCEPT ![d].version = db[d].version \/ srv[s].add]
    BY <1>d, <1>6 DEF AddVersion
  <2>3. /\ db' \in [Dbs -> Database]
        /\ db'[d].tables = db[d].tables /\ db'[d].exists = db[d].exists
        /\ db'[d].head = db[d].head
        /\ \A e \in Dbs \ {d} : db'[e] = db[e]
    BY <1>1, <1>2, <2>2 DEF Database, Srvs
  <2>4. db'[d].version <=> db[d].version \/ srv[s].add
    BY <1>1, <1>2, <2>2 DEF Database, Srvs
  <2>5. StartTyped'
    BY <1>2, <2>1, <2>3 DEF StartInv, StartTyped
  <2>6. Killed' = Killed
    BY <1>1, <2>1 DEF Killed, Elsewhere, StartAt
  <2>7. ASSUME NEW e \in Dbs \ {d} PROVE Schema(e)'
    <3>1. Schema(e) /\ db'[e] = db[e]
      BY <2>3, <2>7 DEF StartInv, Dbs
    <3>2. \A t \in Start : srv'[t].on = e =>
            /\ srv'[t].pc = "tables" /\ ~srv'[t].add => db[e].tables
            /\ srv'[t].pc \in {"commit", "row"} => db[e].tables
      BY <2>1, <3>1 DEF Schema, Elsewhere, StartAt
    <3>3. db[e].tables /\ ~db[e].head => Killed # {} \/ \E t \in Start :
            srv'[t].pc = "commit" /\ srv'[t].on = e
      BY <1>1, <2>1, <3>1 DEF Schema, Elsewhere, StartAt
    <3>4. db[e].tables /\ ~db[e].version => Killed # {} \/ \E t \in Start :
            srv'[t].pc \in {"commit", "row"} /\ srv'[t].on = e /\ srv'[t].add
      <4> SUFFICES ASSUME db[e].tables, ~db[e].version, Killed = {}
                   PROVE  \E t \in Start : /\ srv'[t].pc \in {"commit", "row"}
                                           /\ srv'[t].on = e /\ srv'[t].add
        OBVIOUS
      <4>1. PICK t \in Start :
              srv[t].pc \in {"commit", "row"} /\ srv[t].on = e /\ srv[t].add
        BY <3>1 DEF Schema
      <4> QED BY <1>d, <2>1, <2>7, <4>1 DEF Elsewhere
    <3>5. db[e].version => db[e].tables
      BY <3>1 DEF Schema
    <3> QED BY <2>6, <3>1, <3>2, <3>3, <3>4, <3>5 DEF Schema, StartAt
  <2>8. Schema(d)'
    <3>1. db[d].tables
      BY <1>d, <1>1, <1>4 DEF Schema
    <3>2. db[d].tables /\ ~db[d].head => Killed # {} \/ \E t \in Start :
            srv'[t].pc = "commit" /\ srv'[t].on = d
      BY <1>1, <1>4, <2>1 DEF Schema, Elsewhere, StartAt
    <3>3. db'[d].tables /\ ~db'[d].version => Killed # {} \/ \E t \in Start :
            srv'[t].pc \in {"commit", "row"} /\ srv'[t].on = d /\ srv'[t].add
      <4> SUFFICES ASSUME ~db[d].version, ~srv[s].add, Killed = {}
                   PROVE  \E t \in Start : /\ srv'[t].pc \in {"commit", "row"}
                                           /\ srv'[t].on = d /\ srv'[t].add
        BY <2>4
      <4>1. PICK t \in Start :
              srv[t].pc \in {"commit", "row"} /\ srv[t].on = d /\ srv[t].add
        BY <1>4, <3>1 DEF Schema
      <4> QED BY <2>1, <4>1 DEF Elsewhere
    <3> QED BY <2>3, <2>6, <3>1, <3>2, <3>3 DEF Schema, StartAt
  <2>9. Schema("config")' /\ Schema("default")'
    BY <2>7, <2>8, StartValues
  <2>10. Opened'
    <3>1. db'["config"].exists
      BY <1>4, <1>2, <2>3 DEF Dbs
    <3> QED BY <2>1, <3>1 DEF StartInv, Opened, Elsewhere
  <2>11. RootFile'
    BY <1>1, <1>2, <2>1, RootLeft
  <2>12. Sees(s)'
    <3> SUFFICES ASSUME s \notin met PROVE Sees(s)'
      BY <1>2 DEF Sees
    <3>1. srv'[s].first \/ srv'[s].pc = "product" =>
            product = "none" /\ \A t \in Start : srv'[t].pc \notin {"serve", "ended"}
      BY <1>1, <1>4, <2>1 DEF Sees, Elsewhere
    <3> QED BY <1>2, <2>1, <3>1 DEF Sees, StartAt
  <2>13. RootOf(s)'
    BY <2>1 DEF RootOf, Served, StartAt
  <2>14. ASSUME Installs(s) PROVE Installs(s)'
    <3>1. CASE ~srv[s].first
      <4>1. Ready /\ (root.exists => RootReady) /\ d = "config" /\ ~srv[s].add
        BY <1>d, <1>1, <2>14, <3>1 DEF Installs, Phases
      <4>2. db'["config"] = db["config"]
        <5>1. db["config"] \in Database /\ db'["config"] \in Database
          BY <1>2, <2>3 DEF Dbs
        <5> QED BY <2>3, <2>4, <4>1, <5>1, SameDb, DatabaseFields DEF Ready
      <4>3. Ready'
        BY <1>2, <2>3, <4>1, <4>2 DEF Ready, Dbs
      <4>4. srv'[s].pc = "root"
        BY <2>1, <3>1, <4>1
      <4> QED BY <1>2, <4>1, <4>3, <4>4 DEF Installs, StartAt, Phases, RootReady
    <3>2. CASE srv[s].first
      <4>1. /\ product = "none" /\ ~root.exists /\ srv[s].add
            /\ d = "config" => db["config"] = Stage("row") /\ db["default"] = NoDatabase
            /\ d = "default" => db["config"] = Complete /\ db["default"] = Stage("row")
        BY <1>d, <1>1, <2>14, <3>2 DEF Installs, Phases, StartAt
      <4>2. db'[d] = Complete
        <5>1. "row" \in Phases /\ db'[d] \in Database
          BY <1>2, <2>3 DEF Phases
        <5>2. db[d] = Stage("row")
          BY <1>2, <4>1 DEF Dbs
        <5> QED BY <2>3, <2>4, <4>1, <5>1, <5>2, StageIs, SameDb, StartValues, DatabaseFields
      <4>3. CASE d = "config"
        <5>1. db'["default"] = NoDatabase
          BY <2>3, <4>1, <4>3 DEF Dbs
        <5>2. srv'[s].pc = "version" /\ srv'[s].on = "default" /\ srv'[s].first
          BY <2>1, <3>2, <4>3
        <5> QED BY <1>2, <4>1, <4>2, <4>3, <5>1, <5>2, FirstStage DEF Installs, StartAt, Phases
      <4>4. CASE d = "default"
        <5>1. db'["config"] = Complete
          BY <2>3, <4>1, <4>4 DEF Dbs
        <5>2. srv'[s].pc = "product"
          BY <2>1, <4>4
        <5> QED BY <1>2, <4>1, <4>2, <4>4, <5>1, <5>2 DEF Installs, StartAt, Phases
      <4> QED BY <1>2, <4>3, <4>4 DEF Dbs
    <3> QED BY <3>1, <3>2
  <2>15. srv'[s].pc \notin Over
    BY <2>1 DEF Over
  <2>16. srv'[s].pc = "version" => srv'[s].pc \in Phases
    BY DEF Phases
  <2> QED BY <1>1, <1>2, <1>3, <2>1, <2>5, <2>9, <2>10, <2>11, <2>12, <2>13, <2>14, <2>15,
             <2>16, AdvanceInv
<1> QED BY <1>5, <1>6

LEMMA AddProductInv ==
  ASSUME StartInv, NEW s \in Start, AddProduct(s)
  PROVE  StartInv'
<1>1. srv[s].pc = "product" /\ s \in Starting
  BY DEF AddProduct, StartAt, Starting, Over
<1>2. db' = db /\ root' = root /\ cuts' = cuts /\ met' = met
  BY DEF AddProduct, Rest
<1>3. PICK to \in {"failed", "root"} :
        /\ To(s, to)
        /\ to = "failed" => product = "there" /\ product' = product
        /\ to = "root" => product' = "there"
  BY DEF AddProduct
<1>4. to \in Pcs /\ to \notin Phases
  BY <1>3 DEF Pcs, Over, Phases
<1>5. /\ srv' \in [Start -> Srvs] /\ Elsewhere(s) /\ srv'[s].pc = to
      /\ srv'[s].on = "config" /\ srv'[s].reset = srv[s].reset
      /\ ~srv'[s].add /\ ~srv'[s].first
  BY <1>3, <1>4, ToIs DEF StartInv
<1>6. StartTyped'
  BY <1>2, <1>3, <1>5 DEF StartInv, StartTyped
<1>7. Schema("config")' /\ Schema("default")' /\ Opened'
  BY <1>1, <1>2, <1>3, <1>5, QuietStep DEF Later
<1>8. RootFile'
  BY <1>1, <1>2, <1>3, <1>5, RootLeft
<1>9. Sees(s)' /\ RootOf(s)'
  BY <1>3, <1>5 DEF Sees, RootOf, Served, StartAt
<1>10. to = "failed" => s \in met
  BY <1>1, <1>3 DEF StartInv, Sees, StartAt
<1>11. ASSUME met = {}, Installs(s) PROVE srv'[s].pc \notin Over /\ Installs(s)'
  <2>1. to = "root"
    BY <1>3, <1>10, <1>11
  <2>2. /\ db["config"] = Complete /\ db["default"] = Complete /\ ~root.exists
    BY <1>1, <1>11 DEF Installs, StartAt
  <2> QED BY <1>2, <1>3, <1>5, <2>1, <2>2 DEF Installs, StartAt, Phases, Over, Ready
<1> QED BY <1>1, <1>2, <1>3, <1>5, <1>6, <1>7, <1>8, <1>9, <1>10, <1>11, AdvanceInv

LEMMA LookForRootInv ==
  ASSUME StartInv, NEW s \in Start, LookForRoot(s)
  PROVE  StartInv'
<1>1. srv[s].pc = "root" /\ s \in Starting
  BY DEF LookForRoot, StartAt, Starting, Over
<1>2. db' = db /\ root' = root /\ cuts' = cuts /\ met' = met /\ product' = product
  BY DEF LookForRoot, Rest
<1>3. PICK to \in {"load", "make"} : To(s, to) /\ (to = "load" <=> root.exists)
  BY DEF LookForRoot
<1>4. to \in Pcs /\ to \notin Phases /\ to \notin Over
  BY <1>3 DEF Pcs, Over, Phases
<1>5. /\ srv' \in [Start -> Srvs] /\ Elsewhere(s) /\ srv'[s].pc = to
      /\ srv'[s].on = "config" /\ srv'[s].reset = srv[s].reset
      /\ ~srv'[s].add /\ ~srv'[s].first
  BY <1>3, <1>4, ToIs DEF StartInv
<1>6. StartTyped'
  BY <1>2, <1>5 DEF StartInv, StartTyped
<1>7. Schema("config")' /\ Schema("default")' /\ Opened'
  BY <1>1, <1>2, <1>3, <1>5, QuietStep DEF Later
<1>8. RootFile'
  BY <1>1, <1>2, <1>3, <1>5, RootLeft
<1>9. Sees(s)' /\ RootOf(s)'
  BY <1>2, <1>3, <1>5 DEF Sees, RootOf, Served, StartAt
<1>10. root.exists => srv'[s].pc \notin {"make", "write", "chmod"}
  BY <1>3, <1>5
<1>11. ASSUME Installs(s) PROVE Installs(s)'
  <2>1. Ready /\ (root.exists => RootReady)
    BY <1>1, <1>11 DEF Installs, StartAt
  <2> QED BY <1>2, <1>3, <1>5, <2>1 DEF Installs, StartAt, Phases, Ready, RootReady
<1> QED BY <1>1, <1>2, <1>3, <1>4, <1>5, <1>6, <1>7, <1>8, <1>9, <1>10, <1>11, AdvanceInv

LEMMA LoadRootInv ==
  ASSUME StartInv, NEW s \in Start, LoadRoot(s)
  PROVE  StartInv'
<1>1. srv[s].pc = "load" /\ s \in Starting /\ srv \in [Start -> Srvs] /\ srv[s] \in Srvs
  BY DEF LoadRoot, StartAt, Starting, Over, StartInv, StartTyped
<1>2. db' = db /\ root' = root /\ cuts' = cuts /\ met' = met /\ product' = product
  BY DEF LoadRoot, Rest
<1>r. root \in Roots
  BY DEF StartInv, StartTyped
<1>3. PICK new \in Srvs :
        /\ srv' = [srv EXCEPT ![s] = new]
        /\ new.on = srv[s].on /\ new.reset = srv[s].reset
        /\ new.add = srv[s].add /\ new.first = srv[s].first
        /\ IF root.exists THEN new.pc = "bind" /\ new.sha = root.sha ELSE new.pc = "make"
  <2>1. CASE root.exists
    <3> DEFINE n == [srv[s] EXCEPT !.pc = "bind", !.sha = root.sha]
    <3>1. n \in Srvs
      BY <1>1, <1>r DEF Srvs, Roots
    <3>2. srv' = [srv EXCEPT ![s] = n]
      BY <2>1 DEF LoadRoot
    <3>3. /\ n.on = srv[s].on /\ n.reset = srv[s].reset
          /\ n.add = srv[s].add /\ n.first = srv[s].first
          /\ n.pc = "bind" /\ n.sha = root.sha
      BY <1>1 DEF Srvs
    <3> HIDE DEF n
    <3> QED BY <2>1, <3>1, <3>2, <3>3
  <2>2. CASE ~root.exists
    <3> DEFINE n == [srv[s] EXCEPT !.pc = "make"]
    <3>1. n \in Srvs
      BY <1>1 DEF Srvs
    <3>2. srv' = [srv EXCEPT ![s] = n]
      BY <2>2 DEF LoadRoot
    <3>3. /\ n.on = srv[s].on /\ n.reset = srv[s].reset
          /\ n.add = srv[s].add /\ n.first = srv[s].first
          /\ n.pc = "make"
      BY <1>1 DEF Srvs
    <3> HIDE DEF n
    <3> QED BY <2>2, <3>1, <3>2, <3>3
  <2> QED BY <2>1, <2>2
<1>4. srv' \in [Start -> Srvs] /\ srv'[s] = new /\ Elsewhere(s)
  BY <1>1, <1>3 DEF Elsewhere
<1>5. StartTyped'
  BY <1>2, <1>4 DEF StartInv, StartTyped
<1>6. srv[s].on = "config" /\ ~srv[s].first /\ ~srv[s].add
  BY <1>1 DEF StartInv, MarkForgotten, Phases
<1>7. Schema("config")' /\ Schema("default")' /\ Opened'
  BY <1>1, <1>2, <1>3, <1>4, <1>6, QuietStep DEF Later
<1>8. RootFile'
  BY <1>1, <1>2, <1>3, <1>4, RootLeft
<1>9. Sees(s)'
  <2>1. ASSUME s \notin met, root.exists, root.sha = Unset PROVE Killed # {}
    <3>1. ~\E t \in Start : StartAt(t, "write")
      BY <1>1, <2>1, Single DEF Starting, StartAt, Over
    <3> QED BY <2>1, <3>1 DEF StartInv, RootFile
  <2>2. Killed' = Killed
    BY <1>1, <1>3, <1>4 DEF Killed, Elsewhere, StartAt
  <2> QED BY <1>2, <1>3, <1>4, <1>6, <2>1, <2>2 DEF Sees, StartAt
<1>10. RootOf(s)'
  BY <1>3, <1>4 DEF RootOf, Served, StartAt
<1>11. root.exists => srv'[s].pc \notin {"make", "write", "chmod"}
  BY <1>3, <1>4
<1>12. ASSUME Installs(s) PROVE srv'[s].pc \notin Over /\ Installs(s)'
  <2>1. Ready /\ RootReady
    BY <1>1, <1>12 DEF Installs, StartAt
  <2>2. new.pc = "bind"
    BY <1>3, <2>1 DEF RootReady
  <2> QED BY <1>2, <1>4, <2>1, <2>2 DEF Installs, StartAt, Phases, Over, Ready, RootReady
<1>13. srv'[s].pc \notin {"failed", "killed", "not begun", "begin"}
  BY <1>3, <1>4
<1> QED BY <1>1, <1>2, <1>3, <1>4, <1>5, <1>6, <1>7, <1>8, <1>9, <1>10, <1>11, <1>12, <1>13,
           AdvanceInv

LEMMA MakeRootInv ==
  ASSUME StartInv, NEW s \in Start, MakeRoot(s)
  PROVE  StartInv'
<1>1. srv[s].pc = "make" /\ s \in Starting /\ srv \in [Start -> Srvs] /\ srv[s] \in Srvs
  BY DEF MakeRoot, StartAt, Starting, Over, StartInv, StartTyped
<1>2. db' = db /\ cuts' = cuts /\ met' = met /\ product' = product
  BY DEF MakeRoot, Rest
<1>r. root \in Roots
  BY DEF StartInv, StartTyped
<1>s. Sees(s)
  BY DEF StartInv
<1>q. srv[s].on = "config" /\ ~srv[s].first /\ ~srv[s].add
  BY <1>1 DEF StartInv, MarkForgotten, Phases
<1>3. CASE root.readonly
  <2>1. To(s, "failed") /\ root' = root
    BY <1>3 DEF MakeRoot
  <2>2. "failed" \in Pcs /\ "failed" \notin Phases
    BY DEF Pcs, Over, Phases
  <2>3. /\ srv' \in [Start -> Srvs] /\ Elsewhere(s) /\ srv'[s].pc = "failed"
        /\ srv'[s].on = "config" /\ srv'[s].reset = srv[s].reset
        /\ ~srv'[s].add /\ ~srv'[s].first
    BY <2>1, <2>2, ToIs DEF StartInv
  <2>4. StartTyped'
    BY <1>2, <2>1, <2>3 DEF StartInv, StartTyped
  <2>5. Schema("config")' /\ Schema("default")' /\ Opened'
    BY <1>1, <1>2, <2>3, QuietStep DEF Later
  <2>6. RootFile'
    BY <1>1, <2>1, <2>3, RootLeft
  <2>7. Sees(s)' /\ RootOf(s)'
    BY <2>3 DEF Sees, Starting, RootOf, Served, StartAt, Over
  <2>8. s \in met
    BY <1>1, <1>3, <1>s DEF StartInv, Sees, RootFile, StartAt
  <2>9. root' = root /\ srv'[s].pc \notin {"make", "write", "chmod"}
    BY <2>1, <2>3
  <2> QED BY <1>1, <1>2, <2>3, <2>4, <2>5, <2>6, <2>7, <2>8, <2>9, AdvanceInv
<1>4. CASE ~root.readonly
  <2>1. PICK new \in Srvs :
          /\ srv' = [srv EXCEPT ![s] = new]
          /\ new.on = srv[s].on /\ new.reset = srv[s].reset
          /\ new.add = srv[s].add /\ new.first = srv[s].first
          /\ new.pc = "write" /\ new.file = root.no
    <3> DEFINE n == [srv[s] EXCEPT !.pc = "write", !.file = root.no]
    <3>1. n \in Srvs
      BY <1>1, <1>r DEF Srvs, Roots
    <3>2. srv' = [srv EXCEPT ![s] = n]
      BY <1>4 DEF MakeRoot
    <3>3. /\ n.on = srv[s].on /\ n.reset = srv[s].reset
          /\ n.add = srv[s].add /\ n.first = srv[s].first
          /\ n.pc = "write" /\ n.file = root.no
      BY <1>1 DEF Srvs
    <3> HIDE DEF n
    <3> QED BY <3>1, <3>2, <3>3
  <2>2. /\ root' \in Roots /\ root'.exists /\ root'.sha = Unset
        /\ root'.readonly = root.readonly /\ root'.no = root.no
    <3>1. root' = [root EXCEPT !.exists = TRUE, !.sha = Unset]
      BY <1>4 DEF MakeRoot
    <3> QED BY <1>r, <3>1 DEF Roots
  <2>3. srv' \in [Start -> Srvs] /\ srv'[s] = new /\ Elsewhere(s)
    BY <1>1, <2>1 DEF Elsewhere
  <2>4. StartTyped'
    BY <1>2, <2>2, <2>3 DEF StartInv, StartTyped
  <2>5. Schema("config")' /\ Schema("default")' /\ Opened'
    BY <1>1, <1>2, <1>q, <2>1, <2>3, QuietStep DEF Later
  <2>6. RootFile'
    BY <1>4, <2>1, <2>2, <2>3 DEF RootFile, StartAt
  <2>7. Sees(s)'
    BY <1>4, <1>q, <2>1, <2>2, <2>3 DEF Sees, StartAt
  <2>8. RootOf(s)'
    BY <2>1, <2>3 DEF RootOf, Served, StartAt
  <2>9. ASSUME met = {}, Killed = {}, Installs(s) PROVE Installs(s)'
    <3>1. Ready
      BY <1>1, <2>9 DEF Installs, StartAt
    <3> QED BY <1>2, <2>1, <2>3, <3>1 DEF Installs, StartAt, Phases, Ready
  <2>10. srv'[s].pc \notin Over
    BY <2>1, <2>3 DEF Over
  <2> QED BY <1>1, <1>2, <1>q, <2>1, <2>3, <2>4, <2>5, <2>6, <2>7, <2>8, <2>9, <2>10, AdvanceInv
<1> QED BY <1>3, <1>4

LEMMA WriteRootInv ==
  ASSUME StartInv, NEW s \in Start, WriteRoot(s)
  PROVE  StartInv'
<1>1. srv[s].pc = "write" /\ s \in Starting /\ srv \in [Start -> Srvs] /\ srv[s] \in Srvs
  BY DEF WriteRoot, StartAt, Starting, Over, StartInv, StartTyped
<1>2. db' = db /\ cuts' = cuts /\ met' = met /\ product' = product
  BY DEF WriteRoot, Rest
<1>3. root \in Roots /\ s # Unset
  BY ServerStartAssumption DEF StartInv, StartTyped
<1>4. srv[s].on = "config" /\ ~srv[s].first /\ ~srv[s].add
  BY <1>1 DEF StartInv, MarkForgotten, Phases
<1>5. PICK new \in Srvs :
        /\ srv' = [srv EXCEPT ![s] = new]
        /\ new.on = srv[s].on /\ new.reset = srv[s].reset
        /\ new.add = srv[s].add /\ new.first = srv[s].first
        /\ new.pc = "chmod" /\ new.sha = s
  <2> DEFINE n == [srv[s] EXCEPT !.pc = "chmod", !.sha = s, !.file = 0]
  <2>1. n \in Srvs
    BY <1>1 DEF Srvs
  <2>2. srv' = [srv EXCEPT ![s] = n]
    BY DEF WriteRoot
  <2>3. /\ n.on = srv[s].on /\ n.reset = srv[s].reset
        /\ n.add = srv[s].add /\ n.first = srv[s].first
        /\ n.pc = "chmod" /\ n.sha = s
    BY <1>1 DEF Srvs
  <2> HIDE DEF n
  <2> QED BY <2>1, <2>2, <2>3
<1>6. srv' \in [Start -> Srvs] /\ srv'[s] = new /\ Elsewhere(s)
  BY <1>1, <1>5 DEF Elsewhere
<1>7. /\ root' \in Roots /\ root'.exists = root.exists
      /\ root'.readonly = root.readonly /\ root'.no = root.no
      /\ IF root.no = srv[s].file THEN root'.sha = s ELSE root' = root
  <2>1. root' = IF root.no = srv[s].file THEN [root EXCEPT !.sha = s] ELSE root
    BY DEF WriteRoot
  <2> QED BY <1>3, <2>1 DEF Roots
<1>8. StartTyped'
  BY <1>2, <1>6, <1>7 DEF StartInv, StartTyped
<1>9. Schema("config")' /\ Schema("default")' /\ Opened'
  BY <1>1, <1>2, <1>4, <1>5, <1>6, QuietStep DEF Later
<1>10. RootFile'
  <2>1. Killed' = Killed
    BY <1>1, <1>5, <1>6 DEF Killed, Elsewhere, StartAt
  <2>2. ASSUME root'.exists, root'.sha = Unset, Killed = {}
        PROVE  \E t \in Start : srv'[t].pc = "write" /\ srv'[t].file = root'.no
    <3>1. root' = root /\ root.no # srv[s].file
      BY <1>3, <1>7, <2>2
    <3>2. PICK t \in Start : srv[t].pc = "write" /\ srv[t].file = root.no
      BY <2>2, <3>1 DEF StartInv, RootFile, StartAt
    <3> QED BY <1>6, <3>1, <3>2 DEF Elsewhere
  <2>3. root'.readonly => root'.exists
    BY <1>7 DEF StartInv, RootFile
  <2> QED BY <2>1, <2>2, <2>3 DEF RootFile, StartAt
<1>11. Sees(s)'
  <2> SUFFICES ASSUME s \notin met PROVE Sees(s)'
    BY <1>2 DEF Sees
  <2>1. root.exists /\ srv[s].file = root.no
    BY <1>1 DEF StartInv, Sees, StartAt
  <2> QED BY <1>4, <1>5, <1>6, <1>7, <2>1 DEF Sees, StartAt
<1>12. RootOf(s)'
  BY <1>5, <1>6 DEF RootOf, Served, StartAt
<1>13. ASSUME Installs(s) PROVE Installs(s)'
  <2>1. Ready
    BY <1>1, <1>13 DEF Installs, StartAt
  <2> QED BY <1>2, <1>5, <1>6, <2>1 DEF Installs, StartAt, Phases, Ready
<1>14. srv'[s].pc \notin Over
  BY <1>5, <1>6 DEF Over
<1> QED BY <1>1, <1>2, <1>4, <1>5, <1>6, <1>8, <1>9, <1>10, <1>11, <1>12, <1>13, <1>14,
           AdvanceInv

LEMMA ProtectRootInv ==
  ASSUME StartInv, NEW s \in Start, ProtectRoot(s)
  PROVE  StartInv'
<1>1. srv[s].pc = "chmod" /\ s \in Starting
  BY DEF ProtectRoot, StartAt, Starting, Over
<1>2. db' = db /\ cuts' = cuts /\ met' = met /\ product' = product
  BY DEF ProtectRoot, Rest
<1>3. root \in Roots /\ s # Unset
  BY ServerStartAssumption DEF StartInv, StartTyped
<1>4. PICK to \in {"bind", "failed"} :
        /\ To(s, to)
        /\ to = "bind" => root.exists /\ root' = [root EXCEPT !.readonly = TRUE]
        /\ to = "failed" => ~root.exists /\ root' = root
  BY DEF ProtectRoot
<1>5. to \in Pcs /\ to \notin Phases
  BY <1>4 DEF Pcs, Over, Phases
<1>6. /\ srv' \in [Start -> Srvs] /\ Elsewhere(s) /\ srv'[s].pc = to
      /\ srv'[s].on = "config" /\ srv'[s].reset = srv[s].reset
      /\ ~srv'[s].add /\ ~srv'[s].first
      /\ to = "bind" => srv'[s].sha = srv[s].sha
  BY <1>4, <1>5, ToIs DEF StartInv
<1>7. /\ root' \in Roots /\ root'.exists = root.exists /\ root'.sha = root.sha
      /\ root'.no = root.no
      /\ root'.readonly <=> root.readonly \/ to = "bind"
  BY <1>3, <1>4 DEF Roots
<1>8. StartTyped'
  BY <1>2, <1>6, <1>7 DEF StartInv, StartTyped
<1>9. Schema("config")' /\ Schema("default")' /\ Opened'
  BY <1>1, <1>2, <1>4, <1>6, QuietStep DEF Later
<1>10. RootFile'
  <2>1. Killed' = Killed
    BY <1>1, <1>4, <1>6 DEF Killed, Elsewhere, StartAt
  <2>2. root'.readonly => root'.exists
    BY <1>4, <1>7 DEF StartInv, RootFile
  <2> QED BY <1>1, <1>6, <1>7, <2>1, <2>2 DEF StartInv, RootFile, Elsewhere, StartAt
<1>11. s \notin met => root.exists /\ srv[s].sha = s /\ root.sha = s
  BY <1>1 DEF StartInv, Sees, StartAt
<1>12. Sees(s)' /\ RootOf(s)'
  BY <1>2, <1>3, <1>4, <1>6, <1>7, <1>11 DEF Sees, RootOf, Served, Starting, Over, StartAt
<1>13. to = "failed" => s \in met
  BY <1>4, <1>11
<1>14. ASSUME met = {}, Installs(s) PROVE srv'[s].pc \notin Over /\ Installs(s)'
  <2>1. Ready /\ to = "bind"
    BY <1>1, <1>4, <1>13, <1>14 DEF Installs, StartAt
  <2>2. RootReady'
    BY <1>3, <1>7, <1>11, <1>14, <2>1 DEF RootReady
  <2> QED BY <1>2, <1>6, <2>1, <2>2 DEF Installs, StartAt, Phases, Over, Ready
<1> QED BY <1>1, <1>2, <1>4, <1>6, <1>8, <1>9, <1>10, <1>12, <1>13, <1>14, AdvanceInv

LEMMA BindInv ==
  ASSUME StartInv, NEW s \in Start, Bind(s)
  PROVE  StartInv'
<1>1. srv[s].pc = "bind" /\ s \in Starting
  BY DEF Bind, StartAt, Starting, Over
<1>2. db' = db /\ root' = root /\ cuts' = cuts /\ met' = met /\ product' = product
  BY DEF Bind, Rest
<1>3. PICK to \in {"serve", "failed"} :
        /\ To(s, to)
        /\ to = "failed" => \E t \in Start : StartAt(t, "serve") /\ Port[t] = Port[s]
  BY DEF Bind
<1>4. to \in Pcs /\ to \notin Phases /\ to \in Over
  BY <1>3 DEF Pcs, Over, Phases
<1>5. /\ srv' \in [Start -> Srvs] /\ Elsewhere(s) /\ srv'[s].pc = to
      /\ srv'[s].on = "config" /\ srv'[s].reset = srv[s].reset
      /\ ~srv'[s].add /\ ~srv'[s].first
      /\ to = "serve" => srv'[s].sha = srv[s].sha
  BY <1>3, <1>4, ToIs DEF StartInv
<1>6. StartTyped'
  BY <1>2, <1>5 DEF StartInv, StartTyped
<1>7. Schema("config")' /\ Schema("default")' /\ Opened'
  BY <1>1, <1>2, <1>3, <1>5, QuietStep DEF Later
<1>8. RootFile'
  BY <1>1, <1>2, <1>3, <1>5, RootLeft
<1>9. Sees(s)'
  BY <1>4, <1>5 DEF Sees, Starting, StartAt
<1>10. RootOf(s)'
  <2> SUFFICES ASSUME Served(s)'
               PROVE  /\ root.exists /\ root.sha # Unset /\ srv'[s].sha = root.sha
                      /\ \A t \in Start : srv'[t].pc \notin {"make", "write", "chmod"}
    BY <1>2 DEF RootOf
  <2>1. to = "serve" /\ s \notin met
    BY <1>2, <1>5 DEF Served, StartAt
  <2>2. Killed' = Killed
    BY <1>1, <1>3, <1>5 DEF Killed, Elsewhere, StartAt
  <2>3. Killed = {}
    BY <1>1, <2>1, <2>2, NobodyKilled DEF Served
  <2>4. root.exists /\ srv[s].sha = root.sha /\ root.sha # Unset
    BY <1>1, <2>1, <2>3 DEF StartInv, Sees, StartAt
  <2>5. Starting = {s}
    BY <1>1, <2>1, Single
  <2>6. \A t \in Start \ {s} : srv[t].pc \in Over
    BY <2>5 DEF Starting, StartAt
  <2> QED BY <1>5, <2>1, <2>4, <2>6 DEF Elsewhere, Over
<1>11. ASSUME to = "failed", s \notin met
       PROVE  \E t \in Start : t < s /\ Port[t] = Port[s]
  <2>1. PICK t \in Start : srv[t].pc = "serve" /\ Port[t] = Port[s]
    BY <1>3, <1>11 DEF StartAt
  <2>2. Begun(t) /\ t # s
    BY <1>1, <2>1 DEF Begun, StartAt
  <2> QED BY <1>1, <1>11, <2>1, <2>2, Single
<1>12. ASSUME Installs(s) PROVE Ready' /\ RootReady'
  BY <1>1, <1>2, <1>12 DEF Installs, Ready, RootReady
<1> QED BY <1>1, <1>2, <1>3, <1>4, <1>5, <1>6, <1>7, <1>8, <1>9, <1>10, <1>11, <1>12, AdvanceInv

LEMMA LaunchInv ==
  ASSUME StartInv, NEW s \in Start, Launch(s)
  PROVE  StartInv'
<1>1. /\ srv[s].pc = "not begun" /\ s \notin Starting
      /\ \A t \in Start : t < s => Begun(t)
  BY DEF Launch, StartAt, Starting, Over, Begun
<1>2. db' = db /\ root' = root /\ cuts' = cuts /\ product' = product
  BY DEF Launch
<1>3. /\ srv' \in [Start -> Srvs] /\ Elsewhere(s) /\ srv'[s].pc = "begin"
      /\ srv'[s].on = srv[s].on /\ srv'[s].reset = srv[s].reset
      /\ srv'[s].add = srv[s].add /\ srv'[s].first = srv[s].first
  <2>1. srv \in [Start -> Srvs] /\ srv' = [srv EXCEPT ![s].pc = "begin"]
    BY DEF Launch, StartInv, StartTyped
  <2> QED BY <2>1 DEF Srvs, Elsewhere
<1>4. /\ met' \subseteq Start /\ met \subseteq met'
      /\ Starting # {} => s \in met' /\ Starting \subseteq met'
  <2>1. met' = IF Starting = {} THEN met ELSE met \cup Starting \cup {s}
    BY DEF Launch
  <2>2. met \subseteq Start /\ Starting \subseteq Start
    BY DEF StartInv, StartTyped, Starting
  <2> QED BY <2>1, <2>2
<1>5. StartTyped'
  BY <1>2, <1>3, <1>4 DEF StartInv, StartTyped
<1>6. Killed' = Killed
  BY <1>1, <1>3 DEF Killed, Elsewhere, StartAt
<1>7. Starting' = Starting \cup {s}
  BY <1>3 DEF Starting, Elsewhere, StartAt, Over
<1>8. /\ ~Begun(s) /\ Begun(s)'
      /\ \A t \in Start \ {s} : Begun(t)' <=> Begun(t)
      /\ \A t \in Starting : Begun(t)
  BY <1>1, <1>3 DEF Begun, Elsewhere, StartAt, Starting, Over
<1>9. InTurn'
  <2>i. /\ \A t, u \in Start : t < u /\ Begun(u) => Begun(t)
        /\ \A t \in Start : srv[t].pc \in {"not begun", "begin"} => ~srv[t].reset
    BY DEF StartInv, InTurn
  <2>n. Start \subseteq Nat /\ Starting \subseteq Start
    BY ServerStartAssumption DEF Starting
  <2>1. \A t, u \in Start : t < u /\ Begun(u)' => Begun(t)'
    BY <1>1, <1>8, <2>i
  <2>2. ASSUME NEW t \in Start, Begun(t)', t \notin met', NEW u \in Start \ {t}
        PROVE  /\ u \in Starting' => u > t
               /\ t \in Starting' => u \notin Starting'
               /\ t \in Starting' /\ Begun(u)' => u < t
    <3>1. CASE t = s
      <4>1. u \notin Starting'
        BY <1>4, <1>7, <2>2, <3>1
      <4>2. ASSUME Begun(u)' PROVE u < t
        <5>1. Begun(u) /\ u # s
          BY <1>8, <2>2, <3>1, <4>2
        <5>2. ~(s < u)
          BY <1>8, <2>i, <5>1
        <5>3. s \in Nat /\ u \in Nat
          BY <2>n
        <5> QED BY <3>1, <5>1, <5>2, <5>3
      <4> QED BY <4>1, <4>2
    <3>2. CASE t # s
      <4>1. t \notin Starting'
        BY <1>4, <1>7, <2>2, <3>2
      <4>2. Begun(t) /\ t \notin met
        BY <1>4, <1>8, <2>2, <3>2
      <4>3. u \in Starting => u > t
        BY <4>2 DEF StartInv, InTurn
      <4>4. ASSUME u = s PROVE u > t
        <5>1. ~(s < t)
          BY <1>8, <2>i, <4>2
        <5>2. s \in Nat /\ t \in Nat
          BY <2>n
        <5> QED BY <3>2, <4>4, <5>1, <5>2
      <4> QED BY <1>7, <4>1, <4>3, <4>4
    <3> QED BY <3>1, <3>2
  <2>3. \A t \in Start : srv'[t].pc \in {"not begun", "begin"} => ~srv'[t].reset
    BY <1>1, <1>3, <2>i DEF Elsewhere
  <2> QED BY <2>1, <2>2, <2>3 DEF InTurn
<1>10. srv[s].on = "config" /\ ~srv[s].add /\ ~srv[s].first
  BY <1>1 DEF StartInv, MarkForgotten, Phases
<1>11. MarkForgotten'
  BY <1>3, <1>10 DEF StartInv, MarkForgotten, Elsewhere
<1>12. ASSUME NEW d \in Dbs PROVE Schema(d)'
  <2>1. Schema(d)
    BY <1>12 DEF StartInv, Dbs
  <2> QED BY <1>1, <1>2, <1>3, <1>6, <2>1 DEF Schema, Elsewhere, StartAt
<1>13. Opened'
  BY <1>2, <1>3, <1>10 DEF StartInv, Opened, Elsewhere
<1>14. ASSUME NEW t \in Start PROVE Sees(t)'
  <2>1. CASE t = s
    BY <1>3, <1>10, <2>1 DEF Sees, StartAt
  <2>2. CASE t # s
    BY <1>4, <1>7, <2>2 DEF Sees
  <2> QED BY <2>1, <2>2
<1>15. RootFile'
  BY <1>1, <1>2, <1>3, <1>6 DEF StartInv, RootFile, Elsewhere, StartAt
<1>16. ASSUME NEW t \in Start PROVE RootOf(t)'
  <2> SUFFICES ASSUME Served(t)'
               PROVE  /\ root.exists /\ root.sha # Unset /\ srv'[t].sha = root.sha
                      /\ \A u \in Start : srv'[u].pc \notin {"make", "write", "chmod"}
    BY <1>2 DEF RootOf
  <2>1. t # s /\ srv'[t] = srv[t]
    BY <1>3 DEF Served, StartAt, Elsewhere
  <2>2. \A u \in Start : srv'[u].reset <=> srv[u].reset
    BY <1>3 DEF Elsewhere
  <2>3. Served(t)
    BY <1>4, <1>6, <2>1, <2>2 DEF Served, StartAt
  <2>4. RootOf(t)
    BY DEF StartInv
  <2> QED BY <1>3, <2>1, <2>3, <2>4 DEF RootOf, Elsewhere
<1>17. Installed'
  <2> SUFFICES ASSUME met' = {}, Killed = {}
               PROVE  /\ Starting' = {} => Fresh' \/ (Ready' /\ RootReady')
                      /\ \A t \in Starting' : Installs(t)'
    BY <1>6 DEF Installed
  <2>1. Starting = {} /\ Starting' = {s} /\ met = {}
    BY <1>4, <1>7
  <2>2. Fresh \/ (Ready /\ RootReady)
    BY <2>1 DEF StartInv, Installed
  <2>3. Installs(s)'
    BY <1>2, <1>3, <2>2 DEF Installs, StartAt, Phases, Fresh, Ready, RootReady
  <2> QED BY <2>1, <2>3
<1>18. FailsForAReason'
  BY <1>3, <1>4, <1>6 DEF StartInv, FailsForAReason, Elsewhere, StartAt
<1> QED BY <1>5, <1>9, <1>11, <1>12, <1>13, <1>14, <1>15, <1>16, <1>17, <1>18, StartValues
        DEF StartInv

LEMMA RemoveProductInv ==
  ASSUME StartInv, NEW s \in Start, RemoveProduct(s)
  PROVE  StartInv'
<1>1. /\ srv' = srv /\ db' = db /\ root' = root /\ cuts' = cuts /\ met' = met
      /\ product = "there" /\ product' = "removed"
  BY DEF RemoveProduct, Rest
<1>2. StartTyped' /\ MarkForgotten'
  BY <1>1 DEF StartInv, StartTyped, MarkForgotten
<1>i. InTurn'
  BY <1>1 DEF StartInv, InTurn, Begun, StartAt, Starting
<1>f. RootFile' /\ FailsForAReason'
  BY <1>1 DEF StartInv, RootFile, FailsForAReason, StartAt, Killed
<1>3. Schema("config")' /\ Schema("default")'
  BY <1>1 DEF StartInv, Schema, Killed, StartAt
<1>4. Opened'
  BY <1>1 DEF StartInv, Opened
<1>5. \A t \in Start : Sees(t)'
  BY <1>1 DEF StartInv, Sees, Starting, Killed, StartAt
<1>6. \A t \in Start : RootOf(t)'
  BY <1>1 DEF StartInv, RootOf, Served, Killed, StartAt
<1>7. Installed'
  <2>1. Starting' = Starting /\ Killed' = Killed
    BY <1>1 DEF Starting, Killed, StartAt
  <2>2. ~Fresh /\ (Ready => Ready') /\ (RootReady => RootReady')
    BY <1>1 DEF Fresh, Ready, RootReady
  <2>3. ASSUME NEW t, Installs(t) PROVE Installs(t)'
    BY <1>1, <2>2, <2>3 DEF Installs, StartAt
  <2> QED BY <1>1, <2>1, <2>2, <2>3 DEF StartInv, Installed
<1> QED BY <1>2, <1>i, <1>f, <1>3, <1>4, <1>5, <1>6, <1>7 DEF StartInv

(* A server that ends, in either way, leaves the files as they are.        *)
LEMMA LeavesInv ==
  ASSUME StartInv, NEW s \in Start, NEW to \in {"ended", "killed"}, To(s, to),
         to = "ended" => srv[s].pc = "serve" /\ cuts' = cuts,
         to = "killed" => s \in Starting /\ cuts < MaxCuts /\ cuts' = cuts + 1,
         UNCHANGED <<db, product, root, met>>
  PROVE  StartInv'
<1>1. to \in Pcs /\ to \notin Phases /\ to \in Over
  BY DEF Pcs, Over, Phases
<1>2. /\ srv' \in [Start -> Srvs] /\ Elsewhere(s) /\ srv'[s].pc = to
      /\ srv'[s].on = "config" /\ srv'[s].reset = srv[s].reset
      /\ ~srv'[s].add /\ ~srv'[s].first
  BY <1>1, ToIs DEF StartInv
<1>3. cuts' \in 0..MaxCuts
  <2>1. cuts \in 0..MaxCuts /\ MaxCuts \in Nat
    BY ServerStartAssumption DEF StartInv, StartTyped
  <2>2. cuts' = cuts \/ (cuts < MaxCuts /\ cuts' = cuts + 1)
    OBVIOUS
  <2> QED BY <2>1, <2>2
<1>4. StartTyped'
  BY <1>2, <1>3 DEF StartInv, StartTyped
<1>5. Starting' = Starting \ {s} /\ (to = "ended" => s \notin Starting)
  BY <1>1, <1>2 DEF Starting, Elsewhere, StartAt, Over
<1>6. Killed' = IF to = "killed" THEN Killed \cup {s} ELSE Killed
  <2>1. to = "ended" => ~StartAt(s, "killed")
    BY DEF StartAt
  <2> QED BY <1>2, <2>1 DEF Killed, Elsewhere, StartAt
<1>7. Begun(s) /\ \A t \in Start : Begun(t)' <=> Begun(t)
  BY <1>2 DEF Begun, Elsewhere, StartAt, Starting, Over
<1>8. InTurn'
  <2>1. \A t, u \in Start : t < u /\ Begun(u)' => Begun(t)'
    BY <1>7 DEF StartInv, InTurn
  <2>2. \A t \in Start : Begun(t)' /\ t \notin met' =>
          \A u \in Start \ {t} :
            /\ u \in Starting' => u > t
            /\ t \in Starting' => u \notin Starting'
            /\ t \in Starting' /\ Begun(u)' => u < t
    BY <1>5, <1>7 DEF StartInv, InTurn
  <2>3. \A t \in Start : srv'[t].pc \in {"not begun", "begin"} => ~srv'[t].reset
    BY <1>2 DEF StartInv, InTurn, Elsewhere
  <2> QED BY <2>1, <2>2, <2>3 DEF InTurn
<1>9. MarkForgotten'
  BY <1>2 DEF StartInv, MarkForgotten, Elsewhere
<1>10. ASSUME NEW d \in Dbs PROVE Schema(d)'
  <2>1. Schema(d)
    BY <1>10 DEF StartInv, Dbs
  <2>2. CASE to = "killed"
    <3>1. Killed' # {}
      BY <1>6, <2>2
    <3> QED BY <1>2, <2>1, <2>2, <3>1 DEF Schema, Elsewhere, StartAt
  <2>3. CASE to = "ended"
    <3>1. srv[s].pc = "serve" /\ Killed' = Killed
      BY <1>6, <2>3
    <3> QED BY <1>2, <2>1, <2>3, <3>1 DEF Schema, Elsewhere, StartAt
  <2> QED BY <2>2, <2>3
<1>11. Opened'
  <2>1. to = "ended" => db["config"].exists
    BY DEF StartInv, Opened
  <2> QED BY <1>2, <2>1 DEF StartInv, Opened, Elsewhere
<1>12. ASSUME NEW t \in Start PROVE Sees(t)'
  <2>1. CASE t = s
    BY <1>5, <2>1 DEF Sees
  <2>2. CASE t # s /\ to = "killed"
    <3>1. t \in Starting => t \in met
      BY <1>7, <2>2 DEF StartInv, InTurn, Begun, StartAt, Starting, Over
    <3> QED BY <1>5, <3>1 DEF Sees
  <2>3. CASE t # s /\ to = "ended"
    <3>1. Killed' = Killed /\ srv'[t] = srv[t] /\ Sees(t)
      BY <1>2, <1>6, <2>3 DEF Elsewhere, StartInv
    <3>2. (\A u \in Start : srv[u].pc \notin {"serve", "ended"}) =>
            \A u \in Start : srv'[u].pc \notin {"serve", "ended"}
      BY <2>3
    <3> QED BY <1>5, <3>1, <3>2 DEF Sees, StartAt
  <2> QED BY <2>1, <2>2, <2>3
<1>13. RootFile'
  <2>1. CASE to = "killed"
    <3>1. Killed' # {}
      BY <1>6, <2>1
    <3> QED BY <3>1 DEF StartInv, RootFile
  <2>2. CASE to = "ended"
    <3>1. srv[s].pc = "serve" /\ Killed' = Killed
      BY <1>6, <2>2
    <3> QED BY <1>2, <3>1 DEF StartInv, RootFile, Elsewhere, StartAt
  <2> QED BY <2>1, <2>2
<1>14. ASSUME NEW t \in Start PROVE RootOf(t)'
  <2> SUFFICES ASSUME Served(t)'
               PROVE  /\ root.exists /\ root.sha # Unset /\ srv'[t].sha = root.sha
                      /\ \A u \in Start : srv'[u].pc \notin {"make", "write", "chmod"}
    BY DEF RootOf
  <2>1. t # s /\ srv'[t] = srv[t]
    BY <1>2 DEF Served, StartAt, Elsewhere
  <2>2. \A u \in Start : srv'[u].reset <=> srv[u].reset
    BY <1>2 DEF Elsewhere
  <2>3. \A u \in Killed : ~(u < t)
    BY <1>6 DEF Served
  <2>4. Served(t)
    BY <2>1, <2>2, <2>3 DEF Served, StartAt
  <2>5. RootOf(t)
    BY DEF StartInv
  <2> QED BY <1>2, <2>1, <2>4, <2>5 DEF RootOf, Elsewhere
<1>15. Installed'
  <2> SUFFICES ASSUME met = {}, Killed' = {}
               PROVE  /\ Starting' = {} => Fresh' \/ (Ready' /\ RootReady')
                      /\ \A t \in Starting' : Installs(t)'
    BY DEF Installed
  <2>1. to = "ended" /\ Killed = {} /\ Starting' = Starting
    BY <1>5, <1>6
  <2>2. /\ Starting = {} => Fresh \/ (Ready /\ RootReady)
        /\ \A t \in Starting : Installs(t)
    BY <2>1 DEF StartInv, Installed
  <2>3. ASSUME NEW t \in Starting PROVE Installs(t)'
    <3>1. srv'[t] = srv[t] /\ Installs(t)
      BY <1>2, <1>5, <2>1, <2>2 DEF Elsewhere, Starting
    <3> QED BY <3>1 DEF Installs, StartAt, Fresh, Ready, RootReady
  <2> QED BY <2>1, <2>2, <2>3 DEF Fresh, Ready, RootReady
<1>16. FailsForAReason'
  BY <1>2, <1>6 DEF StartInv, FailsForAReason, Elsewhere, StartAt
<1> QED BY <1>4, <1>8, <1>9, <1>10, <1>11, <1>12, <1>13, <1>14, <1>15, <1>16, StartValues
        DEF StartInv

LEMMA StartNextInv == StartInv /\ [StartNext]_startVars => StartInv'
<1> SUFFICES ASSUME StartInv, [StartNext]_startVars PROVE StartInv'
  OBVIOUS
<1>1. ASSUME NEW s \in Start, Launch(s) PROVE StartInv'
  BY <1>1, LaunchInv
<1>2. ASSUME NEW s \in Start, NEW reset \in BOOLEAN, Begin(s, reset) PROVE StartInv'
  BY <1>2, BeginInv
<1>3. ASSUME NEW s \in Start, CheckDbVersion(s) PROVE StartInv'
  BY <1>3, CheckDbVersionInv
<1>4. ASSUME NEW s \in Start, CreateTables(s) PROVE StartInv'
  BY <1>4, CreateTablesInv
<1>5. ASSUME NEW s \in Start, CommitMigrations(s) PROVE StartInv'
  BY <1>5, CommitMigrationsInv
<1>6. ASSUME NEW s \in Start, AddVersion(s) PROVE StartInv'
  BY <1>6, AddVersionInv
<1>7. ASSUME NEW s \in Start, AddProduct(s) PROVE StartInv'
  BY <1>7, AddProductInv
<1>8. ASSUME NEW s \in Start, LookForRoot(s) PROVE StartInv'
  BY <1>8, LookForRootInv
<1>9. ASSUME NEW s \in Start, LoadRoot(s) PROVE StartInv'
  BY <1>9, LoadRootInv
<1>10. ASSUME NEW s \in Start, MakeRoot(s) PROVE StartInv'
  BY <1>10, MakeRootInv
<1>11. ASSUME NEW s \in Start, WriteRoot(s) PROVE StartInv'
  BY <1>11, WriteRootInv
<1>12. ASSUME NEW s \in Start, ProtectRoot(s) PROVE StartInv'
  BY <1>12, ProtectRootInv
<1>13. ASSUME NEW s \in Start, Bind(s) PROVE StartInv'
  BY <1>13, BindInv
<1>14. ASSUME NEW s \in Start, RemoveProduct(s) PROVE StartInv'
  BY <1>14, RemoveProductInv
<1>15. ASSUME NEW s \in Start, Quit(s) PROVE StartInv'
  BY <1>15, LeavesInv DEF Quit, Rest, StartAt
<1>16. ASSUME NEW s \in Start, CutStart(s) PROVE StartInv'
  BY <1>16, LeavesInv DEF CutStart
<1>17. CASE UNCHANGED startVars
  <2>1. /\ srv' = srv /\ db' = db /\ root' = root /\ cuts' = cuts /\ met' = met
        /\ product' = product
    BY <1>17 DEF startVars
  <2>2. Starting' = Starting /\ Killed' = Killed
    BY <2>1 DEF Starting, Killed, StartAt
  <2>3. StartTyped' /\ MarkForgotten' /\ Opened'
    BY <2>1 DEF StartInv, StartTyped, MarkForgotten, Opened
  <2>4. InTurn'
    BY <2>1, <2>2 DEF StartInv, InTurn, Begun, StartAt
  <2>5. RootFile' /\ FailsForAReason'
    BY <2>1, <2>2 DEF StartInv, RootFile, FailsForAReason, StartAt
  <2>6. Schema("config")' /\ Schema("default")'
    BY <2>1, <2>2 DEF StartInv, Schema, StartAt
  <2>7. \A s \in Start : Sees(s)' /\ RootOf(s)'
    BY <2>1, <2>2 DEF StartInv, Sees, RootOf, Served, StartAt
  <2>8. ASSUME NEW s, Installs(s) PROVE Installs(s)'
    BY <2>1, <2>8 DEF Installs, Fresh, Ready, RootReady, StartAt
  <2>9. Installed'
    BY <2>1, <2>2, <2>8 DEF StartInv, Installed, Fresh, Ready, RootReady
  <2> QED BY <2>3, <2>4, <2>5, <2>6, <2>7, <2>9 DEF StartInv
<1> QED BY <1>1, <1>2, <1>3, <1>4, <1>5, <1>6, <1>7, <1>8, <1>9, <1>10, <1>11, <1>12, <1>13,
           <1>14, <1>15, <1>16, <1>17 DEF StartNext, Advance

LEMMA StartInvImplies == StartInv => StartsWork
<1> SUFFICES ASSUME StartInv PROVE StartsWork
  OBVIOUS
<1>1. StartTypeOK
  BY DEF StartInv, StartTyped, StartTypeOK, Srvs, Roots, Dbs
<1>2. CompleteAtRest
  BY DatabaseFields DEF StartInv, Installed, CompleteAtRest, Fresh, Ready, RootReady
<1>3. RootAgrees
  BY DEF StartInv, RootAgrees, RootOf, Served
<1> QED BY <1>1, <1>2, <1>3 DEF StartsWork, StartInv

(* A start fails only if it met another one, came after one that was       *)
(* killed, or is for a port that is taken; starts that neither meet nor    *)
(* are killed leave a complete directory, and a server accepts the         *)
(* credentials of the file: for any number of starts (main of              *)
(* libhandlers/server.py).                                                 *)
THEOREM StartsWorkCorrect == StartSpec => []StartsWork
<1>1. StartSpec => []StartInv
  BY StartInitInv, StartNextInv, PTL DEF StartSpec
<1> QED BY <1>1, StartInvImplies, PTL

LEMMA RootStaysNext ==
  ASSUME StartInv, StartNext, root.readonly, root'.sha # root.sha
  PROVE  \E s \in Start :
           \/ StartAt(s, "begin") /\ ~root'.exists
           \/ StartAt(s, "write") /\ s \in met
<1>1. PICK s \in Start : \/ \E reset \in BOOLEAN : Begin(s, reset)
                        \/ WriteRoot(s) \/ ProtectRoot(s)
  BY DEF StartNext, Advance, Launch, CheckDbVersion, CreateTables, CommitMigrations, AddVersion,
         AddProduct, LookForRoot, LoadRoot, MakeRoot, Bind, RemoveProduct, Quit, CutStart
<1>2. root \in Roots
  BY DEF StartInv, StartTyped
<1>3. CASE \E reset \in BOOLEAN : Begin(s, reset)
  <2>1. root' = Removed /\ StartAt(s, "begin")
    BY <1>3 DEF Begin
  <2> QED BY <2>1 DEF Removed, NoRoot
<1>4. CASE WriteRoot(s)
  <2>1. StartAt(s, "write") /\ s \in Starting
    BY <1>4 DEF WriteRoot, StartAt, Starting, Over
  <2> QED BY <2>1 DEF StartInv, Sees
<1>5. CASE ProtectRoot(s)
  <2>1. root' = root \/ root' = [root EXCEPT !.readonly = TRUE]
    BY <1>5 DEF ProtectRoot
  <2> QED BY <1>2, <2>1 DEF Roots
<1> QED BY <1>1, <1>3, <1>4, <1>5

LEMMA ProductNext ==
  ASSUME StartInv, StartNext, product' = "there", product # "there"
  PROVE  \/ met # {} \/ Killed # {}
         \/ product = "none" /\ \A s \in Start : srv[s].pc \notin {"serve", "ended"}
<1>1. PICK s \in Start : AddProduct(s)
  BY DEF StartNext, Advance, Launch, Begin, CheckDbVersion, CreateTables, CommitMigrations,
         AddVersion, LookForRoot, LoadRoot, MakeRoot, WriteRoot, ProtectRoot, Bind,
         RemoveProduct, Quit, CutStart
<1>2. StartAt(s, "product") /\ s \in Starting
  BY <1>1 DEF AddProduct, StartAt, Starting, Over
<1> QED BY <1>2 DEF StartInv, Sees

(* Credentials in a protected file change only by a start that resets them *)
(* or had opened the file before, and the default product is made for a    *)
(* new installation only (start_server, add_initial_run_database).         *)
THEOREM InstallsOnceCorrect == StartSpec => InstallsOnce
<1>1. StartSpec => []StartInv
  BY StartInitInv, StartNextInv, PTL DEF StartSpec
<1>2. StartInv /\ [StartNext]_startVars =>
        [root.readonly /\ root'.sha # root.sha =>
           \E s \in Start :
             \/ StartAt(s, "begin") /\ ~root'.exists
             \/ StartAt(s, "write") /\ s \in met]_startVars
  BY RootStaysNext
<1>3. StartInv /\ [StartNext]_startVars =>
        [product' = "there" /\ product # "there" =>
           \/ met # {} \/ Killed # {}
           \/ product = "none" /\ \A s \in Start : srv[s].pc \notin {"serve", "ended"}]_startVars
  BY ProductNext
<1>4. StartSpec => RootStays
  BY <1>1, <1>2, PTL DEF StartSpec, RootStays
<1>5. StartSpec => ProductForNewOnly
  BY <1>1, <1>3, PTL DEF StartSpec, ProductForNewOnly
<1> QED BY <1>4, <1>5, PTL DEF InstallsOnce

-----------------------------------------------------------------------------
(***************************************************************************)
(* The tokens of the client.                                               *)
(***************************************************************************)

Tokens == [Server -> 0..MaxTokens]
TokFiles == [state : {"absent", "empty", "ok", "garbage"}, of : Tokens]
Cmds == [pc : {"idle", "begin", "create", "fill", "talk", "login",
               "truncate", "flush", "work"},
         job : {"none", "login", "logout", "other"},
         at : Server \cup {"none"}, of : Tokens]

TokTyped ==
  /\ tokens \in TokFiles
  /\ session \in [Server -> [token : 0..MaxTokens, active : BOOLEAN]]
  /\ cmd \in [Command -> Cmds]
  /\ \A c \in Running : cmd[c].at \in Server
  /\ commands \in 0..MaxBegun /\ stopped \in 0..MaxStopped
  /\ together \in BOOLEAN
  /\ due \in Tokens

(* What the file holds when no command has it open.                        *)
InOrder ==
  \/ tokens.state = "absent" /\ due = NoTokens
  \/ tokens.state = "ok" /\ tokens.of = due

(* How far a command is that has the file for itself.                      *)
Alone(c) ==
  /\ cmd[c].pc = "begin" => InOrder /\ cmd[c].of = NoTokens
  /\ cmd[c].pc = "create" => cmd[c].of = NoTokens /\ due = NoTokens
  /\ cmd[c].pc = "fill" =>
       tokens.state = "empty" /\ cmd[c].of = NoTokens /\ due = NoTokens
  /\ cmd[c].pc \in {"talk", "login", "work"} =>
       tokens.state = "ok" /\ tokens.of = due /\ cmd[c].of = due
  /\ cmd[c].pc = "truncate" => cmd[c].of = due
  /\ cmd[c].pc = "flush" => tokens.state = "empty" /\ cmd[c].of = due

Undisturbed == ~together /\ stopped = 0

TokInv ==
  /\ TokTyped
  /\ Undisturbed =>
       /\ \A c, d \in Running : c = d
       /\ Running = {} => InOrder
       /\ \A c \in Running : Alone(c)

LEMMA TokDefaults ==
  /\ NoTokens \in Tokens /\ Idle \in Cmds /\ Idle.pc = "idle"
  /\ NoSession \in [token : 0..MaxTokens, active : BOOLEAN]
  /\ \A s \in {"absent", "empty", "ok", "garbage"}, t \in Tokens : TokFile(s, t) \in TokFiles
  BY TokensAssumption DEF NoTokens, Tokens, NoToken, Idle, Cmds, NoSession, TokFile, TokFiles

LEMMA TokInitInv == TokInit => TokInv
<1> SUFFICES ASSUME TokInit PROVE TokInv
  OBVIOUS
<1>1. Running = {}
  BY DEF TokInit, Running, Idle
<1>2. TokTyped
  <2>1. session \in [Server -> [token : 0..MaxTokens, active : BOOLEAN]]
    BY TokDefaults DEF TokInit
  <2>2. cmd \in [Command -> Cmds]
    BY TokDefaults DEF TokInit
  <2>3. tokens \in TokFiles /\ due \in Tokens
    BY TokDefaults DEF TokInit
  <2>4. commands = 0 /\ stopped = 0 /\ together = FALSE
    BY DEF TokInit
  <2>5. commands \in 0..MaxBegun /\ stopped \in 0..MaxStopped
    BY <2>4, TokensAssumption
  <2>6. together \in BOOLEAN
    BY <2>4
  <2> QED BY <1>1, <2>1, <2>2, <2>3, <2>5, <2>6 DEF TokTyped
<1>3. InOrder
  BY DEF TokInit, InOrder, TokFile
<1> QED BY <1>1, <1>2, <1>3 DEF TokInv

(* A command moves on: who runs, and what the others do.                   *)
LEMMA CmdChanges ==
  ASSUME TokTyped, NEW c \in Command, NEW x \in Cmds, cmd' = [cmd EXCEPT ![c] = x],
         x.pc # "idle" => x.at \in Server
  PROVE  /\ cmd' \in [Command -> Cmds]
         /\ cmd'[c] = x /\ \A d \in Command \ {c} : cmd'[d] = cmd[d]
         /\ Running' = IF x.pc = "idle" THEN Running \ {c} ELSE Running \cup {c}
         /\ \A d \in Running' : cmd'[d].at \in Server
<1>1. cmd' \in [Command -> Cmds] /\ cmd'[c] = x /\ \A d \in Command \ {c} : cmd'[d] = cmd[d]
  BY DEF TokTyped
<1>2. Running' = IF x.pc = "idle" THEN Running \ {c} ELSE Running \cup {c}
  BY <1>1 DEF Running
<1> QED BY <1>1, <1>2 DEF TokTyped, Running

(* A running command goes on, or ends, and leaves things in order.         *)
LEMMA TokMoves ==
  ASSUME TokInv, NEW c \in Running, NEW x \in Cmds, cmd' = [cmd EXCEPT ![c] = x],
         x.pc # "idle" => x.at \in Server,
         tokens' \in TokFiles, due' \in Tokens,
         session' \in [Server -> [token : 0..MaxTokens, active : BOOLEAN]],
         CountsStay,
         Undisturbed /\ Alone(c) => IF x.pc = "idle" THEN InOrder' ELSE Alone(c)'
  PROVE  TokInv'
<1>1. TokTyped /\ c \in Command
  BY DEF TokInv, Running
<1>2. /\ cmd' \in [Command -> Cmds]
      /\ Running' = IF x.pc = "idle" THEN Running \ {c} ELSE Running \cup {c}
      /\ \A d \in Running' : cmd'[d].at \in Server
  BY <1>1, CmdChanges
<1>3. TokTyped'
  BY <1>1, <1>2 DEF TokTyped, CountsStay
<1>4. Running' \subseteq Running
  BY <1>2
<1>5. ASSUME Undisturbed'
      PROVE  /\ \A a, b \in Running' : a = b
             /\ Running' = {} => InOrder'
             /\ \A d \in Running' : Alone(d)'
  <2>1. Undisturbed
    BY <1>5 DEF Undisturbed, CountsStay
  <2>2. /\ \A a, b \in Running : a = b
        /\ Alone(c)
    BY <2>1 DEF TokInv
  <2>3. IF x.pc = "idle" THEN InOrder' ELSE Alone(c)'
    BY <2>1, <2>2
  <2>4. Running' = IF x.pc = "idle" THEN {} ELSE {c}
    BY <2>2, <1>2
  <2> QED BY <2>3, <2>4
<1> QED BY <1>3, <1>5 DEF TokInv

(* What a flush leaves of the file; a truncated one is whole again.        *)
LEMMA FlushTyped ==
  ASSUME TokTyped, NEW t \in Tokens, tokens' \in Flushed(t)
  PROVE  /\ tokens' \in TokFiles
         /\ tokens.state = "empty" => tokens' = TokFile("ok", t)
  BY TokDefaults DEF Flushed

(* The steps of the commands.                                              *)
LEMMA BeginTok ==
  ASSUME TokInv, NEW c \in Command, NEW job \in {"login", "logout", "other"}, NEW s \in Server,
         BeginCommand(c, job, s)
  PROVE  TokInv'
<1> DEFINE x == [Idle EXCEPT !.pc = "begin", !.job = job, !.at = s]
<1>1. x \in Cmds /\ x.pc = "begin" /\ x.at = s /\ x.of = NoTokens
  BY TokDefaults DEF Idle, Cmds
<1>2. cmd' = [cmd EXCEPT ![c] = x]
  BY DEF BeginCommand
<1> HIDE DEF x
<1>3. TokTyped
  BY DEF TokInv
<1>4. /\ cmd' \in [Command -> Cmds] /\ cmd'[c] = x
      /\ Running' = Running \cup {c}
      /\ \A d \in Running' : cmd'[d].at \in Server
  BY <1>1, <1>2, <1>3, CmdChanges
<1>5. TokTyped'
  <2>1. commands' \in 0..MaxBegun
    BY <1>3, TokensAssumption DEF TokTyped, BeginCommand
  <2>2. together' \in BOOLEAN
    BY <1>3 DEF TokTyped, BeginCommand
  <2> QED BY <1>3, <1>4, <2>1, <2>2 DEF TokTyped, BeginCommand
<1>6. ASSUME Undisturbed'
      PROVE  /\ \A a, b \in Running' : a = b
             /\ Running' = {} => InOrder'
             /\ \A d \in Running' : Alone(d)'
  <2>1. Undisturbed /\ Running = {}
    BY <1>6 DEF Undisturbed, BeginCommand
  <2>2. InOrder
    BY <2>1 DEF TokInv
  <2>3. InOrder'
    BY <2>2 DEF InOrder, BeginCommand
  <2>4. Running' = {c}
    BY <1>4, <2>1
  <2>5. Alone(c)'
    BY <1>1, <1>4, <2>3 DEF Alone
  <2> QED BY <2>4, <2>5
<1> QED BY <1>5, <1>6 DEF TokInv

(* A command that moves on without changing anything else.                 *)
LEMMA TokSteps ==
  ASSUME TokInv, NEW c \in Running, NEW x \in Cmds, cmd' = [cmd EXCEPT ![c] = x],
         x.pc # "idle" => x.at = cmd[c].at,
         UNCHANGED <<tokens, session, due>>, CountsStay,
         Undisturbed /\ Alone(c) => IF x.pc = "idle" THEN InOrder ELSE Alone(c)'
  PROVE  TokInv'
<1>1. TokTyped /\ (InOrder => InOrder')
  BY DEF TokInv, InOrder
<1>2. cmd[c].at \in Server
  BY <1>1 DEF TokTyped
<1> QED BY <1>1, <1>2, TokMoves DEF TokTyped

LEMMA FinishTok ==
  ASSUME TokInv, NEW c \in Running, Finish(c), UNCHANGED <<tokens, session, due>>, CountsStay,
         Undisturbed /\ Alone(c) => InOrder
  PROVE  TokInv'
  BY TokSteps, TokDefaults DEF Finish

LEMMA StepTok ==
  ASSUME TokInv, NEW c \in Running,
         NEW p \in {"begin", "create", "fill", "talk", "login", "truncate", "flush", "work"},
         MoveOn(c, p)
  PROVE  \E x \in Cmds : /\ cmd' = [cmd EXCEPT ![c] = x] /\ x.pc = p /\ cmd'[c] = x
                         /\ x.at = cmd[c].at /\ x.of = cmd[c].of
<1>1. cmd \in [Command -> Cmds] /\ c \in Command
  BY DEF TokInv, TokTyped, Running
<1>2. [cmd[c] EXCEPT !.pc = p] \in Cmds
  BY <1>1 DEF Cmds
<1>3. /\ cmd' = [cmd EXCEPT ![c] = [cmd[c] EXCEPT !.pc = p]]
      /\ cmd'[c] = [cmd[c] EXCEPT !.pc = p]
  BY <1>1 DEF MoveOn
<1>4. /\ [cmd[c] EXCEPT !.pc = p].pc = p
      /\ [cmd[c] EXCEPT !.pc = p].at = cmd[c].at
      /\ [cmd[c] EXCEPT !.pc = p].of = cmd[c].of
  BY <1>1 DEF Cmds
<1> QED BY <1>2, <1>3, <1>4

LEMMA LoadTok ==
  ASSUME TokInv, NEW c \in Command, Load(c)
  PROVE  TokInv'
<1>1. c \in Running /\ TokTyped /\ cmd \in [Command -> Cmds] /\ cmd[c].pc = "begin"
  BY DEF Load, Running, TokInv, TokTyped
<1>2. UNCHANGED <<tokens, session, due>> /\ CountsStay
  BY DEF Load
<1>3. CASE tokens.state = "absent"
  <2>1. MoveOn(c, "create")
    BY <1>3 DEF Load
  <2>2. PICK x \in Cmds : /\ cmd' = [cmd EXCEPT ![c] = x] /\ x.pc = "create" /\ cmd'[c] = x
                          /\ x.at = cmd[c].at /\ x.of = cmd[c].of
    BY <1>1, <2>1, StepTok
  <2>3. Alone(c) => Alone(c)'
    BY <1>1, <1>2, <1>3, <2>2 DEF Alone, InOrder
  <2> QED BY <1>1, <1>2, <2>2, <2>3, TokSteps
<1>4. CASE tokens.state = "ok"
  <2> DEFINE x == [cmd[c] EXCEPT !.pc = "talk", !.of = tokens.of]
  <2>1. cmd' = [cmd EXCEPT ![c] = x]
    BY <1>4 DEF Load
  <2>2. x \in Cmds /\ x.pc = "talk" /\ x.at = cmd[c].at /\ x.of = tokens.of
    BY <1>1 DEF Cmds, TokTyped, TokFiles
  <2> HIDE DEF x
  <2>3. cmd'[c] = x
    BY <1>1, <2>1
  <2>4. Alone(c) => Alone(c)'
    BY <1>1, <1>2, <1>4, <2>2, <2>3 DEF Alone, InOrder
  <2> QED BY <1>1, <1>2, <2>1, <2>2, <2>4, TokSteps
<1>5. CASE tokens.state \notin {"absent", "ok"}
  <2>1. Finish(c)
    BY <1>5 DEF Load
  <2>2. ~(Undisturbed /\ Alone(c))
    BY <1>1, <1>5 DEF Alone, InOrder
  <2> QED BY <1>1, <1>2, <2>1, <2>2, FinishTok
<1> QED BY <1>3, <1>4, <1>5

LEMMA OpenTok ==
  ASSUME TokInv, NEW c \in Command, OpenForWriting(c)
  PROVE  TokInv'
<1>1. /\ c \in Running /\ TokTyped /\ cmd \in [Command -> Cmds]
      /\ cmd[c].pc \in {"create", "truncate"}
  BY DEF OpenForWriting, Running, TokInv, TokTyped
<1>2. PICK p \in {"fill", "flush"} : p = IF cmd[c].pc = "create" THEN "fill" ELSE "flush"
  OBVIOUS
<1>3. PICK x \in Cmds : /\ cmd' = [cmd EXCEPT ![c] = x] /\ x.pc = p /\ cmd'[c] = x
                        /\ x.at = cmd[c].at /\ x.of = cmd[c].of
  BY <1>1, <1>2, StepTok DEF OpenForWriting
<1>4. tokens' = TokFile("empty", NoTokens) /\ UNCHANGED <<session, due>> /\ CountsStay
  BY DEF OpenForWriting
<1>5. tokens' \in TokFiles /\ tokens'.state = "empty"
  BY <1>4, TokDefaults DEF TokFile
<1>6. Alone(c) => Alone(c)'
  BY <1>1, <1>2, <1>3, <1>4, <1>5 DEF Alone
<1> QED BY <1>1, <1>2, <1>3, <1>4, <1>5, <1>6, TokMoves DEF TokTyped

LEMMA CreateTok ==
  ASSUME TokInv, NEW c \in Command, CreateFile(c)
  PROVE  TokInv'
<1>1. /\ c \in Running /\ TokTyped /\ cmd \in [Command -> Cmds] /\ cmd[c].pc = "fill"
      /\ UNCHANGED <<session, due>> /\ CountsStay
  BY DEF CreateFile, Running, TokInv, TokTyped
<1>2. PICK x \in Cmds : /\ cmd' = [cmd EXCEPT ![c] = x] /\ x.pc = "talk" /\ cmd'[c] = x
                        /\ x.at = cmd[c].at /\ x.of = cmd[c].of
  BY <1>1, StepTok DEF CreateFile
<1>3. /\ tokens' \in TokFiles
      /\ tokens.state = "empty" => tokens' = TokFile("ok", NoTokens)
  BY <1>1, TokDefaults, FlushTyped DEF CreateFile
<1>4. Alone(c) => Alone(c)'
  BY <1>1, <1>2, <1>3 DEF Alone, TokFile
<1> QED BY <1>1, <1>2, <1>3, <1>4, TokMoves DEF TokTyped

LEMMA SaveTok ==
  ASSUME TokInv, NEW c \in Command, SaveToken(c)
  PROVE  TokInv'
<1>1. /\ c \in Running /\ TokTyped /\ cmd \in [Command -> Cmds] /\ cmd[c] \in Cmds
      /\ cmd[c].pc = "flush" /\ UNCHANGED <<session, due>> /\ CountsStay
  BY DEF SaveToken, Running, TokInv, TokTyped
<1>2. cmd[c].of \in Tokens
  BY <1>1 DEF Cmds
<1>3. /\ tokens' \in TokFiles
      /\ tokens.state = "empty" => tokens' = TokFile("ok", cmd[c].of)
  BY <1>1, <1>2, FlushTyped DEF SaveToken
<1>4. CASE cmd[c].job = "other"
  <2>1. PICK x \in Cmds : /\ cmd' = [cmd EXCEPT ![c] = x] /\ x.pc = "work" /\ cmd'[c] = x
                          /\ x.at = cmd[c].at /\ x.of = cmd[c].of
    BY <1>1, <1>4, StepTok DEF SaveToken
  <2>2. Alone(c) => Alone(c)'
    BY <1>1, <1>3, <2>1 DEF Alone, TokFile
  <2> QED BY <1>1, <1>3, <2>1, <2>2, TokMoves DEF TokTyped
<1>5. CASE cmd[c].job # "other"
  <2>1. cmd' = [cmd EXCEPT ![c] = Idle]
    BY <1>5 DEF SaveToken, Finish
  <2>2. Alone(c) => InOrder'
    BY <1>1, <1>3 DEF Alone, InOrder, TokFile
  <2> QED BY <1>1, <1>3, <2>1, <2>2, TokDefaults, TokMoves DEF TokTyped
<1> QED BY <1>4, <1>5

(* A login or a logout changes what is due at one server and what the      *)
(* command will write for it, and goes on to write.                        *)
LEMMA TokGiven ==
  ASSUME TokInv, NEW c \in Running, cmd[c].pc \in {"talk", "login"},
         NEW s \in Server, s = cmd[c].at, NEW t \in 0..MaxTokens,
         UNCHANGED tokens, CountsStay,
         session' \in [Server -> [token : 0..MaxTokens, active : BOOLEAN]],
         due' = [due EXCEPT ![s] = t],
         cmd' = [cmd EXCEPT ![c] =
                   [@ EXCEPT !.pc = "truncate", !.of = [cmd[c].of EXCEPT ![s] = t]]]
  PROVE  TokInv'
<1>1. /\ TokTyped /\ cmd \in [Command -> Cmds] /\ cmd[c] \in Cmds /\ cmd[c].of \in Tokens
      /\ due \in Tokens
  BY DEF TokInv, TokTyped, Running, Cmds
<1> DEFINE of == [cmd[c].of EXCEPT ![s] = t]
           x == [cmd[c] EXCEPT !.pc = "truncate", !.of = of]
<1>2. of \in Tokens /\ due' \in Tokens
  BY <1>1 DEF Tokens
<1>3. cmd[c].of = due => of = due'
  OBVIOUS
<1>4. cmd' = [cmd EXCEPT ![c] = x]
  OBVIOUS
<1> HIDE DEF of
<1>5. x \in Cmds /\ x.pc = "truncate" /\ x.at = s /\ x.of = of
  BY <1>1, <1>2 DEF Cmds
<1> HIDE DEF x
<1>6. cmd'[c] = x
  BY <1>1, <1>4 DEF Running
<1>7. Alone(c) => Alone(c)'
  BY <1>3, <1>5, <1>6 DEF Alone
<1> QED BY <1>1, <1>2, <1>4, <1>5, <1>7, TokMoves DEF TokTyped

LEMMA LogOutTok ==
  ASSUME TokInv, NEW c \in Command, LogOut(c)
  PROVE  TokInv'
<1>1. /\ c \in Running /\ TokTyped /\ cmd[c].pc = "talk" /\ cmd[c].at \in Server
      /\ UNCHANGED tokens /\ CountsStay
  BY DEF LogOut, Running, TokInv, TokTyped
<1>2. CASE Admitted(c)
  <2>1. NoToken \in 0..MaxTokens
    BY TokensAssumption DEF NoToken
  <2>2. PICK s \in Server : s = cmd[c].at
    BY <1>1
  <2>3. session' \in [Server -> [token : 0..MaxTokens, active : BOOLEAN]]
    BY <1>1, <1>2, TokDefaults DEF LogOut, TokTyped
  <2>4. /\ due' = [due EXCEPT ![s] = NoToken]
        /\ cmd' = [cmd EXCEPT ![c] =
                     [@ EXCEPT !.pc = "truncate", !.of = [cmd[c].of EXCEPT ![s] = NoToken]]]
    BY <1>2, <2>2 DEF LogOut
  <2> QED BY <1>1, <2>1, <2>2, <2>3, <2>4, TokGiven
<1>3. CASE ~Admitted(c)
  <2>1. Finish(c) /\ UNCHANGED <<tokens, session, due>>
    BY <1>1, <1>3 DEF LogOut
  <2>2. Alone(c) => InOrder
    BY <1>1 DEF Alone, InOrder
  <2> QED BY <1>1, <2>1, <2>2, FinishTok
<1> QED BY <1>2, <1>3

LEMMA ShakeTok ==
  ASSUME TokInv, NEW c \in Command, Shake(c)
  PROVE  TokInv'
<1>1. /\ c \in Running /\ TokTyped /\ cmd \in [Command -> Cmds] /\ cmd[c].pc = "talk"
      /\ UNCHANGED <<tokens, session, due>> /\ CountsStay
  BY DEF Shake, Running, TokInv, TokTyped
<1>2. ASSUME Finish(c) PROVE TokInv'
  <2>1. Alone(c) => InOrder
    BY <1>1 DEF Alone, InOrder
  <2> QED BY <1>1, <1>2, <2>1, FinishTok
<1>3. ASSUME NEW p \in {"work", "login"}, MoveOn(c, p) PROVE TokInv'
  <2>1. PICK x \in Cmds : /\ cmd' = [cmd EXCEPT ![c] = x] /\ x.pc = p /\ cmd'[c] = x
                          /\ x.at = cmd[c].at /\ x.of = cmd[c].of
    BY <1>1, <1>3, StepTok
  <2>2. Alone(c) => Alone(c)'
    BY <1>1, <2>1 DEF Alone
  <2> QED BY <1>1, <2>1, <2>2, TokSteps
<1>4. Finish(c) \/ MoveOn(c, "work") \/ MoveOn(c, "login")
  BY DEF Shake
<1> QED BY <1>2, <1>3, <1>4

LEMMA LogInTok ==
  ASSUME TokInv, NEW c \in Command, LogIn(c)
  PROVE  TokInv'
<1>1. /\ c \in Running /\ TokTyped /\ cmd[c].pc = "login" /\ cmd[c].at \in Server
      /\ UNCHANGED tokens /\ CountsStay
      /\ session \in [Server -> [token : 0..MaxTokens, active : BOOLEAN]]
  BY DEF LogIn, Running, TokInv, TokTyped
<1>2. CASE Finish(c) /\ UNCHANGED <<session, due>>
  <2>1. Alone(c) => InOrder
    BY <1>1 DEF Alone, InOrder
  <2> QED BY <1>1, <1>2, <2>1, FinishTok
<1> DEFINE s == cmd[c].at
<1>3. CASE ~(Finish(c) /\ UNCHANGED <<session, due>>)
  <2>1. session' \in [Server -> [token : 0..MaxTokens, active : BOOLEAN]]
    <3>1. CASE session[s] = NoSession
      <4>1. PICK t \in 0..MaxTokens : session' = [session EXCEPT ![s] = [token |-> t, active |-> TRUE]]
        BY <1>3, <3>1 DEF LogIn
      <4> QED BY <1>1, <4>1
    <3>2. CASE session[s] # NoSession
      <4>1. session' = [session EXCEPT ![s].active = TRUE]
        BY <1>3, <3>2 DEF LogIn
      <4> QED BY <1>1, <4>1
    <3> QED BY <3>1, <3>2
  <2>2. PICK t \in 0..MaxTokens : t = session'[s].token
    BY <1>1, <2>1
  <2>3. /\ cmd' = [cmd EXCEPT ![c] =
                     [@ EXCEPT !.pc = "truncate", !.of = [cmd[c].of EXCEPT ![s] = session'[s].token]]]
        /\ due' = [due EXCEPT ![s] = session'[s].token]
    BY <1>3 DEF LogIn
  <2> HIDE DEF s
  <2>4. /\ cmd' = [cmd EXCEPT ![c] =
                     [@ EXCEPT !.pc = "truncate", !.of = [cmd[c].of EXCEPT ![s] = t]]]
        /\ due' = [due EXCEPT ![s] = t]
    BY <2>2, <2>3
  <2> QED BY <1>1, <2>1, <2>4, TokGiven DEF s
<1> QED BY <1>2, <1>3

LEMMA UseTok ==
  ASSUME TokInv, NEW c \in Command, UseToken(c)
  PROVE  TokInv'
<1>1. c \in Running /\ cmd[c].pc = "work"
  BY DEF UseToken, Running
<1>2. Alone(c) => InOrder
  BY <1>1 DEF Alone, InOrder
<1> QED BY <1>1, <1>2, FinishTok DEF UseToken

LEMMA StopTok ==
  ASSUME TokInv, NEW c \in Command, Stop(c)
  PROVE  TokInv'
<1>1. TokTyped /\ stopped \in 0..MaxStopped
  BY DEF TokInv, TokTyped
<1>2. /\ cmd' \in [Command -> Cmds] /\ \A d \in Running' : cmd'[d].at \in Server
  BY <1>1, CmdChanges, TokDefaults DEF Stop, Finish
<1>3. TokTyped'
  BY <1>1, <1>2, TokensAssumption DEF TokTyped, Stop
<1>4. ~Undisturbed'
  BY <1>1 DEF Undisturbed, Stop
<1> QED BY <1>3, <1>4 DEF TokInv

LEMMA AgeTok ==
  ASSUME TokInv, NEW s \in Server, Age(s)
  PROVE  TokInv'
<1>1. TokTyped
  BY DEF TokInv
<1>2. session' \in [Server -> [token : 0..MaxTokens, active : BOOLEAN]]
  BY <1>1, TokDefaults DEF Age, TokTyped
<1>3. TokTyped' /\ Running' = Running
  BY <1>1, <1>2 DEF TokTyped, Age, Running
<1>4. \A c \in Running : Alone(c) => Alone(c)'
  BY DEF Age, Alone, InOrder
<1>5. InOrder' = InOrder /\ Undisturbed' = Undisturbed
  BY DEF Age, InOrder, Undisturbed
<1> QED BY <1>3, <1>4, <1>5 DEF TokInv

LEMMA TokNextInv == TokInv /\ [TokNext]_tokVars => TokInv'
<1> SUFFICES ASSUME TokInv, [TokNext]_tokVars PROVE TokInv'
  OBVIOUS
<1>1. CASE UNCHANGED tokVars
  BY <1>1 DEF tokVars, TokInv, TokTyped, Running, Undisturbed, InOrder, Alone
<1>2. CASE TokNext
  BY <1>2, AgeTok, BeginTok, LoadTok, OpenTok, CreateTok, SaveTok, LogOutTok, ShakeTok,
     LogInTok, UseTok, StopTok DEF TokNext
<1> QED BY <1>1, <1>2

LEMMA TokInvGives == TokInv => TokensAgree
<1> SUFFICES ASSUME TokInv PROVE TokensAgree
  OBVIOUS
<1>1. TokTyped
  BY DEF TokInv
<1>2. TokTypeOK
  BY <1>1 DEF TokTyped, TokTypeOK, TokFiles, Cmds, Tokens
<1>3. TokensKept
  BY DEF TokInv, TokensKept, Undisturbed, InOrder
<1> QED BY <1>2, <1>3 DEF TokensAgree

(* Whatever commands do, one after the other, with logins, logouts and     *)
(* servers that forget their sessions, the file holds for each server the  *)
(* token it gave last (saveToken of SessionManager_Client).                *)
THEOREM TokensAgreeCorrect == TokSpec => []TokensAgree
<1>1. TokSpec => []TokInv
  BY TokInitInv, TokNextInv, PTL DEF TokSpec
<1> QED BY <1>1, TokInvGives, PTL
=============================================================================
