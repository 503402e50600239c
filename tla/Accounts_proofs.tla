---------------------------- MODULE Accounts_proofs ----------------------------
(***************************************************************************)
(* Accounts for all numbers of users and requests in flight.               *)
(***************************************************************************)
EXTENDS MCAccounts, FiniteSetTheorems, TLAPS

(* A request in flight.  Its row is what its session holds of the target,  *)
(* once loaded; a caller that is its own target holds itself from the      *)
(* start, with both flags: it passed require_admin.                        *)
Request == [phase : {"load", "check", "commit"}, op : {"patch", "delete", "leave"},
            caller : Users, target : Users, active : Flag, admin : Flag,
            row : {None} \cup Account]

(* A patch of oneself that got past the self-protection lowers no flag.    *)
Sound(q) ==
  /\ q \in Request
  /\ q.phase # "load" => q.row \in Account
  /\ q.op = "patch" /\ q.target = q.caller =>
       /\ q.row = [admin |-> TRUE, active |-> TRUE]
       /\ q.phase # "load" => q.active # FALSE /\ q.admin # FALSE

IInv ==
  /\ users \in [Users -> {None, Gone} \cup Account]
  /\ DOMAIN requests = Requests
  /\ \A r \in Requests : requests[r] = Idle \/ Sound(requests[r])

(* A request moves or ends, the accounts stay well typed. *)
LEMMA MoveIInv ==
  ASSUME IInv, users' \in [Users -> {None, Gone} \cup Account],
         NEW r \in Requests, NEW q, q = Idle \/ Sound(q),
         requests' = [requests EXCEPT ![r] = q]
  PROVE  IInv'
<1>1. DOMAIN requests' = Requests /\ requests'[r] = q
  BY DEF IInv
<1>2. \A s \in Requests : s # r => requests'[s] = requests[s]
  BY DEF IInv
<1>3. \A s \in Requests : requests'[s] = Idle \/ Sound(requests'[s])
  BY <1>1, <1>2 DEF IInv
<1> QED
  BY <1>1, <1>3 DEF IInv

LEMMA FinishIInv ==
  ASSUME IInv, users' \in [Users -> {None, Gone} \cup Account],
         NEW r \in Requests, Finish(r)
  PROVE  IInv'
BY MoveIInv DEF Finish

LEMMA NotIdle ==
  ASSUME IInv, NEW r \in Requests, requests[r].phase # "idle"
  PROVE  Sound(requests[r])
BY DEF IInv, Idle

(* What enters is sound: the caller passed current_user or require_admin. *)
LEMMA EnterIInv ==
  ASSUME IInv, NEW r \in Requests, NEW phase \in {"load", "commit"},
         NEW op \in {"patch", "delete", "leave"}, NEW c \in Users, NEW u \in Users,
         NEW active \in Flag, NEW admin \in Flag,
         Authenticated(c), phase = "load" \/ u = c,
         op = "patch" => phase = "load" /\ users[c].admin,
         Enter(r, phase, op, c, u, active, admin)
  PROVE  IInv'
<1> DEFINE row == IF u = c THEN users[c] ELSE None
           q == [phase |-> phase, op |-> op, caller |-> c, target |-> u,
                 active |-> active, admin |-> admin, row |-> row]
<1>1. requests' = [requests EXCEPT ![r] = q] /\ UNCHANGED users
  BY DEF Enter
<1>2. users[c] \in Account /\ users[c].active
  BY DEF Authenticated, Exists
<1>3. users[c].admin => users[c] = [admin |-> TRUE, active |-> TRUE]
  BY <1>2 DEF Account
<1>4. row \in {None} \cup Account
  BY <1>2
<1>5. u = c => row = users[c]
  OBVIOUS
<1> HIDE DEF row
<1>6. q \in Request
  BY <1>4 DEF Request
<1>7. Sound(q)
  BY <1>2, <1>3, <1>5, <1>6 DEF Sound
<1> HIDE DEF q
<1> QED
  BY <1>1, <1>7, MoveIInv DEF IInv

LEMMA StartIInv ==
  ASSUME IInv, NEW r \in Requests, NEW c \in Users, NEW u \in Users,
         NEW active \in Flag, NEW admin \in Flag,
         \/ StartPatch(r, c, u, active, admin)
         \/ StartDelete(r, c, u)
         \/ StartLeave(r, c)
  PROVE  IInv'
<1>1. None \in Flag
  BY DEF Flag
<1>2. CASE StartPatch(r, c, u, active, admin)
  BY <1>2, EnterIInv DEF StartPatch, AdminAuthenticated
<1>3. CASE StartDelete(r, c, u)
  BY <1>1, <1>3, EnterIInv DEF StartDelete, AdminAuthenticated
<1>4. CASE StartLeave(r, c)
  BY <1>1, <1>4, EnterIInv DEF StartLeave
<1> QED
  BY <1>2, <1>3, <1>4

LEMMA LoadIInv ==
  ASSUME IInv, NEW r \in Requests, Load(r)
  PROVE  IInv'
<1> DEFINE q == requests[r]
           row == Loaded(q)
           next == [q EXCEPT !.phase = "check", !.row = row]
<1>1. Sound(q) /\ UNCHANGED users
  BY NotIdle DEF Load
<1>2. CASE Finish(r)
  BY <1>1, <1>2, FinishIInv DEF IInv
<1>3. CASE /\ row \in Account /\ ~(q.target = q.caller /\ Lowers(q))
           /\ requests' = [requests EXCEPT ![r] = next]
  <2>1. q \in Request
    BY <1>1 DEF Sound
  <2>2. q.op = "patch" /\ q.target = q.caller =>
          row = [admin |-> TRUE, active |-> TRUE] /\ q.active # FALSE /\ q.admin # FALSE
    <3> DEFINE both == [admin |-> TRUE, active |-> TRUE]
    <3>1. both \in Account
      BY DEF Account
    <3> HIDE DEF both
    <3>2. both # None
      BY <3>1, AccountsAssumption
    <3>3. q.op = "patch" /\ q.target = q.caller => q.row = both
      BY <1>1 DEF Sound, both
    <3>4. q.op = "patch" /\ q.target = q.caller => row = both
      BY <3>2, <3>3 DEF Loaded
    <3>5. q.target = q.caller => q.active # FALSE /\ q.admin # FALSE
      BY <1>3, Zenon DEF Lowers
    <3> QED
      BY <3>4, <3>5, Zenon DEF both
  <2> HIDE DEF q, row
  <2>3. next \in Request
    BY <1>3, <2>1 DEF Request
  <2>4. /\ next.op = q.op /\ next.target = q.target /\ next.caller = q.caller
        /\ next.active = q.active /\ next.admin = q.admin /\ next.row = row
    BY <2>1 DEF Request
  <2>5. Sound(next)
    BY <1>3, <2>2, <2>3, <2>4 DEF Sound
  <2> HIDE DEF next
  <2> QED
    BY <1>1, <1>3, <2>5, MoveIInv DEF IInv
<1>4. \/ Finish(r)
      \/ /\ row \in Account /\ ~(q.target = q.caller /\ Lowers(q))
         /\ requests' = [requests EXCEPT ![r] = next]
  BY DEF Load
<1> QED
  BY <1>2, <1>3, <1>4

LEMMA CheckIInv ==
  ASSUME IInv, NEW r \in Requests, Check(r)
  PROVE  IInv'
<1> DEFINE q == requests[r]
           next == [q EXCEPT !.phase = "commit"]
<1>1. Sound(q) /\ UNCHANGED users /\ q.phase = "check"
  BY NotIdle DEF Check
<1>2. q \in Request
  BY <1>1 DEF Sound
<1>3. /\ next \in Request
      /\ next.op = q.op /\ next.target = q.target /\ next.caller = q.caller
      /\ next.active = q.active /\ next.admin = q.admin /\ next.row = q.row
  BY <1>2 DEF Request
<1>4. Sound(next)
  BY <1>1, <1>3 DEF Sound
<1>5. Finish(r) \/ requests' = [requests EXCEPT ![r] = next]
  BY DEF Check
<1> HIDE DEF next
<1> QED
  BY <1>1, <1>4, <1>5, FinishIInv, MoveIInv DEF IInv

LEMMA CommitIInv ==
  ASSUME IInv, NEW r \in Requests, CommitPatch(r) \/ CommitPurge(r)
  PROVE  IInv'
<1> DEFINE q == requests[r]
<1>1. Sound(q)
  BY NotIdle DEF CommitPatch, CommitPurge
<1>2. CASE CommitPatch(r)
  <2>1. ASSUME Exists(q.target) PROVE Patched(q) \in Account
    <3>1. q.row \in Account /\ q.admin \in Flag /\ q.active \in Flag
      BY <1>1, <1>2 DEF Sound, Request, CommitPatch
    <3>2. users[q.target].admin \in BOOLEAN /\ users[q.target].active \in BOOLEAN
      BY <2>1 DEF Exists, Account
    <3> QED
      BY <3>1, <3>2, Zenon DEF Patched, Account, Flag
  <2>2. users' \in [Users -> {None, Gone} \cup Account]
    BY <1>2, <2>1 DEF CommitPatch, IInv
  <2> QED
    BY <1>2, <2>2, FinishIInv DEF CommitPatch
<1>3. CASE CommitPurge(r)
  BY <1>3, FinishIInv DEF CommitPurge, IInv
<1> QED
  BY <1>2, <1>3

LEMMA InitIInv == Init => IInv
BY DEF Init, IInv

LEMMA NextIInv == IInv /\ [Next]_vars => IInv'
<1> SUFFICES ASSUME IInv, [Next]_vars PROVE IInv'
  OBVIOUS
<1>1. ASSUME NEW u \in Users, Register(u) PROVE IInv'
  BY <1>1 DEF Register, IInv, Account
<1>2. ASSUME NEW r \in Requests, AdminStep(r) PROVE IInv'
  <2>1. None \in Flag
    BY DEF Flag
  <2> QED
    BY <1>2, <2>1, StartIInv, LoadIInv, CheckIInv, CommitIInv DEF AdminStep
<1>3. ASSUME NEW r \in Requests, NEW c \in Users, StartLeave(r, c) PROVE IInv'
  <2>1. None \in Flag
    BY DEF Flag
  <2> QED
    BY <1>3, <2>1, StartIInv
<1>4. CASE Restart
  <2>1. \A u \in Users : Exists(u) => Seeded(u) \in Account
    BY DEF Exists, Seeded, Account
  <2>2. users' \in [Users -> {None, Gone} \cup Account]
    BY <1>4, <2>1 DEF Restart, IInv
  <2> QED
    BY <1>4, <2>2 DEF Restart, IInv
<1>5. CASE UNCHANGED vars
  BY <1>5 DEF vars, IInv
<1> QED
  BY <1>1, <1>2, <1>3, <1>4, <1>5 DEF Next

(* What a request in flight relies on holds throughout: its row, and that  *)
(* a patch of oneself lowers nothing.                                       *)
THEOREM Invariance == Spec => []IInv
BY InitIInv, NextIInv, PTL DEF Spec

(* Every reachable state of the accounts is well typed. *)
THEOREM TypeCorrect == Spec => []TypeOK
<1>1. IInv => TypeOK
  BY DEF IInv, TypeOK, Sound, Request
<1> QED
  BY <1>1, Invariance, PTL

(* No account raises or lowers its own flags, however its request is       *)
(* interleaved with those that take its role away.                         *)
THEOREM NobodyElevatesItself == Spec => NobodyPatchesItself
<1> DEFINE Harmless == \A r \in Requests :
             LET q == requests[r]
             IN CommitPatch(r) /\ q.target = q.caller => users' = users
<1>1. IInv => Harmless
  <2> SUFFICES ASSUME IInv, NEW r \in Requests, CommitPatch(r),
                      requests[r].target = requests[r].caller
               PROVE  users' = users
    OBVIOUS
  <2> DEFINE q == requests[r]
             t == q.target
  <2>1. Sound(q) /\ q.op = "patch" /\ q.phase = "commit"
    BY NotIdle DEF CommitPatch
  <2>2. q.row.admin = TRUE /\ q.row.active = TRUE
    BY <2>1 DEF Sound
  <2>3. q.admin \in {None, TRUE} /\ q.active \in {None, TRUE} /\ t \in Users
    BY <2>1 DEF Sound, Request, Flag
  <2>4. Patched(q) = [admin |-> users[t].admin, active |-> users[t].active]
    BY <2>2, <2>3, Zenon DEF Patched
  <2>5. ASSUME Exists(t) PROVE Patched(q) = users[t]
    BY <2>4, <2>5 DEF Exists, Account
  <2> HIDE DEF q, t
  <2>6. Exists(t) => [users EXCEPT ![t] = Patched(q)] = users
    BY <2>3, <2>5 DEF IInv
  <2> QED
    BY <2>6 DEF CommitPatch, q, t
<1> QED
  BY <1>1, Invariance, PTL DEF NobodyPatchesItself

-------------------------------------------------------------------------------
(* Requests that take turns. *)

AtMostOne == \A r, s \in InFlight : r = s

(* What a request alone in flight has found still holds: the row it loaded *)
(* and, when it takes an active admin away, another one.                   *)
Ready(q) ==
  /\ q.op # "leave"
  /\ q.row # None => q.row = users[q.target]
  /\ q.phase = "commit" /\ Lowers(q) /\ q.target \in ActiveAdmins =>
       \E u \in ActiveAdmins : u # q.target

TurnIInv ==
  /\ IsFiniteSet(InFlight)
  /\ ~raced => AtMostOne /\ \A r \in InFlight : Ready(requests[r])

LEMMA AtMostOneOf ==
  ASSUME NEW S, IsFiniteSet(S), ~(Cardinality(S) > 1)
  PROVE  \A x, y \in S : x = y
<1>1. Cardinality(S) \in Nat
  BY FS_CardinalityType
<1>2. Cardinality(S) = 0 \/ Cardinality(S) = 1
  BY <1>1
<1>3. S = {} \/ \E x : S = {x}
  BY <1>2, FS_EmptySet, FS_Singleton
<1> QED
  BY <1>3

(* What a step does to the requests: one moves, or all are as before, or   *)
(* all are lost.                                                           *)
LEMMA OneRequest ==
  ASSUME IInv, [Next]_vars
  PROVE  \/ requests' = requests
         \/ \A s \in Requests : requests'[s] = Idle
         \/ \E r \in Requests : \A s \in Requests : s # r => requests'[s] = requests[s]
<1>1. ASSUME NEW r \in Requests, NEW q, requests' = [requests EXCEPT ![r] = q]
      PROVE  \A s \in Requests : s # r => requests'[s] = requests[s]
  BY <1>1 DEF IInv
<1>2. ASSUME NEW r \in Requests, AdminStep(r) \/ \E c \in Users : StartLeave(r, c)
      PROVE  \A s \in Requests : s # r => requests'[s] = requests[s]
  <2>1. ASSUME NEW phase, NEW op, NEW c, NEW u, NEW active, NEW admin,
               Enter(r, phase, op, c, u, active, admin)
        PROVE  \E q : requests' = [requests EXCEPT ![r] = q]
    BY <2>1 DEF Enter
  <2>2. Load(r) => \A s \in Requests : s # r => requests'[s] = requests[s]
    BY DEF Load, Finish, IInv
  <2>3. Check(r) => \A s \in Requests : s # r => requests'[s] = requests[s]
    BY DEF Check, Finish, IInv
  <2>4. CommitPatch(r) \/ CommitPurge(r) => \E q : requests' = [requests EXCEPT ![r] = q]
    BY DEF CommitPatch, CommitPurge, Finish
  <2> QED
    BY <1>1, <1>2, <2>1, <2>2, <2>3, <2>4 DEF AdminStep, StartPatch, StartDelete, StartLeave
<1>3. CASE \E u \in Users : Register(u)
  BY <1>3 DEF Register
<1>4. CASE Restart
  BY <1>4 DEF Restart
<1> QED
  BY <1>2, <1>3, <1>4 DEF Next, vars

LEMMA FlightFinite ==
  ASSUME IInv, [Next]_vars, IsFiniteSet(InFlight)
  PROVE  IsFiniteSet(InFlight')
<1>1. CASE requests' = requests
  BY <1>1 DEF InFlight
<1>2. CASE \A s \in Requests : requests'[s] = Idle
  <2>1. InFlight' = {}
    BY <1>2 DEF InFlight, Idle
  <2> QED
    BY <2>1, FS_EmptySet
<1>3. ASSUME NEW r \in Requests, \A s \in Requests : s # r => requests'[s] = requests[s]
      PROVE  IsFiniteSet(InFlight')
  <2>1. InFlight' \subseteq InFlight \cup {r}
    BY <1>3 DEF InFlight, Idle
  <2>2. IsFiniteSet(InFlight \cup {r})
    BY FS_AddElement
  <2> QED
    BY <2>1, <2>2, FS_Subset
<1> QED
  BY <1>1, <1>2, <1>3, OneRequest

LEMMA FlightSound == ASSUME IInv, NEW r \in InFlight PROVE r \in Requests /\ Sound(requests[r])
BY DEF IInv, InFlight

(* The accounts stay while a request moves on its own. *)
LEMMA MoveReady ==
  ASSUME IInv, \A s \in InFlight : Ready(requests[s]), UNCHANGED users,
         NEW r \in Requests, NEW q, q = Idle \/ Ready(q), requests' = [requests EXCEPT ![r] = q]
  PROVE  \A s \in InFlight' : Ready(requests[s])'
<1> SUFFICES ASSUME NEW s \in InFlight' PROVE Ready(requests[s])'
  OBVIOUS
<1>1. s \in Requests /\ requests'[s] # Idle
  BY DEF InFlight, Idle
<1>2. requests'[s] = q \/ requests'[s] = requests[s]
  BY <1>1 DEF IInv
<1>3. requests'[s] = requests[s] => s \in InFlight
  BY <1>1 DEF InFlight
<1>4. Ready(requests'[s])
  BY <1>1, <1>2, <1>3
<1>5. ActiveAdmins' = ActiveAdmins
  BY DEF ActiveAdmins
<1> QED
  BY <1>4, <1>5 DEF Ready, Lowers

LEMMA StartReady ==
  ASSUME IInv, \A s \in InFlight : Ready(requests[s]),
         NEW r \in Requests, NEW c \in Users, NEW u \in Users, NEW active, NEW admin,
         StartPatch(r, c, u, active, admin) \/ StartDelete(r, c, u)
  PROVE  \A s \in InFlight' : Ready(requests[s])'
<1>1. ASSUME NEW op \in {"patch", "delete"}, NEW a, NEW b, Enter(r, "load", op, c, u, a, b)
      PROVE  \A s \in InFlight' : Ready(requests[s])'
  <2> DEFINE q == [phase |-> "load", op |-> op, caller |-> c, target |-> u,
                   active |-> a, admin |-> b, row |-> IF u = c THEN users[c] ELSE None]
  <2>1. Ready(q)
    BY DEF Ready
  <2>2. requests' = [requests EXCEPT ![r] = q] /\ UNCHANGED users
    BY <1>1 DEF Enter
  <2> HIDE DEF q
  <2> QED
    BY <2>1, <2>2, MoveReady
<1> QED
  BY <1>1 DEF StartPatch, StartDelete

LEMMA LoadReady ==
  ASSUME IInv, \A s \in InFlight : Ready(requests[s]), NEW r \in Requests, Load(r)
  PROVE  \A s \in InFlight' : Ready(requests[s])'
<1> DEFINE q == requests[r]
           row == Loaded(q)
           next == [q EXCEPT !.phase = "check", !.row = row]
<1>1. Sound(q) /\ UNCHANGED users /\ q # Idle
  BY NotIdle DEF Load, Idle
<1>2. Ready(q)
  BY <1>1 DEF InFlight
<1>3. row = users[q.target]
  BY <1>2 DEF Loaded, Ready
<1> HIDE DEF row
<1>4. /\ next.op = q.op /\ next.target = q.target /\ next.row = row /\ next.phase = "check"
  BY <1>1 DEF Sound, Request
<1>5. Ready(next)
  BY <1>2, <1>3, <1>4 DEF Ready
<1>6. requests' = [requests EXCEPT ![r] = Idle] \/ requests' = [requests EXCEPT ![r] = next]
  BY DEF Load, Finish, row
<1> HIDE DEF next
<1> QED
  BY <1>1, <1>5, <1>6, MoveReady

LEMMA CheckReady ==
  ASSUME IInv, \A s \in InFlight : Ready(requests[s]), NEW r \in Requests, Check(r)
  PROVE  \A s \in InFlight' : Ready(requests[s])'
<1> DEFINE q == requests[r]
           next == [q EXCEPT !.phase = "commit"]
<1>1. Sound(q) /\ UNCHANGED users /\ q # Idle /\ q.phase = "check"
  BY NotIdle DEF Check, Idle
<1>2. Ready(q) /\ q.row \in Account
  BY <1>1 DEF InFlight, Sound
<1>3. /\ next.op = q.op /\ next.target = q.target /\ next.row = q.row
      /\ next.active = q.active /\ next.admin = q.admin
  BY <1>1 DEF Sound, Request
<1>4. \/ requests' = [requests EXCEPT ![r] = Idle]
      \/ /\ requests' = [requests EXCEPT ![r] = next]
         /\ ~(Lowers(q) /\ q.row.admin /\ q.row.active /\ ActiveAdmins \ {q.target} = {})
  BY DEF Check, Finish
<1>5. q.target \in ActiveAdmins => q.row.admin /\ q.row.active
  BY <1>2, AccountsAssumption DEF Ready, ActiveAdmins
<1>6. CASE requests' = [requests EXCEPT ![r] = Idle]
  BY <1>1, <1>6, MoveReady
<1>7. CASE /\ requests' = [requests EXCEPT ![r] = next]
           /\ ~(Lowers(q) /\ q.row.admin /\ q.row.active /\ ActiveAdmins \ {q.target} = {})
  <2>1. Lowers(next) <=> Lowers(q)
    BY <1>3, Zenon DEF Lowers
  <2> HIDE DEF next
  <2>2. Ready(next)
    BY <1>2, <1>3, <1>5, <1>7, <2>1 DEF Ready
  <2> QED
    BY <1>1, <1>7, <2>2, MoveReady
<1> QED
  BY <1>4, <1>6, <1>7

LEMMA RegisterReady ==
  ASSUME IInv, \A s \in InFlight : Ready(requests[s]), NEW u \in Users, Register(u)
  PROVE  /\ ActiveAdmins' = ActiveAdmins
         /\ \A s \in InFlight' : Ready(requests[s])'
<1> DEFINE new == [admin |-> FALSE, active |-> TRUE]
           both == [admin |-> TRUE, active |-> TRUE]
<1>1. users[u] = None /\ users' = [users EXCEPT ![u] = new] /\ requests' = requests
  BY DEF Register
<1>2. new # both /\ both # None
  <2>1. both \in Account
    BY DEF Account
  <2>2. new.admin # both.admin
    OBVIOUS
  <2> QED
    BY <2>1, <2>2, AccountsAssumption
<1>3. ActiveAdmins = {v \in Users : users[v] = both} /\ ActiveAdmins' = {v \in Users : users'[v] = both}
  BY DEF ActiveAdmins
<1> HIDE DEF new, both
<1>4. users'[u] = new /\ \A v \in Users : v # u => users'[v] = users[v]
  BY <1>1 DEF IInv
<1>5. ActiveAdmins' = ActiveAdmins
  BY <1>1, <1>2, <1>3, <1>4
<1>6. ASSUME NEW s \in InFlight PROVE Ready(requests[s])'
  <2>1. Ready(requests[s]) /\ requests[s].target \in Users /\ Sound(requests[s])
    BY <1>6, FlightSound DEF Sound, Request
  <2>2. requests[s].row # None => users'[requests[s].target] = users[requests[s].target]
    BY <1>1, <1>4, <2>1 DEF Ready
  <2> QED
    BY <1>1, <1>5, <2>1, <2>2 DEF Ready, Lowers
<1>7. InFlight' = InFlight
  BY <1>1 DEF InFlight, Idle
<1> QED
  BY <1>1, <1>5, <1>6, <1>7

(* The one request in flight commits: none is left. *)
LEMMA CommitEnds ==
  ASSUME IInv, AtMostOne, NEW r \in Requests, CommitPatch(r) \/ CommitPurge(r)
  PROVE  r \in InFlight /\ InFlight' = {}
<1>1. requests[r].phase = "commit" /\ requests' = [requests EXCEPT ![r] = Idle]
  BY DEF CommitPatch, CommitPurge, Finish
<1>2. r \in InFlight
  BY <1>1 DEF InFlight, Idle
<1>3. \A s \in Requests : requests'[s] = Idle
  BY <1>1, <1>2 DEF InFlight, AtMostOne, IInv
<1> QED
  BY <1>2, <1>3 DEF InFlight, Idle

LEMMA NextTurn == IInv /\ TurnIInv /\ [TurnNext]_mcvars => TurnIInv'
<1> SUFFICES ASSUME IInv, TurnIInv, [TurnNext]_mcvars PROVE TurnIInv'
  OBVIOUS
<1>1. CASE TurnNext
  <2>1. /\ Next
        /\ raced' = \/ raced
                    \/ Cardinality(InFlight') > 1
                    \/ \E r \in InFlight' : requests'[r].op = "leave"
    BY <1>1 DEF TurnNext
  <2>2. IsFiniteSet(InFlight')
    BY <2>1, FlightFinite DEF TurnIInv
  <2>3. ASSUME ~raced' PROVE AtMostOne' /\ \A r \in InFlight' : Ready(requests[r])'
    <3>1. ~raced /\ ~(Cardinality(InFlight') > 1) /\ \A r \in InFlight' : requests'[r].op # "leave"
      BY <2>1, <2>3
    <3>2. AtMostOne /\ \A r \in InFlight : Ready(requests[r])
      BY <3>1 DEF TurnIInv
    <3>3. AtMostOne'
      BY <2>2, <3>1, AtMostOneOf DEF AtMostOne
    <3>4. ASSUME NEW r \in Requests, AdminStep(r) PROVE \A s \in InFlight' : Ready(requests[s])'
      BY <3>2, <3>4, StartReady, LoadReady, CheckReady, CommitEnds DEF AdminStep
    <3>5. ASSUME NEW r \in Requests, NEW c \in Users, StartLeave(r, c) PROVE FALSE
      <4>1. requests'[r].op = "leave"
        BY <3>5 DEF StartLeave, Enter, IInv
      <4>2. requests'[r].phase = "commit"
        BY <3>5 DEF StartLeave, Enter, IInv
      <4>3. r \in InFlight'
        BY <4>2 DEF InFlight, Idle
      <4> QED
        BY <3>1, <4>1, <4>3
    <3>6. CASE Restart
      <4>1. InFlight' = {}
        BY <3>6 DEF Restart, InFlight, Idle
      <4> QED
        BY <3>3, <4>1
    <3> QED
      BY <2>1, <3>2, <3>3, <3>4, <3>5, <3>6, RegisterReady DEF Next
  <2> QED
    BY <2>2, <2>3 DEF TurnIInv
<1>2. CASE UNCHANGED mcvars
  <2>1. users' = users /\ requests' = requests /\ raced' = raced
    BY <1>2 DEF mcvars, vars
  <2>2. InFlight' = InFlight /\ ActiveAdmins' = ActiveAdmins
    BY <2>1 DEF InFlight, ActiveAdmins, Idle
  <2>3. \A r \in InFlight : Ready(requests[r]) => Ready(requests[r])'
    BY <2>1, <2>2 DEF Ready, Lowers
  <2> QED
    BY <2>1, <2>2, <2>3 DEF TurnIInv, AtMostOne
<1> QED
  BY <1>1, <1>2

(* A patch that lowers nothing keeps an active admin one. *)
LEMMA PatchKeeps ==
  ASSUME IInv, NEW r \in Requests, CommitPatch(r), ~Lowers(requests[r])
  PROVE  ActiveAdmins \subseteq ActiveAdmins'
<1> DEFINE q == requests[r]
           both == [admin |-> TRUE, active |-> TRUE]
<1>1. Sound(q) /\ q.op = "patch"
  BY NotIdle DEF CommitPatch
<1>2. q.target \in Users /\ q.admin \in {None, TRUE} /\ q.active \in {None, TRUE}
  BY <1>1 DEF Sound, Request, Flag, Lowers
<1>3. ASSUME users[q.target] = both PROVE Patched(q) = both
  <2>1. users[q.target].admin = TRUE /\ users[q.target].active = TRUE
    BY <1>3
  <2>2. (IF q.admin \in {None, q.row.admin} THEN users[q.target].admin ELSE q.admin) = TRUE
    BY <1>2, <2>1
  <2>3. (IF q.active \in {None, q.row.active} THEN users[q.target].active ELSE q.active) = TRUE
    BY <1>2, <2>1
  <2> QED
    BY <2>2, <2>3, Zenon DEF Patched
<1>4. users' = users \/ users' = [users EXCEPT ![q.target] = Patched(q)]
  BY DEF CommitPatch
<1>5. \A u \in Users : users'[u] = users[u] \/ (u = q.target /\ users'[u] = Patched(q))
  BY <1>4 DEF IInv
<1>6. ActiveAdmins = {v \in Users : users[v] = both} /\ ActiveAdmins' = {v \in Users : users'[v] = both}
  BY DEF ActiveAdmins
<1> HIDE DEF both, q
<1> QED
  BY <1>3, <1>5, <1>6

LEMMA AdminStays ==
  ASSUME IInv, AtMostOne, \A r \in InFlight : Ready(requests[r]), [Next]_vars, ActiveAdmins # {}
  PROVE  ActiveAdmins' # {}
<1>1. ASSUME users' = users PROVE ActiveAdmins' # {}
  BY <1>1 DEF ActiveAdmins
<1>2. ASSUME NEW u \in Users, Register(u) PROVE ActiveAdmins' # {}
  BY <1>2, RegisterReady
<1>3. ASSUME NEW r \in Requests, CommitPatch(r) \/ CommitPurge(r) PROVE ActiveAdmins' # {}
  <2> DEFINE q == requests[r]
  <2>1. r \in InFlight /\ Ready(q) /\ Sound(q) /\ q.phase = "commit" /\ q.target \in Users
    BY <1>3, CommitEnds, FlightSound DEF CommitPatch, CommitPurge, Sound, Request
  <2>2. \A u \in Users : u # q.target => users'[u] = users[u]
    BY <1>3, <2>1 DEF CommitPatch, CommitPurge, IInv
  <2>3. \A u \in ActiveAdmins : u # q.target => u \in ActiveAdmins'
    BY <2>2 DEF ActiveAdmins
  <2>4. CASE q.target \notin ActiveAdmins
    BY <2>3, <2>4
  <2>5. CASE q.target \in ActiveAdmins /\ Lowers(q)
    BY <2>1, <2>3, <2>5 DEF Ready
  <2>6. CASE ~Lowers(q)
    <3>1. CommitPatch(r)
      BY <1>3, <2>1, <2>6 DEF CommitPurge, Lowers, Ready
    <3> QED
      BY <2>6, <3>1, PatchKeeps
  <2> QED
    BY <2>4, <2>5, <2>6
<1>4. CASE Restart
  <2> DEFINE both == [admin |-> TRUE, active |-> TRUE]
  <2>1. both \in Account
    BY DEF Account
  <2>2. ASSUME NEW u \in Users, users[u] = both PROVE Seeded(u) = both
    <3>1. (both.admin \/ u \in Allowlist) = TRUE
      OBVIOUS
    <3>2. Seeded(u) = [both EXCEPT !.admin = (both.admin \/ u \in Allowlist)]
      BY <2>2, Zenon DEF Seeded
    <3>3. Seeded(u) = [both EXCEPT !.admin = TRUE]
      BY <3>1, <3>2, Zenon
    <3> QED
      BY <3>3
  <2>3. \A u \in Users : users[u] = both => users'[u] = both
    BY <1>4, <2>1, <2>2 DEF Restart, Exists
  <2> QED
    BY <2>3 DEF ActiveAdmins
<1>5. ASSUME NEW r \in Requests, NEW c, NEW u, NEW active, NEW admin,
             \/ StartPatch(r, c, u, active, admin) \/ StartDelete(r, c, u) \/ StartLeave(r, c)
             \/ Load(r) \/ Check(r)
      PROVE  users' = users
  BY <1>5 DEF StartPatch, StartDelete, StartLeave, Enter, Load, Check
<1>6. CASE UNCHANGED vars
  BY <1>1, <1>6 DEF vars
<1> QED
  BY <1>1, <1>2, <1>3, <1>4, <1>5, <1>6 DEF Next, AdminStep

(* "The last active admin cannot be demoted, banned or deleted": through    *)
(* any restarts, a platform that has an active admin keeps one, while the  *)
(* requests take turns and nobody uses DELETE /me.                         *)
THEOREM AdminRemains == TurnSpec => ActiveAdminRemainsInTurn
<1>1. MCInit => IInv /\ TurnIInv
  <2> SUFFICES ASSUME MCInit PROVE TurnIInv
    BY InitIInv DEF MCInit
  <2>1. InFlight = {}
    BY DEF MCInit, Init, InFlight
  <2> QED
    BY <2>1, FS_EmptySet DEF TurnIInv, AtMostOne
<1>2. [TurnNext]_mcvars => [Next]_vars
  BY DEF TurnNext, mcvars
<1>3. IInv /\ TurnIInv /\ [TurnNext]_mcvars =>
        [~raced /\ ActiveAdmins # {} => ActiveAdmins' # {}]_mcvars
  BY <1>2, AdminStays DEF TurnIInv
<1> QED
  BY <1>1, <1>2, <1>3, NextIInv, NextTurn, PTL DEF TurnSpec, ActiveAdminRemainsInTurn
===============================================================================
