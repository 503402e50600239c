--------------------------- MODULE KBSharing_proofs ---------------------------
(***************************************************************************)
(* KBSharing for all numbers of users, knowledge bases, links and requests *)
(* in flight.                                                              *)
(***************************************************************************)
EXTENDS MCKBSharing, FiniteSetTheorems, TLAPS

(* What a request that is under way carries. *)
Filled(q) ==
  /\ q.op # None => q.user \in Users /\ q.kb \in KBs
  /\ q.phase = "look" => q.op \in {"invite", "patch", "remove", "accept"}
  /\ q.op \in {"invite", "patch", "link", "accept"} => q.role \in Roles
  /\ q.op \in {"invite", "patch", "remove", "accept"} => q.target \in Users
  /\ q.op \in {"link", "revoke", "accept"} => q.link \in Links
  /\ q.phase = "commit" /\ q.op = "patch" => q.row # None

(* What it decided on still holds, unless its knowledge base is gone: an   *)
(* owner keeps its knowledge base, and a link its knowledge base and limit. *)
Decided(q) ==
  /\ q.op \in {"invite", "patch"} => owner[q.kb] \in {q.user, Gone}
  /\ q.op = "invite" => owner[q.kb] # q.target
  /\ q.op = "remove" => q.user = q.target \/ owner[q.kb] \in {q.user, Gone}
  /\ q.op = "accept" =>
       /\ q.user = q.target /\ owner[q.kb] \notin {None, q.target}
       /\ \/ owner[q.kb] = Gone
          \/ /\ links[q.link] # None
             /\ links[q.link].kb = q.kb
             /\ links[q.link].max # None => q.uses < links[q.link].max

(* A new id is known to the request that creates it alone. *)
NewKB(r) ==
  requests[r].op = "create" =>
    /\ owner[requests[r].kb] = None
    /\ \A s \in Requests : s # r => requests[s].kb # requests[r].kb

NewLink(r) ==
  requests[r].op = "link" =>
    /\ links[requests[r].link] = None
    /\ \A s \in Requests : s # r => requests[s].link # requests[r].link

(* Members and links go with their knowledge base. *)
NoOrphans ==
  /\ \A k \in KBs, u \in Users : ~Exists(k) => members[k][u] = None
  /\ \A l \in Links : links[l] # None => Exists(links[l].kb)

IInv ==
  /\ TypeOK
  /\ \A r \in Requests :
       Filled(requests[r]) /\ Decided(requests[r]) /\ NewKB(r) /\ NewLink(r)
  /\ NoOrphans
  /\ OwnerIsNoMember
  /\ UsesWithinMax

-------------------------------------------------------------------------------

LEMMA IdleType ==
  /\ Idle \in Request /\ Filled(Idle)
  /\ Idle.phase = "idle" /\ Idle.op = None
  /\ Idle.kb = None /\ Idle.link = None
<1>1. /\ Idle.phase = "idle" /\ Idle.op = None /\ Idle.kb = None /\ Idle.link = None
  BY DEF Idle
<1>2. Idle \in Request
  BY DEF Idle, Request
<1>3. None \notin {"create", "delete", "invite", "patch", "remove", "link", "revoke", "accept"}
  BY SharingAssumption DEF Ops
<1> QED
  BY <1>1, <1>2, <1>3, Zenon DEF Filled

(* What becomes of one request leaves the others as they are. *)
LEMMA Becomes ==
  ASSUME TypeOK, NEW r \in Requests, NEW q \in Request,
         requests' = [requests EXCEPT ![r] = q]
  PROVE  /\ requests' \in [Requests -> Request]
         /\ requests'[r] = q
         /\ \A s \in Requests : s # r => requests'[s] = requests[s]
BY DEF TypeOK

(* A request that enters by a legal decision keeps the invariant. *)
LEMMA EnterIInv ==
  ASSUME IInv, NEW r \in Requests, NEW q \in Request, Enter(r, q),
         Filled(q), Decided(q),
         q.op = "create" => Fresh(q.kb),
         q.op # "create" => owner[q.kb] # None,
         q.op = "link" => links[q.link] = None /\ \A s \in Requests : requests[s].link # q.link,
         q.op # "link" => q.link = None \/ links[q.link] # None
  PROVE  IInv'
<1>1. /\ requests' \in [Requests -> Request]
      /\ requests'[r] = q
      /\ \A s \in Requests : s # r => requests'[s] = requests[s]
      /\ UNCHANGED <<users, owner, members, links, admitted>>
  BY Becomes DEF Enter, IInv
<1>2. TypeOK'
  BY <1>1 DEF IInv, TypeOK
<1>3. ASSUME NEW s \in Requests
      PROVE  Filled(requests[s])' /\ Decided(requests[s])'
  BY <1>1 DEF IInv, Decided
<1>4. ASSUME NEW s \in Requests
      PROVE  NewKB(s)'
  BY <1>1 DEF IInv, NewKB, Fresh
<1>5. ASSUME NEW s \in Requests
      PROVE  NewLink(s)'
  <2>1. requests[s].op = "link" => requests[s].link \in Links
    BY DEF IInv, Filled
  <2> QED
    BY <1>1, <2>1, SharingAssumption DEF IInv, NewLink
<1>6. NoOrphans' /\ OwnerIsNoMember' /\ UsesWithinMax'
  BY <1>1 DEF IInv, NoOrphans, OwnerIsNoMember, UsesWithinMax, Exists
<1> QED
  BY <1>1, <1>2, <1>3, <1>4, <1>5, <1>6 DEF IInv

(* The owner's requests find an owner, and members have one. *)
LEMMA RoleFound ==
  ASSUME IInv, NEW k \in KBs, NEW u \in Users, RoleFor(k, u) # None
  PROVE  /\ RoleFor(k, u) = "owner" => owner[k] = u
         /\ Exists(k) /\ owner[k] # None
<1>1. members[k][u] \in Roles \cup {None}
  BY DEF IInv, TypeOK
<1>2. members[k][u] # "owner"
  BY <1>1, SharingAssumption DEF Roles
<1>3. owner[k] = u \/ members[k][u] # None
  BY DEF RoleFor
<1>4. Exists(k)
  BY <1>3 DEF IInv, NoOrphans, Exists
<1> QED
  BY <1>2, <1>4, SharingAssumption DEF RoleFor, Exists

LEMMA BeginIInv == ASSUME IInv, NEW r \in Requests, Begin(r) PROVE IInv'
<1> USE SharingAssumption DEF Ops
<1>1. ASSUME NEW u \in Users, NEW k \in KBs, Fresh(k), BeginCreateKB(r, u, k) PROVE IInv'
  <2> DEFINE q == [Idle EXCEPT !.phase = "commit", !.op = "create", !.user = u, !.kb = k]
  <2>1. q \in Request
    BY IdleType DEF Request
  <2>2. q.phase = "commit" /\ q.op = "create" /\ q.user = u /\ q.kb = k /\ q.link = None
    BY DEF Idle
  <2>3. Enter(r, q)
    BY <1>1 DEF BeginCreateKB
  <2> HIDE DEF q
  <2>4. Filled(q) /\ Decided(q)
    BY <2>2 DEF Filled, Decided
  <2> QED
    BY <1>1, <2>1, <2>2, <2>3, <2>4, EnterIInv
<1>2. ASSUME NEW u \in Users, NEW k \in KBs, BeginDeleteKB(r, u, k) PROVE IInv'
  <2> DEFINE q == [Idle EXCEPT !.phase = "commit", !.op = "delete", !.user = u, !.kb = k]
  <2>1. q \in Request
    BY IdleType DEF Request
  <2>2. q.phase = "commit" /\ q.op = "delete" /\ q.user = u /\ q.kb = k /\ q.link = None
    BY DEF Idle
  <2>3. Enter(r, q) /\ owner[k] # None
    BY <1>2, RoleFound DEF BeginDeleteKB
  <2> HIDE DEF q
  <2>4. Filled(q) /\ Decided(q)
    BY <2>2 DEF Filled, Decided
  <2> QED
    BY <2>1, <2>2, <2>3, <2>4, EnterIInv
<1>3. ASSUME NEW u \in Users, NEW k \in KBs, NEW t \in Users, NEW role \in Roles,
             BeginInvite(r, u, k, t, role) \/ BeginPatch(r, u, k, t, role)
      PROVE  IInv'
  <2>1. members[k][t] \in Roles \cup {None}
    BY DEF IInv, TypeOK
  <2>2. ASSUME NEW op \in {"invite", "patch"}, op = "invite" => owner[k] # t,
               RoleFor(k, u) = "owner",
               Enter(r, [Idle EXCEPT !.phase = "look", !.op = op, !.user = u, !.kb = k,
                                     !.target = t, !.role = role, !.row = members[k][t]])
        PROVE  IInv'
    <3> DEFINE q == [Idle EXCEPT !.phase = "look", !.op = op, !.user = u, !.kb = k,
                                 !.target = t, !.role = role, !.row = members[k][t]]
    <3>1. q \in Request
      BY <2>1, IdleType DEF Request
    <3>2. /\ q.phase = "look" /\ q.op = op /\ q.user = u /\ q.kb = k /\ q.target = t
          /\ q.role = role /\ q.link = None
      BY DEF Idle
    <3>3. Enter(r, q) /\ owner[k] = u /\ owner[k] # None
      BY <2>2, RoleFound
    <3> HIDE DEF q
    <3>4. Filled(q) /\ Decided(q)
      BY <2>2, <3>2, <3>3 DEF Filled, Decided
    <3> QED
      BY <3>1, <3>2, <3>3, <3>4, EnterIInv
  <2> QED
    BY <1>3, <2>2 DEF BeginInvite, BeginPatch
<1>4. ASSUME NEW u \in Users, NEW k \in KBs, NEW t \in Users, BeginRemove(r, u, k, t)
      PROVE  IInv'
  <2> DEFINE q == [Idle EXCEPT !.phase = "look", !.op = "remove", !.user = u, !.kb = k,
                               !.target = t, !.row = members[k][t]]
  <2>1. members[k][t] \in Roles \cup {None}
    BY DEF IInv, TypeOK
  <2>2. q \in Request
    BY <2>1, IdleType DEF Request
  <2>3. /\ q.phase = "look" /\ q.op = "remove" /\ q.user = u /\ q.kb = k /\ q.target = t
        /\ q.link = None
    BY DEF Idle
  <2>4. Enter(r, q) /\ owner[k] # None /\ (u = t \/ owner[k] = u)
    BY <1>4, RoleFound DEF BeginRemove, MayRemove
  <2> HIDE DEF q
  <2>5. Filled(q) /\ Decided(q)
    BY <2>3, <2>4 DEF Filled, Decided
  <2> QED
    BY <2>2, <2>3, <2>4, <2>5, EnterIInv
<1>5. ASSUME NEW u \in Users, NEW k \in KBs, NEW l \in Links, NEW role \in Roles,
             NEW max \in 1..MaxUses \cup {None}, BeginCreateLink(r, u, k, l, role, max)
      PROVE  IInv'
  <2> DEFINE q == [Idle EXCEPT !.phase = "commit", !.op = "link", !.user = u, !.kb = k,
                               !.role = role, !.link = l, !.max = max]
  <2>1. q \in Request
    BY IdleType DEF Request
  <2>2. /\ q.phase = "commit" /\ q.op = "link" /\ q.user = u /\ q.kb = k /\ q.role = role
        /\ q.link = l
    BY DEF Idle
  <2>3. Enter(r, q) /\ owner[k] # None
        /\ links[l] = None /\ \A s \in Requests : requests[s].link # l
    BY <1>5, RoleFound DEF BeginCreateLink
  <2> HIDE DEF q
  <2>4. Filled(q) /\ Decided(q)
    BY <2>2 DEF Filled, Decided
  <2> QED
    BY <2>1, <2>2, <2>3, <2>4, EnterIInv
<1>6. ASSUME NEW u \in Users, NEW l \in Links, BeginRevoke(r, u, l) PROVE IInv'
  <2> DEFINE k == links[l].kb
             q == [Idle EXCEPT !.phase = "commit", !.op = "revoke", !.user = u, !.kb = k,
                               !.link = l]
  <2>1. links[l] # None /\ links[l] \in Link /\ RoleFor(k, u) = "owner" /\ Enter(r, q)
    BY <1>6 DEF BeginRevoke, IInv, TypeOK
  <2>2. k \in KBs
    BY <2>1 DEF Link
  <2>3. q \in Request
    BY <2>2, IdleType DEF Request
  <2>4. q.phase = "commit" /\ q.op = "revoke" /\ q.user = u /\ q.kb = k /\ q.link = l
    BY DEF Idle
  <2>5. owner[k] # None
    BY <2>1, <2>2, RoleFound
  <2> HIDE DEF q, k
  <2>6. Filled(q) /\ Decided(q)
    BY <2>2, <2>4 DEF Filled, Decided
  <2> QED
    BY <2>1, <2>3, <2>4, <2>5, <2>6, EnterIInv
<1>7. ASSUME NEW u \in Users, NEW l \in Links, BeginAccept(r, u, l) PROVE IInv'
  <2> DEFINE k == links[l].kb
             q == [Idle EXCEPT !.phase = "look", !.op = "accept", !.user = u, !.kb = k,
                               !.target = u, !.role = links[l].role, !.link = l,
                               !.row = members[k][u], !.uses = links[l].uses]
  <2>1. /\ links[l] # None /\ links[l] \in Link /\ Enter(r, q) /\ ~Exhausted(l)
        /\ Exists(k) /\ owner[k] # u
    BY <1>7 DEF BeginAccept, Open, IInv, TypeOK
  <2>2. /\ k \in KBs /\ links[l].role \in Roles /\ links[l].uses \in Nat
        /\ links[l].max \in 1..MaxUses \cup {None}
    BY <2>1 DEF Link
  <2>3. links[l].max # None => links[l].uses < links[l].max
    BY <2>1, <2>2 DEF Exhausted
  <2>4. members[k][u] \in Roles \cup {None}
    BY <2>2 DEF IInv, TypeOK
  <2>5. q \in Request
    BY <2>2, <2>4, IdleType DEF Request
  <2>6. /\ q.phase = "look" /\ q.op = "accept" /\ q.user = u /\ q.kb = k /\ q.target = u
        /\ q.role = links[l].role /\ q.link = l /\ q.uses = links[l].uses
    BY DEF Idle
  <2>7. owner[k] # None
    BY <2>1 DEF Exists
  <2>8. k = links[l].kb
    OBVIOUS
  <2> HIDE DEF q, k
  <2>9. Filled(q)
    BY <2>2, <2>6 DEF Filled
  <2>10. Decided(q)
    BY <2>1, <2>3, <2>6, <2>7, <2>8 DEF Decided
  <2> QED
    BY <2>1, <2>5, <2>6, <2>7, <2>9, <2>10, EnterIInv
<1> QED
  BY <1>1, <1>2, <1>3, <1>4, <1>5, <1>6, <1>7 DEF Begin

LEMMA LookIInv == ASSUME IInv, NEW r \in Requests, Look(r) PROVE IInv'
<1> DEFINE p == requests[r]
           row == Found(p)
           q == [p EXCEPT !.phase = "commit", !.row = row]
<1>1. /\ p.phase = "look" /\ UNCHANGED <<users, owner, members, links, admitted>>
      /\ IF Settled(p, row) THEN Finish(r)
         ELSE requests' = [requests EXCEPT ![r].phase = "commit", ![r].row = row]
  BY DEF Look
<1>2. p \in Request /\ Filled(p) /\ Decided(p)
  BY DEF IInv, TypeOK
<1>3. p.kb \in KBs /\ p.target \in Users /\ p.op \in {"invite", "patch", "remove", "accept"}
  BY <1>1, <1>2, SharingAssumption DEF Filled, Ops
<1>4. row \in Roles \cup {None}
  BY <1>2, <1>3 DEF Found, IInv, TypeOK, Request
<1> HIDE DEF row
<1>5. q \in Request
  BY <1>2, <1>4 DEF Request
<1>6. /\ q.phase = "commit" /\ q.row = row /\ q.op = p.op /\ q.user = p.user /\ q.kb = p.kb
      /\ q.target = p.target /\ q.role = p.role /\ q.link = p.link /\ q.uses = p.uses
  BY <1>2 DEF Request
<1> HIDE DEF q
<1>7. ~Settled(p, row) => Filled(q)
  BY <1>1, <1>2, <1>3, <1>6 DEF Filled, Settled
<1>8. Decided(q)
  BY <1>2, <1>6 DEF Decided
<1>9. PICK n \in Request :
        /\ requests' = [requests EXCEPT ![r] = n] /\ Filled(n) /\ Decided(n)
        /\ n.op \in {None, p.op} /\ n.kb \in {None, p.kb} /\ n.link \in {None, p.link}
  <2>1. CASE Settled(p, row)
    <3>1. Decided(Idle)
      BY IdleType, SharingAssumption DEF Decided, Ops
    <3> QED
      BY <1>1, <2>1, <3>1, IdleType DEF Finish
  <2>2. CASE ~Settled(p, row)
    <3>1. requests' = [requests EXCEPT ![r] = q]
      BY <1>1, <2>2 DEF IInv, TypeOK, q
    <3> QED
      BY <1>5, <1>6, <1>7, <1>8, <2>2, <3>1
  <2> QED
    BY <2>1, <2>2
<1>10. /\ requests' \in [Requests -> Request]
       /\ requests'[r] = n
       /\ \A s \in Requests : s # r => requests'[s] = requests[s]
  BY <1>9, Becomes DEF IInv
<1>11. TypeOK'
  BY <1>1, <1>10 DEF IInv, TypeOK
<1>12. ASSUME NEW s \in Requests PROVE Filled(requests[s])' /\ Decided(requests[s])'
  BY <1>1, <1>9, <1>10 DEF IInv, Decided
<1>13. ASSUME NEW s \in Requests PROVE NewKB(s)' /\ NewLink(s)'
  <2>1. n.op \notin {"create", "link"}
    BY <1>3, <1>9, SharingAssumption DEF Ops
  <2>2. /\ requests[s].op = "create" => requests[s].kb # None
        /\ requests[s].op = "link" => requests[s].link # None
    BY SharingAssumption DEF IInv, Filled, Ops
  <2>3. NewKB(s)'
    BY <1>1, <1>9, <1>10, <2>1, <2>2 DEF IInv, NewKB
  <2>4. NewLink(s)'
    BY <1>1, <1>9, <1>10, <2>1, <2>2 DEF IInv, NewLink
  <2> QED
    BY <2>3, <2>4
<1>14. NoOrphans' /\ OwnerIsNoMember' /\ UsesWithinMax'
  BY <1>1 DEF IInv, NoOrphans, OwnerIsNoMember, UsesWithinMax, Exists
<1> QED
  BY <1>11, <1>12, <1>13, <1>14 DEF IInv

-------------------------------------------------------------------------------

(* Requests end or stay as they are, a knowledge base appears for the one  *)
(* that creates it or goes for ever, a link appears for the one that       *)
(* creates it, keeps its knowledge base and limit, or goes with the        *)
(* knowledge base: then what the others decided on still holds.            *)
OwnersMove ==
  \A k \in KBs :
    \/ owner'[k] = owner[k]
    \/ owner[k] \in Users /\ owner'[k] = Gone
    \/ \E r \in Requests : /\ requests'[r] = Idle /\ requests[r].op = "create"
                           /\ requests[r].kb = k

LinksMove ==
  \A l \in Links :
    \/ links'[l] = links[l]
    \/ links[l] # None /\ links'[l] = None /\ owner'[links[l].kb] = Gone
    \/ /\ links[l] # None /\ links'[l] # None
       /\ links'[l].kb = links[l].kb /\ links'[l].max = links[l].max
    \/ \E r \in Requests : /\ requests'[r] = Idle /\ requests[r].op = "link"
                           /\ requests[r].link = l

LEMMA OthersKeep ==
  ASSUME IInv,
         requests' \in [Requests -> Request],
         \A s \in Requests : requests'[s] \in {requests[s], Idle},
         OwnersMove, LinksMove
  PROVE  \A s \in Requests :
           Filled(requests[s])' /\ Decided(requests[s])' /\ NewKB(s)' /\ NewLink(s)'
<1> USE SharingAssumption
<1> TAKE s \in Requests
<1>1. CASE requests'[s] = Idle
  BY <1>1, IdleType DEF Filled, Decided, NewKB, NewLink, Ops
<1>2. CASE requests'[s] = requests[s] /\ requests[s] # Idle
  <2> DEFINE q == requests[s]
  <2>1. Filled(q) /\ Decided(q) /\ q \in Request
    BY DEF IInv, TypeOK
  <2>2. \A r \in Requests : requests'[r] = Idle => r # s
    BY <1>2
  <2>3. q.op # None => \/ owner'[q.kb] = owner[q.kb]
                       \/ owner[q.kb] \in Users /\ owner'[q.kb] = Gone
    <3>1. q.op # None => q.kb \in KBs
      BY <2>1 DEF Filled
    <3>2. \A r \in Requests : requests'[r] = Idle /\ requests[r].op = "create"
                                => requests[r].kb # q.kb
      BY <2>2 DEF IInv, NewKB
    <3> QED
      BY <3>1, <3>2 DEF OwnersMove
  <2>4. Filled(q)'
    BY <1>2, <2>1 DEF Filled
  <2>5. Decided(q)'
    <3>1. ASSUME q.op \in {"invite", "patch", "remove"} PROVE Decided(q)'
      <4>1. q.op # None /\ q.op # "accept"
        BY <3>1 DEF Ops
      <4>2. owner[q.kb] \in Users => owner[q.kb] # Gone
        OBVIOUS
      <4>3. q.op = "invite" => q.target \in Users
        BY <2>1 DEF Filled
      <4> QED
        BY <1>2, <2>1, <2>3, <3>1, <4>1, <4>2, <4>3 DEF Decided
    <3>2. ASSUME q.op = "accept" PROVE Decided(q)'
      <4>1. q.op # None /\ q.target \in Users /\ q.link \in Links /\ q.kb \in KBs
        BY <2>1, <3>2 DEF Filled, Ops
      <4>2. \A r \in Requests : requests'[r] = Idle /\ requests[r].op = "link"
                                  => requests[r].link # q.link
        BY <2>2 DEF IInv, NewLink
      <4>3. CASE owner'[q.kb] = Gone
        BY <1>2, <2>1, <3>2, <4>1, <4>3 DEF Decided
      <4>4. CASE owner'[q.kb] = owner[q.kb] /\ owner[q.kb] # Gone
        <5>1. /\ links[q.link] # None /\ links[q.link].kb = q.kb
              /\ links[q.link].max # None => q.uses < links[q.link].max
          BY <2>1, <3>2, <4>4 DEF Decided
        <5>2. /\ links'[q.link] # None
              /\ links'[q.link].kb = links[q.link].kb /\ links'[q.link].max = links[q.link].max
          BY <4>1, <4>2, <4>4, <5>1 DEF LinksMove
        <5> QED
          BY <1>2, <2>1, <3>2, <4>1, <4>4, <5>1, <5>2 DEF Decided
      <4> QED
        BY <2>3, <4>1, <4>3, <4>4
    <3> QED
      BY <1>2, <3>1, <3>2 DEF Decided
  <2>6. NewKB(s)'
    <3>1. ASSUME q.op = "create"
          PROVE  owner'[q.kb] = None /\ \A r \in Requests : r # s => requests'[r].kb # q.kb
      <4>1. q.op # None /\ q.kb \in KBs
        BY <2>1, <3>1 DEF Filled, Ops
      <4>2. owner[q.kb] = None /\ \A r \in Requests : r # s => requests[r].kb # q.kb
        BY <3>1 DEF IInv, NewKB
      <4> QED
        BY <2>3, <4>1, <4>2, IdleType
    <3> QED
      BY <1>2, <3>1 DEF NewKB
  <2>7. NewLink(s)'
    <3>1. ASSUME q.op = "link"
          PROVE  links'[q.link] = None /\ \A r \in Requests : r # s => requests'[r].link # q.link
      <4>1. q.link \in Links
        BY <2>1, <3>1 DEF Filled
      <4>2. links[q.link] = None /\ \A r \in Requests : r # s => requests[r].link # q.link
        BY <3>1 DEF IInv, NewLink
      <4> QED
        BY <2>2, <4>1, <4>2, IdleType DEF LinksMove
    <3> QED
      BY <1>2, <3>1 DEF NewLink
  <2> QED
    BY <2>4, <2>5, <2>6, <2>7
<1> QED
  BY <1>1, <1>2

(* The request part of a commit. *)
LEMMA Finishes ==
  ASSUME IInv, NEW r \in Requests, Finish(r)
  PROVE  /\ requests' \in [Requests -> Request]
         /\ requests'[r] = Idle
         /\ \A s \in Requests : requests'[s] \in {requests[s], Idle}
BY IdleType DEF Finish, IInv, TypeOK

LEMMA CreateKBIInv == ASSUME IInv, NEW r \in Requests, CommitCreateKB(r) PROVE IInv'
<1> USE SharingAssumption
<1> DEFINE k == requests[r].kb
           u == requests[r].user
<1>1. /\ requests[r].op = "create" /\ owner' = [owner EXCEPT ![k] = u] /\ Finish(r)
      /\ UNCHANGED <<users, members, links, admitted>>
  BY DEF CommitCreateKB
<1>2. k \in KBs /\ u \in Users
  BY <1>1 DEF IInv, Filled, Ops
<1>3. owner[k] = None
  BY <1>1 DEF IInv, NewKB
<1> HIDE DEF k, u
<1>4. OwnersMove /\ LinksMove
  BY <1>1, <1>2, Finishes DEF OwnersMove, LinksMove, IInv, TypeOK, k
<1>5. \A s \in Requests : Filled(requests[s])' /\ Decided(requests[s])' /\ NewKB(s)' /\ NewLink(s)'
  BY <1>1, <1>4, Finishes, OthersKeep
<1>6. TypeOK'
  BY <1>1, <1>2, Finishes DEF IInv, TypeOK
<1>7. NoOrphans'
  BY <1>1, <1>2, <1>3 DEF IInv, TypeOK, NoOrphans, Exists
<1>8. OwnerIsNoMember'
  BY <1>1, <1>2, <1>3 DEF IInv, TypeOK, NoOrphans, OwnerIsNoMember, Exists
<1>9. UsesWithinMax'
  BY <1>1 DEF IInv, UsesWithinMax
<1> QED
  BY <1>5, <1>6, <1>7, <1>8, <1>9 DEF IInv

(* Knowledge bases that go take their members and links with them. *)
LEMMA DropIInv ==
  ASSUME IInv, NEW ks \in SUBSET KBs, \A k \in ks : Exists(k), Drop(ks),
         users' \in SUBSET users, UNCHANGED admitted,
         requests' \in [Requests -> Request],
         \A s \in Requests : requests'[s] \in {requests[s], Idle}
  PROVE  IInv'
<1> USE SharingAssumption
<1>1. /\ owner' \in [KBs -> Users \cup {None, Gone}]
      /\ \A k \in KBs : owner'[k] = IF k \in ks THEN Gone ELSE owner[k]
  BY DEF Drop, IInv, TypeOK
<1>2. /\ members' \in [KBs -> [Users -> Roles \cup {None}]]
      /\ \A k \in KBs, u \in Users : members'[k][u] = IF k \in ks THEN None ELSE members[k][u]
  BY DEF Drop, IInv, TypeOK
<1>3. /\ links' \in [Links -> Link \cup {None}]
      /\ \A l \in Links : links'[l] = IF links[l] # None /\ links[l].kb \in ks
                                        THEN None ELSE links[l]
  BY DEF Drop, IInv, TypeOK
<1>4. OwnersMove /\ LinksMove
  <2>1. OwnersMove
    BY <1>1 DEF OwnersMove, Exists
  <2>2. LinksMove
    BY <1>1, <1>3 DEF LinksMove
  <2> QED
    BY <2>1, <2>2
<1>5. \A s \in Requests : Filled(requests[s])' /\ Decided(requests[s])' /\ NewKB(s)' /\ NewLink(s)'
  BY <1>4, OthersKeep
<1>6. TypeOK'
  BY <1>1, <1>2, <1>3 DEF IInv, TypeOK
<1>7. NoOrphans'
  <2>1. \A l \in Links : links[l] # None => links[l].kb \in KBs
    BY DEF IInv, TypeOK, Link
  <2> QED
    BY <1>1, <1>2, <1>3, <2>1 DEF IInv, NoOrphans, Exists
<1>8. OwnerIsNoMember'
  BY <1>1, <1>2 DEF IInv, OwnerIsNoMember, Exists
<1>9. UsesWithinMax'
  BY <1>3 DEF IInv, UsesWithinMax
<1> QED
  BY <1>5, <1>6, <1>7, <1>8, <1>9 DEF IInv

LEMMA DeleteKBIInv == ASSUME IInv, NEW r \in Requests, CommitDeleteKB(r) PROVE IInv'
<1> DEFINE ks == {requests[r].kb} \ {k \in KBs : ~Exists(k)}
<1>1. requests[r].kb \in KBs
  BY SharingAssumption DEF CommitDeleteKB, IInv, Filled, Ops
<1>2. ks \in SUBSET KBs /\ \A k \in ks : Exists(k)
  BY <1>1
<1>3. Drop(ks) /\ Finish(r) /\ UNCHANGED <<users, admitted>>
  BY DEF CommitDeleteKB
<1> QED
  BY <1>2, <1>3, Finishes, DropIInv

LEMMA PurgeIInv == ASSUME IInv, NEW u \in Users, PurgeUser(u) PROVE IInv'
<1> DEFINE ks == {k \in KBs : owner[k] = u}
<1>1. ks \in SUBSET KBs /\ \A k \in ks : Exists(k)
  BY DEF Exists
<1>2. /\ Drop(ks) /\ users' \in SUBSET users /\ UNCHANGED admitted
      /\ requests' \in [Requests -> Request]
      /\ \A s \in Requests : requests'[s] \in {requests[s], Idle}
  BY DEF PurgeUser, IInv, TypeOK
<1> QED
  BY <1>1, <1>2, DropIInv

(* One member of one knowledge base changes. *)
LEMMA MembersWrite ==
  ASSUME IInv, NEW k \in KBs, NEW u \in Users, NEW role \in Roles \cup {None},
         members' = [members EXCEPT ![k][u] = role]
  PROVE  /\ members' \in [KBs -> [Users -> Roles \cup {None}]]
         /\ members'[k][u] = role
         /\ \A j \in KBs, v \in Users : j # k \/ v # u => members'[j][v] = members[j][v]
BY DEF IInv, TypeOK

(* A commit that leaves owners and links alone, and makes nobody a member  *)
(* of its own or of a missing knowledge base.                              *)
LEMMA MembersIInv ==
  ASSUME IInv, NEW r \in Requests, Finish(r), UNCHANGED <<users, owner, links, admitted>>,
         members' \in [KBs -> [Users -> Roles \cup {None}]],
         \A k \in KBs, u \in Users :
           members'[k][u] \in {members[k][u], None} \/ (Exists(k) /\ owner[k] # u)
  PROVE  IInv'
<1>1. OwnersMove /\ LinksMove
  BY DEF OwnersMove, LinksMove
<1>2. \A s \in Requests : Filled(requests[s])' /\ Decided(requests[s])' /\ NewKB(s)' /\ NewLink(s)'
  BY <1>1, Finishes, OthersKeep
<1>3. TypeOK'
  BY Finishes DEF IInv, TypeOK
<1>4. NoOrphans' /\ OwnerIsNoMember' /\ UsesWithinMax'
  BY DEF IInv, NoOrphans, OwnerIsNoMember, UsesWithinMax, Exists
<1> QED
  BY <1>2, <1>3, <1>4 DEF IInv

LEMMA RoleIInv == ASSUME IInv, NEW r \in Requests, CommitRole(r) PROVE IInv'
<1> USE SharingAssumption
<1> DEFINE q == requests[r]
<1>1. /\ q.phase = "commit" /\ q.op \in {"invite", "patch"} /\ Finish(r)
      /\ UNCHANGED <<users, owner, links, admitted>>
      /\ members' = IF Insertable(q) \/ Updatable(q)
                      THEN [members EXCEPT ![q.kb][q.target] = q.role] ELSE members
  BY DEF CommitRole
<1>2. q.kb \in KBs /\ q.target \in Users /\ q.role \in Roles
  BY <1>1 DEF IInv, Filled, Ops
<1>3. CASE ~(Insertable(q) \/ Updatable(q))
  BY <1>1, <1>3, MembersIInv DEF IInv, TypeOK
<1>4. CASE Insertable(q) \/ Updatable(q)
  <2>1. /\ members' \in [KBs -> [Users -> Roles \cup {None}]]
        /\ \A j \in KBs, v \in Users : j # q.kb \/ v # q.target => members'[j][v] = members[j][v]
    BY <1>1, <1>2, <1>4, MembersWrite
  <2>2. Exists(q.kb)
    BY <1>2, <1>4 DEF IInv, NoOrphans, Insertable, Updatable
  <2>3. owner[q.kb] # q.target
    <3>1. CASE q.op = "invite"
      BY <3>1 DEF IInv, Decided
    <3>2. CASE q.op = "patch"
      <4>1. q.row # None
        BY <1>1, <3>2 DEF IInv, Filled
      <4>2. members[q.kb][q.target] # None
        BY <1>4, <4>1 DEF Insertable, Updatable
      <4> QED
        BY <1>2, <2>2, <4>2 DEF IInv, OwnerIsNoMember
    <3> QED
      BY <1>1, <3>1, <3>2
  <2>4. \A k \in KBs, u \in Users :
          members'[k][u] \in {members[k][u], None} \/ (Exists(k) /\ owner[k] # u)
    BY <2>1, <2>2, <2>3
  <2> QED
    BY <1>1, <2>1, <2>4, MembersIInv
<1> QED
  BY <1>3, <1>4

LEMMA RemoveIInv == ASSUME IInv, NEW r \in Requests, CommitRemove(r) PROVE IInv'
<1> DEFINE q == requests[r]
<1>1. /\ q.op = "remove" /\ Finish(r) /\ UNCHANGED <<users, owner, links, admitted>>
      /\ members' = [members EXCEPT ![q.kb][q.target] = None]
  BY DEF CommitRemove
<1>2. q.kb \in KBs /\ q.target \in Users
  BY <1>1, SharingAssumption DEF IInv, Filled, Ops
<1>3. /\ members' \in [KBs -> [Users -> Roles \cup {None}]]
      /\ members'[q.kb][q.target] = None
      /\ \A j \in KBs, v \in Users : j # q.kb \/ v # q.target => members'[j][v] = members[j][v]
  BY <1>1, <1>2 DEF IInv, TypeOK
<1>4. \A k \in KBs, u \in Users : members'[k][u] \in {members[k][u], None}
  BY <1>3
<1> QED
  BY <1>1, <1>3, <1>4, MembersIInv

(* One link changes, and what concerns it with it. *)
LEMMA LinksIInv ==
  ASSUME IInv, UNCHANGED <<users, owner, members, admitted>>,
         requests' \in [Requests -> Request],
         \A s \in Requests : requests'[s] \in {requests[s], Idle},
         NEW l \in Links, NEW link \in Link, links' = [links EXCEPT ![l] = link],
         Exists(link.kb), link.max # None => link.uses <= link.max,
         \/ /\ links[l] # None /\ link.kb = links[l].kb /\ link.max = links[l].max
         \/ \E r \in Requests : /\ requests'[r] = Idle /\ requests[r].op = "link"
                                /\ requests[r].link = l
  PROVE  IInv'
<1>1. /\ links' \in [Links -> Link \cup {None}]
      /\ links'[l] = link /\ link # None /\ \A m \in Links : m # l => links'[m] = links[m]
  BY SharingAssumption DEF IInv, TypeOK
<1>2. OwnersMove /\ LinksMove
  BY <1>1 DEF OwnersMove, LinksMove
<1>3. \A s \in Requests : Filled(requests[s])' /\ Decided(requests[s])' /\ NewKB(s)' /\ NewLink(s)'
  BY <1>2, OthersKeep
<1>4. TypeOK'
  BY <1>1 DEF IInv, TypeOK
<1>5. NoOrphans' /\ OwnerIsNoMember' /\ UsesWithinMax'
  BY <1>1 DEF IInv, NoOrphans, OwnerIsNoMember, UsesWithinMax, Exists
<1> QED
  BY <1>3, <1>4, <1>5 DEF IInv

LEMMA LinkIInv == ASSUME IInv, NEW r \in Requests, CommitLink(r) PROVE IInv'
<1> USE SharingAssumption
<1> DEFINE q == requests[r]
           link == [kb |-> q.kb, role |-> q.role, max |-> q.max, uses |-> 0, closed |-> FALSE]
<1>1. /\ q.op = "link" /\ Finish(r) /\ UNCHANGED <<users, owner, members, admitted>>
      /\ links' = IF Exists(q.kb) THEN [links EXCEPT ![q.link] = link] ELSE links
  BY DEF CommitLink
<1>2. q.kb \in KBs /\ q.role \in Roles /\ q.link \in Links /\ q \in Request
  BY <1>1 DEF IInv, Filled, Ops, TypeOK
<1>3. CASE ~Exists(q.kb)
  BY <1>1, <1>3, MembersIInv DEF IInv, TypeOK
<1>4. CASE Exists(q.kb)
  <2>1. link \in Link
    BY <1>2 DEF Link, Request
  <2>2. link.max # None => link.uses <= link.max
    BY <1>2 DEF Request
  <2>3. Exists(link.kb)
    BY <1>4
  <2> HIDE DEF link
  <2> QED
    BY <1>1, <1>2, <1>4, <2>1, <2>2, <2>3, Finishes, LinksIInv
<1> QED
  BY <1>3, <1>4

(* Revoking and expiry close a link. *)
LEMMA CloseIInv ==
  ASSUME IInv, UNCHANGED <<users, owner, members, admitted>>,
         requests' \in [Requests -> Request],
         \A s \in Requests : requests'[s] \in {requests[s], Idle},
         NEW l \in Links, links[l] # None, links' = [links EXCEPT ![l].closed = TRUE]
  PROVE  IInv'
<1> DEFINE link == [links[l] EXCEPT !.closed = TRUE]
<1>1. links[l] \in Link
  BY DEF IInv, TypeOK
<1>2. link \in Link
  BY <1>1 DEF Link
<1>3. link.kb = links[l].kb /\ link.max = links[l].max /\ link.uses = links[l].uses
  BY <1>1 DEF Link
<1>4. links' = [links EXCEPT ![l] = link]
  OBVIOUS
<1>5. Exists(links[l].kb) /\ (links[l].max # None => links[l].uses <= links[l].max)
  BY DEF IInv, NoOrphans, UsesWithinMax
<1> HIDE DEF link
<1>6. Exists(link.kb) /\ (link.max # None => link.uses <= link.max)
  BY <1>3, <1>5
<1> QED
  BY <1>2, <1>3, <1>4, <1>6, LinksIInv

LEMMA RevokeIInv == ASSUME IInv, NEW r \in Requests, CommitRevoke(r) PROVE IInv'
<1> DEFINE l == requests[r].link
<1>1. /\ requests[r].op = "revoke" /\ Finish(r) /\ UNCHANGED <<users, owner, members, admitted>>
      /\ links' = IF links[l] # None THEN [links EXCEPT ![l].closed = TRUE] ELSE links
  BY DEF CommitRevoke
<1>2. l \in Links
  BY <1>1 DEF IInv, Filled
<1>3. CASE links[l] = None
  BY <1>1, <1>3, MembersIInv DEF IInv, TypeOK
<1>4. CASE links[l] # None
  BY <1>1, <1>2, <1>4, Finishes, CloseIInv
<1> QED
  BY <1>3, <1>4

LEMMA ExpireIInv == ASSUME IInv, NEW l \in Links, Expire(l) PROVE IInv'
<1>1. requests' \in [Requests -> Request] /\ \A s \in Requests : requests'[s] \in {requests[s], Idle}
  BY DEF Expire, IInv, TypeOK
<1> QED
  BY <1>1, CloseIInv DEF Expire

(* An accept makes the user a member and counts one use, within the limit  *)
(* it saw.                                                                 *)
LEMMA AcceptIInv == ASSUME IInv, NEW r \in Requests, CommitAccept(r) PROVE IInv'
<1> USE SharingAssumption
<1> DEFINE q == requests[r]
           link == [links[q.link] EXCEPT !.uses = q.uses + 1]
<1>1. /\ q.op = "accept" /\ Finish(r) /\ UNCHANGED <<users, owner>>
      /\ IF Insertable(q)
           THEN /\ members' = [members EXCEPT ![q.kb][q.target] = q.role]
                /\ links' = [links EXCEPT ![q.link].uses = q.uses + 1]
                /\ admitted' = [admitted EXCEPT ![q.link] = @ + 1]
           ELSE UNCHANGED <<members, links, admitted>>
  BY DEF CommitAccept, Used
<1>2. q.kb \in KBs /\ q.target \in Users /\ q.role \in Roles /\ q.link \in Links /\ q \in Request
  BY <1>1 DEF IInv, Filled, Ops, TypeOK
<1>3. CASE ~Insertable(q)
  BY <1>1, <1>3, MembersIInv DEF IInv, TypeOK
<1>4. CASE Insertable(q)
  <2>1. Exists(q.kb)
    BY <1>4 DEF Insertable
  <2>2. /\ owner[q.kb] # q.target
        /\ links[q.link] # None /\ links[q.link].kb = q.kb
        /\ links[q.link].max # None => q.uses < links[q.link].max
    BY <1>1, <2>1 DEF IInv, Decided, Exists
  <2>3. links[q.link] \in Link
    BY <1>2, <2>2 DEF IInv, TypeOK
  <2>4. q.uses \in Nat /\ links[q.link].max \in 1..MaxUses \cup {None}
    BY <1>2, <2>3 DEF Request, Link
  <2>5. link \in Link /\ link.uses = q.uses + 1
        /\ link.kb = links[q.link].kb /\ link.max = links[q.link].max
    BY <2>3, <2>4 DEF Link
  <2>6. links' = [links EXCEPT ![q.link] = link]
    BY <1>1, <1>4
  <2> HIDE DEF link
  <2>7. /\ links' \in [Links -> Link \cup {None}]
        /\ links'[q.link] = link /\ link # None
        /\ \A m \in Links : m # q.link => links'[m] = links[m]
    BY <1>2, <2>5, <2>6 DEF IInv, TypeOK
  <2>8. link.max # None => link.uses <= link.max
    BY <2>2, <2>4, <2>5
  <2>9. /\ members' \in [KBs -> [Users -> Roles \cup {None}]]
        /\ \A j \in KBs, v \in Users : j # q.kb \/ v # q.target => members'[j][v] = members[j][v]
    BY <1>1, <1>2, <1>4, MembersWrite
  <2>10. admitted' \in [Links -> Nat]
    BY <1>1, <1>2, <1>4 DEF IInv, TypeOK
  <2>11. OwnersMove /\ LinksMove
    BY <1>1, <2>2, <2>5, <2>7 DEF OwnersMove, LinksMove
  <2>12. \A s \in Requests : Filled(requests[s])' /\ Decided(requests[s])' /\ NewKB(s)' /\ NewLink(s)'
    BY <1>1, <2>11, Finishes, OthersKeep
  <2>13. TypeOK'
    BY <1>1, <2>7, <2>9, <2>10, Finishes DEF IInv, TypeOK
  <2>14. NoOrphans' /\ OwnerIsNoMember'
    BY <1>1, <2>1, <2>2, <2>5, <2>7, <2>9 DEF IInv, NoOrphans, OwnerIsNoMember, Exists
  <2>15. UsesWithinMax'
    BY <2>7, <2>8 DEF IInv, UsesWithinMax
  <2> QED
    BY <2>12, <2>13, <2>14, <2>15 DEF IInv
<1> QED
  BY <1>3, <1>4

-------------------------------------------------------------------------------

LEMMA InitIInv == Init => IInv
<1> SUFFICES ASSUME Init PROVE IInv
  OBVIOUS
<1>1. TypeOK
  BY IdleType DEF Init, TypeOK
<1>2. \A r \in Requests : Filled(requests[r]) /\ NewKB(r) /\ NewLink(r)
  BY IdleType, SharingAssumption DEF Init, NewKB, NewLink, Ops
<1>3. \A r \in Requests : Decided(requests[r])
  BY IdleType, SharingAssumption DEF Init, Decided, Ops
<1>4. NoOrphans /\ OwnerIsNoMember /\ UsesWithinMax
  BY SharingAssumption DEF Init, NoOrphans, OwnerIsNoMember, UsesWithinMax, Exists
<1> QED
  BY <1>1, <1>2, <1>3, <1>4 DEF IInv

LEMMA NextIInv == IInv /\ [Next]_vars => IInv'
<1> SUFFICES ASSUME IInv, [Next]_vars PROVE IInv'
  OBVIOUS
<1>1. ASSUME NEW r \in Requests, Commit(r) PROVE IInv'
  BY <1>1, CreateKBIInv, DeleteKBIInv, RoleIInv, RemoveIInv, LinkIInv, RevokeIInv, AcceptIInv
  DEF Commit
<1>2. CASE UNCHANGED vars
  BY <1>2 DEF vars, IInv, TypeOK, Filled, Decided, NewKB, NewLink, NoOrphans,
              OwnerIsNoMember, UsesWithinMax, Exists
<1> QED
  BY <1>1, <1>2, BeginIInv, LookIInv, PurgeIInv, ExpireIInv DEF Next

(* What the requests in flight rely on about the links, the knowledge       *)
(* bases and the members holds throughout, whatever their order.            *)
THEOREM Invariance == Spec => []IInv
BY InitIInv, NextIInv, PTL DEF Spec

(* Every reachable state of sharing is well typed. *)
THEOREM TypeCorrect == Spec => []TypeOK
<1>1. IInv => TypeOK
  BY DEF IInv
<1> QED
  BY <1>1, Invariance, PTL

(* Whatever invitations, accepts, creations and deletions race, nobody is  *)
(* both the owner and a member of a knowledge base (role_for need not      *)
(* choose).                                                                *)
THEOREM OwnerApart == Spec => []OwnerIsNoMember
<1>1. IInv => OwnerIsNoMember
  BY DEF IInv
<1> QED
  BY <1>1, Invariance, PTL

(* However many accepts race, the counter of a link stays within its       *)
(* limit (accept_invitation writes what it read plus one).                 *)
THEOREM CounterBounded == Spec => []UsesWithinMax
<1>1. IInv => UsesWithinMax
  BY DEF IInv
<1> QED
  BY <1>1, Invariance, PTL

(* Whatever races, a member row changes only by the owner or by the member *)
(* itself, and appears only by an invitation or an accept that found none  *)
(* (the role checks of the routes; the row counts of UPDATE and INSERT).   *)
THEOREM MembersByRight == Spec => MembersChangeByRight
<1> DEFINE Right(k, u, r) ==
      LET q == requests[r]
      IN /\ q.phase = "commit" /\ requests'[r] = Idle /\ q.kb = k
         /\ \/ q.user = owner[k]
            \/ q.user = u /\ q.op \in {"accept", "remove"}
         /\ members[k][u] = None => q.op \in {"invite", "accept"} /\ q.row = None
<1>1. ASSUME IInv, [Next]_vars, NEW k \in KBs, NEW u \in Users,
             members'[k][u] # members[k][u], owner'[k] = owner[k]
      PROVE  \E r \in Requests : Right(k, u, r)
  <2> USE SharingAssumption
  <2>1. Exists(k) \/ members[k][u] = None
    BY <1>1 DEF IInv, NoOrphans
  <2>2. ASSUME NEW r \in Requests, CommitRole(r) PROVE Right(k, u, r)
    <3> DEFINE q == requests[r]
    <3>1. /\ q.phase = "commit" /\ q.op \in {"invite", "patch"} /\ Finish(r)
          /\ members' = IF Insertable(q) \/ Updatable(q)
                          THEN [members EXCEPT ![q.kb][q.target] = q.role] ELSE members
      BY <2>2 DEF CommitRole
    <3>2. q.kb \in KBs /\ q.target \in Users /\ q.role \in Roles \cup {None}
      BY <1>1, <3>1 DEF IInv, Filled, Ops
    <3>3. (Insertable(q) \/ Updatable(q)) /\ q.kb = k /\ q.target = u
      <4>1. Insertable(q) \/ Updatable(q)
        BY <1>1, <3>1
      <4>2. \A j \in KBs, v \in Users : j # q.kb \/ v # q.target => members'[j][v] = members[j][v]
        BY <1>1, <3>1, <3>2, <4>1, MembersWrite
      <4> QED
        BY <1>1, <4>1, <4>2
    <3>4. Exists(k)
      BY <2>1, <3>3 DEF Insertable, Updatable
    <3>5. q.user = owner[k]
      BY <1>1, <3>1, <3>3, <3>4 DEF IInv, Decided, Exists
    <3>6. members[k][u] = None => q.op = "invite" /\ q.row = None
      BY <1>1, <3>1, <3>3 DEF IInv, Filled, Insertable, Updatable
    <3> QED
      BY <1>1, <3>1, <3>3, <3>5, <3>6, Finishes
  <2>3. ASSUME NEW r \in Requests, CommitRemove(r) PROVE Right(k, u, r)
    <3> DEFINE q == requests[r]
    <3>1. /\ q.phase = "commit" /\ q.op = "remove" /\ Finish(r)
          /\ members' = [members EXCEPT ![q.kb][q.target] = None]
      BY <2>3 DEF CommitRemove
    <3>2. q.kb \in KBs /\ q.target \in Users
      BY <1>1, <3>1 DEF IInv, Filled, Ops
    <3>3. q.kb = k /\ q.target = u /\ members[k][u] # None
      BY <1>1, <3>1, <3>2 DEF IInv, TypeOK
    <3>4. q.user = owner[k] \/ q.user = u
      BY <1>1, <2>1, <3>1, <3>3 DEF IInv, Decided, Exists
    <3> QED
      BY <1>1, <3>1, <3>3, <3>4, Finishes
  <2>4. ASSUME NEW r \in Requests, CommitAccept(r) PROVE Right(k, u, r)
    <3> DEFINE q == requests[r]
    <3>1. /\ q.phase = "commit" /\ q.op = "accept" /\ Finish(r)
          /\ IF Insertable(q) THEN members' = [members EXCEPT ![q.kb][q.target] = q.role]
                              ELSE members' = members
      BY <2>4 DEF CommitAccept
    <3>2. q.kb \in KBs /\ q.target \in Users /\ q.role \in Roles \cup {None}
      BY <1>1, <3>1 DEF IInv, Filled, Ops
    <3>3. Insertable(q) /\ q.kb = k /\ q.target = u
      <4>1. Insertable(q)
        BY <1>1, <3>1
      <4>2. \A j \in KBs, v \in Users : j # q.kb \/ v # q.target => members'[j][v] = members[j][v]
        BY <1>1, <3>1, <3>2, <4>1, MembersWrite
      <4> QED
        BY <1>1, <4>1, <4>2
    <3>4. q.user = u
      BY <1>1, <3>1, <3>3 DEF IInv, Decided
    <3> QED
      BY <1>1, <3>1, <3>3, <3>4, Finishes DEF Insertable
  <2>5. ASSUME NEW ks, \A j \in ks \cap KBs : Exists(j), Drop(ks) PROVE FALSE
    <3>1. k \in ks
      BY <1>1, <2>5 DEF Drop
    <3>2. owner'[k] = Gone /\ owner[k] \in Users
      BY <2>5, <3>1 DEF Drop, Exists
    <3> QED
      BY <1>1, <3>2
  <2>6. ASSUME NEW r \in Requests, CommitDeleteKB(r) PROVE FALSE
    BY <2>5, <2>6 DEF CommitDeleteKB
  <2>7. ASSUME NEW v \in Users, PurgeUser(v) PROVE FALSE
    <3>1. \A j \in {i \in KBs : owner[i] = v} \cap KBs : Exists(j)
      BY DEF Exists
    <3> QED
      BY <2>5, <2>7, <3>1 DEF PurgeUser
  <2>8. ASSUME members' = members PROVE FALSE
    BY <1>1, <2>8
  <2>9. ASSUME NEW r \in Requests, Begin(r) PROVE FALSE
    <3>1. \A q : ~Enter(r, q)
      BY <2>8 DEF Enter
    <3> QED
      BY <2>9, <3>1, Zenon DEF Begin, BeginCreateKB, BeginDeleteKB, BeginInvite, BeginPatch,
         BeginRemove, BeginCreateLink, BeginRevoke, BeginAccept
  <2>10. ASSUME NEW r \in Requests, Look(r) \/ CommitCreateKB(r) \/ CommitLink(r) \/ CommitRevoke(r)
         PROVE  FALSE
    BY <2>8, <2>10 DEF Look, CommitCreateKB, CommitLink, CommitRevoke
  <2>11. ASSUME NEW l \in Links, Expire(l) PROVE FALSE
    BY <2>8, <2>11 DEF Expire
  <2>12. CASE UNCHANGED vars
    BY <2>8, <2>12 DEF vars
  <2> HIDE DEF Right
  <2> QED
    BY <1>1, <2>2, <2>3, <2>4, <2>6, <2>7, <2>9, <2>10, <2>11, <2>12 DEF Next, Commit
<1>2. IInv /\ [Next]_vars =>
        [\A k \in KBs, u \in Users :
           members'[k][u] # members[k][u] /\ owner'[k] = owner[k] =>
             \E r \in Requests : Right(k, u, r)]_vars
  BY <1>1
<1> QED
  BY <1>2, Invariance, PTL DEF Spec, MembersChangeByRight

-------------------------------------------------------------------------------
(* Requests that take turns. *)

AtMostOne == \A r, s \in InFlight : r = s

Counted == \A l \in Links : links[l] # None => links[l].uses = admitted[l]

(* An accept still sees the counter it read, and a new link is new. *)
Seen(q) ==
  /\ q.op = "accept" /\ links[q.link] # None => q.uses = links[q.link].uses
  /\ q.op = "link" => admitted[q.link] = 0

TurnIInv ==
  /\ IsFiniteSet(InFlight)
  /\ ~raced => AtMostOne /\ Counted /\ \A r \in Requests : Seen(requests[r])

LEMMA AtMostOneOf ==
  ASSUME NEW S, IsFiniteSet(S), ~(Cardinality(S) > 1)
  PROVE  \A x, y \in S : x = y
<1>1. Cardinality(S) \in Nat
  BY FS_CardinalityType
<1>2. Cardinality(S) = 0 \/ Cardinality(S) = 1
  BY <1>1
<1>3. S = {} \/ \E x : S = {x}
  BY <1>2, FS_EmptySet, FS_Singleton
<1> QED
  BY <1>3

(* A step touches one request. *)
LEMMA OneRequest ==
  ASSUME IInv, [Next]_vars, NEW r0 \in Requests
  PROVE  \E r \in Requests : \A s \in Requests : s # r => requests'[s] = requests[s]
<1>1. ASSUME NEW r \in Requests, NEW q, requests' = [requests EXCEPT ![r] = q]
      PROVE  \A s \in Requests : s # r => requests'[s] = requests[s]
  BY <1>1 DEF IInv, TypeOK
<1>2. ASSUME NEW r \in Requests, Begin(r)
      PROVE  \A s \in Requests : s # r => requests'[s] = requests[s]
  <2>1. \E q : Enter(r, q)
    <3> SUFFICES ASSUME \A q : ~Enter(r, q) PROVE FALSE
      OBVIOUS
    <3> QED
      BY <1>2, Zenon DEF Begin, BeginCreateKB, BeginDeleteKB, BeginInvite, BeginPatch,
         BeginRemove, BeginCreateLink, BeginRevoke, BeginAccept
  <2> QED
    BY <1>1, <2>1 DEF Enter
<1>3. ASSUME NEW r \in Requests, Look(r)
      PROVE  \A s \in Requests : s # r => requests'[s] = requests[s]
  BY <1>3 DEF Look, Finish, IInv, TypeOK
<1>4. ASSUME NEW r \in Requests, Commit(r)
      PROVE  \A s \in Requests : s # r => requests'[s] = requests[s]
  <2>1. Finish(r)
    BY <1>4, Zenon DEF Commit, CommitCreateKB, CommitDeleteKB, CommitRole, CommitRemove,
       CommitLink, CommitRevoke, CommitAccept
  <2> QED
    BY <1>1, <2>1 DEF Finish
<1>5. (\E u \in Users : PurgeUser(u)) \/ (\E l \in Links : Expire(l)) \/ UNCHANGED vars
        => requests' = requests
  BY DEF PurgeUser, Expire, vars
<1> QED
  BY <1>2, <1>3, <1>4, <1>5 DEF Next

LEMMA FlightFinite ==
  ASSUME IInv, [Next]_vars, IsFiniteSet(InFlight)
  PROVE  IsFiniteSet(InFlight')
<1>1. CASE Requests = {}
  BY <1>1, FS_EmptySet DEF InFlight
<1>2. CASE Requests # {}
  <2>1. PICK r \in Requests : \A s \in Requests : s # r => requests'[s] = requests[s]
    BY <1>2, OneRequest
  <2>2. InFlight' \subseteq InFlight \cup {r}
    BY <2>1 DEF InFlight
  <2>3. IsFiniteSet(InFlight \cup {r})
    BY FS_AddElement
  <2> QED
    BY <2>2, <2>3, FS_Subset
<1> QED
  BY <1>1, <1>2

LEMMA IdleSeen == Seen(Idle) /\ Seen(Idle)'
BY IdleType, SharingAssumption DEF Seen, Ops

(* A request that enters decides on what it has just read. *)
LEMMA BeginSeen ==
  ASSUME IInv, NEW r \in Requests, Begin(r), \A s \in Requests : Seen(requests[s])
  PROVE  UNCHANGED <<links, admitted>> /\ \A s \in Requests : Seen(requests[s])'
<1>1. ASSUME NEW q, Enter(r, q), Seen(q)
      PROVE  UNCHANGED <<links, admitted>> /\ \A s \in Requests : Seen(requests[s])'
  <2>1. UNCHANGED <<links, admitted>> /\ requests' = [requests EXCEPT ![r] = q]
    BY <1>1 DEF Enter
  <2>2. \A s \in Requests : requests'[s] \in {q, requests[s]}
    BY <2>1 DEF IInv, TypeOK
  <2> QED
    BY <1>1, <2>1, <2>2 DEF Seen
<1>2. ASSUME NEW q, q.op \notin {"accept", "link"} PROVE Seen(q)
  BY <1>2 DEF Seen
<1>3. ASSUME NEW u \in Users, NEW k \in KBs, BeginCreateKB(r, u, k) \/ BeginDeleteKB(r, u, k)
      PROVE  \E q : Enter(r, q) /\ Seen(q)
  BY <1>2, <1>3 DEF BeginCreateKB, BeginDeleteKB, Idle
<1>4. ASSUME NEW u \in Users, NEW k \in KBs, NEW t \in Users, NEW role \in Roles,
             \/ BeginInvite(r, u, k, t, role) \/ BeginPatch(r, u, k, t, role)
             \/ BeginRemove(r, u, k, t)
      PROVE  \E q : Enter(r, q) /\ Seen(q)
  BY <1>2, <1>4 DEF BeginInvite, BeginPatch, BeginRemove, Idle
<1>5. ASSUME NEW u \in Users, NEW k \in KBs, NEW l \in Links, NEW role \in Roles,
             NEW max \in 1..MaxUses \cup {None}, BeginCreateLink(r, u, k, l, role, max)
      PROVE  \E q : Enter(r, q) /\ Seen(q)
  <2> DEFINE q == [Idle EXCEPT !.phase = "commit", !.op = "link", !.user = u, !.kb = k,
                               !.role = role, !.link = l, !.max = max]
  <2>1. q.op = "link" /\ q.link = l
    BY DEF Idle
  <2>2. Enter(r, q) /\ admitted[l] = 0
    BY <1>5 DEF BeginCreateLink
  <2> HIDE DEF q
  <2> QED
    BY <2>1, <2>2 DEF Seen
<1>6. ASSUME NEW u \in Users, NEW l \in Links, BeginRevoke(r, u, l)
      PROVE  \E q : Enter(r, q) /\ Seen(q)
  <2> DEFINE q == [Idle EXCEPT !.phase = "commit", !.op = "revoke", !.user = u,
                               !.kb = links[l].kb, !.link = l]
  <2>1. q.op = "revoke" /\ Enter(r, q)
    BY <1>6 DEF BeginRevoke, Idle
  <2> QED
    BY <1>2, <2>1
<1>7. ASSUME NEW u \in Users, NEW l \in Links, BeginAccept(r, u, l)
      PROVE  \E q : Enter(r, q) /\ Seen(q)
  <2> DEFINE q == [Idle EXCEPT !.phase = "look", !.op = "accept", !.user = u,
                               !.kb = links[l].kb, !.target = u,
                               !.role = links[l].role, !.link = l,
                               !.row = members[links[l].kb][u], !.uses = links[l].uses]
  <2>1. q.op = "accept" /\ q.link = l /\ q.uses = links[l].uses
    BY DEF Idle
  <2>2. Enter(r, q)
    BY <1>7 DEF BeginAccept
  <2> HIDE DEF q
  <2> QED
    BY <2>1, <2>2 DEF Seen
<1>8. "editor" \in Roles
  BY DEF Roles
<1> QED
  BY <1>1, <1>3, <1>4, <1>5, <1>6, <1>7, <1>8 DEF Begin

LEMMA LookSeen ==
  ASSUME IInv, NEW r \in Requests, Look(r), \A s \in Requests : Seen(requests[s])
  PROVE  UNCHANGED <<links, admitted>> /\ \A s \in Requests : Seen(requests[s])'
<1>1. UNCHANGED <<links, admitted>>
  BY DEF Look
<1>2. ASSUME NEW s \in Requests
      PROVE  \/ requests'[s] = Idle
             \/ /\ requests'[s].op = requests[s].op /\ requests'[s].link = requests[s].link
                /\ requests'[s].uses = requests[s].uses
  BY DEF Look, Finish, IInv, TypeOK, Request
<1> QED
  BY <1>1, <1>2, IdleSeen DEF Seen

(* The one request in flight commits: the counter it read is the counter.  *)
LEMMA CommitCounted ==
  ASSUME IInv, NEW r \in Requests, Commit(r), Counted, Seen(requests[r])
  PROVE  Counted'
<1> DEFINE q == requests[r]
<1> USE SharingAssumption
<1>0. links \in [Links -> Link \cup {None}] /\ admitted \in [Links -> Nat]
  BY DEF IInv, TypeOK
<1>1. CASE CommitCreateKB(r) \/ CommitRole(r) \/ CommitRemove(r)
  BY <1>1 DEF CommitCreateKB, CommitRole, CommitRemove, Counted
<1>2. CASE CommitDeleteKB(r)
  BY <1>2 DEF CommitDeleteKB, Drop, Counted
<1>3. CASE CommitLink(r)
  <2>1. q.op = "link" /\ admitted' = admitted /\ q.link \in Links
    BY <1>3 DEF CommitLink, IInv, Filled
  <2>2. ASSUME NEW l \in Links
        PROVE  \/ links'[l] = links[l]
               \/ l = q.link /\ links'[l].uses = 0
    BY <1>0, <1>3, <2>1 DEF CommitLink
  <2> QED
    BY <2>1, <2>2 DEF Counted, Seen
<1>4. CASE CommitRevoke(r)
  <2>1. admitted' = admitted
    BY <1>4 DEF CommitRevoke
  <2>2. ASSUME NEW l \in Links
        PROVE  \/ links'[l] = links[l]
               \/ links[l] # None /\ links'[l].uses = links[l].uses
    BY <1>0, <1>4 DEF CommitRevoke, Link
  <2> QED
    BY <2>1, <2>2 DEF Counted
<1>5. CASE CommitAccept(r)
  <2>1. CASE ~Insertable(q)
    BY <1>5, <2>1 DEF CommitAccept, Counted
  <2>2. CASE Insertable(q)
    <3>1. /\ q.op = "accept" /\ Exists(q.kb) /\ q.link \in Links
          /\ links' = [links EXCEPT ![q.link].uses = q.uses + 1]
          /\ admitted' = [admitted EXCEPT ![q.link] = @ + 1]
      BY <1>5, <2>2 DEF CommitAccept, Used, Insertable, IInv, Filled
    <3>2. links[q.link] # None
      BY <3>1 DEF IInv, Decided, Exists
    <3>3. q.uses = admitted[q.link]
      BY <3>1, <3>2 DEF Seen, Counted
    <3>4. links[q.link] \in Link
      BY <1>0, <3>1, <3>2
    <3>5. links'[q.link].uses = q.uses + 1 /\ admitted'[q.link] = admitted[q.link] + 1
      BY <1>0, <3>1, <3>4 DEF Link
    <3>6. \A l \in Links : l # q.link => links'[l] = links[l] /\ admitted'[l] = admitted[l]
      BY <1>0, <3>1
    <3> QED
      BY <3>3, <3>5, <3>6 DEF Counted
  <2> QED
    BY <2>1, <2>2
<1> QED
  BY <1>1, <1>2, <1>3, <1>4, <1>5 DEF Commit

(* A link that goes or is closed counts what it counted. *)
LEMMA CloseCounted ==
  ASSUME IInv, Counted, \A s \in Requests : Seen(requests[s]),
         (\E u \in Users : PurgeUser(u)) \/ (\E l \in Links : Expire(l))
  PROVE  Counted' /\ \A s \in Requests : Seen(requests[s])'
<1>1. UNCHANGED <<requests, admitted>>
  BY DEF PurgeUser, Expire
<1>2. ASSUME NEW l \in Links
      PROVE  \/ links'[l] = None
             \/ links[l] # None /\ links'[l].uses = links[l].uses
  BY SharingAssumption DEF PurgeUser, Drop, Expire, IInv, TypeOK, Link
<1>3. \A s \in Requests : requests[s].op = "accept" => requests[s].link \in Links
  BY DEF IInv, Filled
<1> QED
  BY <1>1, <1>2, <1>3 DEF Counted, Seen

LEMMA TurnStep ==
  ASSUME IInv, [Next]_vars, AtMostOne, AtMostOne', Counted,
         \A s \in Requests : Seen(requests[s])
  PROVE  Counted' /\ \A s \in Requests : Seen(requests[s])'
<1>1. ASSUME NEW r \in Requests, Begin(r) \/ Look(r) PROVE Counted'
  BY <1>1, BeginSeen, LookSeen DEF Counted
<1>2. ASSUME NEW r \in Requests, Commit(r) PROVE \A s \in Requests : Seen(requests[s])'
  <2>1. requests[r].phase = "commit" /\ Finish(r)
    BY <1>2, Zenon DEF Commit, CommitCreateKB, CommitDeleteKB, CommitRole, CommitRemove,
       CommitLink, CommitRevoke, CommitAccept
  <2>2. r \in InFlight
    BY <2>1, IdleType DEF InFlight
  <2>3. \A s \in Requests : requests'[s] = Idle
    BY <2>1, <2>2, IdleType DEF AtMostOne, InFlight, Finish, IInv, TypeOK
  <2> QED
    BY <2>3, IdleSeen DEF Seen
<1>3. CASE UNCHANGED vars
  BY <1>3 DEF vars, Counted, Seen
<1> QED
  BY <1>1, <1>2, <1>3, BeginSeen, LookSeen, CommitCounted, CloseCounted DEF Next

LEMMA NextTurn == IInv /\ TurnIInv /\ [MCNext]_mcvars => TurnIInv'
<1> SUFFICES ASSUME IInv, TurnIInv, [MCNext]_mcvars PROVE TurnIInv'
  OBVIOUS
<1>1. CASE MCNext
  <2>1. [Next]_vars /\ raced' = (raced \/ Cardinality(InFlight') > 1)
    BY <1>1 DEF MCNext
  <2>2. IsFiniteSet(InFlight')
    BY <2>1, FlightFinite DEF TurnIInv
  <2>3. ~raced' => ~raced /\ AtMostOne'
    BY <2>1, <2>2, AtMostOneOf DEF AtMostOne
  <2> QED
    BY <2>1, <2>2, <2>3, TurnStep DEF TurnIInv
<1>2. CASE UNCHANGED mcvars
  BY <1>2 DEF mcvars, vars, TurnIInv, AtMostOne, Counted, Seen, InFlight
<1> QED
  BY <1>1, <1>2

(* Accepts that take turns count every use: however often members leave,   *)
(* come back or are removed, and links expire or are revoked, a link lets  *)
(* in as many as it counts (accept_invitation's uses_count += 1).          *)
THEOREM UsesCounted == MCSpec => []UsesCountAdmissionsInTurn
<1>1. MCInit => IInv /\ TurnIInv
  <2> SUFFICES ASSUME MCInit PROVE TurnIInv
    BY InitIInv DEF MCInit
  <2>1. InFlight = {}
    BY DEF MCInit, Init, InFlight
  <2>2. Counted
    BY DEF MCInit, Init, Counted
  <2>3. \A r \in Requests : Seen(requests[r])
    BY IdleSeen DEF MCInit, Init
  <2> QED
    BY <2>1, <2>2, <2>3, FS_EmptySet DEF TurnIInv, AtMostOne
<1>2. IInv /\ [MCNext]_mcvars => IInv'
  <2>1. [MCNext]_mcvars => [Next]_vars
    BY DEF MCNext, mcvars
  <2> QED
    BY <2>1, NextIInv
<1>3. TurnIInv => UsesCountAdmissionsInTurn
  BY DEF TurnIInv, Counted, UsesCountAdmissionsInTurn
<1> QED
  BY <1>1, <1>2, <1>3, NextTurn, PTL DEF MCSpec
===============================================================================
