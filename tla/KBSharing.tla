------------------------------ MODULE KBSharing ------------------------------
(***************************************************************************)
(* Members and share links of knowledge bases (src/backend/src/kb:         *)
(* routes.py, models.py) and the purge of a user (auth/routes.py).         *)
(*                                                                         *)
(* A request reads the rows it decides on in separate awaits (Begin, Look) *)
(* and then commits; its writes are computed from what it read.  On        *)
(* PostgreSQL the foreign key to kbs and the composite primary key of      *)
(* kb_members refuse an insert at commit; an UPDATE of a missing row       *)
(* raises, a DELETE of a missing row does nothing.  System knowledge bases *)
(* have no members and are left out.                                       *)
(***************************************************************************)
EXTENDS Integers, FiniteSets

CONSTANTS
  Users,      \* user ids
  KBs,        \* knowledge base ids; an id is never used twice
  Links,      \* invitation ids (the tokens of share links)
  Requests,   \* slots for requests in flight
  MaxUses,    \* bound: the largest max_uses a link is created with
  MaxAdmitted, \* bound: no accept starts when a link let so many in
  MaxPurged,  \* bound: users that are purged
  None,       \* absent value
  Gone        \* a deleted knowledge base

Roles == {"editor", "viewer"}

Ops == {"create", "delete", "invite", "patch", "remove", "link", "revoke", "accept"}

(* max = None is an unbounded link; closed: revoked, or its time is up. *)
Link == [kb : KBs, role : Roles, max : 1..MaxUses \cup {None}, uses : Nat,
         closed : BOOLEAN]

ASSUME SharingAssumption ==
  /\ MaxUses \in Nat \ {0} /\ MaxAdmitted \in Nat /\ MaxPurged \in Nat
  /\ None \notin Users \cup KBs \cup Links \cup Roles \cup Ops \cup {"owner"}
  /\ None \notin Link
  /\ Gone \notin Users \cup {None}

VARIABLES
  users,      \* registered users
  owner,      \* kbs.user_id of each knowledge base
  members,    \* kb_members: the role of each user, or None
  links,      \* kb_invitations
  requests,
  admitted    \* history: who was made a member through each link, how often

vars == <<users, owner, members, links, requests, admitted>>

Exists(k) == owner[k] \in Users

Idle == [phase |-> "idle", op |-> None, user |-> None, kb |-> None,
         target |-> None, role |-> None, link |-> None, row |-> None, max |-> None, uses |-> 0]

Init ==
  /\ users = Users
  /\ owner = [k \in KBs |-> None]
  /\ members = [k \in KBs |-> [u \in Users |-> None]]
  /\ links = [l \in Links |-> None]
  /\ requests = [r \in Requests |-> Idle]
  /\ admitted = [l \in Links |-> 0]

Finish(r) == requests' = [requests EXCEPT ![r] = Idle]

Enter(r, q) ==
  /\ requests[r] = Idle
  /\ q.user \in users
  /\ requests' = [requests EXCEPT ![r] = q]
  /\ UNCHANGED <<users, owner, members, links, admitted>>

(* role_for: what _resolve_role finds; None is a 404. *)
RoleFor(k, u) == IF owner[k] = u THEN "owner" ELSE members[k][u]

-------------------------------------------------------------------------------
(* Begin: the caller's token and role are checked, the request goes on.    *)
(* Loading the knowledge base brings its member rows into the session.     *)

BeginCreateKB(r, u, k) ==
  Enter(r, [Idle EXCEPT !.phase = "commit", !.op = "create", !.user = u, !.kb = k])

(* purge_kb is for the owner (an admin's deletion has the same effect). *)
BeginDeleteKB(r, u, k) ==
  /\ RoleFor(k, u) = "owner"
  /\ Enter(r, [Idle EXCEPT !.phase = "commit", !.op = "delete", !.user = u, !.kb = k])

(* Mutant of BeginInvite: the owner may invite itself. *)
BeginInviteAnyone(r, u, k, t, role) ==
  /\ RoleFor(k, u) = "owner"
  /\ t \in users
  /\ Enter(r, [Idle EXCEPT !.phase = "look", !.op = "invite", !.user = u,
                           !.kb = k, !.target = t, !.role = role,
                           !.row = members[k][t]])

(* invite_member: the target is a registered user other than the owner. *)
BeginInvite(r, u, k, t, role) ==
  /\ RoleFor(k, u) = "owner"
  /\ t \in users /\ t # owner[k]
  /\ Enter(r, [Idle EXCEPT !.phase = "look", !.op = "invite", !.user = u,
                           !.kb = k, !.target = t, !.role = role,
                           !.row = members[k][t]])

BeginPatch(r, u, k, t, role) ==
  /\ RoleFor(k, u) = "owner"
  /\ Enter(r, [Idle EXCEPT !.phase = "look", !.op = "patch", !.user = u,
                           !.kb = k, !.target = t, !.role = role,
                           !.row = members[k][t]])

(* remove_member: the owner, or a member leaving. *)
MayRemove(k, u, t) == RoleFor(k, u) = "owner" \/ (RoleFor(k, u) # None /\ u = t)

BeginRemove(r, u, k, t) ==
  /\ MayRemove(k, u, t)
  /\ Enter(r, [Idle EXCEPT !.phase = "look", !.op = "remove", !.user = u,
                           !.kb = k, !.target = t, !.row = members[k][t]])

BeginCreateLink(r, u, k, l, role, max) ==
  /\ RoleFor(k, u) = "owner"
  /\ links[l] = None
  /\ admitted[l] = 0 /\ \A s \in Requests : requests[s].link # l  \* uuid4
  /\ Enter(r, [Idle EXCEPT !.phase = "commit", !.op = "link", !.user = u, !.kb = k,
                           !.role = role, !.link = l, !.max = max])

BeginRevoke(r, u, l) ==
  /\ links[l] # None
  /\ RoleFor(links[l].kb, u) = "owner"
  /\ Enter(r, [Idle EXCEPT !.phase = "commit", !.op = "revoke", !.user = u,
                           !.kb = links[l].kb, !.link = l])

(* Mutant of Exhausted: off by one. *)
ExhaustedLate(l) == links[l].max # None /\ links[l].uses > links[l].max

Exhausted(l) == links[l].max # None /\ links[l].uses >= links[l].max

Open(l) == ~links[l].closed /\ ~Exhausted(l)

(* accept_invitation: revoked, expired and exhausted links are refused and *)
(* the owner is sent away.                                                 *)
BeginAccept(r, u, l) ==
  /\ links[l] # None /\ admitted[l] < MaxAdmitted
  /\ Open(l)
  /\ Exists(links[l].kb) /\ owner[links[l].kb] # u
  /\ Enter(r, [Idle EXCEPT !.phase = "look", !.op = "accept", !.user = u,
                           !.kb = links[l].kb, !.target = u,
                           !.role = links[l].role, !.link = l,
                           !.row = members[links[l].kb][u], !.uses = links[l].uses])

-------------------------------------------------------------------------------
(* Look: read the target's member row. *)

(* The query finds out whether the row exists; the role of a row that is   *)
(* already in the session stays what it was.                               *)
Found(q) ==
  IF members[q.kb][q.target] = None \/ q.row = None
    THEN members[q.kb][q.target] ELSE q.row

(* patch and remove need the row (404); accept is a no-op when it exists; *)
(* a role that is already right emits no UPDATE.                          *)
Settled(q, row) ==
  \/ (q.op \in {"patch", "remove"} /\ row = None)
  \/ (q.op = "accept" /\ row # None)
  \/ (q.op \in {"patch", "invite"} /\ row = q.role)

Look(r) ==
  LET q == requests[r]
      row == Found(q)
  IN /\ q.phase = "look"
     /\ IF Settled(q, row)
          THEN Finish(r)
          ELSE requests' = [requests EXCEPT ![r].phase = "commit", ![r].row = row]
     /\ UNCHANGED <<users, owner, members, links, admitted>>

-------------------------------------------------------------------------------
(* Commit: one transaction; on an integrity error nothing is written. *)

(* The knowledge base and what cascades from it. *)
Drop(ks) ==
  /\ owner' = [k \in KBs |-> IF k \in ks THEN Gone ELSE owner[k]]
  /\ members' = [k \in KBs |-> IF k \in ks THEN [u \in Users |-> None] ELSE members[k]]
  /\ links' = [l \in Links |->
                 IF links[l] # None /\ links[l].kb \in ks THEN None ELSE links[l]]

CommitCreateKB(r) ==
  LET q == requests[r]
  IN /\ q.phase = "commit" /\ q.op = "create"
     /\ owner' = [owner EXCEPT ![q.kb] = q.user]
     /\ Finish(r)
     /\ UNCHANGED <<users, members, links, admitted>>

CommitDeleteKB(r) ==
  LET q == requests[r]
  IN /\ q.phase = "commit" /\ q.op = "delete"
     /\ Drop({q.kb} \ {k \in KBs : ~Exists(k)})
     /\ Finish(r)
     /\ UNCHANGED <<users, admitted>>

(* The member row is inserted when Look found none, else its role is set. *)
Insertable(q) == q.row = None /\ Exists(q.kb) /\ members[q.kb][q.target] = None

(* Mutant of Updatable: the row is merged, so a removed member is put back. *)
UpdatableOrMerged(q) == q.row # None /\ Exists(q.kb)

Updatable(q) == q.row # None /\ members[q.kb][q.target] # None

CommitRole(r) ==
  LET q == requests[r]
  IN /\ q.phase = "commit" /\ q.op \in {"invite", "patch"}
     /\ members' = IF Insertable(q) \/ Updatable(q)
                     THEN [members EXCEPT ![q.kb][q.target] = q.role] ELSE members
     /\ Finish(r)
     /\ UNCHANGED <<users, owner, links, admitted>>

CommitRemove(r) ==
  LET q == requests[r]
  IN /\ q.phase = "commit" /\ q.op = "remove"
     /\ members' = [members EXCEPT ![q.kb][q.target] = None]
     /\ Finish(r)
     /\ UNCHANGED <<users, owner, links, admitted>>

CommitLink(r) ==
  LET q == requests[r]
  IN /\ q.phase = "commit" /\ q.op = "link"
     /\ links' = IF Exists(q.kb)
                   THEN [links EXCEPT ![q.link] =
                           [kb |-> q.kb, role |-> q.role, max |-> q.max, uses |-> 0,
                            closed |-> FALSE]]
                   ELSE links
     /\ Finish(r)
     /\ UNCHANGED <<users, owner, members, admitted>>

CommitRevoke(r) ==
  LET q == requests[r]
  IN /\ q.phase = "commit" /\ q.op = "revoke"
     /\ links' = IF links[q.link] # None
                   THEN [links EXCEPT ![q.link].closed = TRUE] ELSE links
     /\ Finish(r)
     /\ UNCHANGED <<users, owner, members, admitted>>

(* Mutant of Used: a use is not counted. *)
UsedUncounted(q) == q.uses

(* uses_count += 1 on the loaded row writes the value read plus one. *)
Used(q) == q.uses + 1

(* The member row and the count go in one transaction. *)
CommitAccept(r) ==
  LET q == requests[r]
  IN /\ q.phase = "commit" /\ q.op = "accept"
     /\ IF Insertable(q)
          THEN /\ members' = [members EXCEPT ![q.kb][q.target] = q.role]
               /\ links' = [links EXCEPT ![q.link].uses = Used(q)]
               /\ admitted' = [admitted EXCEPT ![q.link] = @ + 1]
          ELSE UNCHANGED <<members, links, admitted>>
     /\ Finish(r)
     /\ UNCHANGED <<users, owner>>

(* purge_user: the user and its knowledge bases, by bulk SQL; member rows  *)
(* and links of other knowledge bases stay.                                *)
PurgeUser(u) ==
  /\ u \in users
  /\ Cardinality(Users \ users) < MaxPurged
  /\ users' = users \ {u}
  /\ Drop({k \in KBs : owner[k] = u})
  /\ UNCHANGED <<requests, admitted>>

(* expires_at passes. *)
Expire(l) ==
  /\ links[l] # None
  /\ ~links[l].closed
  /\ links' = [links EXCEPT ![l].closed = TRUE]
  /\ UNCHANGED <<users, owner, members, requests, admitted>>

Fresh(k) == owner[k] = None /\ \A s \in Requests : requests[s].kb # k

Begin(r) ==
  \E u \in Users :
    \/ \E k \in KBs : Fresh(k) /\ BeginCreateKB(r, u, k)
    \/ \E k \in KBs : BeginDeleteKB(r, u, k)
    \/ \E k \in KBs, t \in Users, role \in Roles :
         BeginInvite(r, u, k, t, role) \/ BeginPatch(r, u, k, t, role)
    \/ \E k \in KBs, t \in Users : BeginRemove(r, u, k, t)
    \/ \E k \in KBs, l \in Links, role \in Roles, max \in 1..MaxUses \cup {None} :
         BeginCreateLink(r, u, k, l, role, max)
    \/ \E l \in Links : BeginRevoke(r, u, l) \/ BeginAccept(r, u, l)

Commit(r) ==
  \/ CommitCreateKB(r)
  \/ CommitDeleteKB(r)
  \/ CommitRole(r)
  \/ CommitRemove(r)
  \/ CommitLink(r)
  \/ CommitRevoke(r)
  \/ CommitAccept(r)

Next ==
  \/ \E r \in Requests : Begin(r) \/ Look(r) \/ Commit(r)
  \/ \E u \in Users : PurgeUser(u)
  \/ \E l \in Links : Expire(l)

Spec == Init /\ [][Next]_vars

-------------------------------------------------------------------------------
(* Properties *)

Request ==
  [phase : {"idle", "look", "commit"},
   op : Ops \cup {None},
   user : Users \cup {None}, kb : KBs \cup {None}, target : Users \cup {None},
   role : Roles \cup {None}, link : Links \cup {None},
   row : Roles \cup {None}, max : 1..MaxUses \cup {None}, uses : Nat]

TypeOK ==
  /\ users \subseteq Users
  /\ owner \in [KBs -> Users \cup {None, Gone}]
  /\ members \in [KBs -> [Users -> Roles \cup {None}]]
  /\ links \in [Links -> Link \cup {None}]
  /\ requests \in [Requests -> Request]
  /\ admitted \in [Links -> Nat]

(* "Owner is NOT in this table": role_for never has to choose between the  *)
(* owner and a member row of the same user.                                *)
OwnerIsNoMember == \A k \in KBs : Exists(k) => members[k][owner[k]] = None

(* A link's counter never passes its limit, whatever accepts race. *)
UsesWithinMax ==
  \A l \in Links : links[l] # None /\ links[l].max # None => links[l].uses <= links[l].max

(* A member row appears, changes or goes (while its knowledge base stays)  *)
(* only by the owner's decision, or by the user's own accepting or leaving: *)
(* no member raises itself or touches a peer.  And it appears only by an   *)
(* invitation or an accept that found none: a role change that lost its    *)
(* row does not put a removed member back.                                 *)
MembersChangeByRight ==
  [][\A k \in KBs, u \in Users :
       members'[k][u] # members[k][u] /\ owner'[k] = owner[k] =>
         \E r \in Requests :
           LET q == requests[r]
           IN /\ q.phase = "commit" /\ requests'[r] = Idle /\ q.kb = k
              /\ \/ q.user = owner[k]
                 \/ q.user = u /\ q.op \in {"accept", "remove"}
              /\ members[k][u] = None => q.op \in {"invite", "accept"} /\ q.row = None]_vars
===============================================================================
