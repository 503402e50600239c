------------------------------- MODULE Accounts -------------------------------
(***************************************************************************)
(* Accounts and the platform role (src/backend/src/auth, admin/routes.py). *)
(*                                                                         *)
(* A request authenticates its caller once, loads the target account,      *)
(* counts the other active admins and commits; every one of these is an    *)
(* await, so requests interleave between any two of them.  The session of  *)
(* a request keeps the row it loaded first (the identity map) and writes   *)
(* only the columns it changed.  Passwords and profiles are left out.      *)
(***************************************************************************)
EXTENDS FiniteSets

CONSTANTS
  Users,       \* user ids; an id is never used twice
  Requests,    \* slots for requests in flight
  Allowlist,   \* users whose email is in settings.admin_emails
  None,        \* no such account yet; an absent value
  Gone         \* a deleted account

Account == [admin : BOOLEAN, active : BOOLEAN]

ASSUME AccountsAssumption ==
  /\ Allowlist \subseteq Users
  /\ None \notin Account /\ Gone \notin Account

VARIABLES
  users,       \* the users table: the two platform flags of each account
  requests

vars == <<users, requests>>

Exists(u) == users[u] \in Account

ActiveAdmins == {u \in Users : users[u] = [admin |-> TRUE, active |-> TRUE]}

Idle == [phase |-> "idle", op |-> None, caller |-> None, target |-> None,
         active |-> None, admin |-> None, row |-> None]

Init ==
  /\ users \in [Users -> {None} \cup Account]
  /\ requests = [r \in Requests |-> Idle]

Finish(r) == requests' = [requests EXCEPT ![r] = Idle]

(* POST /register: a new account has neither flag raised nor lowered. *)
Register(u) ==
  /\ users[u] = None
  /\ users' = [users EXCEPT ![u] = [admin |-> FALSE, active |-> TRUE]]
  /\ UNCHANGED requests

(* current_user: the caller's row, read once when the request starts. *)
Authenticated(u) == Exists(u) /\ users[u].active

(* require_admin on top of it. *)
AdminAuthenticated(u) == Authenticated(u) /\ users[u].admin

(* A request enters; a caller that is its own target is already loaded. *)
Enter(r, phase, op, c, u, active, admin) ==
  /\ requests[r] = Idle
  /\ requests' = [requests EXCEPT ![r] =
       [phase |-> phase, op |-> op, caller |-> c, target |-> u,
        active |-> active, admin |-> admin,
        row |-> IF u = c THEN users[c] ELSE None]]
  /\ UNCHANGED users

(* PATCH /admin/users/{id}, with any of the flags set or left alone. *)
StartPatch(r, c, u, active, admin) ==
  /\ AdminAuthenticated(c)
  /\ active # None \/ admin # None
  /\ Enter(r, "load", "patch", c, u, active, admin)

(* DELETE /admin/users/{id}: an admin cannot delete itself. *)
StartDelete(r, c, u) ==
  /\ AdminAuthenticated(c)
  /\ u # c
  /\ Enter(r, "load", "delete", c, u, None, None)

(* DELETE /auth/me: nothing but the caller's existence is checked. *)
StartLeave(r, c) ==
  /\ Authenticated(c)
  /\ Enter(r, "commit", "leave", c, c, None, None)

(* The patch or delete takes an account's admin or active flag away. *)
Lowers(q) == q.op = "delete" \/ q.active = FALSE \/ q.admin = FALSE

(* Mutant of Loaded: the row is read again although the session has it. *)
LoadedAfresh(q) == users[q.target]

(* session.get(User, target): from the session when it is there. *)
Loaded(q) == IF q.row = None THEN users[q.target] ELSE q.row

(* Load the target and apply the self-protection; 404 and 400 end here. *)
Load(r) ==
  LET q == requests[r]
      row == Loaded(q)
  IN /\ q.phase = "load"
     /\ IF row \notin Account \/ (q.target = q.caller /\ Lowers(q))
          THEN Finish(r)
          ELSE requests' = [requests EXCEPT ![r].phase = "check", ![r].row = row]
     /\ UNCHANGED users

(* _active_admin_count(exclude = target) = 0 when an active admin would be *)
(* lost is a 409.                                                          *)
Check(r) ==
  LET q == requests[r]
  IN /\ q.phase = "check"
     /\ IF /\ Lowers(q)
           /\ q.row.admin /\ q.row.active
           /\ ActiveAdmins \ {q.target} = {}
          THEN Finish(r)
          ELSE requests' = [requests EXCEPT ![r].phase = "commit"]
     /\ UNCHANGED users

(* The UPDATE sets the flags that differ from the loaded row. *)
Patched(q) ==
  [admin |-> IF q.admin \in {None, q.row.admin} THEN users[q.target].admin ELSE q.admin,
   active |-> IF q.active \in {None, q.row.active} THEN users[q.target].active ELSE q.active]

(* An UPDATE that finds no row raises and changes nothing. *)
CommitPatch(r) ==
  LET q == requests[r]
  IN /\ q.phase = "commit" /\ q.op = "patch"
     /\ users' = IF Exists(q.target)
                   THEN [users EXCEPT ![q.target] = Patched(q)] ELSE users
     /\ Finish(r)

(* purge_user, for both deletions: the row goes, if it is still there. *)
CommitPurge(r) ==
  LET q == requests[r]
  IN /\ q.phase = "commit" /\ q.op \in {"delete", "leave"}
     /\ users' = [users EXCEPT ![q.target] = Gone]
     /\ Finish(r)

(* Mutant of Seeded: the allowlist decides who is an admin. *)
SeededFromListOnly(u) == [users[u] EXCEPT !.admin = (u \in Allowlist)]

(* seed_admins: the allowlist is a floor; other admins keep the flag. *)
Seeded(u) == [users[u] EXCEPT !.admin = (@ \/ u \in Allowlist)]

(* The process restarts: requests in flight are lost, admins are seeded. *)
Restart ==
  /\ users' = [u \in Users |-> IF Exists(u) THEN Seeded(u) ELSE users[u]]
  /\ requests' = [r \in Requests |-> Idle]

Flag == {None, TRUE, FALSE}

(* Only an admin starts one; both handlers say so again. *)
AdminStep(r) ==
  \/ \E c \in Users : /\ AdminAuthenticated(c)
                      /\ \E u \in Users : \/ StartDelete(r, c, u)
                                          \/ \E active, admin \in Flag :
                                               StartPatch(r, c, u, active, admin)
  \/ Load(r)
  \/ Check(r)
  \/ CommitPatch(r)
  \/ CommitPurge(r)

Next ==
  \/ \E u \in Users : Register(u)
  \/ \E r \in Requests : AdminStep(r)
  \/ \E r \in Requests, c \in Users : StartLeave(r, c)
  \/ Restart

Spec == Init /\ [][Next]_vars

-------------------------------------------------------------------------------
(* Properties *)

TypeOK ==
  /\ users \in [Users -> {None, Gone} \cup Account]
  /\ \A r \in Requests :
       \/ requests[r] = Idle
       \/ /\ requests[r].phase \in {"load", "check", "commit"}
          /\ requests[r].op \in {"patch", "delete", "leave"}
          /\ requests[r].caller \in Users /\ requests[r].target \in Users
          /\ requests[r].active \in Flag /\ requests[r].admin \in Flag
          /\ requests[r].phase # "load" => requests[r].row \in Account

(* Nobody raises or lowers its own flags: an account changes hands only by  *)
(* the startup list or by another account's request, even when the caller   *)
(* loses its role while its request is in flight.                           *)
NobodyPatchesItself ==
  [][\A r \in Requests :
       LET q == requests[r]
       IN CommitPatch(r) /\ q.target = q.caller => users' = users]_vars
===============================================================================
