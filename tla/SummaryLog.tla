------------------------------ MODULE SummaryLog ------------------------------
(***************************************************************************)
(* What short-term memory compression promises, without workers, locks,    *)
(* transactions or Redis.  A conversation owns an append-only log of       *)
(* summarised batches.  Batch k of the log stands for the rounds           *)
(* (k-1)*Batch+1 .. k*Batch.  A volatile replica (the Redis hash) is       *)
(* either absent or some past value of the log.                            *)
(***************************************************************************)
EXTENDS Integers, Sequences

CONSTANTS
  Pieces,     \* the texts a summarisation may produce
  Batch,      \* rounds folded into one segment
  NoReplica   \* the replica is absent

VARIABLES
  log,        \* the durable summary: a sequence of segments
  replica     \* NoReplica or a copy of the log

Segment == [lo : Nat, hi : Nat, piece : Pieces]

(* The segments follow one another from round 1, Batch rounds each. *)
Contiguous(s) ==
  \A i \in 1..Len(s) :
    /\ s[i].lo = (IF i = 1 THEN 0 ELSE s[i-1].hi) + 1
    /\ s[i].hi = s[i].lo + Batch - 1

(* t continues s. *)
Continues(t, s) ==
  /\ Len(s) <= Len(t)
  /\ \A i \in 1..Len(s) : t[i] = s[i]

Init ==
  /\ log = << >>
  /\ replica = NoReplica

(* One commit adds one or more whole batches and rewrites none. *)
Extend ==
  /\ log' \in Seq(Segment)
  /\ Len(log) < Len(log')
  /\ Continues(log', log)
  /\ Contiguous(log')
  /\ UNCHANGED replica

(* The replica is written with a value the log has had. *)
Replicate ==
  /\ replica' \in Seq(Segment)
  /\ Continues(log, replica')
  /\ UNCHANGED log

(* The replica is volatile. *)
Forget ==
  /\ replica' = NoReplica
  /\ UNCHANGED log

Next == Extend \/ Replicate \/ Forget

Spec == Init /\ [][Next]_<<log, replica>>
===============================================================================
