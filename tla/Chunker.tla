-------------------------------- MODULE Chunker --------------------------------
(***************************************************************************)
(* The text chunker (src/backend/src/kb/chunker.py): the packing loop of   *)
(* chunk_text, one step per atom.  Atoms are known by their lengths; the   *)
(* chunk being built is the range first..next-1 of atoms, and a finished   *)
(* chunk is the range it joined.                                           *)
(***************************************************************************)
EXTENDS Integers, Sequences

CONSTANTS
  Target,     \* target, in characters
  MaxSize,    \* max_size: no atom is longer
  Overlap,    \* overlap
  MaxAtoms    \* bound: atoms of a text

(* chunk_text has the defaults 1500, 1800 and 150 and its only caller uses *)
(* them; nothing orders them.                                              *)
ASSUME ChunkerAssumption ==
  /\ Target \in Nat /\ MaxSize \in Nat \ {0} /\ Overlap \in Nat
  /\ MaxAtoms \in Nat

VARIABLES
  atoms,   \* lengths of the atoms
  next,    \* the atom the loop looks at
  first,   \* current starts with this atom
  len,     \* current_len
  chunks   \* the ranges of atoms joined so far, and what is left at the end

chunkVars == <<atoms, next, first, len, chunks>>

Sep == 2  \* sep_len: atoms are joined by a blank line

(* _atomize: paragraphs, sentences or slices, none empty or longer than    *)
(* max_size.  Any lengths can come of a text.                              *)
Atomized == UNION {[1..n -> 1..MaxSize] : n \in 0..MaxAtoms}

(* Length of atoms i..j joined: from the lengths of all prefixes. *)
Joined(i, j) ==
  LET prefix[n \in 0..Len(atoms)] == IF n = 0 THEN 0 ELSE prefix[n-1] + atoms[n]
  IN prefix[j] - prefix[i-1] + Sep * (j - i)

ChunkInit ==
  /\ atoms \in Atomized
  /\ next = 1 /\ first = 1 /\ len = 0
  /\ chunks = << >>

Current == first < next

JoinCost == IF Current THEN Sep ELSE 0

Overfull == Current /\ len + JoinCost + atoms[next] > Target

(* Mutant of Extend: the separator is not counted. *)
ExtendWithoutSeparator ==
  /\ next <= Len(atoms)
  /\ ~Overfull
  /\ len' = len + atoms[next]
  /\ next' = next + 1
  /\ UNCHANGED <<atoms, first, chunks>>

(* The atom still fits: append it. *)
Extend ==
  /\ next <= Len(atoms)
  /\ ~Overfull
  /\ len' = len + JoinCost + atoms[next]
  /\ next' = next + 1
  /\ UNCHANGED <<atoms, first, chunks>>

(* Mutants of TailFirst: the tail is built from all of the last chunk; the *)
(* tail may be empty.                                                      *)
TailIsChunk == first

TailMayBeEmpty ==
  CHOOSE k \in first..next :
    /\ k < next => Joined(k, next - 1) <= Overlap
    /\ \A i \in first..next - 1 : Joined(i, next - 1) <= Overlap => k <= i

(* The overlap: the last atom always, and the atoms before it as long as   *)
(* they all fit in Overlap.                                                *)
TailFirst ==
  CHOOSE k \in first..next - 1 :
    /\ k = next - 1 \/ Joined(k, next - 1) <= Overlap
    /\ \A i \in first..next - 1 : Joined(i, next - 1) <= Overlap => k <= i

(* It does not: close the chunk, start the next with the tail and the atom. *)
Close ==
  /\ next <= Len(atoms)
  /\ Overfull
  /\ chunks' = Append(chunks, [first |-> first, last |-> next - 1])
  /\ first' = TailFirst
  /\ len' = Joined(TailFirst, next)
  /\ next' = next + 1
  /\ UNCHANGED atoms

(* The loop is over: the rest is the last chunk. *)
Flush ==
  /\ next = Len(atoms) + 1
  /\ Current
  /\ chunks' = Append(chunks, [first |-> first, last |-> next - 1])
  /\ first' = next + 1 /\ next' = next + 1
  /\ UNCHANGED <<atoms, len>>

ChunkNext == Extend \/ Close \/ Flush

ChunkSpec == ChunkInit /\ [][ChunkNext]_chunkVars

Done == next > Len(atoms) + 1 \/ atoms = << >>

-------------------------------------------------------------------------------
(* Properties *)

ChunkTypeOK ==
  /\ atoms \in Seq(1..MaxSize)
  /\ next \in 1..Len(atoms) + 2
  /\ first \in 1..Len(atoms) + 2
  /\ len \in Nat
  /\ chunks \in Seq([first : 1..Len(atoms), last : 1..Len(atoms)])

(* The running length the decisions are made on is the length of what will *)
(* be joined, through every extension and every carried tail.              *)
LengthIsExact == Current => len = Joined(first, next - 1)

(* No text is lost and chunks stay in order: each chunk starts inside the  *)
(* previous one (that is the overlap) and brings at least one new atom;    *)
(* together they reach from the first atom to the last one looked at.      *)
NothingIsLost ==
  LET n == Len(chunks)
  IN /\ \A i \in 1..n :
          /\ chunks[i].first <= chunks[i].last
          /\ i = 1 => chunks[i].first = 1
          /\ i > 1 => /\ chunks[i-1].first <= chunks[i].first
                      /\ chunks[i].first <= chunks[i-1].last
                      /\ chunks[i-1].last < chunks[i].last
     /\ Done /\ n > 0 => chunks[n].last = Len(atoms)
     /\ Done /\ atoms # << >> => n > 0

(* What really bounds a chunk: the target, or a tail (one atom at least)   *)
(* with one atom on top of it.                                             *)
ChunkIsBounded ==
  LET Most(a, b) == IF a > b THEN a ELSE b
  IN \A i \in 1..Len(chunks) :
       Joined(chunks[i].first, chunks[i].last)
         <= Most(Target, Most(MaxSize, Overlap) + Sep + MaxSize)

===============================================================================
