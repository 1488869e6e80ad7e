------------------------------- MODULE SeqNum -------------------------------
(***************************************************************************)
(* Serial numbers (RFC 1982) as crates/chiaki-core/src/seqnum.rs computes  *)
(* them: unsigned numbers of a fixed width that wrap, compared so that a   *)
(* number up to half the space ahead counts as later.  The width is a      *)
(* constant: SeqHalf = 2^15 for the 16-bit and 2^31 for the 32-bit family. *)
(***************************************************************************)
EXTENDS Integers

CONSTANT SeqHalf    \* 2^(bits-1)

ASSUME SeqHalfAssumption == SeqHalf \in Nat \ {0}

SeqMod  == 2 * SeqHalf
SeqNums == 0 .. SeqMod - 1

\* The wrapping addition; n is at most one full turn.
SeqAdd(a, n) == IF a + n < SeqMod THEN a + n ELSE a + n - SeqMod

\* chiaki_seq_num_N_lt and _gt.  Two numbers exactly SeqHalf apart are ordered
\* by neither.
SeqLt(a, b) == \/ a < b /\ b - a < SeqHalf
               \/ a > b /\ a - b > SeqHalf
SeqGt(a, b) == \/ a < b /\ b - a > SeqHalf
               \/ a > b /\ a - b < SeqHalf
SeqGe(a, b) == a = b \/ SeqGt(a, b)

\* How many increments lead from a to b.
SeqDist(a, b) == IF a <= b THEN b - a ELSE b - a + SeqMod
=============================================================================
