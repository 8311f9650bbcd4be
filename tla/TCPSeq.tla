------------------------------- MODULE TCPSeq -------------------------------
(***************************************************************************)
(* TCP sequence numbers (TCPConnection.h, "Comparing sequence numbers").   *)
(* The code computes with uint32, so every sum and difference is taken     *)
(* modulo 2^32 and a number counts as "less" when it is at most half of    *)
(* the number space behind.  SeqMod is 2^32 in the code; the model keeps   *)
(* the modulus as a parameter, so that a small instance wraps around.      *)
(***************************************************************************)
EXTENDS Integers

CONSTANT SeqMod

ASSUME SeqModAssumption == SeqMod \in Nat /\ SeqMod > 2 /\ SeqMod % 2 = 0

SeqNo == 0 .. SeqMod - 1

\* Mutant: the sum does not wrap around.
SeqAddUnbounded(a, n) == a + n

\* uint32 addition and subtraction.
SeqAdd(a, n) == (a + n) % SeqMod

SeqDiff(b, a) == (b - a) % SeqMod

seqLess(a, b) == a # b /\ SeqDiff(b, a) < SeqMod \div 2

seqLE(a, b) == SeqDiff(b, a) < SeqMod \div 2

seqGreater(a, b) == a # b /\ SeqDiff(a, b) < SeqMod \div 2

seqGE(a, b) == SeqDiff(a, b) < SeqMod \div 2
=============================================================================
