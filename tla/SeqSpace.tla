-------------------------------- MODULE SeqSpace --------------------------------
(***************************************************************************)
(* TCP sequence numbers (tcp_connection.c, seq_lt ... seq_ge).             *)
(*                                                                         *)
(* A sequence number is a uint32_t: it wraps at 2^32, and two of them are  *)
(* compared by the sign of their difference read as an int32_t.  The       *)
(* module is parameterised by half of the space, 2^31 in the code, so that *)
(* TLC can walk all the way round a small one.                             *)
(***************************************************************************)
EXTENDS Integers

CONSTANT HalfSpace          \* 2^31 in the code

ASSUME HalfSpaceAssumption == HalfSpace \in Nat /\ HalfSpace >= 2

SeqMod == 2 * HalfSpace     \* 2^32 in the code
SeqNum == 0 .. SeqMod - 1

\* Addition and subtraction of uint32_t.
SeqAdd(a, n) == (a + n) % SeqMod
SeqSub(a, b) == (a + SeqMod - b) % SeqMod

\* (int32_t)(a - b) is negative iff the unsigned difference is >= 2^31.
seq_lt(a, b) == SeqSub(a, b) >= HalfSpace
seq_le(a, b) == SeqSub(a, b) = 0 \/ SeqSub(a, b) >= HalfSpace
seq_gt(a, b) == SeqSub(a, b) # 0 /\ SeqSub(a, b) < HalfSpace
seq_ge(a, b) == SeqSub(a, b) < HalfSpace
==================================================================================
