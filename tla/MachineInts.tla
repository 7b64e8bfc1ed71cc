---------------------------- MODULE MachineInts ----------------------------
(***************************************************************************)
(* The two 32-bit integer types the cache mixes.  index_type is uint32_t   *)
(* (cache.hh) and every size that passes through the evictor queue is      *)
(* stored in an int (node::size, queue.hh), so sizes are narrowed on their *)
(* way into the queue and widened on their way out.                        *)
(*                                                                         *)
(* SignBit is 2^31 in the build; model checking uses small powers of two.  *)
(***************************************************************************)
EXTENDS Integers

CONSTANT SignBit

ASSUME SignBitAssumption == SignBit \in Nat \ {0}

UInt == 0 .. (2 * SignBit - 1)
SInt == (-SignBit) .. (SignBit - 1)

\* Fault: sizes stored without narrowing them.
NoNarrowing(u) == u

\* uint32_t -> int, as in  temp->size = sz.
AsInt(u) == IF u < SignBit THEN u ELSE u - 2 * SignBit

\* Fault: a negative size is taken for no size.
ClampToZero(i) == IF i < 0 THEN 0 ELSE i

\* int -> uint32_t, as in  uint32_t sz = evictor_queue.rem(key).
AsUInt(i) == IF i < 0 THEN i + 2 * SignBit ELSE i

\* memused_ += size  and  memused_ -= sz  on a uint32_t: they wrap.
PlusU(a, b)  == IF a + b < 2 * SignBit THEN a + b ELSE a + b - 2 * SignBit
MinusU(a, b) == IF b <= a THEN a - b ELSE a - b + 2 * SignBit
=============================================================================
