--------------------------- MODULE MCEvictorList ---------------------------
(***************************************************************************)
(* A small instance of EvictorList: sizes 1 and 2 with SignBit = 2, so that*)
(* 2 is narrowed to -2.  Addresses are interchangeable.                    *)
(***************************************************************************)
EXTENDS EvictorList, TLC

AddrSymmetry == Permutations(Addrs)
=============================================================================
