------------------------------ MODULE MCCache ------------------------------
(***************************************************************************)
(* Small instances of Cache and of CacheLRU.  The digit in a payload's     *)
(* name is its size: a1 and z1 are told apart by content only.             *)
(***************************************************************************)
EXTENDS CacheLRU

MCPayloads == {"a1", "z1", "b2", "c3", "f6"}
MCSizeOf == [p \in MCPayloads |->
                CASE p \in {"a1", "z1"} -> 1 [] p = "b2" -> 2 [] p = "c3" -> 3 [] p = "f6" -> 6]

\* Payloads on both sides of SignBit = 4, for a maxmem_ of 2^31 or more.
WidePayloads == {"a1", "c3", "e5", "f6"}
WideSizeOf == [p \in WidePayloads |->
                CASE p = "a1" -> 1 [] p = "c3" -> 3 [] p = "e5" -> 5 [] p = "f6" -> 6]

\* With a counter that wraps, nothing stops nodes from being cut off: explore
\* up to MaxOrphans of them.
MaxOrphans == 3
FewOrphans == Len(orphans) <= MaxOrphans
=============================================================================
