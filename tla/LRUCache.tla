------------------------------ MODULE LRUCache ------------------------------
(***************************************************************************)
(* What class Cache promises to its caller (cache.hh): a bounded store     *)
(* that discards the least recently used entries.  Every call is atomic.   *)
(*                                                                         *)
(* The promise is kept until the caller looks up the least recently used   *)
(* of several entries: from then on (intact = FALSE) nothing is promised.  *)
(* CacheLRU checks that Cache implements this specification.               *)
(***************************************************************************)
EXTENDS Integers, Sequences, SequencesExt, FiniteSetsExt

CONSTANTS Keys, Payloads, SizeOf, Capacity, Null

VARIABLES
    store,       \* the entries, from the least to the most recently used
    reply,       \* the last call and its result
    intact,      \* the promise still holds
    open         \* the cache has not been destroyed

vars == <<store, reply, intact, open>>

Entry == [key : Keys, val : Payloads]

Reply(op, k, v, n) == [op |-> op, key |-> k, val |-> v, num |-> n]
NoCall == Reply("none", Null, Null, 0)

\* Where k's entry is, 0 if it has none.
Place(k) == SelectInSeq(store, LAMBDA e : e.key = k)
Has(k) == Place(k) # 0
Lookup(k) == store[Place(k)]
Without(k) == IF Has(k) THEN RemoveAt(store, Place(k)) ELSE store

\* The bytes of the first i entries, for every i, and of all.
Weights(s) ==
    LET total[i \in 0 .. Len(s)] == IF i = 0 THEN 0 ELSE total[i-1] + SizeOf[s[i].val]
    IN  total

Weight(s) == Weights(s)[Len(s)]

\* s without the fewest of its least recently used entries that have to go.
Fitting(s) ==
    LET Suffix(i) == SubSeq(s, i + 1, Len(s))
    IN  Suffix(Min({i \in 0 .. Len(s) : Weight(Suffix(i)) <= Capacity}))

Init ==
    /\ store = <<>>
    /\ reply = NoCall
    /\ intact = TRUE
    /\ open = TRUE

SetStores(k, p) ==
    /\ SizeOf[p] <= Capacity
    /\ store' = Fitting(Append(Without(k), [key |-> k, val |-> p]))
    /\ reply' = Reply("set", k, p, 0)

SetRejects(k, p) ==
    /\ SizeOf[p] > Capacity
    /\ reply' = Reply("set", k, p, 1)
    /\ UNCHANGED store

GetFinds(k) ==
    /\ Has(k)
    /\ store' = Append(Without(k), Lookup(k))
    /\ reply' = Reply("get", k, Lookup(k).val, SizeOf[Lookup(k).val])

GetMisses(k) ==
    /\ ~ Has(k)
    /\ reply' = Reply("get", k, Null, -1)
    /\ UNCHANGED store

DelErases(k) ==
    /\ Has(k)
    /\ store' = Without(k)
    /\ reply' = Reply("del", k, Null, 0)

DelMisses(k) ==
    /\ ~ Has(k)
    /\ reply' = Reply("del", k, Null, 1)
    /\ UNCHANGED store

SpaceUsed ==
    /\ reply' = Reply("space_used", Null, Null, Weight(store))
    /\ UNCHANGED store

Call ==
    /\ intact /\ open
    /\ UNCHANGED <<intact, open>>
    /\ \/ \E k \in Keys, p \in Payloads : SetStores(k, p) \/ SetRejects(k, p)
       \/ \E k \in Keys : GetMisses(k) \/ DelErases(k) \/ DelMisses(k)
       \/ \E k \in Keys : GetFinds(k) /\ ~ (Len(store) > 1 /\ Head(store).key = k)
       \/ SpaceUsed

Destroy ==
    /\ intact /\ open
    /\ open' = FALSE
    /\ store' = <<>>
    /\ UNCHANGED <<reply, intact>>

\* get of the least recently used of several entries.
Break ==
    /\ intact /\ open
    /\ Len(store) > 1
    /\ intact' = FALSE
    /\ store' = <<>>
    /\ reply' = NoCall
    /\ open' = FALSE

Next == Call \/ Destroy \/ Break

Spec == Init /\ [][Next]_vars
=============================================================================
