------------------------ MODULE MCCacheServerClaims ------------------------
(***************************************************************************)
(* What the interface says of the pointer that get returns, which requests *)
(* that overlap refute.  The counterexample needs no lookup of the least   *)
(* recently used key.                                                      *)
(***************************************************************************)
EXTENDS MCCacheServer

\* cache.hh:44: get retrieves "a pointer to the value associated with key in
\* the cache", and the handler of GET answers with what it points to.
PointerIsToValue == fault # "stale_read"
=============================================================================
