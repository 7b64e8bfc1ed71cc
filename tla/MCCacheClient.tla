--------------------------- MODULE MCCacheClient ---------------------------
\* A small instance of CacheClient.  The digit in a payload's name is its size.
EXTENDS CacheClient, TLC

CONSTANTS k1, k2

MCPayloads == {"a1", "q2", "d4", "f7"}
MCSizeOf == "a1" :> 1 @@ "q2" :> 2 @@ "d4" :> 4 @@ "f7" :> 7

\* q2 has a quotation mark, "d4?" is cut to d4, "a/1" fits no route.
MCQuotable == [p \in MCPayloads |-> p # "q2"]
MCValues == {"a1", "q2", "d4?", "f7", "a/1"}
MCRouteTakes == "a1" :> "a1" @@ "q2" :> "q2" @@ "d4?" :> "d4" @@ "f7" :> "f7" @@ "a/1" :> Null
=============================================================================
