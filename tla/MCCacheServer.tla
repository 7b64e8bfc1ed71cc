--------------------------- MODULE MCCacheServer ---------------------------
\* Small instances of CacheServer.  The digit in a payload's name is its size.
EXTENDS CacheServer, TLC

MCPayloads == {"a1", "b2", "c4"}
MCSizeOf == [p \in MCPayloads |-> CASE p = "a1" -> 1 [] p = "b2" -> 2 [] p = "c4" -> 4]

OnePayload == {"b2"}
OneSizeOf == [p \in OnePayload |-> 2]

\* Overlapping calls are the subject of MCCacheServerOverlap.cfg and of
\* MCCacheServerClaims.
NoOverlap == ~ overlapped
=============================================================================
