------------------------ MODULE CacheClientProofs -------------------------
(***************************************************************************)
(* What the client library keeps its promises by, for any keys, payloads   *)
(* and maxmem_ and however transfers fail.  The value the server stores    *)
(* under a key is always one that a get may still find, unless the set     *)
(* that stored it has not returned to the client yet.                      *)
(***************************************************************************)
EXTENDS CacheClient, Workloads, TLAPS

Texts == Payloads \cup {NullText}

Types ==
    /\ data \in [Keys -> Payloads \cup {Null}]
    /\ asked \in Calls \cup {Asked("none", Null, Null)}
    /\ client \in {"alive", "destroyed", "terminated"}
    /\ strings \in Seq([key : Keys, text : Texts, freed : BOOLEAN])
    /\ latest \in [Keys -> Nat]
    /\ maybe \in [Keys -> SUBSET Payloads]

\* The server has the client's request.
AtServer == transfer \in {"executing", "answered"}
Crashed == pc \in {"segfault", "corrupted"}

\* The set in progress stores p under k, if the server gets to execute it.
Stores(k, p) ==
    /\ asked.op = "set" /\ asked.key = k
    /\ RouteTakes[asked.val] = p /\ p # Null /\ SizeOf[p] <= MaxMem

\* Every stored value is known to the client, or the call in progress stored it.
Known ==
    \A k \in Keys : data[k] # Null =>
        \/ data[k] \in maybe[k]
        \/ Stores(k, data[k]) /\ (AtServer \/ Failed)

\* The server works on one request at a time and dies in it or not at all.
OneRequest ==
    /\ transfer = "answered" => pc = "idle"
    /\ Crashed /\ up => transfer = "executing"
    /\ transfer = "refused" => ~ Routed

\* What the server has made of the call in progress, unless it died in it.
SetDone ==
    AtServer /\ ~ Crashed =>
        \A k \in Keys, p \in Payloads : Stores(k, p) => data[k] \in {Null, p}

DelDone == AtServer /\ ~ Crashed /\ asked.op = "del" => data[asked.key] = Null

GetDone ==
    AtServer /\ ~ Crashed /\ asked.op = "get" =>
        call.val \in maybe[asked.key] \cup {Null}

\* Only the destructor frees strings, and it runs between two calls.
Owned ==
    IF client = "destroyed"
    THEN transfer = "none" /\ \A i \in 1 .. Len(strings) :
            strings[i].freed = (latest[strings[i].key] = i)
    ELSE \A i \in 1 .. Len(strings) : ~ strings[i].freed

IInv ==
    /\ Types /\ Known /\ OneRequest
    /\ SetDone /\ DelDone /\ GetDone
    /\ Owned

-----------------------------------------------------------------------------
(* The server's part of the steps. *)

LEMMA Sizes ==
    ASSUME NEW p \in Payloads
    PROVE  (SizeOf[p] <= MaxMem) <=> ~ (SizeOf[p] > MaxMem)
<1>1. SizeOf[p] \in Int /\ MaxMem \in Int
  BY ClientAssumption, SignBitAssumption DEF UInt
<1> QED BY <1>1

\* set stores the value and goes on to the eviction loop, or leaves the values
\* alone: because it is too large, or because it dies.
LEMMA ServerSet ==
    ASSUME NEW k \in Keys, NEW p \in Payloads, Server!Set(k, p)
    PROVE  \/ data' = [data EXCEPT ![k] = p] /\ pc' = "evicting" /\ SizeOf[p] <= MaxMem
           \/ data' = data /\ pc' = "idle" /\ ~ (SizeOf[p] <= MaxMem)
           \/ data' = data /\ pc' = "segfault"
  BY Sizes DEF Server!Set, Server!SetTooLarge, Server!SetNew, Server!SetOverwrite,
               Server!SetSegfault, Server!Store, Server!Segfault

LEMMA ServerGet ==
    ASSUME NEW k \in Keys, Server!Get(k)
    PROVE  /\ data' = data
           /\ \/ pc' = "idle" /\ call'.val = data[k]
              \/ pc' \in {"segfault", "corrupted"}
  BY DEF Server!Get, Server!GetMiss, Server!GetHit, Server!GetCorrupts, Server!GetSegfault,
         Server!Segfault, Server!Reply

LEMMA ServerForget ==
    ASSUME NEW k \in Keys, Server!Forget(k)
    PROVE  data' = [data EXCEPT ![k] = Null]
  BY DEF Server!Forget

LEMMA ServerDel ==
    ASSUME NEW k \in Keys, Server!Del(k)
    PROVE  \/ data' = [data EXCEPT ![k] = Null] /\ pc' = "idle"
           \/ data' = data /\ pc' = "segfault"
  BY ServerForget DEF Server!Del, Server!DelMiss, Server!DelHit, Server!DelSegfault,
                      Server!Segfault

\* An iteration of the eviction loop takes values away, if anything.
LEMMA ServerEvicts ==
    ASSUME Types, Server!Evict \/ Server!SetReturn
    PROVE  /\ data' \in [Keys -> Payloads \cup {Null}]
           /\ \A k \in Keys : data'[k] \in {Null, data[k]}
           /\ pc = "evicting" /\ pc' \in {"evicting", "idle", "segfault"}
           /\ call' = call
<1>1. CASE Server!SetReturn
  BY <1>1 DEF Types, Server!SetReturn
<1>2. CASE Server!Evict /\ queue = <<>>
  BY <1>2 DEF Types, Server!Evict, Server!Segfault
<1>3. CASE Server!Evict /\ queue # <<>>
  BY <1>3 DEF Types, Server!Evict, Server!Forget
<1> QED BY <1>1, <1>2, <1>3

-----------------------------------------------------------------------------
(* The steps before the call returns. *)

LEMMA InitIInv == Init => IInv
<1> SUFFICES ASSUME Init PROVE IInv
  OBVIOUS
<1> USE DEF Init, Server!Init
<1>1. Types
  BY DEF Types
<1>2. Known /\ OneRequest /\ SetDone /\ DelDone /\ GetDone /\ Owned
  BY DEF Known, OneRequest, Crashed, SetDone, DelDone, GetDone, AtServer, Owned
<1> QED BY <1>1, <1>2 DEF IInv

\* What a call asks for.
LEMMA CallTypes ==
    ASSUME Types
    PROVE  /\ asked.op \in {"set", "get", "del", "header"} => asked.key \in Keys
           /\ asked.op = "set" => RouteTakes[asked.val] \in Payloads \cup {Null}
  BY ClientAssumption DEF Types, Calls, Asked

LEMMA AskStep == ASSUME IInv, Ask PROVE IInv'
<1> USE DEF IInv, Ask
<1>1. Types'
  BY DEF Types, serverVars, clientVars
<1>2. Known' /\ OneRequest'
  BY DEF Known, OneRequest, Crashed, Stores, AtServer, Failed, serverVars, clientVars
<1>3. SetDone' /\ DelDone' /\ GetDone'
  BY DEF SetDone, DelDone, GetDone, AtServer
<1>4. Owned'
  BY DEF Owned, clientVars
<1> QED BY <1>1, <1>2, <1>3, <1>4

\* While a request is on its way, the client knows every value.
LEMMA RequestedKnown ==
    ASSUME IInv, transfer = "requested", NEW k \in Keys, data[k] # Null
    PROVE  data[k] \in maybe[k]
  BY DEF IInv, Known, AtServer, Failed

LEMMA ArriveSet ==
    ASSUME IInv, Arrive, asked.op = "set", Routed
    PROVE  IInv'
<1> DEFINE k == asked.key
           p == RouteTakes[asked.val]
<1>1. k \in Keys /\ p \in Payloads /\ p # Null
  BY CallTypes DEF IInv, Routed
<1>2. Server!Set(k, p) /\ transfer' = "executing" /\ transfer = "requested"
  BY DEF Arrive, Executed
<1>3. /\ UNCHANGED <<asked, ret, client, strings, latest, maybe>>
  BY DEF Arrive, clientVars
<1>4. CASE data' = [data EXCEPT ![k] = p] /\ pc' = "evicting" /\ SizeOf[p] <= MaxMem
  <2>1. Types'
    BY <1>1, <1>3, <1>4 DEF IInv, Types
  <2>2. data'[k] = p /\ Stores(k, p)'
    BY <1>1, <1>3, <1>4 DEF IInv, Types, Stores
  <2>3. \A l \in Keys : l # k => data'[l] = data[l]
    BY <1>1, <1>4 DEF IInv, Types
  <2>4. Known'
    BY <1>2, <1>3, <2>2, <2>3, RequestedKnown DEF Known, AtServer
  <2>5. SetDone'
    BY <1>3, <2>2 DEF SetDone, Stores
  <2>6. OneRequest' /\ DelDone' /\ GetDone'
    BY <1>2, <1>3, <1>4 DEF OneRequest, Crashed, DelDone, GetDone
  <2>7. Owned'
    BY <1>2, <1>3 DEF IInv, Owned
  <2> QED BY <2>1, <2>4, <2>5, <2>6, <2>7 DEF IInv
<1>5. CASE data' = data /\ ((pc' = "idle" /\ ~ (SizeOf[p] <= MaxMem)) \/ pc' = "segfault")
  <2>1. Types'
    BY <1>3, <1>5 DEF IInv, Types
  <2>2. Known'
    BY <1>2, <1>3, <1>5, RequestedKnown DEF Known
  <2>3. SetDone'
    BY <1>3, <1>5 DEF SetDone, Stores, Crashed
  <2>4. OneRequest' /\ DelDone' /\ GetDone'
    BY <1>2, <1>3, <1>5 DEF OneRequest, DelDone, GetDone
  <2>5. Owned'
    BY <1>2, <1>3 DEF IInv, Owned
  <2> QED BY <2>1, <2>2, <2>3, <2>4, <2>5 DEF IInv
<1> QED BY <1>1, <1>2, <1>4, <1>5, ServerSet

\* A get whose key is stored returns a value the client knows.
LEMMA ArriveGet ==
    ASSUME IInv, Arrive, asked.op \in {"get", "header"}
    PROVE  IInv'
<1>1. /\ transfer' = "executing" /\ transfer = "requested"
      /\ UNCHANGED <<asked, ret, client, strings, latest, maybe>>
  BY DEF Arrive, Routed, clientVars
<1>2. asked.key \in Keys
  BY CallTypes DEF IInv
<1>3. Server!Get(asked.key)
  BY DEF Arrive, Routed, Executed
<1>4. /\ data' = data
      /\ \/ pc' = "idle" /\ call'.val = data[asked.key]
         \/ pc' \in {"segfault", "corrupted"}
  BY <1>2, <1>3, ServerGet
<1>5. Types'
  BY <1>1, <1>4 DEF IInv, Types
<1>6. Known'
  BY <1>1, <1>4, RequestedKnown DEF Known
<1>7. GetDone'
  BY <1>1, <1>2, <1>4, RequestedKnown DEF GetDone, Crashed
<1>8. OneRequest' /\ DelDone' /\ SetDone'
  BY <1>1, <1>4 DEF OneRequest, DelDone, SetDone, Stores
<1>9. Owned'
  BY <1>1 DEF IInv, Owned
<1> QED BY <1>5, <1>6, <1>7, <1>8, <1>9 DEF IInv

LEMMA ArriveDel ==
    ASSUME IInv, Arrive, asked.op = "del"
    PROVE  IInv'
<1>1. /\ transfer' = "executing" /\ transfer = "requested"
      /\ UNCHANGED <<asked, ret, client, strings, latest, maybe>>
  BY DEF Arrive, Routed, clientVars
<1>2. asked.key \in Keys
  BY CallTypes DEF IInv
<1>3. Server!Del(asked.key)
  BY DEF Arrive, Routed, Executed
<1>4. \/ data' = [data EXCEPT ![asked.key] = Null] /\ pc' = "idle"
      \/ data' = data /\ pc' = "segfault"
  BY <1>2, <1>3, ServerDel
<1>5. Types'
  BY <1>1, <1>2, <1>4 DEF IInv, Types
<1>6. \A k \in Keys : data'[k] # Null => data'[k] = data[k]
  BY <1>2, <1>4 DEF IInv, Types
<1>7. Known'
  BY <1>1, <1>6, RequestedKnown DEF Known
<1>8. DelDone'
  BY <1>1, <1>2, <1>4 DEF DelDone, Crashed, IInv, Types
<1>9. OneRequest' /\ GetDone' /\ SetDone'
  BY <1>1, <1>4 DEF OneRequest, GetDone, SetDone, Stores
<1>10. Owned'
  BY <1>1 DEF IInv, Owned
<1> QED BY <1>5, <1>7, <1>8, <1>9, <1>10 DEF IInv

\* The other requests, and one that fits no route, leave the values alone.
LEMMA ArriveOther ==
    ASSUME IInv, Arrive, ~ Routed \/ asked.op \notin {"set", "get", "header", "del"}
    PROVE  IInv'
<1>1. /\ transfer = "requested" /\ transfer' \in {"executing", "refused"} /\ up
      /\ UNCHANGED <<asked, ret, client, strings, latest, maybe>>
      /\ asked.op = "set" => transfer' = "refused"
  BY DEF Arrive, Routed, clientVars
<1>2. data' = data /\ pc' = pc
  BY DEF Arrive, Routed, Executed, Server!SpaceUsed, serverVars
<1>3. Types'
  BY <1>1, <1>2 DEF IInv, Types
<1>4. Known'
  BY <1>1, <1>2, RequestedKnown DEF Known
<1>5. OneRequest'
  BY <1>1, <1>2 DEF IInv, OneRequest, Crashed, Routed, Arrive
<1>6. GetDone' /\ SetDone' /\ DelDone'
  BY <1>1 DEF Routed, GetDone, SetDone, DelDone, Stores, AtServer
<1>7. Owned'
  BY <1>1 DEF IInv, Owned
<1> QED BY <1>3, <1>4, <1>5, <1>6, <1>7 DEF IInv

LEMMA ArriveStep == ASSUME IInv, Arrive PROVE IInv'
  BY ArriveSet, ArriveGet, ArriveDel, ArriveOther

LEMMA EvictStep == ASSUME IInv, Evict PROVE IInv'
<1>1. transfer = "executing" /\ UNCHANGED <<up, asked, transfer, clientVars>>
  BY DEF Evict
<1>2. /\ data' \in [Keys -> Payloads \cup {Null}]
      /\ \A k \in Keys : data'[k] \in {Null, data[k]}
      /\ pc = "evicting" /\ pc' \in {"evicting", "idle", "segfault"}
      /\ call' = call
  BY ServerEvicts DEF Evict, IInv
<1>3. Types'
  BY <1>1, <1>2 DEF IInv, Types, clientVars
<1>4. Known'
  BY <1>1, <1>2 DEF IInv, Known, Stores, AtServer, Failed, clientVars
<1>5. OneRequest'
  BY <1>1, <1>2 DEF IInv, OneRequest, Crashed
<1>6. SetDone' /\ GetDone'
  BY <1>1, <1>2 DEF IInv, SetDone, GetDone, Stores, AtServer, Crashed, clientVars
<1>7. DelDone'
  <2>1. asked.op = "del" => asked.key \in Keys
    BY CallTypes DEF IInv
  <2> QED BY <1>1, <1>2, <2>1 DEF IInv, DelDone, AtServer, Crashed
<1>8. Owned'
  BY <1>1 DEF IInv, Owned, clientVars
<1> QED BY <1>3, <1>4, <1>5, <1>6, <1>7, <1>8 DEF IInv

\* The answer, or a failure, changes nothing but how far the request has come.
LEMMA TransferStep == ASSUME IInv, Answer \/ Lose \/ Die PROVE IInv'
<1>1. UNCHANGED <<data, pc, call, asked, ret, client, strings, latest, maybe>>
  BY DEF Answer, Lose, Die, serverVars, clientVars
<1>2. /\ AtServer' => AtServer
      /\ AtServer \/ Failed => AtServer' \/ Failed'
  BY DEF Answer, Lose, Die, AtServer, Failed
<1>3. Types'
  BY <1>1 DEF IInv, Types
<1>4. Known'
  BY <1>1, <1>2 DEF IInv, Known, Stores
<1>5. OneRequest'
  BY DEF IInv, OneRequest, Crashed, Answer, Lose, Die, serverVars
<1>6. SetDone' /\ GetDone' /\ DelDone'
  BY <1>1, <1>2 DEF IInv, SetDone, GetDone, DelDone, Stores, Crashed
<1>7. Owned'
  BY <1>1 DEF IInv, Owned, OneRequest, Crashed, Answer, Lose, Die
<1> QED BY <1>3, <1>4, <1>5, <1>6, <1>7 DEF IInv

-----------------------------------------------------------------------------
(* The call returns. *)

\* Nothing is in progress any more.
LEMMA ReturnFrame ==
    ASSUME IInv, NEW r, Return(r)
    PROVE  /\ UNCHANGED <<data, pc, call, up, asked>>
           /\ transfer' = "none" /\ transfer # "none" /\ client # "destroyed"
           /\ OneRequest' /\ SetDone' /\ DelDone' /\ GetDone'
<1>1. UNCHANGED <<data, pc, call, up, asked>> /\ transfer' = "none" /\ transfer # "none"
  BY DEF Return, Returned, serverVars
<1>2. client # "destroyed"
  BY <1>1 DEF IInv, Owned
<1>3. OneRequest'
  <2>1. ~ (Crashed /\ up)
    BY DEF IInv, OneRequest, Return, Returned, Failed
  <2> QED BY <1>1, <2>1 DEF OneRequest, Crashed
<1>4. SetDone' /\ DelDone' /\ GetDone'
  BY <1>1 DEF SetDone, DelDone, GetDone, AtServer
<1> QED BY <1>1, <1>2, <1>3, <1>4

\* A call that stored nothing leaves the values known to the client.
LEMMA StillKnown ==
    ASSUME IInv, asked.op # "set", NEW k \in Keys, data[k] # Null
    PROVE  data[k] \in maybe[k]
  BY DEF IInv, Known, Stores

LEMMA ReturnSetStep == ASSUME IInv, ReturnSet PROVE IInv'
<1> DEFINE k == asked.key
           p == RouteTakes[asked.val]
<1>1. PICK r : Return(r)
  BY DEF ReturnSet
<1>2. /\ UNCHANGED <<data, pc, call, up, asked, client, strings, latest>>
      /\ transfer' = "none" /\ client # "destroyed"
      /\ OneRequest' /\ SetDone' /\ DelDone' /\ GetDone'
  BY <1>1, ReturnFrame DEF ReturnSet
<1>3. k \in Keys /\ p \in Payloads \cup {Null} /\ asked.op = "set"
  BY CallTypes DEF IInv, ReturnSet
<1>4. maybe' = AfterSet
  BY DEF ReturnSet
<1>5. CASE p = Null \/ SizeOf[p] > MaxMem \/ transfer = "no_handle"
  <2>1. maybe' = maybe
    BY <1>4, <1>5 DEF AfterSet
  <2>2. \A l \in Keys : data[l] # Null => data[l] \in maybe[l]
    BY <1>5, <1>3, Sizes DEF IInv, Known, Stores, AtServer, Failed
  <2>3. Types' /\ Known'
    BY <1>2, <2>1, <2>2 DEF IInv, Types, Known
  <2> QED BY <1>2, <2>3 DEF IInv, Owned
<1>6. CASE ~ (p = Null \/ SizeOf[p] > MaxMem \/ transfer = "no_handle")
  <2>1. maybe' = [maybe EXCEPT ![k] = IF Failed THEN maybe[k] \cup {p} ELSE {p}]
    BY <1>4, <1>6 DEF AfterSet
  <2>2. Types'
    BY <1>2, <1>3, <1>6, <2>1 DEF IInv, Types
  <2>3. ASSUME NEW l \in Keys, data[l] # Null PROVE data[l] \in maybe'[l]
    <3>1. CASE l # k
      BY <1>3, <2>1, <2>3, <3>1 DEF IInv, Types, Known, Stores
    <3>2. CASE l = k /\ Failed
      BY <1>3, <2>1, <2>3, <3>2 DEF IInv, Types, Known, Stores
    <3>3. CASE l = k /\ ~ Failed
      <4>1. transfer \in {"answered", "refused"}
        BY <1>1, <1>6, <3>3 DEF Return, Returned
      <4>2. SizeOf[p] <= MaxMem
        BY <1>3, <1>6, Sizes
      <4>3. CASE transfer = "answered"
        BY <1>3, <1>6, <2>1, <2>3, <3>3, <4>2, <4>3
           DEF IInv, Types, SetDone, OneRequest, AtServer, Crashed, Stores
      <4>4. CASE transfer = "refused"
        BY <1>3, <1>6, <4>4 DEF IInv, OneRequest, Routed
      <4> QED BY <4>1, <4>3, <4>4
    <3> QED BY <3>1, <3>2, <3>3
  <2>4. Known'
    BY <1>2, <2>3 DEF Known
  <2> QED BY <1>2, <2>2, <2>4 DEF IInv, Owned
<1> QED BY <1>5, <1>6

\* get appends a string: one it reads from the answer, of a value the client knows.
LEMMA HandOutStep ==
    ASSUME Types, Text \in Texts, asked.key \in Keys, HandOut(Text)
    PROVE  /\ strings' \in Seq([key : Keys, text : Texts, freed : BOOLEAN])
           /\ Len(strings) \in Nat /\ Len(strings') = Len(strings) + 1
           /\ \A i \in 1 .. Len(strings) : strings'[i] = strings[i]
           /\ strings'[Len(strings) + 1] = [key |-> asked.key, text |-> Text, freed |-> FALSE]
           /\ latest' \in [Keys -> Nat]
<1> DEFINE S == [key : Keys, text : Texts, freed : BOOLEAN]
           s == [key |-> asked.key, text |-> Text, freed |-> FALSE]
<1>1. strings \in Seq(S) /\ Len(strings) \in Nat /\ s \in S
  BY DEF Types
<1>2. strings' = Append(strings, s)
  BY DEF HandOut
<1>3. latest' \in [Keys -> Nat]
  BY <1>1 DEF Types, HandOut
<1> HIDE DEF S, s
<1>4. /\ strings' \in Seq(S) /\ Len(strings') = Len(strings) + 1
      /\ \A i \in 1 .. Len(strings) : strings'[i] = strings[i]
      /\ strings'[Len(strings) + 1] = s
  BY <1>1, <1>2
<1> QED BY <1>1, <1>3, <1>4 DEF S, s

LEMMA TextKnown ==
    ASSUME IInv, asked.op = "get", Text # Null
    PROVE  asked.key \in Keys /\ Text \in maybe[asked.key] \cup {NullText} /\ Text \in Texts
<1>1. asked.key \in Keys
  BY CallTypes DEF IInv
<1>2. transfer = "answered"
  BY DEF Text
<1>3. call.val \in maybe[asked.key] \cup {Null}
  BY <1>2 DEF IInv, OneRequest, GetDone, AtServer, Crashed
<1>4. Text \in maybe[asked.key] \cup {NullText}
  BY <1>2, <1>3 DEF Text
<1>5. maybe[asked.key] \subseteq Payloads
  BY <1>1 DEF IInv, Types
<1> QED BY <1>1, <1>4, <1>5 DEF Texts

LEMMA ReturnGetStep == ASSUME IInv, ReturnGet PROVE IInv'
<1>1. PICK r : Return(r)
  BY DEF ReturnGet
<1>2. /\ UNCHANGED <<data, pc, call, up, asked, client, maybe>>
      /\ transfer' = "none" /\ client # "destroyed"
      /\ OneRequest' /\ SetDone' /\ DelDone' /\ GetDone'
  BY <1>1, ReturnFrame DEF ReturnGet
<1>3. Known'
  BY <1>2, StillKnown DEF Known, ReturnGet
<1>4. CASE UNCHANGED <<strings, latest>>
  BY <1>2, <1>3, <1>4 DEF IInv, Types, Owned
<1>5. CASE Text # Null /\ HandOut(Text)
  <2>1. asked.key \in Keys /\ Text \in Texts
    BY <1>5, TextKnown DEF ReturnGet
  <2>2. /\ strings' \in Seq([key : Keys, text : Texts, freed : BOOLEAN])
        /\ Len(strings) \in Nat /\ Len(strings') = Len(strings) + 1
        /\ \A i \in 1 .. Len(strings) : strings'[i] = strings[i]
        /\ ~ strings'[Len(strings) + 1].freed
        /\ latest' \in [Keys -> Nat]
    BY <1>5, <2>1, HandOutStep DEF IInv
  <2>3. Types'
    BY <1>2, <2>2 DEF IInv, Types
  <2>4. \A i \in 1 .. Len(strings') : i \in 1 .. Len(strings) \/ i = Len(strings) + 1
    BY <2>2
  <2>5. Owned'
    BY <1>2, <2>2, <2>4 DEF IInv, Owned
  <2> QED BY <1>2, <1>3, <2>3, <2>5 DEF IInv
<1> QED BY <1>4, <1>5 DEF ReturnGet

LEMMA ReturnDelStep == ASSUME IInv, ReturnDel PROVE IInv'
<1> DEFINE k == asked.key
<1>1. PICK r : Return(r)
  BY DEF ReturnDel
<1>2. /\ UNCHANGED <<data, pc, call, up, asked, client, strings, latest>>
      /\ transfer' = "none" /\ client # "destroyed"
      /\ OneRequest' /\ SetDone' /\ DelDone' /\ GetDone'
  BY <1>1, ReturnFrame DEF ReturnDel
<1>3. k \in Keys /\ asked.op = "del" /\ maybe' = AfterDel
  BY CallTypes DEF IInv, ReturnDel
<1>4. maybe' \in [Keys -> SUBSET Payloads]
  BY <1>3 DEF IInv, Types, AfterDel
<1>5. ASSUME NEW l \in Keys, data[l] # Null PROVE data[l] \in maybe'[l]
  <2>1. data[l] \in maybe[l]
    BY <1>3, <1>5, StillKnown
  <2>2. CASE transfer = "answered"
    <3>1. data[k] = Null
      BY <1>3, <2>2 DEF IInv, OneRequest, DelDone, AtServer, Crashed
    <3> QED BY <1>3, <1>5, <2>1, <2>2, <3>1 DEF AfterDel, IInv, Types
  <2> QED BY <1>3, <2>1, <2>2 DEF AfterDel
<1>6. Types' /\ Known' /\ Owned'
  BY <1>2, <1>4, <1>5 DEF IInv, Types, Known, Owned
<1> QED BY <1>2, <1>6 DEF IInv

\* The other calls leave what the client knows as it is.
LEMMA ReturnOtherStep ==
    ASSUME IInv, ReturnSpaceUsed \/ ReturnShutdown \/ ReturnHeader
    PROVE  IInv'
<1>1. PICK r : Return(r)
  BY DEF ReturnSpaceUsed, ReturnShutdown, ReturnHeader
<1>2. /\ UNCHANGED <<data, pc, call, up, asked>>
      /\ transfer' = "none" /\ client # "destroyed"
      /\ OneRequest' /\ SetDone' /\ DelDone' /\ GetDone'
  BY <1>1, ReturnFrame
<1>3. /\ UNCHANGED <<strings, latest, maybe>> /\ client' \in {"alive", "terminated", client}
      /\ asked.op # "set"
  BY DEF ReturnSpaceUsed, ReturnShutdown, ReturnHeader
<1>4. Types' /\ Owned'
  BY <1>2, <1>3 DEF IInv, Types, Owned
<1>5. Known'
  BY <1>2, <1>3, StillKnown DEF Known
<1> QED BY <1>2, <1>4, <1>5 DEF IInv

LEMMA DestroyStep == ASSUME IInv, Destroy PROVE IInv'
<1>1. /\ UNCHANGED <<data, pc, call, up, asked, transfer, latest, maybe>>
      /\ transfer = "none" /\ client' = "destroyed"
  BY DEF Destroy, serverVars
<1> DEFINE S == [key : Keys, text : Texts, freed : BOOLEAN]
           mark(i) == [strings[i] EXCEPT !.freed = latest[strings[i].key] = i]
<1>2. strings \in Seq(S) /\ Len(strings) \in Nat
  BY DEF IInv, Types
<1>3. \A i \in 1 .. Len(strings) : strings[i] \in S
  <2> HIDE DEF S
  <2> QED BY <1>2
<1>4. \A i \in 1 .. Len(strings) :
          /\ mark(i) \in S /\ mark(i).key = strings[i].key
          /\ mark(i).freed = (latest[strings[i].key] = i)
  BY <1>3
<1>5. strings' = [i \in 1 .. Len(strings) |-> mark(i)]
  BY DEF Destroy
<1> HIDE DEF mark, S
<1>6. strings' \in Seq(S) /\ Len(strings') = Len(strings)
  BY <1>2, <1>4, <1>5
<1>7. Types'
  BY <1>1, <1>6 DEF IInv, Types, S
<1>8. Owned'
  BY <1>1, <1>4, <1>5, <1>6 DEF Owned
<1>9. Known' /\ OneRequest' /\ SetDone' /\ DelDone' /\ GetDone'
  BY <1>1 DEF IInv, Known, OneRequest, SetDone, DelDone, GetDone, Stores, AtServer, Failed,
              Crashed, Routed
<1> QED BY <1>7, <1>8, <1>9 DEF IInv

-----------------------------------------------------------------------------
LEMMA NextIInv == IInv /\ [Next]_vars => IInv'
<1> SUFFICES ASSUME IInv, [Next]_vars PROVE IInv'
  OBVIOUS
<1>1. CASE UNCHANGED vars
  BY <1>1 DEF vars, serverVars, clientVars, IInv, Types, Known, OneRequest, SetDone, DelDone,
              GetDone, Owned, Stores, AtServer, Failed, Crashed, Routed
<1>2. CASE ClientReturns
  BY <1>2, ReturnSetStep, ReturnGetStep, ReturnDelStep, ReturnOtherStep DEF ClientReturns
<1> QED BY <1>1, <1>2, AskStep, ArriveStep, EvictStep, TransferStep, DestroyStep DEF Next

\* The inductive invariant of the client and its server (testing_client.cc).
THEOREM Invariance == Spec => []IInv
  BY InitIInv, NextIInv, PTL DEF Spec

\* No string that get has handed out is freed while the client lives, and
\* ~Impl then frees the last one of each key and leaks the others
\* (testing_client.cc get, ~Impl).
THEOREM StringsKeptHolds == Spec => []StringsKept
<1>1. IInv => StringsKept
  BY DEF IInv, Owned, StringsKept
<1> QED BY <1>1, Invariance, PTL

\* However transfers fail, a get hands out a payload some set may still have
\* stored, or the text NULL: never one that a later answer had replaced
\* (testing_client.cc set, get and del, each one HTTP request).
THEOREM ReadsWritesHolds == Spec => ReadsWrites
<1> DEFINE Fresh == \A i \in 1 .. Len(strings') : i > Len(strings) =>
                        strings'[i].text \in maybe[strings'[i].key] \cup {NullText}
<1>1. ASSUME IInv, [Next]_vars PROVE [Fresh]_vars
  <2>1. CASE UNCHANGED strings
    BY <2>1
  <2>2. CASE asked.op = "get" /\ Text # Null /\ HandOut(Text)
    <3>1. asked.key \in Keys /\ Text \in maybe[asked.key] \cup {NullText} /\ Text \in Texts
      BY <1>1, <2>2, TextKnown
    <3>2. /\ Len(strings) \in Nat /\ Len(strings') = Len(strings) + 1
          /\ strings'[Len(strings) + 1] = [key |-> asked.key, text |-> Text, freed |-> FALSE]
      BY <1>1, <2>2, <3>1, HandOutStep DEF IInv
    <3> QED BY <3>1, <3>2
  <2>3. CASE Destroy
    BY <2>3 DEF Destroy, IInv, Types
  <2> QED BY <1>1, <2>1, <2>2, <2>3
         DEF Next, ClientReturns, Ask, Arrive, Evict, Answer, Lose, Die, ReturnSet, ReturnGet,
             ReturnDel, ReturnSpaceUsed, ReturnShutdown, ReturnHeader, clientVars, vars
<1>2. IInv /\ [Next]_vars => [Fresh]_vars
  BY <1>1
<1> QED BY <1>2, Invariance, PTL DEF Spec, ReadsWrites

\* The server's cache, driven by a client whose transfers fail at any point between
\* two calls, moves only as module Cache lets it: what holds there of every sequence
\* of calls holds under the client (testing_client.cc, one request for each call).
THEOREM ServerIsCache == Spec => Server!Init /\ [][Server!Next]_(Server!vars)
<1>1. Init => Server!Init
  BY DEF Init
<1>2. ASSUME IInv, [Next]_vars PROVE [Server!Next]_(Server!vars)
  <2>1. CASE Arrive /\ Routed
    <3>1. Executed
      BY <2>1 DEF Arrive
    <3>2. CASE asked.op = "set"
      <4>1. asked.key \in Keys /\ RouteTakes[asked.val] \in Payloads
        BY <1>2, <2>1, <3>2, CallTypes DEF IInv, Routed
      <4>2. Server!Set(asked.key, RouteTakes[asked.val])
        BY <3>1, <3>2 DEF Executed
      <4> QED BY <4>1, <4>2 DEF Server!Next
    <3>3. CASE asked.op \in {"get", "header", "del"}
      <4>1. asked.key \in Keys
        BY <1>2, <3>3, CallTypes DEF IInv
      <4>2. Server!Get(asked.key) \/ Server!Del(asked.key)
        BY <3>1, <3>3 DEF Executed
      <4> QED BY <4>1, <4>2 DEF Server!Next
    <3>4. CASE asked.op \notin {"set", "get", "header", "del"}
      BY <3>1, <3>4 DEF Executed, Server!Next, Server!vars, serverVars
    <3> QED BY <3>2, <3>3, <3>4
  <2>2. CASE Evict
    BY <2>2 DEF Evict, Server!Next
  <2>3. CASE UNCHANGED serverVars
    BY <2>3 DEF serverVars, Server!vars
  <2> QED BY <1>2, <2>1, <2>2, <2>3
         DEF Next, ClientReturns, Ask, Arrive, Answer, Lose, Die, Return, ReturnSet, ReturnGet,
             ReturnDel, ReturnSpaceUsed, ReturnShutdown, ReturnHeader, Destroy, vars
<1>3. IInv /\ [Next]_vars => [Server!Next]_(Server!vars)
  BY <1>2
<1> QED BY <1>1, <1>3, Invariance, PTL DEF Spec

-----------------------------------------------------------------------------
(***************************************************************************)
(* The programs that call the library: the counters of the two load        *)
(* generators of Workloads, for every size.  After its first step the ETC  *)
(* program draws from one less than what is left, which is why no counter  *)
(* is drawn below zero: each of the three intervals has no more numbers    *)
(* than its counter says.                                                  *)
(***************************************************************************)

\* Facts of arithmetic.
LEMMA Between ==
    ASSUME NEW f \in Int, NEW s \in Int, NEW k \in Int, NEW t \in Int,
           s <= f, k <= s, f <= k, s <= t + 1
    PROVE  k = f /\ t + 1 >= f
  OBVIOUS

LEMMA OneLess ==
    ASSUME NEW g \in Nat, NEW s \in Nat, NEW d \in Nat,
           NEW g1 \in Nat, NEW s1 \in Nat, NEW d1 \in Nat, NEW l \in Int, l > 0,
           g1 + s1 + d1 = g + s + d - 1,
           \/ g + s + d > 0 /\ l = g + s + d - 1
           \/ d > 1 /\ l = g + s + d
    PROVE  g1 + s1 + d1 > 0 /\ g1 + s1 + d1 - 1 \in Int
  OBVIOUS

EtcInv ==
    program = "etc" =>
        /\ phase = "run" /\ key = -1
        /\ gets \in Nat /\ sets \in Nat /\ dels \in Nat /\ left \in Int /\ plan.total \in Nat
        /\ plan.total = 0 => gets + sets + dels = 0 /\ left = 0
        /\ plan.total # 0 =>
            \/ gets + sets + dels > 0 /\ left = gets + sets + dels - 1
            \/ dels > 1 /\ left = gets + sets + dels

LoadInv ==
    program = "load" =>
        /\ phase \in {"fill", "rehearse", "run", "crashed"}
        /\ plan.sets \in Nat /\ sets \in Nat /\ filled \in Nat /\ key \in Int
        /\ sets <= plan.sets
        /\ phase = "fill" => sets = plan.sets /\ filled <= plan.sets
        /\ phase \in {"rehearse", "run"} => filled = plan.sets
        /\ phase \in {"fill", "rehearse"} => key = -1
        /\ phase = "crashed" => plan.sets >= Table
        /\ key >= filled => key = filled /\ sets + 1 >= plan.sets

PlanInv == program \in {"etc", "load"} /\ EtcInv /\ LoadInv

\* The sizes are natural numbers, so the plans are.
LEMMA InitPlan == ASSUME WorkInit PROVE PlanInv
<1> USE WorkloadAssumption
<1>1. CASE EtcInit
  BY <1>1 DEF EtcInit, PlanInv, EtcInv, LoadInv
<1>2. CASE LoadInit
  <2>1. left \in Nat
    BY <1>2 DEF LoadInit
  <2>2. left \div 10 \in Nat
    BY <2>1
  <2>3. sets \in Nat /\ plan.sets = sets /\ key = -1 /\ filled = 0
    BY <1>2, <2>2 DEF LoadInit
  <2> QED BY <1>2, <2>3 DEF LoadInit, PlanInv, EtcInv, LoadInv
<1> QED BY <1>1, <1>2 DEF WorkInit

\* A step of cache_ETC.cc takes one from a counter that has one.
LEMMA EtcStep ==
    ASSUME PlanInv, EtcGet \/ EtcSet \/ EtcDel
    PROVE  PlanInv'
<1>1. PICK act \in 1 .. left :
        /\ EtcDraw(act)
        /\ \/ act < gets /\ gets' = gets - 1 /\ UNCHANGED <<sets, dels>>
           \/ act >= gets /\ act < gets + sets /\ sets' = sets - 1 /\ UNCHANGED <<gets, dels>>
           \/ act >= gets + sets /\ dels' = dels - 1 /\ UNCHANGED <<gets, sets>>
  BY DEF EtcGet, EtcSet, EtcDel
<1>2. /\ program = "etc" /\ program' = "etc" /\ phase' = phase /\ key' = key /\ plan' = plan
      /\ left > 0 /\ left' = gets' + sets' + dels' - 1
  BY <1>1 DEF EtcDraw, EtcNext, loadVars
<1>3. /\ gets \in Nat /\ sets \in Nat /\ dels \in Nat /\ left \in Int /\ plan.total \in Nat
      /\ plan.total # 0 /\ phase = "run" /\ key = -1
      /\ \/ gets + sets + dels > 0 /\ left = gets + sets + dels - 1
         \/ dels > 1 /\ left = gets + sets + dels
  BY <1>2 DEF PlanInv, EtcInv
<1>4. act \in Int /\ 1 <= act /\ act <= left
  BY <1>3
<1>5. gets' \in Nat /\ sets' \in Nat /\ dels' \in Nat /\ gets' + sets' + dels' = gets + sets + dels - 1
  BY <1>1, <1>3, <1>4
<1>6. gets' + sets' + dels' > 0 /\ gets' + sets' + dels' - 1 \in Int
  <2>1. /\ gets \in Nat /\ sets \in Nat /\ dels \in Nat /\ left \in Int /\ left > 0
        /\ gets' \in Nat /\ sets' \in Nat /\ dels' \in Nat
    BY <1>2, <1>3, <1>5
  <2>2. gets' + sets' + dels' = gets + sets + dels - 1
    BY <1>5
  <2>3. \/ gets + sets + dels > 0 /\ left = gets + sets + dels - 1
        \/ dels > 1 /\ left = gets + sets + dels
    BY <1>3
  <2> QED BY <2>1, <2>2, <2>3, OneLess, Zenon
<1>7. EtcInv'
  <2>1. plan'.total \in Nat /\ plan'.total # 0 /\ phase' = "run" /\ key' = -1
    BY <1>2, <1>3
  <2>2. gets' + sets' + dels' > 0 /\ left' = gets' + sets' + dels' - 1 /\ left' \in Int
    BY <1>2, <1>6
  <2> QED BY <1>5, <2>1, <2>2 DEF EtcInv
<1> QED BY <1>2, <1>7 DEF PlanInv, LoadInv

\* A step of cache_load.cc stays within the plan, and the table holds the plan.
LEMMA LoadStep ==
    ASSUME PlanInv,
           \/ LoadFill \/ LoadFilled \/ LoadRehearse
           \/ LoadStart \/ LoadRequest
    PROVE  PlanInv'
<1> USE WorkloadAssumption
<1>1. program = "load" /\ program' = "load" /\ LoadInv
  BY DEF PlanInv, EtcInv, LoadFill, LoadFilled, LoadRehearse, LoadStart,
         LoadRequest
<1>2. CASE LoadFill
  BY <1>1, <1>2 DEF LoadFill, LoadInv, PlanInv, EtcInv
<1>3. CASE LoadFilled
  BY <1>1, <1>3 DEF LoadFilled, loadVars, LoadInv, PlanInv, EtcInv
<1>4. CASE LoadRehearse
  BY <1>1, <1>4 DEF LoadRehearse, loadVars, LoadInv, PlanInv, EtcInv
<1>5. CASE LoadStart
  BY <1>1, <1>5 DEF LoadStart, loadVars, LoadInv, PlanInv, EtcInv
<1>6. CASE LoadRequest
  <2>1. /\ phase = "run" /\ filled' = filled /\ plan' = plan /\ filled = plan.sets
        /\ sets \in Nat /\ sets <= plan.sets /\ plan.sets \in Nat
    BY <1>1, <1>6 DEF LoadRequest, LoadInv
  <2>2. PICK c \in 0 .. sets :
          \/ sets > 0 /\ key' = c /\ sets' = sets - 1
          \/ key' \in {c, -1} /\ sets' = sets
    BY <1>6 DEF LoadRequest
  <2>3. /\ key' \in Int /\ key' <= sets /\ sets' \in Nat /\ sets' <= sets /\ sets <= sets' + 1
    BY <2>1, <2>2
  <2>4. phase' = IF key' >= Table THEN "crashed" ELSE phase
    BY <1>6 DEF LoadRequest
  <2>5. key' >= filled' => key' = filled' /\ sets' + 1 >= plan'.sets
    <3>1. filled \in Nat /\ sets <= filled /\ filled' = filled /\ plan'.sets = filled
      BY <2>1
    <3>2. key' >= filled => key' = filled /\ sets' + 1 >= filled
      <4> SUFFICES ASSUME key' >= filled PROVE key' = filled /\ sets' + 1 >= filled
        OBVIOUS
      <4>1. filled \in Int /\ sets \in Int /\ key' \in Int /\ sets' \in Int
        BY <2>1, <2>3, <3>1
      <4>2. filled <= key'
        BY <2>3, <3>1
      <4> QED BY <4>1, <4>2, <2>3, <3>1, Between, Zenon
    <3> QED BY <3>1, <3>2
  <2>6. phase' = "crashed" => plan'.sets >= Table
    BY <2>1, <2>3, <2>4
  <2>7. phase' \in {"run", "crashed"} /\ sets' <= plan'.sets
    BY <2>1, <2>3, <2>4
  <2>8. LoadInv'
    BY <1>1, <2>1, <2>3, <2>5, <2>6, <2>7 DEF LoadInv
  <2> QED BY <1>1, <2>8 DEF PlanInv, EtcInv
<1> QED BY <1>2, <1>3, <1>4, <1>5, <1>6

\* The counters stay within the plan.
LEMMA PlanKept == WorkSpec => []PlanInv
<1>1. PlanInv /\ [WorkNext]_workVars => PlanInv'
  <2>1. PlanInv /\ UNCHANGED workVars => PlanInv'
    BY DEF PlanInv, EtcInv, LoadInv, workVars
  <2> QED BY <2>1, EtcStep, LoadStep DEF WorkNext
<1>2. WorkInit => PlanInv
  BY InitPlan
<1> QED BY <1>1, <1>2, PTL DEF WorkSpec

\* cache_ETC.cc draws no counter below zero, for any argument.
THEOREM EtcWithinPlanHolds == WorkSpec => []EtcWithinPlan
<1>1. PlanInv => EtcWithinPlan
  BY DEF PlanInv, EtcInv, EtcWithinPlan
<1> QED BY <1>1, PlanKept, PTL

\* cache_ETC.cc leaves exactly one request of its plan undone.
THEOREM EtcAllButOneHolds == WorkSpec => []EtcAllButOne
<1>1. PlanInv => EtcAllButOne
  BY DEF PlanInv, EtcInv, EtcAllButOne
<1> QED BY <1>1, PlanKept, PTL

\* cache_load.cc stays in its table if that holds the sets it plans.
THEOREM TableSufficesHolds == WorkSpec => []TableSuffices
<1>1. PlanInv => TableSuffices
  BY DEF PlanInv, EtcInv, LoadInv, TableSuffices
<1> QED BY <1>1, PlanKept, PTL

\* cache_load.cc uses at most the one key past those it has made up.
THEOREM KeysMadeUpHolds == WorkSpec => []KeysMadeUp
<1>1. PlanInv => KeysMadeUp
  BY DEF PlanInv, LoadInv, KeysMadeUp
<1> QED BY <1>1, PlanKept, PTL
=============================================================================
