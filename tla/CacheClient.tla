---------------------------- MODULE CacheClient ----------------------------
(***************************************************************************)
(* The client library (testing_client.cc): the interface of cache.hh again,*)
(* each call one HTTP request to a server that holds module Cache, over a  *)
(* connection that may fail before the server has the request or after it  *)
(* has executed it.  Also the two helpers shutdown_server and ret_header.  *)
(*                                                                         *)
(* One client makes calls, one after the other.  Keys are names the routes *)
(* take as they are.  Of a value, RouteTakes says what the server gets to  *)
(* store: nothing if the URL /key/k/v fits no route (an empty value, one   *)
(* with a slash), a part of it if it has a question mark.  A payload is    *)
(* Quotable unless it breaks the JSON text of the answer to GET.           *)
(***************************************************************************)
EXTENDS MachineInts, Sequences

CONSTANTS
    Keys, Payloads, SizeOf, MaxMem, Null,    \* module Cache's
    Values, RouteTakes, Quotable,
    HeaderKey,                               \* "howdy"
    NullText,                                \* the text "NULL"
    MaxCalls                                 \* bound: calls a client makes

ASSUME ClientAssumption ==
    /\ SizeOf \in [Payloads -> UInt] /\ MaxMem \in UInt
    /\ RouteTakes \in [Values -> Payloads \cup {Null}]
    /\ Null \notin Payloads /\ Null \notin Keys
    /\ HeaderKey \in Keys

VARIABLES
    data, queue, orphans, memused, pc, call, \* the server's cache
    up,         \* the server is running
    asked,      \* the client's call in progress, or its last one
    transfer,   \* how far its request has come
    ret,        \* what the last call returned
    client,     \* "alive", "destroyed" or "terminated" by an exception
    strings,    \* the strings get has allocated, in order
    latest,     \* data_ of the client: which of them it remembers for a key
    maybe,      \* history: the payloads a get of each key may still find
    calls

serverVars == <<data, queue, orphans, memused, pc, call>>
clientVars == <<ret, client, strings, latest, maybe>>
vars == <<serverVars, up, asked, transfer, clientVars, calls>>

Server == INSTANCE Cache

Asked(op, k, v) == [op |-> op, key |-> k, val |-> v]

Calls ==
    {Asked("set", k, v) : k \in Keys, v \in Values}
    \cup {Asked(op, k, Null) : op \in {"get", "del"}, k \in Keys}
    \cup {Asked("space_used", Null, Null), Asked("shutdown", Null, Null),
          Asked("header", HeaderKey, Null)}

Init ==
    /\ Server!Init
    /\ up = TRUE
    /\ asked = Asked("none", Null, Null)
    /\ transfer = "none"
    /\ ret = 0
    /\ client = "alive"
    /\ strings = <<>>
    /\ latest = [k \in Keys |-> 0]
    /\ maybe = [k \in Keys |-> {}]
    /\ calls = 0

-----------------------------------------------------------------------------
\* The transfer.

\* A call starts.  Without a handle from curl_easy_init nothing is sent.
Ask ==
    /\ client = "alive" /\ transfer = "none" /\ calls < MaxCalls
    /\ asked' \in Calls
    /\ transfer' \in {"requested", "no_handle"}
    /\ calls' = calls + 1
    /\ UNCHANGED <<serverVars, up, clientVars>>

Routed == asked.op # "set" \/ RouteTakes[asked.val] # Null

Executed ==
    CASE asked.op = "set" -> Server!Set(asked.key, RouteTakes[asked.val])
      [] asked.op \in {"get", "header"} -> Server!Get(asked.key)
      [] asked.op = "del" -> Server!Del(asked.key)
      [] asked.op = "space_used" -> Server!SpaceUsed
      [] OTHER -> UNCHANGED serverVars

\* The server runs the handler, or answers 404 if there is none.
Arrive ==
    /\ transfer = "requested" /\ up
    /\ IF Routed THEN Executed /\ transfer' = "executing"
                 ELSE UNCHANGED serverVars /\ transfer' = "refused"
    /\ up' = (asked.op # "shutdown")
    /\ UNCHANGED <<asked, clientVars, calls>>

Evict ==
    /\ transfer = "executing"
    /\ Server!Evict \/ Server!SetReturn
    /\ UNCHANGED <<up, asked, transfer, clientVars, calls>>

Answer ==
    /\ transfer = "executing" /\ pc = "idle"
    /\ transfer' = "answered"
    /\ UNCHANGED <<serverVars, up, asked, clientVars, calls>>

\* The connection fails, before the server has the request or after it has
\* executed it; an answer may be lost after the client has all of its body
\* ("cut_short").  That it fails while the handler runs, so that the next request
\* overlaps it, is left to CacheServer.
Lose ==
    /\ \/ transfer = "requested" /\ transfer' = "failed"
       \/ transfer \in {"executing", "refused", "answered"} /\ pc = "idle" /\ transfer' = "failed"
       \/ transfer = "answered" /\ transfer' = "cut_short"
    /\ UNCHANGED <<serverVars, up, asked, clientVars, calls>>

\* The server has died in the call, and every connection with it.
Die ==
    /\ pc \in {"segfault", "corrupted"} /\ up
    /\ up' = FALSE
    /\ transfer' = "failed"
    /\ UNCHANGED <<serverVars, asked, clientVars, calls>>

-----------------------------------------------------------------------------
\* What the functions of the library make of it.

Failed == transfer \in {"failed", "cut_short"}
Returned == transfer # "none" /\ (Failed \/ transfer \in {"answered", "refused", "no_handle"})

Return(r) ==
    /\ Returned
    /\ ret' = r
    /\ transfer' = "none"
    /\ UNCHANGED <<serverVars, up, asked, calls>>

\* A set that was executed has replaced the value, unless it is too large; of
\* one whose transfer failed the client does not know.
AfterSet ==
    LET p == RouteTakes[asked.val] IN
    IF p = Null \/ SizeOf[p] > MaxMem \/ transfer = "no_handle" THEN maybe
    ELSE [maybe EXCEPT ![asked.key] = IF Failed THEN @ \cup {p} ELSE {p}]

\* set: 1 if the transfer failed, otherwise 0, whatever the server answered.
ReturnSet ==
    /\ asked.op = "set"
    /\ Return(IF Failed THEN 1 ELSE 0)
    /\ maybe' = AfterSet
    /\ UNCHANGED <<client, strings, latest>>

\* The value in the answer to GET; Null if there is no answer or it does not parse.
Text ==
    IF transfer # "answered" THEN Null
    ELSE IF call.val = Null THEN NullText
    ELSE IF Quotable[call.val] THEN call.val ELSE Null

\* Fault: the previous string of the key is deleted.
HandOutOnce(text) ==
    /\ strings' = Append([i \in 1..Len(strings) |->
                    [strings[i] EXCEPT !.freed = @ \/ strings[i].key = asked.key]],
                         [key |-> asked.key, text |-> text, freed |-> FALSE])
    /\ latest' = [latest EXCEPT ![asked.key] = Len(strings) + 1]

\* data_[key] = new std::string(valler): the last string of the key is forgotten.
HandOut(text) ==
    /\ strings' = Append(strings, [key |-> asked.key, text |-> text, freed |-> FALSE])
    /\ latest' = [latest EXCEPT ![asked.key] = Len(strings) + 1]

\* get: NULL or the number of the string.
ReturnGet ==
    /\ asked.op = "get"
    /\ IF Text = Null THEN Return(0) /\ UNCHANGED <<strings, latest>>
                      ELSE Return(Len(strings) + 1) /\ HandOut(Text)
    /\ UNCHANGED <<client, maybe>>

\* An answer to DELETE, 200 or 404, means that the key is gone.
AfterDel == IF transfer = "answered" THEN [maybe EXCEPT ![asked.key] = {}] ELSE maybe

\* del: 1 if the transfer failed, otherwise 0, whatever the server answered.
ReturnDel ==
    /\ asked.op = "del"
    /\ Return(IF Failed THEN 1 ELSE 0)
    /\ maybe' = AfterDel
    /\ UNCHANGED <<client, strings, latest>>

\* space_used: an answer cut short is parsed all the same; stoi throws from 2^31 on.
ReturnSpaceUsed ==
    /\ asked.op = "space_used"
    /\ Return(IF transfer \in {"answered", "cut_short"} THEN call.num ELSE 0)
    /\ client' = IF transfer \in {"answered", "cut_short"} /\ call.num >= SignBit
                 THEN "terminated" ELSE "alive"
    /\ UNCHANGED <<strings, latest, maybe>>

\* shutdown_server reports a failure and returns nothing.
ReturnShutdown ==
    /\ asked.op = "shutdown"
    /\ Return(0)
    /\ UNCHANGED <<client, strings, latest, maybe>>

\* ret_header: return NULL, for a std::string, throws.
ReturnHeader ==
    /\ asked.op = "header"
    /\ Return(0)
    /\ client' = IF Failed THEN "terminated" ELSE "alive"
    /\ UNCHANGED <<strings, latest, maybe>>

\* ~Impl deletes the strings it remembers.
Destroy ==
    /\ client = "alive" /\ transfer = "none"
    /\ client' = "destroyed"
    /\ strings' = [i \in 1..Len(strings) |->
                    [strings[i] EXCEPT !.freed = latest[strings[i].key] = i]]
    /\ UNCHANGED <<serverVars, up, asked, transfer, ret, latest, maybe, calls>>

-----------------------------------------------------------------------------
ClientReturns ==
    \/ ReturnSet \/ ReturnGet \/ ReturnDel
    \/ ReturnSpaceUsed \/ ReturnShutdown \/ ReturnHeader

Next == Ask \/ Arrive \/ Evict \/ Answer \/ Lose \/ Die \/ ClientReturns \/ Destroy

\* The server works, a connection to a server that is gone fails, curl returns.
Fairness ==
    /\ WF_vars(Arrive) /\ WF_vars(Evict) /\ WF_vars(Answer) /\ WF_vars(Die)
    /\ WF_vars(~ up /\ Lose)
    /\ WF_vars(ClientReturns)

Spec == Init /\ [][Next]_vars /\ Fairness

-----------------------------------------------------------------------------
\* Properties

\* The type of the state.
TypeOK ==
    /\ asked \in Calls \cup {Asked("none", Null, Null)}
    /\ transfer \in {"none", "no_handle", "requested", "executing", "refused", "answered",
                     "failed", "cut_short"}
    /\ client \in {"alive", "destroyed", "terminated"}
    /\ \A i \in 1..Len(strings) : strings[i].text \in Payloads \cup {NullText}
    /\ maybe \in [Keys -> SUBSET Payloads]

\* A get finds the value of a set that may have been the last to take effect,
\* or none: never one that a set or del the server answered has replaced, even
\* when transfers failed in between and the set was executed all the same.
ReadsWrites ==
    [][\A i \in 1..Len(strings') : i > Len(strings) =>
            strings'[i].text \in maybe[strings'[i].key] \cup {NullText}]_vars

\* A string handed out stays valid as long as the client lives, whatever is set,
\* deleted or looked up; its destruction frees the last one of each key.
StringsKept ==
    \A i \in 1..Len(strings) :
        strings[i].freed <=> client = "destroyed" /\ latest[strings[i].key] = i

\* Every call returns, also when the server dies in it or has been shut down.
CallsReturn == transfer # "none" ~> transfer = "none"
=============================================================================
