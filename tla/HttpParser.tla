----------------------------- MODULE HttpParser -----------------------------
(***************************************************************************)
(* http_parser_execute and HTTPParser (crow.h): a connection's bytes come  *)
(* in pieces cut anywhere, the parser keeps its state between them and     *)
(* reports URL, header fields, header values and body piecewise to         *)
(* callbacks, from which HTTPParser puts requests together.                *)
(*                                                                         *)
(* A text is a sequence of symbols.  A method and a version are one symbol,*)
(* the header names and values the parser looks for are two or more, so    *)
(* that pieces may end within them; other symbols stand for characters.    *)
(* URLs are paths, and nothing parses an HTTP/0.9 request or a method other*)
(* than GET.                                                               *)
(*                                                                         *)
(* The parser is fed as long as feed returns true.  A connection may stop  *)
(* sooner: then what is left of the text is not parsed.                    *)
(***************************************************************************)
EXTENDS Integers, Sequences, SequencesExt, FiniteSets

CONSTANTS
    Scripts,     \* the sequences of messages a peer may send
    MaxHeader,   \* CROW_HTTP_MAX_HEADER_SIZE
    Null

ASSUME ParserAssumption == MaxHeader \in Nat /\ Null \notin Nat

VARIABLES
    sent,        \* the messages whose text this run parses
    todo,        \* what of the text the parser has not yet seen
    parser,      \* HTTPParser, with the marks of the piece in progress
    returned     \* http_parser_execute has returned, whether or not its piece ends here

vars == <<sent, todo, parser, returned>>

-----------------------------------------------------------------------------
\* Symbols and words.

Digit == [d \in {"0", "1", "2"} |-> CASE d = "0" -> 0 [] d = "1" -> 1 [] d = "2" -> 2]
Versions == {"HTTP/1.0", "HTTP/1.1"}
Token(ch) == ch \notin {"SP", "CR", "LF", ":", ";", "(", "/"} \cup Versions     \* CROW_TOKEN

Connection == <<"con", "nection">>
ContentLength == <<"con", "tent-length">>
TransferEncoding == <<"transfer", "-encoding">>
Upgrade == <<"up", "grade">>
Close == <<"clo", "se">>
KeepAlive == <<"keep", "-alive">>
Chunked == <<"chu", "nked">>

Names == {Connection, ContentLength, TransferEncoding, Upgrade}
Sought == {Connection \o Close, Connection \o KeepAlive, TransferEncoding \o Chunked}
General == <<"general">>

\* header_state: what has been matched of a name or, after one, of a value.
Matching(seen, ch, words) ==
    IF \E w \in words : IsPrefix(Append(seen, ch), w) THEN Append(seen, ch) ELSE General

-----------------------------------------------------------------------------
\* The callbacks.  s is the parser as the statements so far have left it.

Kinds == {"url", "field", "value", "body"}
NoRequest == [url |-> <<>>, headers |-> <<>>, body |-> <<>>]

Mark(s, kind) == [s EXCEPT !.marks[kind] = IF @ = Null THEN <<>> ELSE @]

\* on_message_begin
Begin(s) == [s EXCEPT !.req = NoRequest, !.building = 0, !.field = <<>>, !.value = <<>>]

\* Fault: a piece of a name replaces what came before.
AssignField(s, at) ==
    [s EXCEPT !.req.headers = IF s.building = 0 /\ s.value # <<>>
                              THEN Append(@, <<s.field, s.value>>) ELSE @,
              !.value = IF s.building = 0 THEN <<>> ELSE @, !.field = at, !.building = 1]

\* on_header_field: the header before is complete; one without a value is dropped.
OnField(s, at) ==
    IF s.building = 1 THEN [s EXCEPT !.field = @ \o at]
    ELSE [s EXCEPT !.req.headers = IF s.value # <<>> THEN Append(@, <<s.field, s.value>>) ELSE @,
                   !.value = <<>>, !.field = at, !.building = 1]

\* on_header_value
OnValue(s, at) == [s EXCEPT !.value = IF s.building = 0 THEN @ \o at ELSE at, !.building = 0]

\* on_headers_complete
OnHeaders(s) ==
    IF s.field = <<>> THEN s
    ELSE [s EXCEPT !.req.headers = Append(@, <<s.field, s.value>>), !.field = <<>>, !.value = <<>>]

OnUrl(s, at) == [s EXCEPT !.req.url = @ \o at]
OnBody(s, at) == [s EXCEPT !.req.body = @ \o at]

Callback(s, kind, at) ==
    CASE kind = "url" -> OnUrl(s, at)
      [] kind = "field" -> OnField(s, at)
      [] kind = "value" -> OnValue(s, at)
      [] kind = "body" -> OnBody(s, at)

\* CROW_CALLBACK_DATA: nothing is called without a mark.
Call(s, kind) ==
    IF s.marks[kind] = Null THEN s
    ELSE Callback([s EXCEPT !.marks[kind] = Null], kind, s.marks[kind])

To(s, state) == [s EXCEPT !.state = state]
Error(s) == [s EXCEPT !.ok = FALSE]
Expect(s, ch, wanted, state) == IF ch = wanted THEN To(s, state) ELSE Error(s)

\* http_should_keep_alive
StaysOpen(s) ==
    IF s.version = "HTTP/1.1" THEN "close" \notin s.flags ELSE "keep-alive" \in s.flags

\* CROW_NEW_MESSAGE and on_message_complete
Complete(s) ==
    [To(s, IF StaysOpen(s) THEN "start_req" ELSE "dead") EXCEPT !.handled = Append(@, s.req)]

-----------------------------------------------------------------------------
\* One symbol in each state; goto reexecute_byte is a call.

StartReq(s, ch) ==
    LET t == [s EXCEPT !.flags = {}, !.length = Null] IN
    CASE ch \in {"CR", "LF"} -> s
      [] ch = "GET" -> To(Begin(t), "req_method")
      [] OTHER -> Error(t)

Dead(s, ch) == IF ch \in {"CR", "LF"} THEN s ELSE Error(s)

SpacesBeforeUrl(s, ch) ==
    CASE ch = "SP" -> s
      [] ch = "/" -> To(Mark(s, "url"), "req_path")
      [] OTHER -> Error(s)

ReqPath(s, ch) ==
    CASE ch = "SP" -> To(Call(s, "url"), "req_http_start")
      [] ch \in {"CR", "LF"} -> Error(s)
      [] OTHER -> s

HttpStart(s, ch) ==
    CASE ch = "SP" -> s
      [] ch \in Versions -> [To(s, "req_http_minor") EXCEPT !.version = ch]
      [] OTHER -> Error(s)

HttpMinor(s, ch) ==
    CASE ch = "CR" -> To(s, "req_line_almost_done")
      [] ch = "LF" -> To(s, "header_field_start")
      [] OTHER -> Error(s)

\* The end of the headers: on_headers_complete and the kind of body.
HeadersDone(s) ==
    LET t == [OnHeaders(s) EXCEPT !.nread = 0, !.upgrade = "upgrade" \in s.flags] IN
    CASE t.upgrade -> Complete(t)
      [] ~ t.upgrade /\ "chunked" \in t.flags -> To(t, "chunk_size_start")
      [] ~ t.upgrade /\ "chunked" \notin t.flags /\ t.length \notin {0, Null} ->
            To(t, "body_identity")
      [] OTHER -> Complete(t)

HeadersAlmostDone(s, ch) ==
    CASE ch # "LF" -> Error(s)
      [] ch = "LF" /\ "trailing" \in s.flags -> Complete(s)
      [] OTHER -> HeadersDone(s)

FieldStart(s, ch) ==
    CASE ch = "CR" -> To(s, "headers_almost_done")
      [] ch = "LF" -> HeadersAlmostDone(s, ch)
      [] Token(ch) -> [To(Mark(s, "field"), "header_field") EXCEPT !.seen = Matching(<<>>, ch, Names)]
      [] OTHER -> Error(s)

Field(s, ch) ==
    CASE Token(ch) -> [s EXCEPT !.seen = Matching(@, ch, Names)]
      [] ch = ":" -> To(Call(s, "field"), "header_value_discard_ws")
      [] ch = "CR" -> To(Call(s, "field"), "header_almost_done")
      [] ch = "LF" -> To(Call(s, "field"), "header_field_start")
      [] OTHER -> Error(s)

ValueStart(s, ch) ==
    LET t == To(Mark(s, "value"), "header_value") IN
    CASE s.seen = Upgrade -> [t EXCEPT !.flags = @ \cup {"upgrade"}, !.seen = General]
      [] s.seen = ContentLength ->
            IF ch \in DOMAIN Digit THEN [t EXCEPT !.length = Digit[ch]] ELSE Error(t)
      [] s.seen \in {Connection, TransferEncoding} -> [t EXCEPT !.seen = Matching(@, ch, Sought)]
      [] OTHER -> [t EXCEPT !.seen = General]

DiscardWs(s, ch) ==
    CASE ch = "SP" -> s
      [] ch = "CR" -> To(s, "header_value_discard_ws_almost_done")
      [] ch = "LF" -> To(s, "header_value_discard_lws")
      [] OTHER -> ValueStart(s, ch)

DiscardLws(s, ch) ==
    IF ch = "SP" THEN To(s, "header_value_discard_ws")
    ELSE FieldStart(Call(Mark(s, "value"), "value"), ch)

Value(s, ch) ==
    CASE ch = "CR" -> To(Call(s, "value"), "header_almost_done")
      [] ch = "LF" -> To(Call(s, "value"), "header_value_lws")
      [] ch = "SP" /\ s.seen \in Sought \cup {ContentLength} -> s
      [] s.seen = ContentLength /\ ch \notin {"CR", "LF", "SP"} ->
            IF ch \in DOMAIN Digit THEN [s EXCEPT !.length = 10 * @ + Digit[ch]] ELSE Error(s)
      [] OTHER -> [s EXCEPT !.seen = Matching(@, ch, Sought)]

\* The header is finished unless it goes on in the next line.
ValueLws(s, ch) ==
    LET flag == CASE s.seen = Connection \o Close -> {"close"}
                  [] s.seen = Connection \o KeepAlive -> {"keep-alive"}
                  [] s.seen = TransferEncoding \o Chunked -> {"chunked"}
                  [] OTHER -> {}
    IN  IF ch = "SP" THEN ValueStart(s, ch)
        ELSE FieldStart([s EXCEPT !.flags = @ \cup flag], ch)

BodyIdentity(s, ch) ==
    LET t == [Mark(s, "body") EXCEPT !.length = @ - 1] IN
    IF t.length > 0 THEN t
    ELSE Complete(Call([t EXCEPT !.marks.body = Append(@, ch)], "body"))

ChunkSizeStart(s, ch) ==
    IF ch \in DOMAIN Digit THEN [To(s, "chunk_size") EXCEPT !.length = Digit[ch]] ELSE Error(s)

ChunkSize(s, ch) ==
    CASE ch = "CR" -> To(s, "chunk_size_almost_done")
      [] ch \in DOMAIN Digit -> [s EXCEPT !.length = 16 * @ + Digit[ch]]
      [] ch \in {";", "SP"} -> To(s, "chunk_parameters")
      [] OTHER -> Error(s)

\* Fault: the last chunk is read as one with data.
LastChunkRead(s, ch) == Expect([s EXCEPT !.nread = 0], ch, "LF", "chunk_data")

ChunkSizeAlmostDone(s, ch) ==
    LET t == [s EXCEPT !.nread = 0] IN
    CASE ch # "LF" -> Error(s)
      [] ch = "LF" /\ s.length = 0 ->
            [To(t, "header_field_start") EXCEPT !.flags = @ \cup {"trailing"}]
      [] OTHER -> To(t, "chunk_data")

ChunkData(s, ch) ==
    LET t == [Mark(s, "body") EXCEPT !.length = @ - 1] IN
    IF t.length = 0 THEN To(t, "chunk_data_almost_done") ELSE t

ChunkDataDone(s, ch) == Expect([s EXCEPT !.nread = 0], ch, "LF", "chunk_size_start")

Step(s, ch) ==
    CASE s.state = "start_req" -> StartReq(s, ch)
      [] s.state = "dead" -> Dead(s, ch)
      [] s.state = "req_method" -> Expect(s, ch, "SP", "req_spaces_before_url")
      [] s.state = "req_spaces_before_url" -> SpacesBeforeUrl(s, ch)
      [] s.state = "req_path" -> ReqPath(s, ch)
      [] s.state = "req_http_start" -> HttpStart(s, ch)
      [] s.state = "req_http_minor" -> HttpMinor(s, ch)
      [] s.state = "req_line_almost_done" -> Expect(s, ch, "LF", "header_field_start")
      [] s.state = "header_field_start" -> FieldStart(s, ch)
      [] s.state = "header_field" -> Field(s, ch)
      [] s.state = "header_value_discard_ws" -> DiscardWs(s, ch)
      [] s.state = "header_value_discard_ws_almost_done" ->
            Expect(s, ch, "LF", "header_value_discard_lws")
      [] s.state = "header_value_discard_lws" -> DiscardLws(s, ch)
      [] s.state = "header_value" -> Value(s, ch)
      [] s.state = "header_almost_done" -> Expect(s, ch, "LF", "header_value_lws")
      [] s.state = "header_value_lws" -> ValueLws(s, ch)
      [] s.state = "headers_almost_done" -> HeadersAlmostDone(s, ch)
      [] s.state = "body_identity" -> BodyIdentity(s, ch)
      [] s.state = "chunk_size_start" -> ChunkSizeStart(s, ch)
      [] s.state = "chunk_size" -> ChunkSize(s, ch)
      [] s.state = "chunk_parameters" ->
            IF ch = "CR" THEN To(s, "chunk_size_almost_done") ELSE s
      [] s.state = "chunk_size_almost_done" -> ChunkSizeAlmostDone(s, ch)
      [] s.state = "chunk_data" -> ChunkData(s, ch)
      [] s.state = "chunk_data_almost_done" ->
            Expect(Call(s, "body"), ch, "CR", "chunk_data_done")
      [] s.state = "chunk_data_done" -> ChunkDataDone(s, ch)

-----------------------------------------------------------------------------
\* A message and its text: a request line, header lines, and the body that the
\* headers announce.  A line without a colon has no value.

Line(name, value) == [name |-> name, value |-> value]

LineText(l, eol) == l.name \o (IF l.value = Null THEN <<>> ELSE <<":", "SP">> \o l.value) \o eol

LinesText(ls, eol) == FoldLeft(LAMBDA text, l : text \o LineText(l, eol), <<>>, ls)

HeadText(m) ==
    <<"GET", "SP">> \o m.url \o <<"SP", m.version>> \o m.eol \o LinesText(m.lines, m.eol) \o m.eol

Has(m, name, value) == \E i \in 1..Len(m.lines) : m.lines[i] = Line(name, value)

Number(v) == FoldLeft(LAMBDA n, d : 10 * n + Digit[d], 0, v)
IsNumber(v) == v # Null /\ v # <<>> /\ \A i \in 1..Len(v) : v[i] \in DOMAIN Digit

\* The last Content-Length counts.
BodyLength(m) ==
    LET at == {i \in 1..Len(m.lines) : m.lines[i].name = ContentLength /\ IsNumber(m.lines[i].value)}
    IN  IF at = {} THEN 0 ELSE Number(m.lines[CHOOSE i \in at : \A j \in at : j <= i].value)

Data == <<"b1", "b2", "b3">>

Body(m) == IF Has(m, TransferEncoding, Chunked) THEN Data ELSE SubSeq(Data, 1, BodyLength(m))

TrailerText(m) == LinesText(m.trailers, m.eol) \o m.eol

BodyText(m) ==
    IF Has(m, TransferEncoding, Chunked)
    THEN <<"0", "2", "CR", "LF", "b1", "b2", "CR", "LF", "1", ";", "x", "CR", "LF", "b3", "CR", "LF",
           "0", "CR", "LF">> \o TrailerText(m)
    ELSE Body(m)

Text(ms) == FoldLeft(LAMBDA text, m : text \o HeadText(m) \o BodyText(m), <<>>, ms)

ASSUME TextAssumption ==
    Null \notin Seq(STRING) /\ \A ms \in Scripts : Text(ms) \in Seq(STRING)

-----------------------------------------------------------------------------
Init ==
    /\ sent \in Scripts
    /\ todo = Text(sent)
    /\ parser =
        [state |-> "start_req", seen |-> General, flags |-> {}, length |-> Null, nread |-> 0,
         version |-> "HTTP/1.1", upgrade |-> FALSE, marks |-> [k \in Kinds |-> Null], ok |-> TRUE,
         building |-> 0, field |-> <<>>, value |-> <<>>, req |-> NoRequest, handled |-> <<>>]
    /\ returned = FALSE

Feeding == parser.ok /\ todo # <<>>

BodyStates == {"chunk_data", "chunk_data_almost_done", "chunk_data_done", "body_identity"}

\* The loop's next iteration; marks go on to cover the symbol.
Consumed(s, ch) ==
    LET r == [s EXCEPT !.nread = IF s.state \in BodyStates THEN @ ELSE @ + 1]
        t == IF r.nread > MaxHeader /\ r.state \notin BodyStates THEN Error(r) ELSE Step(r, ch)
    IN  [t EXCEPT !.marks = [k \in Kinds |-> IF t.marks[k] = Null THEN Null ELSE Append(t.marks[k], ch)]]

\* The end of http_parser_execute: callbacks for what is marked.
Flushed(s) == Call(Call(Call(Call(s, "field"), "value"), "url"), "body")

\* Its beginning: what goes on from the piece before is marked.
Resumed(s) ==
    LET goesOn == CASE s.state = "header_field" -> {"field"}
                    [] s.state = "header_value" -> {"value"}
                    [] s.state = "req_path" -> {"url"}
                    [] OTHER -> {}
    IN  [s EXCEPT !.marks = [k \in Kinds |-> IF k \in goesOn THEN <<>> ELSE Null]]

\* The head of a request to upgrade has been handled: what follows is said to be
\* in another protocol.
HeadOfUpgrade(s, t) == t.upgrade /\ t.handled # s.handled

Byte ==
    /\ Feeding /\ ~ returned
    /\ parser' = Consumed(parser, Head(todo))
    /\ todo' = Tail(todo)
    /\ returned' = HeadOfUpgrade(parser, parser')
    /\ UNCHANGED sent

PieceEnds ==
    /\ Feeding
    /\ parser' = Resumed(Flushed(parser))
    /\ returned' = FALSE
    /\ UNCHANGED <<sent, todo>>

\* The piece goes on: its rest is dropped, and feed returns false.
RestDropped ==
    /\ Feeding /\ returned
    /\ parser' = Error(parser)
    /\ UNCHANGED <<sent, todo, returned>>

Next == Byte \/ PieceEnds \/ RestDropped

Spec == Init /\ [][Next]_vars

-----------------------------------------------------------------------------
\* Properties

\* The type of the state.
TypeOK ==
    /\ parser.state \in BodyStates \cup
        {"start_req", "dead", "req_method", "req_spaces_before_url", "req_path",
         "req_http_start", "req_http_minor", "req_line_almost_done", "header_field_start",
         "header_field", "header_value_discard_ws", "header_value_discard_ws_almost_done",
         "header_value_discard_lws", "header_value", "header_almost_done", "header_value_lws",
         "headers_almost_done", "chunk_size_start", "chunk_size", "chunk_parameters",
         "chunk_size_almost_done"}
    /\ parser.flags \subseteq {"close", "keep-alive", "chunked", "upgrade", "trailing"}
    /\ parser.length \in Nat \cup {Null} /\ parser.nread \in 0 .. MaxHeader + 1
    /\ parser.building \in {0, 1} /\ returned \in BOOLEAN

ChunkStates ==
    {"chunk_size_start", "chunk_size", "chunk_parameters", "chunk_size_almost_done",
     "chunk_data", "chunk_data_almost_done", "chunk_data_done"}

\* What http_parser_execute asserts: at most one mark is left at the end of a
\* piece, header values are not looked at in the state their names leave, chunks
\* are read only of a body that was announced in chunks, and where a chunk or a
\* body begins the counters are as it expects.
AssertsHold ==
    /\ Cardinality({k \in Kinds : parser.marks[k] # Null}) <= 1
    /\ parser.ok /\ parser.state \in ChunkStates => "chunked" \in parser.flags
    /\ parser.ok => CASE parser.state = "header_value" ->
                            parser.seen \notin {Connection, TransferEncoding}
                      [] parser.state = "chunk_size_start" -> parser.nread = 0
                      [] parser.state \in {"body_identity", "chunk_data"} ->
                            parser.length \notin {0, Null}
                      [] parser.state = "chunk_data_almost_done" -> parser.length = 0
                      [] OTHER -> TRUE

\* The parser whose marks have been reported is the same however the text is cut:
\* it is the one that is fed one symbol at a time.  It makes a difference only right
\* after the head of a request to upgrade, when feed fails unless the piece ends.
CutsMatterAtUpgrades ==
    [][\/ returned /\ parser.upgrade /\ parser' = Error(parser)
       \/ Flushed(parser') = IF todo' = todo THEN Flushed(parser)
                             ELSE Flushed(Consumed(Resumed(Flushed(parser)), Head(todo)))]_vars

\* The headers HTTPParser makes of lines: a line without a colon becomes part of
\* the next one's name, and an empty value is kept in the last line only.
Collected(lines) ==
    LET ValueOf(l) == SelectSeq(l.value, LAMBDA ch : ch \notin {"CR", "LF"})
        Add(done, i) ==
            LET l == lines[i] IN
            CASE l.value = Null -> [done EXCEPT !.glued = @ \o l.name]
              [] l.value = <<>> /\ i < Len(lines) -> [done EXCEPT !.glued = <<>>]
              [] OTHER -> [glued |-> <<>>,
                           headers |-> Append(done.headers, <<done.glued \o l.name, ValueOf(l)>>)]
        all == FoldLeftDomain(Add, [glued |-> <<>>, headers |-> <<>>], lines)
    IN  all.headers \o (IF all.glued = <<>> THEN <<>> ELSE << <<all.glued, <<>> >> >>)

AsksUpgrade(m) ==
    \E i \in 1..Len(m.lines) : m.lines[i].name = Upgrade /\ m.lines[i].value \notin {Null, <<>>}

\* The request a message is; all trailers but the last are headers too.
Request(m) ==
    LET trailers == IF Has(m, TransferEncoding, Chunked) /\ m.trailers # <<>>
                    THEN Front(m.trailers) ELSE <<>> IN
    IF AsksUpgrade(m)
    THEN [url |-> m.url, headers |-> Collected(m.lines), body |-> <<>>]
    ELSE [url |-> m.url, headers |-> Collected(m.lines) \o Collected(trailers),
          body |-> Body(m)]

WellFormed(m) ==
    \A i \in 1..Len(m.lines) :
        /\ \A j \in 1..Len(m.lines[i].name) : Token(m.lines[i].name[j])
        /\ m.lines[i].name = ContentLength =>
            m.lines[i].value \in {Null, <<>>} \/ IsNumber(m.lines[i].value)

\* The limit is on a message's head and the trailers of the message before it.
FitsLimit(ms, i) ==
    Len(HeadText(ms[i])) + (IF i > 1 /\ Has(ms[i - 1], TransferEncoding, Chunked)
                            THEN Len(TrailerText(ms[i - 1])) ELSE 0) <= MaxHeader

\* A message that none can follow: after it the parser is dead, or its body is
\* taken for the next message.
IsLast(m) ==
    \/ m.version = "HTTP/1.1" /\ Has(m, Connection, Close)
    \/ m.version = "HTTP/1.0" /\ ~ Has(m, Connection, KeepAlive)
    \/ AsksUpgrade(m) /\ BodyText(m) # <<>>

\* The messages up to the first that is refused or the last of the connection.
Accepted(ms) ==
    {i \in 1..Len(ms) :
        /\ \A j \in 1..i : WellFormed(ms[j]) /\ FitsLimit(ms, j)
        /\ \A j \in 1..(i - 1) : ~ IsLast(ms[j])}

\* However the text is cut into pieces, the requests handled are those it is
\* made of, in order, whole and with the same headers, as far as they are
\* accepted, and feed fails if and only if something else follows.  After a request
\* to upgrade it depends on the cut whether what follows is parsed: if the piece
\* goes on, it is dropped and feed fails.
HandledAsSent ==
    LET wanted == [i \in 1..Cardinality(Accepted(sent)) |-> Request(sent[i])]
        now == Len(parser.handled) IN
    /\ IsPrefix(parser.handled, wanted)
    /\ returned => now > 0 /\ AsksUpgrade(sent[now])
    /\ ~ parser.ok => /\ now < Len(sent) \/ IsLast(sent[now])
                      /\ returned \/ parser.handled = wanted
    /\ parser.ok /\ todo = <<>> => parser.handled = wanted /\ now = Len(sent)
=============================================================================
