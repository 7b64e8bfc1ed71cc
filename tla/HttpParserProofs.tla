-------------------------- MODULE HttpParserProofs --------------------------
(***************************************************************************)
(* What http_parser_execute asserts holds for every text, well formed or   *)
(* not, however it is cut into pieces, and for every limit on a header.    *)
(* A mark of the piece in progress belongs to the state the parser is in   *)
(* (MarksFit), and in the states that count or match, the counter and the  *)
(* match are what the code before them has left (Ready).  A cut changes    *)
(* nothing but what follows a request to upgrade: of the states only six   *)
(* can be in the middle of a text, each has a mark of its own, and a       *)
(* callback given a text in two pieces leaves what it leaves given the     *)
(* whole of it (Pieces, CutFacts).                                         *)
(***************************************************************************)
EXTENDS HttpParser, SequenceTheorems, FiniteSetTheorems, TLAPS

States == BodyStates \cup
    {"start_req", "dead", "req_method", "req_spaces_before_url", "req_path",
     "req_http_start", "req_http_minor", "req_line_almost_done", "header_field_start",
     "header_field", "header_value_discard_ws", "header_value_discard_ws_almost_done",
     "header_value_discard_lws", "header_value", "header_almost_done", "header_value_lws",
     "headers_almost_done", "chunk_size_start", "chunk_size", "chunk_parameters",
     "chunk_size_almost_done"}

Flags == {"close", "keep-alive", "chunked", "upgrade", "trailing"}

\* The parser is a record of these fields.
IsParser(s) ==
    /\ s = [state |-> s.state, seen |-> s.seen, flags |-> s.flags, length |-> s.length,
            nread |-> s.nread, version |-> s.version, upgrade |-> s.upgrade, marks |-> s.marks,
            ok |-> s.ok, building |-> s.building, field |-> s.field, value |-> s.value,
            req |-> s.req, handled |-> s.handled]
    /\ s.marks = [k \in Kinds |-> s.marks[k]]

Typed(s) ==
    /\ IsParser(s)
    /\ s.state \in States /\ s.flags \subseteq Flags /\ s.length \in Nat \cup {Null}
    /\ s.ok \in BOOLEAN /\ s.building \in {0, 1}

NoMarks(s) == \A k \in Kinds : s.marks[k] = Null

MarksFit(s) ==
    /\ s.marks["url"] # Null => s.state = "req_path"
    /\ s.marks["field"] # Null => s.state = "header_field"
    /\ s.marks["value"] # Null => s.state = "header_value"
    /\ s.marks["body"] # Null => s.state \in {"body_identity", "chunk_data", "chunk_data_almost_done"}

\* The symbols the names and values the parser looks for are made of.
Symbols == {"con", "nection", "tent-length", "transfer", "-encoding", "clo", "se", "keep",
            "-alive", "chu", "nked", "general"}

\* What the value of a header may have been matched as: nothing, a number, or a
\* name and at least one more symbol.
Matched(seen) == seen \in {General, ContentLength} \/ (seen \in Seq(Symbols) /\ Len(seen) > 2)

Ready(s) ==
    /\ s.state = "header_value" => Matched(s.seen) /\ (s.seen = ContentLength => s.length \in Nat)
    /\ s.state \in {"chunk_size", "chunk_parameters", "chunk_size_almost_done"} => s.length \in Nat
    /\ s.state \in {"body_identity", "chunk_data"} => s.length \in Nat \ {0}
    /\ s.state = "chunk_data_almost_done" => s.length = 0
    /\ s.state \in {"chunk_size_start", "chunk_size", "chunk_parameters", "chunk_size_almost_done",
                    "chunk_data", "chunk_data_almost_done", "chunk_data_done"} =>
          "chunked" \in s.flags

Good(s) == Typed(s) /\ MarksFit(s) /\ (s.ok => Ready(s))

\* What a symbol makes of the parser s.
Stepped(t, s) ==
    /\ Good(t)
    /\ t.nread \in {0, s.nread}
    /\ t.ok /\ t.state = "chunk_size_start" => t.nread = 0

-----------------------------------------------------------------------------
(* The callbacks *)

\* All that t shares with s once texts have been handed over.
SameButTexts(t, s) ==
    /\ IsParser(t)
    /\ t.state = s.state /\ t.seen = s.seen /\ t.flags = s.flags /\ t.length = s.length
    /\ t.nread = s.nread /\ t.ok = s.ok /\ t.building \in {0, 1}

LEMMA MarkFacts ==
    ASSUME NEW s, Typed(s), NEW k \in Kinds
    PROVE  /\ SameButTexts(Mark(s, k), s)
           /\ \A j \in Kinds : j # k => Mark(s, k).marks[j] = s.marks[j]
<1> DEFINE m == [s.marks EXCEPT ![k] = IF @ = Null THEN <<>> ELSE @]
<1>1. Mark(s, k) = [s EXCEPT !.marks = m]
    BY DEF Mark
<1>2. m = [j \in Kinds |-> m[j]] /\ \A j \in Kinds : j # k => m[j] = s.marks[j]
    BY DEF Typed, IsParser
<1> HIDE DEF m
<1> QED BY <1>1, <1>2 DEF Typed, IsParser, SameButTexts

LEMMA CallbackFacts ==
    ASSUME NEW s, Typed(s), NEW k \in Kinds, NEW at
    PROVE  SameButTexts(Callback(s, k, at), s) /\ Callback(s, k, at).marks = s.marks
<1>1. CASE k = "url"
    <2> DEFINE t == OnUrl(s, at)
    <2>1. IsParser(t) /\ t.building = s.building
        BY DEF OnUrl, Typed, IsParser
    <2>2. t.marks = s.marks /\ SameButTexts(t, s)
        BY <2>1 DEF OnUrl, Typed, IsParser, SameButTexts
    <2> QED BY <1>1, <2>2 DEF Callback
<1>2. CASE k = "field"
    <2>1. SameButTexts(OnField(s, at), s) /\ OnField(s, at).marks = s.marks
        BY DEF Typed, IsParser, SameButTexts, OnField
    <2> QED BY <1>2, <2>1 DEF Callback
<1>3. CASE k = "value"
    <2>1. PICK v : v = IF s.building = 0 THEN s.value \o at ELSE at
        OBVIOUS
    <2>2. OnValue(s, at) = [s EXCEPT !.value = v, !.building = 0]
        BY <2>1 DEF OnValue
    <2>3. SameButTexts(OnValue(s, at), s) /\ OnValue(s, at).marks = s.marks
        BY <2>2 DEF Typed, IsParser, SameButTexts
    <2> QED BY <1>3, <2>3 DEF Callback
<1>4. CASE k = "body"
    <2> DEFINE t == OnBody(s, at)
    <2>1. IsParser(t) /\ t.building = s.building
        BY DEF OnBody, Typed, IsParser
    <2>2. t.marks = s.marks /\ SameButTexts(t, s)
        BY <2>1 DEF OnBody, Typed, IsParser, SameButTexts
    <2> QED BY <1>4, <2>2 DEF Callback
<1> QED BY <1>1, <1>2, <1>3, <1>4 DEF Kinds

LEMMA CallFacts ==
    ASSUME NEW s, Typed(s), NEW k \in Kinds
    PROVE  /\ SameButTexts(Call(s, k), s)
           /\ Call(s, k).marks[k] = Null
           /\ \A j \in Kinds : j # k => Call(s, k).marks[j] = s.marks[j]
<1>1. CASE s.marks[k] = Null
    <2>1. Call(s, k) = s
        BY <1>1 DEF Call
    <2> QED BY <1>1, <2>1 DEF Typed, SameButTexts
<1>2. CASE s.marks[k] # Null
    <2> DEFINE t == [s EXCEPT !.marks[k] = Null]
    <2>1. Call(s, k) = Callback(t, k, s.marks[k])
        BY <1>2 DEF Call
    <2>0. IsParser(s)
        BY DEF Typed
    <2>2. /\ SameButTexts(t, s) /\ Typed(t) /\ t.marks[k] = Null
          /\ \A j \in Kinds : j # k => t.marks[j] = s.marks[j]
        <3> DEFINE m == [s.marks EXCEPT ![k] = Null]
        <3>1. t = [s EXCEPT !.marks = m]
            OBVIOUS
        <3>2. /\ m = [j \in Kinds |-> m[j]] /\ m[k] = Null
              /\ \A j \in Kinds : j # k => m[j] = s.marks[j]
            BY <2>0 DEF IsParser
        <3> HIDE DEF m, t
        <3>3. IsParser(t) /\ t.marks = m
            BY <2>0, <3>1, <3>2 DEF IsParser
        <3>4. SameButTexts(t, s) /\ t.building = s.building
            BY <2>0, <3>1, <3>3 DEF IsParser, SameButTexts, Typed
        <3>5. Typed(t)
            BY <3>4 DEF Typed, SameButTexts
        <3> QED BY <3>2, <3>3, <3>4, <3>5
    <2> HIDE DEF t
    <2>3. SameButTexts(Call(s, k), t) /\ Call(s, k).marks = t.marks
        BY <2>1, <2>2, CallbackFacts
    <2> QED BY <2>2, <2>3 DEF SameButTexts
<1> QED BY <1>1, <1>2

LEMMA HeadersFacts ==
    ASSUME NEW s, Typed(s)
    PROVE  SameButTexts(OnHeaders(s), s) /\ OnHeaders(s).marks = s.marks
BY DEF Typed, IsParser, SameButTexts, OnHeaders

LEMMA ToFacts ==
    ASSUME NEW s, Typed(s), NEW x \in States
    PROVE  /\ Typed(To(s, x)) /\ To(s, x).state = x /\ To(s, x).marks = s.marks
           /\ To(s, x).seen = s.seen /\ To(s, x).flags = s.flags /\ To(s, x).length = s.length
           /\ To(s, x).nread = s.nread /\ To(s, x).ok = s.ok
BY DEF Typed, IsParser, To

LEMMA ErrorIsParser ==
    ASSUME NEW s, IsParser(s)
    PROVE  IsParser(Error(s))
<1>1. \A b : IsParser([s EXCEPT !.ok = b])
    BY DEF IsParser
<1> QED BY <1>1 DEF Error

\* An error ends the parsing where it is.
LEMMA ErrorFacts ==
    ASSUME NEW s, Typed(s), MarksFit(s)
    PROVE  Stepped(Error(s), s) /\ ~ Error(s).ok
<1>0. IsParser(s)
    BY DEF Typed
<1>1. /\ Error(s).marks = s.marks /\ Error(s).state = s.state
      /\ Error(s).nread = s.nread
    BY <1>0 DEF IsParser, Error
<1>2. /\ Error(s).flags = s.flags /\ Error(s).length = s.length
      /\ Error(s).building = s.building
    BY <1>0 DEF IsParser, Error
<1>3. Error(s).ok = FALSE
    BY <1>0 DEF IsParser, Error
<1>4. Typed(Error(s))
    BY <1>0, <1>1, <1>2, <1>3, ErrorIsParser DEF Typed
<1> QED BY <1>1, <1>3, <1>4 DEF Good, Stepped, MarksFit

LEMMA CompleteFacts ==
    ASSUME NEW s, Typed(s), NoMarks(s)
    PROVE  /\ Good(Complete(s)) /\ Complete(s).nread = s.nread
           /\ Complete(s).state # "chunk_size_start"
<1> DEFINE x == IF StaysOpen(s) THEN "start_req" ELSE "dead"
           t == Complete(s)
<1>1. x \in {"start_req", "dead"}
    OBVIOUS
<1>2. t = [To(s, x) EXCEPT !.handled = Append(@, s.req)]
    BY DEF Complete
<1> HIDE DEF x, t
<1>3. Typed(t) /\ t.state = x /\ t.marks = s.marks /\ t.nread = s.nread
    BY <1>1, <1>2 DEF Typed, IsParser, To, States
<1>4. Good(t)
    BY <1>1, <1>3 DEF Good, MarksFit, NoMarks, Kinds, Ready
<1> QED BY <1>1, <1>3, <1>4 DEF t

-----------------------------------------------------------------------------
(* Steps to a state that neither counts nor matches *)

Marking == {"req_path", "header_field", "header_value", "body_identity", "chunk_data",
            "chunk_data_almost_done"}

Quiet == States \ {"header_value", "body_identity", "chunk_data", "chunk_data_almost_done",
                   "chunk_size_start", "chunk_size", "chunk_parameters",
                   "chunk_size_almost_done", "chunk_data_done"}

LEMMA NoMarksOutside ==
    ASSUME NEW s, MarksFit(s), s.state \notin Marking
    PROVE  NoMarks(s)
BY DEF MarksFit, Marking, NoMarks, Kinds

LEMMA QuietStep ==
    ASSUME NEW s, NEW r, Typed(s), NoMarks(s), s.nread \in {0, r.nread}, NEW x \in Quiet
    PROVE  Stepped(To(s, x), r)
<1>1. x \in States
    BY DEF Quiet
<1>2. /\ Typed(To(s, x)) /\ To(s, x).state = x /\ To(s, x).marks = s.marks
      /\ To(s, x).nread = s.nread
    BY <1>1, ToFacts
<1>3. MarksFit(To(s, x)) /\ Ready(To(s, x)) /\ x # "chunk_size_start"
    BY <1>2 DEF NoMarks, MarksFit, Kinds, Ready, Quiet
<1> QED BY <1>2, <1>3 DEF Good, Stepped

\* A step that stays where it is.
LEMMA StayStep ==
    ASSUME NEW s, Good(s), s.state # "chunk_size_start"
    PROVE  Stepped(s, s)
BY DEF Stepped

\* A wanted symbol leads on, any other is an error.
LEMMA ExpectStep ==
    ASSUME NEW s, NEW r, Typed(s), NoMarks(s), s.nread \in {0, r.nread},
           NEW ch, NEW wanted, NEW x \in Quiet
    PROVE  Stepped(Expect(s, ch, wanted, x), r)
<1>1. Stepped(To(s, x), r)
    BY QuietStep
<1>2. MarksFit(s)
    BY DEF NoMarks, MarksFit, Kinds
<1>3. Stepped(Error(s), s) /\ ~ Error(s).ok
    BY <1>2, ErrorFacts
<1>4. Stepped(Error(s), r)
    BY <1>3 DEF Stepped
<1> QED BY <1>1, <1>4 DEF Expect

\* The callback for the only mark.
LEMMA CallOwn ==
    ASSUME NEW s, Typed(s), NEW k \in Kinds, \A j \in Kinds : j # k => s.marks[j] = Null
    PROVE  /\ Typed(Call(s, k)) /\ NoMarks(Call(s, k))
           /\ Call(s, k).state = s.state /\ Call(s, k).seen = s.seen
           /\ Call(s, k).flags = s.flags /\ Call(s, k).length = s.length
           /\ Call(s, k).nread = s.nread /\ Call(s, k).ok = s.ok
BY CallFacts DEF Typed, SameButTexts, NoMarks

\* The mark of a piece that begins.
LEMMA MarkOwn ==
    ASSUME NEW s, Typed(s), NEW k \in Kinds, \A j \in Kinds : j # k => s.marks[j] = Null
    PROVE  /\ Typed(Mark(s, k)) /\ \A j \in Kinds : j # k => Mark(s, k).marks[j] = Null
           /\ Mark(s, k).state = s.state /\ Mark(s, k).seen = s.seen
           /\ Mark(s, k).flags = s.flags /\ Mark(s, k).length = s.length
           /\ Mark(s, k).nread = s.nread /\ Mark(s, k).ok = s.ok
BY MarkFacts DEF Typed, SameButTexts

-----------------------------------------------------------------------------
(* The request line *)

LEMMA StartReqStep ==
    ASSUME NEW s, NEW ch, Good(s), s.state = "start_req"
    PROVE  Stepped(StartReq(s, ch), s)
<1> DEFINE t == [s EXCEPT !.flags = {}, !.length = Null]
<1>0. NoMarks(s) /\ Typed(s)
    BY NoMarksOutside DEF Good, Marking
<1>a. IsParser(s)
    BY <1>0 DEF Typed
<1>b. IsParser(t)
    <2>1. PICK u : u = t
        OBVIOUS
    <2>2. IsParser(u)
        BY <1>a, <2>1 DEF IsParser
    <2> QED BY <2>1, <2>2
<1>1. /\ Typed(t) /\ t.marks = s.marks /\ t.nread = s.nread /\ t.state = s.state
      /\ t.ok = s.ok
    <2>1. /\ t.marks = s.marks /\ t.nread = s.nread /\ t.state = s.state
          /\ t.ok = s.ok /\ t.flags = {} /\ t.length = Null /\ t.building = s.building
        BY <1>a DEF IsParser
    <2> HIDE DEF t
    <2> QED BY <1>0, <1>b, <2>1 DEF Typed
<1>2. /\ Typed(Begin(t)) /\ Begin(t).marks = s.marks /\ Begin(t).nread = s.nread
    <2> HIDE DEF t
    <2>0. IsParser(Begin(t))
        <3>1. PICK u : u = Begin(t)
            OBVIOUS
        <3>2. IsParser(u)
            BY <1>b, <3>1 DEF IsParser, Begin
        <3> QED BY <3>1, <3>2
    <2>1. /\ Begin(t).marks = t.marks /\ Begin(t).nread = t.nread
          /\ Begin(t).state = t.state /\ Begin(t).ok = t.ok /\ Begin(t).flags = t.flags
          /\ Begin(t).length = t.length /\ Begin(t).building = 0
        BY <1>b DEF IsParser, Begin
    <2> QED BY <1>1, <2>0, <2>1 DEF Typed
<1>3. StartReq(s, ch) = CASE ch \in {"CR", "LF"} -> s
                          [] ch = "GET" -> To(Begin(t), "req_method")
                          [] OTHER -> Error(t)
    BY DEF StartReq
<1> HIDE DEF t
<1>4. Stepped(s, s)
    BY StayStep
<1>7. MarksFit(t)
    BY <1>0, <1>1 DEF MarksFit, NoMarks, Kinds
<1>5. Stepped(To(Begin(t), "req_method"), s)
    BY <1>0, <1>2, QuietStep DEF NoMarks, Quiet, States
<1>6. Stepped(Error(t), s)
    BY <1>1, <1>7, ErrorFacts DEF Stepped
<1> QED BY <1>3, <1>4, <1>5, <1>6

LEMMA DeadStep ==
    ASSUME NEW s, NEW ch, Good(s), s.state = "dead"
    PROVE  Stepped(Dead(s, ch), s)
BY StayStep, ErrorFacts DEF Dead, Good

LEMMA UrlStep ==
    ASSUME NEW s, NEW ch, Good(s), s.state = "req_spaces_before_url"
    PROVE  Stepped(SpacesBeforeUrl(s, ch), s)
<1>0. NoMarks(s) /\ Typed(s) /\ MarksFit(s)
    BY NoMarksOutside DEF Good, Marking
<1> DEFINE m == Mark(s, "url")
           t == To(m, "req_path")
<1>1. /\ Typed(m) /\ m.nread = s.nread
      /\ \A j \in Kinds : j # "url" => m.marks[j] = Null
    BY <1>0, MarkOwn DEF NoMarks, Kinds
<1> HIDE DEF m
<1>2. /\ Typed(t) /\ t.marks = m.marks /\ t.state = "req_path" /\ t.nread = m.nread
    BY <1>1, ToFacts DEF States
<1>3. SpacesBeforeUrl(s, ch) = CASE ch = "SP" -> s [] ch = "/" -> t [] OTHER -> Error(s)
    BY DEF SpacesBeforeUrl, m
<1> HIDE DEF t
<1>4. Stepped(t, s)
    BY <1>1, <1>2 DEF Good, Stepped, MarksFit, Kinds, Ready
<1> QED BY <1>0, <1>3, <1>4, StayStep, ErrorFacts

LEMMA PathStep ==
    ASSUME NEW s, NEW ch, Good(s), s.state = "req_path"
    PROVE  Stepped(ReqPath(s, ch), s)
<1>1. Stepped(To(Call(s, "url"), "req_http_start"), s)
    BY CallOwn, QuietStep DEF Good, MarksFit, Kinds, Quiet, States
<1> QED BY <1>1, StayStep, ErrorFacts DEF ReqPath, Good

LEMMA HttpStartStep ==
    ASSUME NEW s, NEW ch, Good(s), s.state = "req_http_start"
    PROVE  Stepped(HttpStart(s, ch), s)
<1>0. NoMarks(s) /\ Typed(s) /\ MarksFit(s)
    BY NoMarksOutside DEF Good, Marking
<1> DEFINE m == To(s, "req_http_minor")
           t == [m EXCEPT !.version = ch]
<1>1. /\ Typed(m) /\ m.marks = s.marks /\ m.nread = s.nread /\ m.state = "req_http_minor"
    BY <1>0, ToFacts DEF States
<1>2. HttpStart(s, ch) = CASE ch = "SP" -> s [] ch \in Versions -> t [] OTHER -> Error(s)
    BY DEF HttpStart
<1> HIDE DEF m
<1>3. /\ Typed(t) /\ t.marks = s.marks /\ t.nread = s.nread /\ t.state = "req_http_minor"
    BY <1>1 DEF Typed, IsParser
<1> HIDE DEF t
<1>4. Stepped(t, s)
    BY <1>0, <1>3 DEF Good, Stepped, MarksFit, NoMarks, Kinds, Ready
<1> QED BY <1>0, <1>2, <1>4, StayStep, ErrorFacts

LEMMA HttpMinorStep ==
    ASSUME NEW s, NEW ch, Good(s), s.state = "req_http_minor"
    PROVE  Stepped(HttpMinor(s, ch), s)
<1>0. NoMarks(s) /\ Typed(s) /\ MarksFit(s)
    BY NoMarksOutside DEF Good, Marking
<1>1. \A x \in {"req_line_almost_done", "header_field_start"} : Stepped(To(s, x), s)
    BY <1>0, QuietStep DEF Quiet, States
<1> QED BY <1>0, <1>1, ErrorFacts DEF HttpMinor

-----------------------------------------------------------------------------
(* Headers *)

LEMMA PairFacts ==
    ASSUME NEW S, NEW a \in S, NEW b \in S
    PROVE  <<a, b>> \in Seq(S) /\ Len(<<a, b>>) = 2 /\ <<a, b>>[1] = a
OBVIOUS

LEMMA ConcatFacts ==
    ASSUME NEW S, NEW p \in Seq(S), NEW q \in Seq(S), Len(p) = 2, Len(q) = 2
    PROVE  p \o q \in Seq(S) /\ Len(p \o q) = 4 /\ (p \o q)[1] = p[1]
<1>1. p \o q \in Seq(S)
    OBVIOUS
<1>2. Len(p \o q) = Len(p) + Len(q)
    BY ConcatProperties
<1>3. (p \o q)[1] = p[1]
    OBVIOUS
<1> QED BY <1>1, <1>2, <1>3

\* A name the parser looks for, or a value, is of two symbols.
LEMMA WordFacts ==
    /\ \A x \in {Connection, TransferEncoding, ContentLength, Close, KeepAlive, Chunked} :
            x \in Seq(Symbols) /\ Len(x) = 2
    /\ Connection[1] = "con" /\ TransferEncoding[1] = "transfer"
    /\ General \in Seq(Symbols) /\ Len(General) = 1 /\ General[1] = "general"
<1>1. Connection \in Seq(Symbols) /\ Len(Connection) = 2 /\ Connection[1] = "con"
    BY PairFacts DEF Connection, Symbols
<1>2. /\ TransferEncoding \in Seq(Symbols) /\ Len(TransferEncoding) = 2
      /\ TransferEncoding[1] = "transfer"
    BY PairFacts DEF TransferEncoding, Symbols
<1>3. ContentLength \in Seq(Symbols) /\ Len(ContentLength) = 2
    BY PairFacts DEF ContentLength, Symbols
<1>4. Close \in Seq(Symbols) /\ Len(Close) = 2
    BY PairFacts DEF Close, Symbols
<1>5. KeepAlive \in Seq(Symbols) /\ Len(KeepAlive) = 2
    BY PairFacts DEF KeepAlive, Symbols
<1>6. Chunked \in Seq(Symbols) /\ Len(Chunked) = 2
    BY PairFacts DEF Chunked, Symbols
<1>7. General \in Seq(Symbols) /\ Len(General) = 1 /\ General[1] = "general"
    BY DEF General, Symbols
<1> QED BY <1>1, <1>2, <1>3, <1>4, <1>5, <1>6, <1>7

LEMMA SoughtFacts ==
    ASSUME NEW w \in Sought
    PROVE  w \in Seq(Symbols) /\ Len(w) = 4 /\ w[1] # "general"
<1>1. CASE w = Connection \o Close
    BY <1>1, WordFacts, ConcatFacts
<1>2. CASE w = Connection \o KeepAlive
    BY <1>2, WordFacts, ConcatFacts
<1>3. CASE w = TransferEncoding \o Chunked
    BY <1>3, WordFacts, ConcatFacts
<1> QED BY <1>1, <1>2, <1>3 DEF Sought

\* The symbols of a prefix are those of the word.
LEMMA PrefixSymbols ==
    ASSUME NEW a, NEW S, a \in Seq(S), NEW w, w \in Seq(Symbols), IsPrefix(a, w)
    PROVE  a \in Seq(Symbols) /\ \A i \in 1..Len(a) : a[i] = w[i]
<1>1. Len(a) \in Nat /\ Len(w) \in Nat /\ Len(a) <= Len(w)
      /\ SubSeq(a, 1, Len(a)) = SubSeq(w, 1, Len(a))
    BY DEF IsPrefix
<1>2. \A i \in 1..Len(a) : SubSeq(a, 1, Len(a))[i] = a[i] /\ SubSeq(w, 1, Len(a))[i] = w[i]
    BY <1>1
<1>3. \A i \in 1..Len(a) : a[i] = w[i] /\ w[i] \in Symbols
    BY <1>1, <1>2
<1>4. a = [i \in 1..Len(a) |-> a[i]]
    OBVIOUS
<1> QED BY <1>1, <1>3, <1>4

LEMMA Lengths ==
    ASSUME NEW S, NEW x \in Seq(S), Len(x) >= 2
    PROVE  Len(x) >= 1 /\ Len(x) # 1 /\ Len(x) + 1 > 2
<1>1. \A n \in Nat : n >= 2 => n >= 1 /\ n # 1 /\ n + 1 > 2
    OBVIOUS
<1> QED BY <1>1, LenProperties

LEMMA LongFacts ==
    ASSUME NEW S, NEW x \in Seq(S), Len(x) > 2
    PROVE  Len(x) # 2
OBVIOUS

\* Matching goes on in a header's value with a name's match or a longer one.
LEMMA MatchSought ==
    ASSUME NEW seen, NEW ch, seen = General \/ (seen \in Seq(Symbols) /\ Len(seen) >= 2),
           NEW x, x = Matching(seen, ch, Sought)
    PROVE  x = General \/ (x \in Seq(Symbols) /\ Len(x) > 2)
<1> DEFINE a == Append(seen, ch)
<1>1. CASE \E w \in Sought : IsPrefix(a, w)
    <2>1. PICK w \in Sought : IsPrefix(a, w)
        BY <1>1
    <2> DEFINE S == Symbols \cup {ch}
    <2>2. seen \in Seq(Symbols) /\ Len(seen) >= 1 /\ (Len(seen) = 1 => seen[1] = "general")
        <3>1. CASE seen = General
            BY <3>1, WordFacts
        <3>2. CASE seen \in Seq(Symbols) /\ Len(seen) >= 2
            BY <3>2, Lengths
        <3> QED BY <3>1, <3>2
    <2>3. a \in Seq(S) /\ Len(a) = Len(seen) + 1 /\ a[1] = seen[1]
        <3>1. seen \in Seq(S)
            BY <2>2
        <3> QED BY <2>2, <3>1, AppendProperties
    <2> HIDE DEF S, a
    <2>4. a \in Seq(Symbols) /\ \A i \in 1..Len(a) : a[i] = w[i]
        BY <2>1, <2>3, SoughtFacts, PrefixSymbols
    <2>5. Len(seen) \in Nat
        BY <2>2
    <2>6. a[1] = w[1]
        BY <2>2, <2>3, <2>4, <2>5
    <2>7. Len(a) > 2
        <3>1. w[1] # "general"
            BY SoughtFacts
        <3>2. seen # General
            BY <2>3, <2>6, <3>1, WordFacts
        <3> QED BY <2>3, <3>2, Lengths
    <2>8. x = a
        BY <1>1 DEF Matching, a
    <2> QED BY <2>4, <2>7, <2>8
<1>2. CASE ~ \E w \in Sought : IsPrefix(a, w)
    BY <1>2 DEF Matching
<1> QED BY <1>1, <1>2

\* A match in a value is not a name.
LEMMA MatchedFacts ==
    ASSUME NEW x, x = General \/ (x \in Seq(Symbols) /\ Len(x) > 2)
    PROVE  Matched(x) /\ x \notin {Connection, ContentLength, TransferEncoding}
<1>1. Len(Connection) = 2 /\ Len(ContentLength) = 2 /\ Len(TransferEncoding) = 2
      /\ Len(General) = 1
    BY WordFacts
<1>2. Len(x) # 2
    <2>1. CASE x = General
        BY <1>1, <2>1
    <2>2. CASE x \in Seq(Symbols) /\ Len(x) > 2
        BY <2>2, LongFacts
    <2> QED BY <2>1, <2>2
<1>3. x \notin {Connection, ContentLength, TransferEncoding}
    BY <1>1, <1>2
<1> QED BY <1>3 DEF Matched

\* The end of a message, with nothing marked.
LEMMA CompleteStep ==
    ASSUME NEW s, NEW r, Typed(s), NoMarks(s), s.nread \in {0, r.nread}
    PROVE  Stepped(Complete(s), r)
BY CompleteFacts DEF Stepped

LEMMA HeadersDoneStep ==
    ASSUME NEW s, NEW r, Typed(s), NoMarks(s)
    PROVE  Stepped(HeadersDone(s), r)
<1> DEFINE h == OnHeaders(s)
<1>1. Typed(h) /\ NoMarks(h) /\ h.length = s.length
    BY HeadersFacts DEF Typed, SameButTexts, NoMarks
<1>2. PICK u : u = ("upgrade" \in s.flags)
    OBVIOUS
<1> HIDE DEF h
<1>3. PICK t : t = [h EXCEPT !.nread = 0, !.upgrade = u]
    OBVIOUS
<1>4. Typed(t) /\ NoMarks(t) /\ t.nread = 0
    <2>1. IsParser(h)
        BY <1>1 DEF Typed
    <2>2. IsParser(t)
        BY <1>3, <2>1 DEF IsParser
    <2>3. /\ t.state = h.state /\ t.flags = h.flags /\ t.length = h.length
          /\ t.marks = h.marks /\ t.ok = h.ok /\ t.building = h.building /\ t.nread = 0
        BY <1>3, <2>1 DEF IsParser
    <2> QED BY <1>1, <2>2, <2>3 DEF Typed, NoMarks
<1>5. HeadersDone(s) = CASE t.upgrade -> Complete(t)
                         [] ~ t.upgrade /\ "chunked" \in t.flags -> To(t, "chunk_size_start")
                         [] ~ t.upgrade /\ "chunked" \notin t.flags /\ t.length \notin {0, Null} ->
                               To(t, "body_identity")
                         [] OTHER -> Complete(t)
    BY <1>2, <1>3 DEF HeadersDone, h
<1>6. Stepped(Complete(t), r)
    BY <1>4, CompleteStep
<1>7. ASSUME "chunked" \in t.flags
      PROVE  Stepped(To(t, "chunk_size_start"), r)
    <2>1. /\ Typed(To(t, "chunk_size_start")) /\ To(t, "chunk_size_start").marks = t.marks
          /\ To(t, "chunk_size_start").state = "chunk_size_start"
          /\ To(t, "chunk_size_start").nread = 0 /\ To(t, "chunk_size_start").flags = t.flags
        BY <1>4, ToFacts DEF States
    <2> QED BY <1>4, <1>7, <2>1 DEF Stepped, Good, MarksFit, NoMarks, Kinds, Ready
<1>8. ASSUME t.length \notin {0, Null}
      PROVE  Stepped(To(t, "body_identity"), r)
    <2>1. /\ Typed(To(t, "body_identity")) /\ To(t, "body_identity").marks = t.marks
          /\ To(t, "body_identity").state = "body_identity"
          /\ To(t, "body_identity").nread = 0 /\ To(t, "body_identity").length = t.length
        BY <1>4, ToFacts DEF States, BodyStates
    <2>2. t.length \in Nat \ {0}
        BY <1>4, <1>8 DEF Typed
    <2> QED BY <1>4, <2>1, <2>2 DEF Stepped, Good, MarksFit, NoMarks, Kinds, Ready
<1> QED BY <1>5, <1>6, <1>7, <1>8

LEMMA AlmostDoneStep ==
    ASSUME NEW s, NEW r, NEW ch, Typed(s), NoMarks(s), s.nread \in {0, r.nread}
    PROVE  Stepped(HeadersAlmostDone(s, ch), r)
<1>1. MarksFit(s)
    BY DEF NoMarks, MarksFit, Kinds
<1>2. Stepped(Error(s), r)
    BY <1>1, ErrorFacts DEF Stepped
<1> QED BY <1>2, CompleteStep, HeadersDoneStep DEF HeadersAlmostDone

\* The first symbol of a header line.
LEMMA FieldStartStep ==
    ASSUME NEW s, NEW r, NEW ch, Typed(s), NoMarks(s), s.nread \in {0, r.nread}
    PROVE  Stepped(FieldStart(s, ch), r)
<1>1. MarksFit(s)
    BY DEF NoMarks, MarksFit, Kinds
<1>2. Stepped(Error(s), r)
    BY <1>1, ErrorFacts DEF Stepped
<1>3. Stepped(To(s, "headers_almost_done"), r)
    BY QuietStep DEF Quiet, States
<1> DEFINE m == Mark(s, "field")
           h == To(m, "header_field")
           x == Matching(<<>>, ch, Names)
<1>4. /\ Typed(m) /\ m.nread = s.nread
      /\ \A j \in Kinds : j # "field" => m.marks[j] = Null
    BY MarkOwn DEF NoMarks, Kinds
<1>5. /\ Typed(h) /\ h.marks = m.marks /\ h.state = "header_field" /\ h.nread = m.nread
    <2> HIDE DEF m
    <2> QED BY <1>4, ToFacts DEF States
<1>6. PICK t : t = [h EXCEPT !.seen = x]
    OBVIOUS
<1>7. Stepped(t, r)
    <2> HIDE DEF h, x
    <2>1. IsParser(h)
        BY <1>5 DEF Typed
    <2>2. IsParser(t)
        BY <1>6, <2>1 DEF IsParser
    <2>3. /\ t.state = h.state /\ t.flags = h.flags /\ t.length = h.length
          /\ t.marks = h.marks /\ t.ok = h.ok /\ t.building = h.building /\ t.nread = h.nread
        BY <1>6, <2>1 DEF IsParser
    <2>4. Typed(t) /\ t.state = "header_field" /\ t.nread = s.nread
        BY <1>4, <1>5, <2>2, <2>3 DEF Typed
    <2>5. MarksFit(t) /\ Ready(t)
        BY <1>4, <1>5, <2>3, <2>4 DEF MarksFit, Kinds, Ready
    <2> QED BY <2>4, <2>5 DEF Stepped, Good
<1>8. FieldStart(s, ch) = CASE ch = "CR" -> To(s, "headers_almost_done")
                            [] ch = "LF" -> HeadersAlmostDone(s, ch)
                            [] Token(ch) -> t
                            [] OTHER -> Error(s)
    BY <1>6 DEF FieldStart
<1>9. ~ (Token(ch) /\ ch \in {"CR", "LF"})
    BY DEF Token
<1> HIDE DEF m, h, x
<1> QED BY <1>2, <1>3, <1>7, <1>8, <1>9, AlmostDoneStep

LEMMA NamesDiffer ==
    /\ Upgrade \notin {ContentLength, Connection, TransferEncoding}
    /\ ContentLength \notin {Connection, TransferEncoding}
<1>1. \A a, b, c, d : <<a, b>> = <<c, d>> => a = c /\ b = d
    OBVIOUS
<1> QED BY <1>1 DEF Upgrade, ContentLength, Connection, TransferEncoding

\* The first symbol of a header's value.
LEMMA ValueStartStep ==
    ASSUME NEW s, NEW r, NEW ch, Typed(s), NoMarks(s), s.nread \in {0, r.nread}
    PROVE  Stepped(ValueStart(s, ch), r)
<1> DEFINE m == Mark(s, "value")
           t == To(m, "header_value")
<1>1. /\ Typed(m) /\ m.nread = s.nread /\ m.seen = s.seen
      /\ \A j \in Kinds : j # "value" => m.marks[j] = Null
    BY MarkOwn DEF NoMarks, Kinds
<1>2. /\ Typed(t) /\ t.state = "header_value" /\ t.nread = s.nread /\ t.seen = s.seen
      /\ \A j \in Kinds : j # "value" => t.marks[j] = Null
    <2> HIDE DEF m
    <2> QED BY <1>1, ToFacts DEF States
<1>3. ValueStart(s, ch) =
        CASE s.seen = Upgrade -> [t EXCEPT !.flags = @ \cup {"upgrade"}, !.seen = General]
          [] s.seen = ContentLength ->
                IF ch \in DOMAIN Digit THEN [t EXCEPT !.length = Digit[ch]] ELSE Error(t)
          [] s.seen \in {Connection, TransferEncoding} -> [t EXCEPT !.seen = Matching(@, ch, Sought)]
          [] OTHER -> [t EXCEPT !.seen = General]
    BY DEF ValueStart
<1> HIDE DEF m, t
<1>4. IsParser(t) /\ MarksFit(t)
    BY <1>2 DEF Typed, MarksFit, Kinds
<1>5. ASSUME NEW u, Typed(u), u.state = "header_value", u.nread = s.nread, u.marks = t.marks,
             u.seen = General \/ (u.seen \in Seq(Symbols) /\ Len(u.seen) > 2)
      PROVE  Stepped(u, r)
    <2>1. Matched(u.seen) /\ u.seen # ContentLength
        BY <1>5, MatchedFacts
    <2>2. MarksFit(u) /\ Ready(u)
        BY <1>2, <1>5, <2>1 DEF MarksFit, Kinds, Ready
    <2> QED BY <1>5, <2>2 DEF Stepped, Good
<1>6. CASE s.seen = Upgrade
    <2>1. PICK u : u = [t EXCEPT !.flags = @ \cup {"upgrade"}, !.seen = General]
        OBVIOUS
    <2>2. IsParser(u)
        BY <1>4, <2>1 DEF IsParser
    <2>3. /\ u.state = t.state /\ u.length = t.length /\ u.flags = t.flags \cup {"upgrade"}
          /\ u.marks = t.marks /\ u.ok = t.ok /\ u.building = t.building /\ u.nread = t.nread
          /\ u.seen = General
        BY <1>4, <2>1 DEF IsParser
    <2>4. Typed(u)
        BY <1>2, <2>2, <2>3 DEF Typed, Flags
    <2>5. Stepped(u, r)
        BY <1>2, <1>5, <2>3, <2>4
    <2>6. ValueStart(s, ch) = u
        BY <1>3, <1>6, <2>1, NamesDiffer
    <2> QED BY <2>5, <2>6
<1>7. CASE s.seen # Upgrade /\ s.seen = ContentLength
    <2>1. CASE ch \in DOMAIN Digit
        <3>1. Digit[ch] \in Nat
            BY <2>1 DEF Digit
        <3>2. PICK u : u = [t EXCEPT !.length = Digit[ch]]
            OBVIOUS
        <3>3. IsParser(u)
            BY <1>4, <3>2 DEF IsParser
        <3>4. /\ u.state = t.state /\ u.length = Digit[ch] /\ u.flags = t.flags
              /\ u.marks = t.marks /\ u.ok = t.ok /\ u.building = t.building
              /\ u.nread = t.nread /\ u.seen = t.seen
            BY <1>4, <3>2 DEF IsParser
        <3>5. Typed(u)
            BY <1>2, <3>1, <3>3, <3>4 DEF Typed
        <3>6. MarksFit(u) /\ Ready(u)
            BY <1>2, <1>4, <1>7, <3>1, <3>4 DEF MarksFit, Ready, Matched
        <3>7. Stepped(u, r)
            BY <1>2, <3>4, <3>5, <3>6 DEF Stepped, Good
        <3>8. ValueStart(s, ch) = u
            BY <1>3, <1>7, <2>1, <3>2, NamesDiffer
        <3> QED BY <3>7, <3>8
    <2>2. CASE ch \notin DOMAIN Digit
        <3>1. Stepped(Error(t), r)
            BY <1>2, <1>4, ErrorFacts DEF Stepped
        <3>2. ValueStart(s, ch) = Error(t)
            BY <1>3, <1>7, <2>2, NamesDiffer
        <3> QED BY <3>1, <3>2
    <2> QED BY <2>1, <2>2
<1>8. ASSUME NEW x, x = General \/ (x \in Seq(Symbols) /\ Len(x) > 2)
      PROVE  Stepped([t EXCEPT !.seen = x], r)
    <2>1. PICK u : u = [t EXCEPT !.seen = x]
        OBVIOUS
    <2>2. IsParser(u)
        BY <1>4, <2>1 DEF IsParser
    <2>3. /\ u.state = t.state /\ u.length = t.length /\ u.flags = t.flags
          /\ u.marks = t.marks /\ u.ok = t.ok /\ u.building = t.building /\ u.nread = t.nread
          /\ u.seen = x
        BY <1>4, <2>1 DEF IsParser
    <2>4. Typed(u)
        BY <1>2, <2>2, <2>3 DEF Typed
    <2> QED BY <1>2, <1>5, <1>8, <2>1, <2>3, <2>4
<1>9. CASE s.seen \notin {Upgrade, ContentLength} /\ s.seen \in {Connection, TransferEncoding}
    <2>1. s.seen \in Seq(Symbols) /\ Len(s.seen) >= 2
        <3>1. s.seen \in Seq(Symbols) /\ Len(s.seen) = 2
            BY <1>9, WordFacts
        <3> QED BY <3>1
    <2>2. PICK x : x = Matching(s.seen, ch, Sought)
        OBVIOUS
    <2>3. x = General \/ (x \in Seq(Symbols) /\ Len(x) > 2)
        BY <2>1, <2>2, MatchSought
    <2>4. Matching(t.seen, ch, Sought) = x
        BY <1>2, <2>2
    <2>5. ValueStart(s, ch) = [t EXCEPT !.seen = x]
        BY <1>3, <1>9, <2>4
    <2> QED BY <1>8, <2>3, <2>5
<1>10. CASE s.seen \notin {Upgrade, ContentLength, Connection, TransferEncoding}
    <2>1. ValueStart(s, ch) = [t EXCEPT !.seen = General]
        BY <1>3, <1>10
    <2> QED BY <1>8, <2>1
<1> QED BY <1>6, <1>7, <1>9, <1>10

LEMMA FieldStep ==
    ASSUME NEW s, NEW ch, Good(s), s.state = "header_field"
    PROVE  Stepped(Field(s, ch), s)
<1>0. Typed(s) /\ MarksFit(s) /\ IsParser(s)
    BY DEF Good, Typed
<1>1. \A x \in Quiet : Stepped(To(Call(s, "field"), x), s)
    BY <1>0, CallOwn, QuietStep DEF MarksFit, Kinds
<1>2. PICK t : t = [s EXCEPT !.seen = Matching(@, ch, Names)]
    OBVIOUS
<1>3. IsParser(t)
    BY <1>0, <1>2 DEF IsParser
<1>4. /\ t.state = s.state /\ t.flags = s.flags /\ t.length = s.length
      /\ t.marks = s.marks /\ t.ok = s.ok /\ t.building = s.building /\ t.nread = s.nread
    BY <1>0, <1>2 DEF IsParser
<1>5. Typed(t) /\ MarksFit(t) /\ Ready(t)
    BY <1>0, <1>3, <1>4 DEF Typed, MarksFit, Ready
<1>6. Stepped(t, s)
    BY <1>4, <1>5 DEF Stepped, Good
<1>7. Field(s, ch) = CASE Token(ch) -> t
                       [] ch = ":" -> To(Call(s, "field"), "header_value_discard_ws")
                       [] ch = "CR" -> To(Call(s, "field"), "header_almost_done")
                       [] ch = "LF" -> To(Call(s, "field"), "header_field_start")
                       [] OTHER -> Error(s)
    BY <1>2 DEF Field
<1>8. ~ (Token(ch) /\ ch \in {"CR", "LF", ":"})
    BY DEF Token
<1>9. {"header_value_discard_ws", "header_almost_done", "header_field_start"} \subseteq Quiet
    BY DEF Quiet, States
<1>10. Stepped(Error(s), s)
    BY <1>0, ErrorFacts
<1> QED BY <1>1, <1>6, <1>7, <1>8, <1>9, <1>10

LEMMA DiscardWsStep ==
    ASSUME NEW s, NEW ch, Good(s), s.state = "header_value_discard_ws"
    PROVE  Stepped(DiscardWs(s, ch), s)
<1>0. NoMarks(s) /\ Typed(s)
    BY NoMarksOutside DEF Good, Marking
<1>1. \A x \in {"header_value_discard_ws_almost_done", "header_value_discard_lws"} :
         Stepped(To(s, x), s)
    BY <1>0, QuietStep DEF Quiet, States
<1>2. Stepped(s, s) /\ Stepped(ValueStart(s, ch), s)
    BY <1>0, StayStep, ValueStartStep
<1> QED BY <1>1, <1>2 DEF DiscardWs

LEMMA DiscardLwsStep ==
    ASSUME NEW s, NEW ch, Good(s), s.state = "header_value_discard_lws"
    PROVE  Stepped(DiscardLws(s, ch), s)
<1>0. NoMarks(s) /\ Typed(s)
    BY NoMarksOutside DEF Good, Marking
<1>1. Stepped(To(s, "header_value_discard_ws"), s)
    BY <1>0, QuietStep DEF Quiet, States
<1> DEFINE m == Mark(s, "value")
           t == Call(m, "value")
<1>2. /\ Typed(m) /\ m.nread = s.nread
      /\ \A j \in Kinds : j # "value" => m.marks[j] = Null
    BY <1>0, MarkOwn DEF NoMarks, Kinds
<1>3. Typed(t) /\ NoMarks(t) /\ t.nread = s.nread
    <2> HIDE DEF m
    <2> QED BY <1>2, CallOwn DEF Kinds
<1>4. DiscardLws(s, ch) = IF ch = "SP" THEN To(s, "header_value_discard_ws") ELSE FieldStart(t, ch)
    BY DEF DiscardLws
<1> HIDE DEF t
<1>5. Stepped(FieldStart(t, ch), s)
    BY <1>3, FieldStartStep
<1> QED BY <1>1, <1>4, <1>5

LEMMA ValueStep ==
    ASSUME NEW s, NEW ch, Good(s), s.ok, s.state = "header_value"
    PROVE  Stepped(Value(s, ch), s)
<1>0. /\ Typed(s) /\ MarksFit(s) /\ IsParser(s) /\ Matched(s.seen)
      /\ s.seen = ContentLength => s.length \in Nat
    BY DEF Good, Typed, Ready
<1>1. \A x \in Quiet : Stepped(To(Call(s, "value"), x), s)
    BY <1>0, CallOwn, QuietStep DEF MarksFit, Kinds
<1>2. Stepped(s, s) /\ Stepped(Error(s), s)
    BY <1>0, StayStep, ErrorFacts
<1>3. {"header_almost_done", "header_value_lws"} \subseteq Quiet
    BY DEF Quiet, States
<1>4. CASE ch \in {"CR", "LF"} \/ (ch = "SP" /\ s.seen \in Sought \cup {ContentLength})
    <2>1. ch = "CR" => Value(s, ch) = To(Call(s, "value"), "header_almost_done")
        BY DEF Value
    <2>2. ch = "LF" => Value(s, ch) = To(Call(s, "value"), "header_value_lws")
        BY DEF Value
    <2>3. ch = "SP" /\ s.seen \in Sought \cup {ContentLength} => Value(s, ch) = s
        BY DEF Value
    <2> QED BY <1>1, <1>2, <1>3, <1>4, <2>1, <2>2, <2>3
<1>5. CASE ch \notin {"CR", "LF", "SP"} /\ s.seen = ContentLength
    <2>1. CASE ch \in DOMAIN Digit
        <3>1. Digit[ch] \in Nat
            BY <2>1 DEF Digit
        <3>2. PICK l : l = 10 * s.length + Digit[ch]
            OBVIOUS
        <3>3. l \in Nat
            BY <1>0, <1>5, <3>1, <3>2
        <3>4. PICK u : u = [s EXCEPT !.length = l]
            OBVIOUS
        <3>5. IsParser(u)
            BY <1>0, <3>4 DEF IsParser
        <3>6. /\ u.state = s.state /\ u.length = l /\ u.flags = s.flags
              /\ u.marks = s.marks /\ u.ok = s.ok /\ u.building = s.building
              /\ u.nread = s.nread /\ u.seen = s.seen
            BY <1>0, <3>4 DEF IsParser
        <3>7. Typed(u)
            BY <1>0, <3>3, <3>5, <3>6 DEF Typed
        <3>8. MarksFit(u) /\ Ready(u)
            BY <1>0, <3>3, <3>6 DEF MarksFit, Ready
        <3>9. Stepped(u, s)
            BY <3>6, <3>7, <3>8 DEF Stepped, Good
        <3>10. Value(s, ch) = u
            BY <1>5, <2>1, <3>2, <3>4 DEF Value
        <3> QED BY <3>9, <3>10
    <2>2. CASE ch \notin DOMAIN Digit
        <3>1. Value(s, ch) = Error(s)
            BY <1>5, <2>2 DEF Value
        <3> QED BY <1>2, <3>1
    <2> QED BY <2>1, <2>2
<1>6. CASE ch \notin {"CR", "LF"} /\ s.seen # ContentLength /\ ~ (ch = "SP" /\ s.seen \in Sought)
    <2>1. s.seen = General \/ (s.seen \in Seq(Symbols) /\ Len(s.seen) >= 2)
        <3>1. CASE s.seen \in Seq(Symbols) /\ Len(s.seen) > 2
            <4>1. \A n \in Nat : n > 2 => n >= 2
                OBVIOUS
            <4> QED BY <3>1, <4>1, LenProperties
        <3> QED BY <1>0, <1>6, <3>1 DEF Matched
    <2>2. PICK x : x = Matching(s.seen, ch, Sought)
        OBVIOUS
    <2>3. x = General \/ (x \in Seq(Symbols) /\ Len(x) > 2)
        BY <2>1, <2>2, MatchSought
    <2>4. Matched(x) /\ x # ContentLength
        BY <2>3, MatchedFacts
    <2>5. PICK u : u = [s EXCEPT !.seen = x]
        OBVIOUS
    <2>6. IsParser(u)
        BY <1>0, <2>5 DEF IsParser
    <2>7. /\ u.state = s.state /\ u.length = s.length /\ u.flags = s.flags
          /\ u.marks = s.marks /\ u.ok = s.ok /\ u.building = s.building
          /\ u.nread = s.nread /\ u.seen = x
        BY <1>0, <2>5 DEF IsParser
    <2>8. Typed(u)
        BY <1>0, <2>6, <2>7 DEF Typed
    <2>9. MarksFit(u) /\ Ready(u)
        BY <1>0, <2>4, <2>7 DEF MarksFit, Ready
    <2>10. Stepped(u, s)
        BY <2>7, <2>8, <2>9 DEF Stepped, Good
    <2>11. Value(s, ch) = u
        BY <1>6, <2>2, <2>5 DEF Value
    <2> QED BY <2>10, <2>11
<1> QED BY <1>4, <1>5, <1>6

LEMMA ValueLwsStep ==
    ASSUME NEW s, NEW ch, Good(s), s.state = "header_value_lws"
    PROVE  Stepped(ValueLws(s, ch), s)
<1>0. NoMarks(s) /\ Typed(s) /\ IsParser(s)
    BY NoMarksOutside DEF Good, Marking, Typed
<1> DEFINE flag == CASE s.seen = Connection \o Close -> {"close"}
                     [] s.seen = Connection \o KeepAlive -> {"keep-alive"}
                     [] s.seen = TransferEncoding \o Chunked -> {"chunked"}
                     [] OTHER -> {}
<1>1. flag \subseteq Flags
    BY DEF Flags
<1>2. PICK t : t = [s EXCEPT !.flags = @ \cup flag]
    OBVIOUS
<1>3. ValueLws(s, ch) = IF ch = "SP" THEN ValueStart(s, ch) ELSE FieldStart(t, ch)
    BY <1>2 DEF ValueLws
<1> HIDE DEF flag
<1>4. IsParser(t)
    BY <1>0, <1>2 DEF IsParser
<1>5. /\ t.state = s.state /\ t.flags = s.flags \cup flag /\ t.length = s.length
      /\ t.marks = s.marks /\ t.ok = s.ok /\ t.building = s.building /\ t.nread = s.nread
    BY <1>0, <1>2 DEF IsParser
<1>6. Typed(t) /\ NoMarks(t)
    BY <1>0, <1>1, <1>4, <1>5 DEF Typed, NoMarks
<1> QED BY <1>0, <1>3, <1>5, <1>6, ValueStartStep, FieldStartStep

-----------------------------------------------------------------------------
(* Bodies *)

\* One more symbol of a body: it is marked and one fewer is left.
LEMMA BodyFacts ==
    ASSUME NEW s, Good(s), s.ok, s.state \in {"body_identity", "chunk_data"},
           NEW t, t = [Mark(s, "body") EXCEPT !.length = @ - 1]
    PROVE  /\ Typed(t) /\ t.state = s.state /\ t.flags = s.flags /\ t.nread = s.nread
           /\ t.length = s.length - 1 /\ t.length \in Nat
           /\ \A j \in Kinds : j # "body" => t.marks[j] = Null
<1> DEFINE m == Mark(s, "body")
<1>1. Typed(s) /\ s.length \in Nat \ {0}
    BY DEF Good, Ready
<1>2. \A j \in Kinds : j # "body" => s.marks[j] = Null
    BY DEF Good, MarksFit, Kinds
<1>3. /\ Typed(m) /\ m.state = s.state /\ m.flags = s.flags /\ m.nread = s.nread
      /\ m.length = s.length /\ \A j \in Kinds : j # "body" => m.marks[j] = Null
    BY <1>1, <1>2, MarkOwn DEF Kinds
<1>4. PICK l : l = s.length - 1
    OBVIOUS
<1>5. l \in Nat
    BY <1>1, <1>4
<1> HIDE DEF m
<1>6. t = [m EXCEPT !.length = l]
    BY <1>3, <1>4 DEF m
<1>7. IsParser(m)
    BY <1>3 DEF Typed
<1>8. IsParser(t)
    BY <1>6, <1>7 DEF IsParser
<1>9. /\ t.state = m.state /\ t.length = l /\ t.flags = m.flags /\ t.marks = m.marks
      /\ t.ok = m.ok /\ t.building = m.building /\ t.nread = m.nread
    BY <1>6, <1>7 DEF IsParser
<1>10. Typed(t)
    BY <1>3, <1>5, <1>8, <1>9 DEF Typed
<1> QED BY <1>3, <1>4, <1>5, <1>9, <1>10

LEMMA BodyIdentityStep ==
    ASSUME NEW s, NEW ch, Good(s), s.ok, s.state = "body_identity"
    PROVE  Stepped(BodyIdentity(s, ch), s)
<1>1. PICK t : t = [Mark(s, "body") EXCEPT !.length = @ - 1]
    OBVIOUS
<1>2. /\ Typed(t) /\ t.state = s.state /\ t.nread = s.nread /\ t.length \in Nat
      /\ \A j \in Kinds : j # "body" => t.marks[j] = Null
    BY <1>1, BodyFacts
<1>3. CASE t.length > 0
    <2>1. t.length \in Nat \ {0}
        BY <1>2, <1>3
    <2>2. MarksFit(t) /\ Ready(t)
        BY <1>2, <2>1 DEF MarksFit, Kinds, Ready
    <2>3. Stepped(t, s)
        BY <1>2, <2>2 DEF Stepped, Good
    <2>4. BodyIdentity(s, ch) = t
        BY <1>1, <1>3 DEF BodyIdentity
    <2> QED BY <2>3, <2>4
<1>4. CASE ~ (t.length > 0)
    <2>1. PICK u : u = [t EXCEPT !.marks.body = Append(@, ch)]
        OBVIOUS
    <2>2. BodyIdentity(s, ch) = Complete(Call(u, "body"))
        BY <1>1, <1>4, <2>1 DEF BodyIdentity
    <2>3. Typed(u) /\ u.nread = t.nread /\ \A j \in Kinds : j # "body" => u.marks[j] = Null
        <3>1. PICK m : m = [t.marks EXCEPT !.body = Append(@, ch)]
            OBVIOUS
        <3>2. u = [t EXCEPT !.marks = m]
            BY <2>1, <3>1
        <3>3. IsParser(t)
            BY <1>2 DEF Typed
        <3>4. m = [j \in Kinds |-> m[j]] /\ \A j \in Kinds : j # "body" => m[j] = t.marks[j]
            BY <3>1, <3>3 DEF IsParser
        <3>5. /\ u.state = t.state /\ u.length = t.length /\ u.flags = t.flags /\ u.marks = m
              /\ u.ok = t.ok /\ u.building = t.building /\ u.nread = t.nread
            BY <3>2, <3>3 DEF IsParser
        <3>6. IsParser(u)
            BY <3>2, <3>3, <3>4 DEF IsParser
        <3>7. Typed(u)
            BY <1>2, <3>5, <3>6 DEF Typed
        <3> QED BY <1>2, <3>4, <3>5, <3>7
    <2>4. Typed(Call(u, "body")) /\ NoMarks(Call(u, "body")) /\ Call(u, "body").nread = s.nread
        BY <1>2, <2>3, CallOwn DEF Kinds
    <2> QED BY <2>2, <2>4, CompleteStep
<1> QED BY <1>3, <1>4

LEMMA ChunkDataStep ==
    ASSUME NEW s, NEW ch, Good(s), s.ok, s.state = "chunk_data"
    PROVE  Stepped(ChunkData(s, ch), s)
<1>1. PICK t : t = [Mark(s, "body") EXCEPT !.length = @ - 1]
    OBVIOUS
<1>2. /\ Typed(t) /\ t.state = s.state /\ t.flags = s.flags /\ t.nread = s.nread
      /\ t.length \in Nat /\ \A j \in Kinds : j # "body" => t.marks[j] = Null
    BY <1>1, BodyFacts
<1>0. "chunked" \in s.flags
    BY DEF Good, Ready
<1>3. CASE t.length = 0
    <2>1. PICK u : u = To(t, "chunk_data_almost_done")
        OBVIOUS
    <2>2. /\ Typed(u) /\ u.marks = t.marks /\ u.nread = t.nread /\ u.length = t.length
          /\ u.flags = t.flags /\ u.state = "chunk_data_almost_done"
        BY <1>2, <2>1, ToFacts DEF States, BodyStates
    <2>3. MarksFit(u) /\ Ready(u)
        BY <1>0, <1>2, <1>3, <2>2 DEF MarksFit, Kinds, Ready
    <2>4. Stepped(u, s)
        BY <1>2, <2>2, <2>3 DEF Stepped, Good
    <2>5. ChunkData(s, ch) = u
        BY <1>1, <1>3, <2>1 DEF ChunkData
    <2> QED BY <2>4, <2>5
<1>4. CASE t.length # 0
    <2>1. MarksFit(t) /\ Ready(t)
        BY <1>0, <1>2, <1>4 DEF MarksFit, Kinds, Ready
    <2>2. Stepped(t, s)
        BY <1>2, <2>1 DEF Stepped, Good
    <2>3. ChunkData(s, ch) = t
        BY <1>1, <1>4 DEF ChunkData
    <2> QED BY <2>2, <2>3
<1> QED BY <1>3, <1>4

\* A symbol that gives the parser a length and a state that counts.
LEMMA CountStep ==
    ASSUME NEW s, Good(s), NoMarks(s), "chunked" \in s.flags, NEW l \in Nat,
           NEW x \in {"chunk_size", "chunk_size_almost_done", "chunk_parameters"},
           NEW t, t = [To(s, x) EXCEPT !.length = l]
    PROVE  Stepped(t, s)
<1> DEFINE m == To(s, x)
<1>1. /\ Typed(m) /\ m.marks = s.marks /\ m.nread = s.nread /\ m.state = x
      /\ m.flags = s.flags
    BY ToFacts DEF States, Good
<1> HIDE DEF m
<1>2. t = [m EXCEPT !.length = l] /\ IsParser(m)
    BY <1>1 DEF m, Typed
<1>3. IsParser(t)
    BY <1>2 DEF IsParser
<1>4. /\ t.state = m.state /\ t.length = l /\ t.flags = m.flags /\ t.marks = m.marks
      /\ t.ok = m.ok /\ t.building = m.building /\ t.nread = m.nread
    BY <1>2 DEF IsParser
<1>5. Typed(t)
    BY <1>1, <1>3, <1>4 DEF Typed
<1>6. MarksFit(t) /\ Ready(t)
    BY <1>1, <1>4 DEF MarksFit, NoMarks, Kinds, Ready
<1> QED BY <1>1, <1>4, <1>5, <1>6 DEF Stepped, Good

\* A symbol that keeps the length.
LEMMA KeepCount ==
    ASSUME NEW s, Good(s), NoMarks(s), "chunked" \in s.flags, s.length \in Nat,
           NEW x \in {"chunk_size", "chunk_size_almost_done", "chunk_parameters"}
    PROVE  Stepped(To(s, x), s)
<1>1. /\ Typed(To(s, x)) /\ To(s, x).marks = s.marks /\ To(s, x).nread = s.nread
      /\ To(s, x).state = x /\ To(s, x).length = s.length /\ To(s, x).flags = s.flags
    BY ToFacts DEF States, Good
<1>2. MarksFit(To(s, x)) /\ Ready(To(s, x))
    BY <1>1 DEF MarksFit, NoMarks, Kinds, Ready
<1> QED BY <1>1, <1>2 DEF Stepped, Good

LEMMA ChunkSizeStartStep ==
    ASSUME NEW s, NEW ch, Good(s), s.ok, s.state = "chunk_size_start"
    PROVE  Stepped(ChunkSizeStart(s, ch), s)
<1>0. NoMarks(s) /\ Typed(s) /\ MarksFit(s) /\ "chunked" \in s.flags
    BY NoMarksOutside DEF Good, Marking, Ready
<1>1. CASE ch \in DOMAIN Digit
    <2>1. Digit[ch] \in Nat
        BY <1>1 DEF Digit
    <2>2. PICK t : t = [To(s, "chunk_size") EXCEPT !.length = Digit[ch]]
        OBVIOUS
    <2>3. ChunkSizeStart(s, ch) = t
        BY <1>1, <2>2 DEF ChunkSizeStart
    <2> QED BY <1>0, <2>1, <2>2, <2>3, CountStep
<1>2. CASE ch \notin DOMAIN Digit
    BY <1>0, <1>2, ErrorFacts DEF ChunkSizeStart
<1> QED BY <1>1, <1>2

LEMMA ChunkSizeStep ==
    ASSUME NEW s, NEW ch, Good(s), s.ok, s.state = "chunk_size"
    PROVE  Stepped(ChunkSize(s, ch), s)
<1>0. NoMarks(s) /\ Typed(s) /\ MarksFit(s) /\ "chunked" \in s.flags /\ s.length \in Nat
    BY NoMarksOutside DEF Good, Marking, Ready
<1>1. /\ Stepped(To(s, "chunk_size_almost_done"), s) /\ Stepped(To(s, "chunk_parameters"), s)
      /\ Stepped(Error(s), s)
    BY <1>0, KeepCount, ErrorFacts
<1>2. CASE ch \in DOMAIN Digit
    <2>1. Digit[ch] \in Nat /\ ch \notin {"CR", ";", "SP"}
        BY <1>2 DEF Digit
    <2>2. PICK l : l = 16 * s.length + Digit[ch]
        OBVIOUS
    <2>3. l \in Nat
        <3>1. \A a, b \in Nat : 16 * a + b \in Nat
            OBVIOUS
        <3> QED BY <1>0, <2>1, <2>2, <3>1
    <2>4. To(s, "chunk_size") = s
        <3>1. IsParser(s)
            BY <1>0 DEF Typed
        <3> QED BY <3>1 DEF To, IsParser
    <2>5. PICK t : t = [s EXCEPT !.length = l]
        OBVIOUS
    <2>6. Stepped(t, s)
        BY <1>0, <2>3, <2>4, <2>5, CountStep
    <2>7. ChunkSize(s, ch) = t
        BY <1>2, <2>1, <2>2, <2>5 DEF ChunkSize
    <2> QED BY <2>6, <2>7
<1>3. CASE ch \notin DOMAIN Digit
    BY <1>1, <1>3 DEF ChunkSize
<1> QED BY <1>2, <1>3

LEMMA ParametersStep ==
    ASSUME NEW s, Good(s), s.ok, s.state = "chunk_parameters"
    PROVE  Stepped(s, s) /\ Stepped(To(s, "chunk_size_almost_done"), s)
<1>0. NoMarks(s) /\ "chunked" \in s.flags /\ s.length \in Nat
    BY NoMarksOutside DEF Good, Marking, Ready
<1> QED BY <1>0, StayStep, KeepCount

LEMMA ChunkSizeAlmostDoneStep ==
    ASSUME NEW s, NEW ch, Good(s), s.ok, s.state = "chunk_size_almost_done"
    PROVE  Stepped(ChunkSizeAlmostDone(s, ch), s)
<1>0. /\ NoMarks(s) /\ Typed(s) /\ MarksFit(s) /\ s.length \in Nat /\ IsParser(s)
      /\ "chunked" \in s.flags
    BY NoMarksOutside DEF Good, Marking, Ready, Typed
<1>1. PICK t : t = [s EXCEPT !.nread = 0]
    OBVIOUS
<1>2. IsParser(t)
    BY <1>0, <1>1 DEF IsParser
<1>3. /\ t.state = s.state /\ t.length = s.length /\ t.flags = s.flags /\ t.marks = s.marks
      /\ t.ok = s.ok /\ t.building = s.building /\ t.nread = 0
    BY <1>0, <1>1 DEF IsParser
<1>4. Typed(t) /\ NoMarks(t)
    BY <1>0, <1>2, <1>3 DEF Typed, NoMarks
<1>5. CASE ch # "LF"
    BY <1>0, <1>5, ErrorFacts DEF ChunkSizeAlmostDone
<1>6. CASE ch = "LF" /\ s.length = 0
    <2>1. PICK m : m = To(t, "header_field_start")
        OBVIOUS
    <2>2. /\ Typed(m) /\ m.marks = t.marks /\ m.nread = t.nread /\ m.state = "header_field_start"
        BY <1>4, <2>1, ToFacts DEF States
    <2>3. IsParser(m)
        BY <2>2 DEF Typed
    <2>4. PICK u : u = [m EXCEPT !.flags = @ \cup {"trailing"}]
        OBVIOUS
    <2>5. IsParser(u)
        BY <2>3, <2>4 DEF IsParser
    <2>6. /\ u.state = m.state /\ u.length = m.length /\ u.flags = m.flags \cup {"trailing"}
          /\ u.marks = m.marks /\ u.ok = m.ok /\ u.building = m.building /\ u.nread = m.nread
        BY <2>3, <2>4 DEF IsParser
    <2>7. Typed(u)
        BY <2>2, <2>5, <2>6 DEF Typed, Flags
    <2>8. MarksFit(u) /\ Ready(u)
        BY <1>4, <2>2, <2>6 DEF MarksFit, NoMarks, Kinds, Ready
    <2>9. Stepped(u, s)
        BY <1>3, <2>2, <2>6, <2>7, <2>8 DEF Stepped, Good
    <2>10. ChunkSizeAlmostDone(s, ch) = u
        BY <1>1, <1>6, <2>1, <2>4 DEF ChunkSizeAlmostDone
    <2> QED BY <2>9, <2>10
<1>7. CASE ch = "LF" /\ s.length # 0
    <2>1. PICK u : u = To(t, "chunk_data")
        OBVIOUS
    <2>2. /\ Typed(u) /\ u.marks = t.marks /\ u.nread = t.nread /\ u.state = "chunk_data"
          /\ u.length = t.length /\ u.flags = t.flags
        BY <1>4, <2>1, ToFacts DEF States, BodyStates
    <2>3. MarksFit(u) /\ Ready(u)
        BY <1>0, <1>3, <1>4, <1>7, <2>2 DEF MarksFit, NoMarks, Kinds, Ready
    <2>4. Stepped(u, s)
        BY <1>3, <2>2, <2>3 DEF Stepped, Good
    <2>5. ChunkSizeAlmostDone(s, ch) = u
        BY <1>1, <1>7, <2>1 DEF ChunkSizeAlmostDone
    <2> QED BY <2>4, <2>5
<1> QED BY <1>5, <1>6, <1>7

LEMMA DataAlmostDoneStep ==
    ASSUME NEW s, NEW ch, Good(s), s.ok, s.state = "chunk_data_almost_done"
    PROVE  Stepped(Expect(Call(s, "body"), ch, "CR", "chunk_data_done"), s)
<1>1. /\ Typed(s) /\ \A j \in Kinds : j # "body" => s.marks[j] = Null
      /\ "chunked" \in s.flags
    BY DEF Good, MarksFit, Kinds, Ready
<1>2. PICK t : t = Call(s, "body")
    OBVIOUS
<1>3. Typed(t) /\ NoMarks(t) /\ t.nread = s.nread /\ t.flags = s.flags
    BY <1>1, <1>2, CallOwn DEF Kinds
<1>4. PICK u : u = To(t, "chunk_data_done")
    OBVIOUS
<1>5. /\ Typed(u) /\ u.marks = t.marks /\ u.nread = t.nread /\ u.state = "chunk_data_done"
      /\ u.flags = t.flags
    BY <1>3, <1>4, ToFacts DEF States, BodyStates
<1>6. MarksFit(u) /\ Ready(u)
    BY <1>1, <1>3, <1>5 DEF MarksFit, NoMarks, Kinds, Ready
<1>7. Stepped(u, s)
    BY <1>3, <1>5, <1>6 DEF Stepped, Good
<1>8. MarksFit(t)
    BY <1>3 DEF NoMarks, MarksFit, Kinds
<1>9. Stepped(Error(t), s)
    BY <1>3, <1>8, ErrorFacts DEF Stepped
<1> QED BY <1>2, <1>4, <1>7, <1>9 DEF Expect

LEMMA ChunkDataDoneStep ==
    ASSUME NEW s, NEW ch, Good(s), s.ok, s.state = "chunk_data_done"
    PROVE  Stepped(ChunkDataDone(s, ch), s)
<1>0. NoMarks(s) /\ Typed(s) /\ IsParser(s) /\ "chunked" \in s.flags
    BY NoMarksOutside DEF Good, Marking, Typed, Ready
<1>1. PICK t : t = [s EXCEPT !.nread = 0]
    OBVIOUS
<1>2. IsParser(t)
    BY <1>0, <1>1 DEF IsParser
<1>3. /\ t.state = s.state /\ t.length = s.length /\ t.flags = s.flags /\ t.marks = s.marks
      /\ t.ok = s.ok /\ t.building = s.building /\ t.nread = 0
    BY <1>0, <1>1 DEF IsParser
<1>4. Typed(t) /\ NoMarks(t) /\ MarksFit(t)
    BY <1>0, <1>2, <1>3 DEF Typed, NoMarks, MarksFit, Kinds
<1>5. Stepped(Error(t), s)
    BY <1>3, <1>4, ErrorFacts DEF Stepped
<1>6. PICK u : u = To(t, "chunk_size_start")
    OBVIOUS
<1>7. /\ Typed(u) /\ u.marks = t.marks /\ u.nread = 0 /\ u.state = "chunk_size_start"
      /\ u.flags = t.flags
    BY <1>3, <1>4, <1>6, ToFacts DEF States
<1>8. MarksFit(u) /\ Ready(u)
    BY <1>0, <1>3, <1>4, <1>7 DEF MarksFit, NoMarks, Kinds, Ready
<1>9. Stepped(u, s)
    BY <1>7, <1>8 DEF Stepped, Good
<1>10. ChunkDataDone(s, ch) = IF ch = "LF" THEN u ELSE Error(t)
    BY <1>1, <1>6 DEF ChunkDataDone, Expect
<1> QED BY <1>5, <1>9, <1>10

-----------------------------------------------------------------------------
(* The loop *)

\* Every symbol in every state.
LEMMA StepFacts ==
    ASSUME NEW s, NEW ch, Good(s), s.ok
    PROVE  Stepped(Step(s, ch), s)
<1>0. Typed(s) /\ s.state \in States
    BY DEF Good, Typed
<1>1. CASE s.state \in {"start_req", "dead", "req_method", "req_spaces_before_url", "req_path",
                        "req_http_start", "req_http_minor", "req_line_almost_done"}
    <2>1. s.state = "start_req" => Step(s, ch) = StartReq(s, ch)
        BY DEF Step
    <2>2. s.state = "dead" => Step(s, ch) = Dead(s, ch)
        BY DEF Step
    <2>3. s.state = "req_method" => Step(s, ch) = Expect(s, ch, "SP", "req_spaces_before_url")
        BY DEF Step
    <2>4. s.state = "req_spaces_before_url" => Step(s, ch) = SpacesBeforeUrl(s, ch)
        BY DEF Step
    <2>5. s.state = "req_path" => Step(s, ch) = ReqPath(s, ch)
        BY DEF Step
    <2>6. s.state = "req_http_start" => Step(s, ch) = HttpStart(s, ch)
        BY DEF Step
    <2>7. s.state = "req_http_minor" => Step(s, ch) = HttpMinor(s, ch)
        BY DEF Step
    <2>8. s.state = "req_line_almost_done" => Step(s, ch) = Expect(s, ch, "LF", "header_field_start")
        BY DEF Step
    <2>9. ASSUME s.state \in {"req_method", "req_line_almost_done"}
          PROVE  \A w, x : x \in Quiet => Stepped(Expect(s, ch, w, x), s)
        <3>1. NoMarks(s)
            BY <2>9, NoMarksOutside DEF Good, Marking
        <3> QED BY <1>0, <3>1, ExpectStep
    <2>10. "req_spaces_before_url" \in Quiet /\ "header_field_start" \in Quiet
        BY DEF Quiet, States
    <2> QED BY <1>1, <2>1, <2>2, <2>3, <2>4, <2>5, <2>6, <2>7, <2>8, <2>9, <2>10, StartReqStep,
               DeadStep, UrlStep, PathStep, HttpStartStep, HttpMinorStep
<1>2. CASE s.state \in {"header_field_start", "header_field", "header_value_discard_ws",
                        "header_value_discard_ws_almost_done", "header_value_discard_lws",
                        "header_value", "header_almost_done", "header_value_lws",
                        "headers_almost_done"}
    <2>1. s.state = "header_field_start" => Step(s, ch) = FieldStart(s, ch)
        BY DEF Step
    <2>2. s.state = "header_field" => Step(s, ch) = Field(s, ch)
        BY DEF Step
    <2>3. s.state = "header_value_discard_ws" => Step(s, ch) = DiscardWs(s, ch)
        BY DEF Step
    <2>4. s.state = "header_value_discard_ws_almost_done" =>
            Step(s, ch) = Expect(s, ch, "LF", "header_value_discard_lws")
        BY DEF Step
    <2>5. s.state = "header_value_discard_lws" => Step(s, ch) = DiscardLws(s, ch)
        BY DEF Step
    <2>6. s.state = "header_value" => Step(s, ch) = Value(s, ch)
        BY DEF Step
    <2>7. s.state = "header_almost_done" => Step(s, ch) = Expect(s, ch, "LF", "header_value_lws")
        BY DEF Step
    <2>8. s.state = "header_value_lws" => Step(s, ch) = ValueLws(s, ch)
        BY DEF Step
    <2>9. s.state = "headers_almost_done" => Step(s, ch) = HeadersAlmostDone(s, ch)
        BY DEF Step
    <2>10. ASSUME s.state \in {"header_field_start", "header_value_discard_ws_almost_done",
                               "header_almost_done", "headers_almost_done"}
           PROVE  /\ \A w, x : x \in Quiet => Stepped(Expect(s, ch, w, x), s)
                  /\ Stepped(FieldStart(s, ch), s) /\ Stepped(HeadersAlmostDone(s, ch), s)
        <3>1. NoMarks(s)
            BY <2>10, NoMarksOutside DEF Good, Marking
        <3> QED BY <1>0, <3>1, ExpectStep, FieldStartStep, AlmostDoneStep
    <2>11. "header_value_discard_lws" \in Quiet /\ "header_value_lws" \in Quiet
        BY DEF Quiet, States
    <2> QED BY <1>2, <2>1, <2>2, <2>3, <2>4, <2>5, <2>6, <2>7, <2>8, <2>9, <2>10, <2>11,
               FieldStep, DiscardWsStep, DiscardLwsStep, ValueStep, ValueLwsStep
<1>3. CASE s.state \in BodyStates \cup {"chunk_size_start", "chunk_size", "chunk_parameters",
                                        "chunk_size_almost_done"}
    <2>1. s.state = "body_identity" => Step(s, ch) = BodyIdentity(s, ch)
        BY DEF Step
    <2>2. s.state = "chunk_size_start" => Step(s, ch) = ChunkSizeStart(s, ch)
        BY DEF Step
    <2>3. s.state = "chunk_size" => Step(s, ch) = ChunkSize(s, ch)
        BY DEF Step
    <2>4. s.state = "chunk_parameters" =>
            Step(s, ch) = IF ch = "CR" THEN To(s, "chunk_size_almost_done") ELSE s
        BY DEF Step
    <2>5. s.state = "chunk_size_almost_done" => Step(s, ch) = ChunkSizeAlmostDone(s, ch)
        BY DEF Step
    <2>6. s.state = "chunk_data" => Step(s, ch) = ChunkData(s, ch)
        BY DEF Step
    <2>7. s.state = "chunk_data_almost_done" =>
            Step(s, ch) = Expect(Call(s, "body"), ch, "CR", "chunk_data_done")
        BY DEF Step
    <2>8. s.state = "chunk_data_done" => Step(s, ch) = ChunkDataDone(s, ch)
        BY DEF Step
    <2> QED BY <1>3, <2>1, <2>2, <2>3, <2>4, <2>5, <2>6, <2>7, <2>8, BodyIdentityStep,
               ChunkSizeStartStep, ChunkSizeStep, ParametersStep, ChunkSizeAlmostDoneStep,
               ChunkDataStep, DataAlmostDoneStep, ChunkDataDoneStep DEF BodyStates
<1> QED BY <1>0, <1>1, <1>2, <1>3 DEF States

\* The inductive invariant.  The limit on a message's head is checked before a
\* symbol outside a body is looked at.
Inv ==
    /\ Good(parser)
    /\ parser.nread \in 0 .. MaxHeader + 1
    /\ parser.ok => parser.nread <= MaxHeader
    /\ parser.ok /\ parser.state = "chunk_size_start" => parser.nread = 0
    /\ returned \in BOOLEAN /\ (returned => parser.upgrade)

LEMMA InvInit == Init => Inv
<1> SUFFICES ASSUME Init PROVE Inv
    OBVIOUS
<1>1. PICK ok0, up0 : ok0 = TRUE /\ up0 = FALSE
    OBVIOUS
<1>2. parser =
        [state |-> "start_req", seen |-> General, flags |-> {}, length |-> Null, nread |-> 0,
         version |-> "HTTP/1.1", upgrade |-> up0, marks |-> [k \in Kinds |-> Null], ok |-> ok0,
         building |-> 0, field |-> <<>>, value |-> <<>>, req |-> NoRequest, handled |-> <<>>]
    BY <1>1 DEF Init
<1>3. IsParser(parser)
    BY <1>2 DEF IsParser
<1>4. /\ parser.state = "start_req" /\ parser.flags = {} /\ parser.length = Null
      /\ parser.nread = 0 /\ parser.marks = [k \in Kinds |-> Null] /\ parser.ok = ok0
      /\ parser.building = 0
    BY <1>2
<1>5. Typed(parser)
    BY <1>1, <1>3, <1>4 DEF Typed, States
<1>6. MarksFit(parser) /\ Ready(parser)
    BY <1>4 DEF MarksFit, Kinds, Ready
<1>7. returned \in BOOLEAN /\ (returned => parser.upgrade)
    BY DEF Init
<1>8. Good(parser) /\ parser.nread = 0
    BY <1>4, <1>5, <1>6 DEF Good
<1> QED BY <1>4, <1>7, <1>8, ParserAssumption DEF Inv

LEMMA ByteKeepsInv == Inv /\ Byte => Inv'
<1> SUFFICES ASSUME Inv, Byte PROVE Inv'
    OBVIOUS
<1> USE ParserAssumption
<1>1. PICK ch, n, s, t :
        /\ ch = Head(todo)
        /\ n = IF parser.state \in BodyStates THEN parser.nread ELSE parser.nread + 1
        /\ s = [parser EXCEPT !.nread = n]
        /\ t = IF s.nread > MaxHeader /\ s.state \notin BodyStates THEN Error(s) ELSE Step(s, ch)
    OBVIOUS
<1>2. /\ parser.ok
      /\ parser' = [t EXCEPT !.marks =
             [k \in Kinds |-> IF t.marks[k] = Null THEN Null ELSE Append(t.marks[k], ch)]]
    BY <1>1 DEF Byte, Feeding, Consumed
<1>3. Good(parser) /\ parser.nread \in 0 .. MaxHeader /\ IsParser(parser) /\ Typed(parser)
    BY <1>2 DEF Inv, Good, Typed
<1>4. n \in 0 .. MaxHeader + 1 /\ (s.state \in BodyStates => n <= MaxHeader)
    <2>1. s.state = parser.state
        BY <1>1, <1>3 DEF IsParser
    <2> QED BY <1>1, <1>3, <2>1
<1>5. Good(s) /\ s.nread = n /\ s.ok /\ s.state = parser.state
    <2>1. IsParser(s)
        BY <1>1, <1>3 DEF IsParser
    <2>2. /\ s.state = parser.state /\ s.length = parser.length /\ s.flags = parser.flags
          /\ s.marks = parser.marks /\ s.ok = parser.ok /\ s.building = parser.building
          /\ s.nread = n /\ s.seen = parser.seen
        BY <1>1, <1>3 DEF IsParser
    <2>3. Typed(s)
        BY <1>3, <2>1, <2>2 DEF Typed
    <2> QED BY <1>2, <1>3, <2>2, <2>3 DEF Good, MarksFit, Ready
<1>6. Stepped(t, s) /\ (t.ok => n <= MaxHeader)
    <2>1. CASE n > MaxHeader /\ s.state \notin BodyStates
        <3>1. t = Error(s)
            BY <1>1, <1>5, <2>1
        <3> QED BY <1>5, <3>1, ErrorFacts DEF Good
    <2>2. CASE ~ (n > MaxHeader /\ s.state \notin BodyStates)
        <3>1. t = Step(s, ch)
            BY <1>1, <1>5, <2>2
        <3>2. n <= MaxHeader
            BY <1>4, <2>2
        <3> QED BY <1>2, <1>5, <3>1, <3>2, StepFacts
    <2> QED BY <2>1, <2>2
<1>7. PICK m : m = [k \in Kinds |-> IF t.marks[k] = Null THEN Null ELSE Append(t.marks[k], ch)]
    OBVIOUS
<1>8. PICK p : p = [t EXCEPT !.marks = m]
    OBVIOUS
<1>9. p = parser'
    BY <1>2, <1>7, <1>8
<1>10. IsParser(t)
    BY <1>6 DEF Stepped, Good, Typed
<1>11. m = [k \in Kinds |-> m[k]] /\ \A k \in Kinds : t.marks[k] = Null => m[k] = Null
    BY <1>7
<1>12. IsParser(p)
    BY <1>8, <1>10, <1>11 DEF IsParser
<1>13. /\ p.state = t.state /\ p.length = t.length /\ p.flags = t.flags /\ p.marks = m
       /\ p.ok = t.ok /\ p.building = t.building /\ p.nread = t.nread /\ p.seen = t.seen
    BY <1>8, <1>10 DEF IsParser
<1>14. Good(p)
    <2>1. Typed(p)
        BY <1>6, <1>12, <1>13 DEF Stepped, Good, Typed
    <2>2. MarksFit(p)
        BY <1>6, <1>11, <1>13 DEF Stepped, Good, MarksFit, Kinds
    <2>3. p.ok => Ready(p)
        BY <1>6, <1>13 DEF Stepped, Good, Ready
    <2> QED BY <2>1, <2>2, <2>3 DEF Good
<1>15. p.nread \in {0, n} /\ (p.ok /\ p.state = "chunk_size_start" => p.nread = 0)
    BY <1>5, <1>6, <1>13 DEF Stepped
<1>16. p.nread \in 0 .. MaxHeader + 1 /\ (p.ok => p.nread <= MaxHeader)
    BY <1>4, <1>6, <1>13, <1>15
<1>17. /\ Good(parser') /\ parser'.nread \in 0 .. MaxHeader + 1
       /\ parser'.ok => parser'.nread <= MaxHeader
       /\ parser'.ok /\ parser'.state = "chunk_size_start" => parser'.nread = 0
    BY <1>9, <1>14, <1>15, <1>16
<1>18. returned' \in BOOLEAN /\ (returned' => parser'.upgrade)
    BY DEF Byte, HeadOfUpgrade
<1> QED BY <1>17, <1>18 DEF Inv, Good, Typed, IsParser, MarksFit, Ready, Matched

\* All marks are handed over, whatever they are of.
LEMMA CallAll ==
    ASSUME NEW s, Good(s), NEW t, t = Call(Call(Call(Call(s, "field"), "value"), "url"), "body")
    PROVE  /\ Typed(t) /\ t.state = s.state /\ t.seen = s.seen /\ t.length = s.length
           /\ t.nread = s.nread /\ t.ok = s.ok /\ t.flags = s.flags
<1>1. \A r : Typed(r) => \A k \in Kinds :
        /\ Typed(Call(r, k)) /\ Call(r, k).state = r.state /\ Call(r, k).seen = r.seen
        /\ Call(r, k).length = r.length /\ Call(r, k).nread = r.nread /\ Call(r, k).ok = r.ok
        /\ Call(r, k).flags = r.flags
    BY CallFacts DEF Typed, SameButTexts
<1>2. PICK a, b, c : a = Call(s, "field") /\ b = Call(a, "value") /\ c = Call(b, "url")
    OBVIOUS
<1>3. t = Call(c, "body") /\ Typed(s)
    BY <1>2 DEF Good
<1>4. {"field", "value", "url", "body"} \subseteq Kinds
    BY DEF Kinds
<1>5. /\ Typed(a) /\ a.state = s.state /\ a.seen = s.seen /\ a.length = s.length
      /\ a.nread = s.nread /\ a.ok = s.ok /\ a.flags = s.flags
    BY <1>1, <1>2, <1>3, <1>4
<1>6. /\ Typed(b) /\ b.state = s.state /\ b.seen = s.seen /\ b.length = s.length
      /\ b.nread = s.nread /\ b.ok = s.ok /\ b.flags = s.flags
    BY <1>1, <1>2, <1>4, <1>5
<1>7. /\ Typed(c) /\ c.state = s.state /\ c.seen = s.seen /\ c.length = s.length
      /\ c.nread = s.nread /\ c.ok = s.ok /\ c.flags = s.flags
    BY <1>1, <1>2, <1>4, <1>6
<1>8. PICK d : d = Call(c, "body")
    OBVIOUS
<1>9. /\ Typed(d) /\ d.state = s.state /\ d.seen = s.seen /\ d.length = s.length
      /\ d.nread = s.nread /\ d.ok = s.ok /\ d.flags = s.flags
    BY <1>1, <1>4, <1>7, <1>8
<1> QED BY <1>3, <1>8, <1>9

LEMMA PieceEndsKeepsInv == Inv /\ PieceEnds => Inv'
<1> SUFFICES ASSUME Inv, PieceEnds PROVE Inv'
    OBVIOUS
<1>1. PICK t, goesOn :
        /\ t = Flushed(parser)
        /\ goesOn = CASE t.state = "header_field" -> {"field"}
                      [] t.state = "header_value" -> {"value"}
                      [] t.state = "req_path" -> {"url"}
                      [] OTHER -> {}
    OBVIOUS
<1>2. PICK m : m = [k \in Kinds |-> IF k \in goesOn THEN <<>> ELSE Null]
    OBVIOUS
<1>3. parser' = [t EXCEPT !.marks = m]
    BY <1>1, <1>2 DEF PieceEnds, Resumed
<1>4. Good(parser)
    BY DEF Inv
<1>5. /\ Typed(t) /\ t.state = parser.state /\ t.seen = parser.seen /\ t.length = parser.length
      /\ t.nread = parser.nread /\ t.ok = parser.ok /\ t.flags = parser.flags
    BY <1>1, <1>4, CallAll DEF Flushed
<1>6. PICK p : p = [t EXCEPT !.marks = m]
    OBVIOUS
<1>7. p = parser'
    BY <1>3, <1>6
<1>8. IsParser(t)
    BY <1>5 DEF Typed
<1>9. m = [k \in Kinds |-> m[k]] /\ \A k \in Kinds : k \notin goesOn => m[k] = Null
    BY <1>2
<1>10. IsParser(p)
    BY <1>6, <1>8, <1>9 DEF IsParser
<1>11. /\ p.state = t.state /\ p.length = t.length /\ p.flags = t.flags /\ p.marks = m
       /\ p.ok = t.ok /\ p.building = t.building /\ p.nread = t.nread /\ p.seen = t.seen
    BY <1>6, <1>8 DEF IsParser
<1>12. Typed(p)
    BY <1>5, <1>10, <1>11 DEF Typed
<1>13. MarksFit(p)
    <2>1. /\ "field" \in goesOn => t.state = "header_field"
          /\ "value" \in goesOn => t.state = "header_value"
          /\ "url" \in goesOn => t.state = "req_path"
          /\ "body" \notin goesOn
        BY <1>1
    <2> QED BY <1>9, <1>11, <2>1 DEF MarksFit, Kinds
<1>14. p.ok => Ready(p)
    BY <1>4, <1>5, <1>11 DEF Good, Ready
<1>15. Good(parser') /\ parser'.nread = parser.nread /\ parser'.ok = parser.ok
       /\ parser'.state = parser.state
    BY <1>5, <1>7, <1>11, <1>12, <1>13, <1>14 DEF Good
<1>16. returned' = FALSE
    BY DEF PieceEnds
<1> QED BY <1>15, <1>16 DEF Inv, Good, Typed, IsParser, MarksFit, Ready, Matched

LEMMA RestDroppedKeepsInv == Inv /\ RestDropped => Inv'
<1> SUFFICES ASSUME Inv, RestDropped PROVE Inv'
    OBVIOUS
<1>1. parser' = Error(parser) /\ returned' = returned
    BY DEF RestDropped
<1>2. Good(parser) /\ IsParser(parser)
    BY DEF Inv, Good, Typed
<1>3. PICK p : p = Error(parser)
    OBVIOUS
<1>4. Good(p) /\ ~ p.ok
    BY <1>2, <1>3, ErrorFacts DEF Good, Stepped
<1>5. p.nread = parser.nread /\ p.upgrade = parser.upgrade
    BY <1>2, <1>3 DEF Error, IsParser
<1>6. /\ Good(parser') /\ ~ parser'.ok /\ parser'.nread = parser.nread
      /\ parser'.upgrade = parser.upgrade
    BY <1>1, <1>3, <1>4, <1>5
<1> QED BY <1>1, <1>6 DEF Inv, Good, Typed, IsParser, MarksFit, Ready, Matched

LEMMA StutterKeepsInv == Inv /\ UNCHANGED vars => Inv'
BY DEF Inv, vars, Good, Typed, IsParser, MarksFit, Ready, Matched

LEMMA InvAlways == Spec => []Inv
<1>1. Inv /\ [Next]_vars => Inv'
    BY ByteKeepsInv, PieceEndsKeepsInv, RestDroppedKeepsInv, StutterKeepsInv DEF Next
<1> QED BY <1>1, InvInit, PTL DEF Spec

-----------------------------------------------------------------------------
\* The parser is in one of its states, its flags are those it knows, and what it
\* has read of a head is never more than one over the limit.
THEOREM TypeCorrect == Spec => []TypeOK
<1>1. Inv => TypeOK
    BY DEF Inv, Good, Typed, States, Flags, TypeOK
<1> QED BY <1>1, InvAlways, PTL

\* What http_parser_execute asserts of its marks, its match, its flags and its
\* counters holds whatever text it is fed, in whatever pieces.
THEOREM AssertsHoldHolds == Spec => []AssertsHold
<1>1. ASSUME Inv PROVE AssertsHold
    <2>1. Good(parser)
        BY <1>1 DEF Inv
    <2> DEFINE M == {k \in Kinds : parser.marks[k] # Null}
    <2>2. \A j, k \in M : j = k
        BY <2>1 DEF Good, MarksFit, Kinds
    <2>3. Cardinality(M) <= 1
        <3>1. CASE M = {}
            BY <3>1, FS_EmptySet
        <3>2. CASE M # {}
            <4>1. PICK k \in M : TRUE
                BY <3>2
            <4>2. M = {k}
                BY <2>2, <4>1
            <4>3. Cardinality({k}) = 1
                BY FS_Singleton
            <4> HIDE DEF M
            <4> QED BY <4>2, <4>3
        <3> QED BY <3>1, <3>2
    <2>4. ASSUME parser.ok, parser.state = "header_value"
          PROVE  parser.seen \notin {Connection, TransferEncoding}
        <3>1. Matched(parser.seen)
            BY <2>1, <2>4 DEF Good, Ready
        <3>2. CASE parser.seen = ContentLength
            BY <3>2, NamesDiffer
        <3>3. CASE parser.seen # ContentLength
            BY <3>1, <3>3, MatchedFacts DEF Matched
        <3> QED BY <3>2, <3>3
    <2>5. Null # 0
        BY ParserAssumption
    <2>6. ASSUME parser.ok
          PROVE  CASE parser.state = "header_value" ->
                        parser.seen \notin {Connection, TransferEncoding}
                   [] parser.state = "chunk_size_start" -> parser.nread = 0
                   [] parser.state \in {"body_identity", "chunk_data"} ->
                        parser.length \notin {0, Null}
                   [] parser.state = "chunk_data_almost_done" -> parser.length = 0
                   [] OTHER -> TRUE
        <3>1. parser.state = "chunk_size_start" => parser.nread = 0
            BY <1>1, <2>6 DEF Inv
        <3>2. /\ parser.state \in {"body_identity", "chunk_data"} => parser.length \notin {0, Null}
              /\ parser.state = "chunk_data_almost_done" => parser.length = 0
            BY <2>1, <2>6, ParserAssumption DEF Good, Ready
        <3> QED BY <2>4, <2>6, <3>1, <3>2
    <2>7. parser.ok /\ parser.state \in ChunkStates => "chunked" \in parser.flags
        BY <2>1 DEF Good, Ready, ChunkStates
    <2> QED BY <2>3, <2>6, <2>7 DEF AssertsHold
<1> QED BY <1>1, InvAlways, PTL

-----------------------------------------------------------------------------
(* Texts *)

Strings == Seq(STRING)

\* What the callbacks collect and what is marked are texts.
Whole(s) ==
    /\ IsParser(s)
    /\ s.field \in Strings /\ s.value \in Strings
    /\ s.req = [url |-> s.req.url, headers |-> s.req.headers, body |-> s.req.body]
    /\ s.req.url \in Strings /\ s.req.body \in Strings
    /\ \A k \in Kinds : s.marks[k] \in Strings \cup {Null}

\* A state in the middle of a text has a mark.
Loud == {"req_path", "header_field", "header_value"}

GoesOn(s) ==
    /\ s.state = "req_path" => s.marks["url"] # Null
    /\ s.state = "header_field" => s.marks["field"] # Null
    /\ s.state = "header_value" => s.marks["value"] # Null

Kept(s) == Whole(s) /\ GoesOn(s)

Same(t, s) == Whole(t) /\ t.state = s.state /\ t.marks = s.marks

LEMMA SameKept ==
    ASSUME NEW s, NEW t, Kept(s), Same(t, s)
    PROVE  Kept(t)
BY DEF Kept, Same, GoesOn

\* Neither a match, a flag, a counter nor the outcome is part of a text.
LEMMA ControlSame ==
    ASSUME NEW s, Whole(s), NEW x
    PROVE  /\ Same([s EXCEPT !.seen = x], s) /\ Same([s EXCEPT !.flags = x], s)
           /\ Same([s EXCEPT !.length = x], s) /\ Same([s EXCEPT !.nread = x], s)
           /\ Same([s EXCEPT !.version = x], s) /\ Same([s EXCEPT !.upgrade = x], s)
           /\ Same([s EXCEPT !.ok = x], s) /\ Same([s EXCEPT !.handled = x], s)
<1> USE DEF Same, Whole, IsParser
<1>1. Same([s EXCEPT !.seen = x], s)
    OBVIOUS
<1>2. Same([s EXCEPT !.flags = x], s)
    OBVIOUS
<1>3. Same([s EXCEPT !.length = x], s)
    OBVIOUS
<1>4. Same([s EXCEPT !.nread = x], s)
    OBVIOUS
<1>5. Same([s EXCEPT !.version = x], s)
    OBVIOUS
<1>6. Same([s EXCEPT !.upgrade = x], s)
    OBVIOUS
<1>7. Same([s EXCEPT !.ok = x], s)
    OBVIOUS
<1>8. Same([s EXCEPT !.handled = x], s)
    OBVIOUS
<1> USE DEF Same
<1> HIDE DEF Same, Whole, IsParser
<1> QED BY <1>1, <1>2, <1>3, <1>4, <1>5, <1>6, <1>7, <1>8

LEMMA StateWhole ==
    ASSUME NEW s, Whole(s), NEW x
    PROVE  Whole(To(s, x)) /\ To(s, x).state = x /\ To(s, x).marks = s.marks
BY DEF To, Whole, IsParser

LEMMA ToKept ==
    ASSUME NEW s, Whole(s), NEW x, x \notin Loud
    PROVE  Kept(To(s, x))
BY StateWhole DEF Kept, GoesOn, Loud

LEMMA ErrorSame ==
    ASSUME NEW s, Whole(s)
    PROVE  Same(Error(s), s)
<1>1. \A x : Same([s EXCEPT !.ok = x], s)
    BY ControlSame
<1>2. Same([s EXCEPT !.ok = FALSE], s)
    BY <1>1
<1> QED BY <1>2 DEF Error

LEMMA ExpectKept ==
    ASSUME NEW s, Kept(s), NEW ch, NEW wanted, NEW x, x \notin Loud
    PROVE  Kept(Expect(s, ch, wanted, x))
<1>1. Kept(To(s, x)) /\ Kept(Error(s))
    BY ToKept, ErrorSame, SameKept DEF Kept
<1> QED BY <1>1 DEF Expect

LEMMA MarkWhole ==
    ASSUME NEW s, Whole(s), NEW k \in Kinds
    PROVE  /\ Whole(Mark(s, k)) /\ Mark(s, k).state = s.state
           /\ Mark(s, k).marks[k] # Null
           /\ \A j \in Kinds : j # k => Mark(s, k).marks[j] = s.marks[j]
<1>1. PICK v : v = IF s.marks[k] = Null THEN <<>> ELSE s.marks[k]
    OBVIOUS
<1>2. v \in Strings /\ v # Null
    <2>1. <<>> \in Strings
        BY DEF Strings
    <2>2. Null \notin Strings
        BY TextAssumption DEF Strings
    <2> QED BY <1>1, <2>1, <2>2 DEF Whole
<1>3. PICK m : m = [s.marks EXCEPT ![k] = v]
    OBVIOUS
<1>4. Mark(s, k) = [s EXCEPT !.marks = m]
    BY <1>1, <1>3 DEF Mark
<1>5. /\ m = [j \in Kinds |-> m[j]] /\ m[k] = v
      /\ \A j \in Kinds : j # k => m[j] = s.marks[j]
    BY <1>3 DEF Whole, IsParser
<1>6. \A j \in Kinds : m[j] \in Strings \cup {Null}
    BY <1>2, <1>5 DEF Whole
<1>7. PICK t : t = [s EXCEPT !.marks = m]
    OBVIOUS
<1>8. IsParser(t) /\ t.marks = m /\ t.state = s.state
    BY <1>5, <1>7 DEF Whole, IsParser
<1>9. t.field = s.field /\ t.value = s.value /\ t.req = s.req
    BY <1>7 DEF Whole, IsParser
<1>10. Whole(t)
    BY <1>6, <1>8, <1>9 DEF Whole
<1> QED BY <1>2, <1>4, <1>5, <1>7, <1>8, <1>10

LEMMA ConcatStrings ==
    ASSUME NEW a \in Strings, NEW b \in Strings
    PROVE  a \o b \in Strings
BY DEF Strings

\* The callbacks only collect texts.
LEMMA UrlWhole ==
    ASSUME NEW s, Whole(s), NEW at \in Strings
    PROVE  Same(OnUrl(s, at), s)
<1>1. PICK r : r = [s.req EXCEPT !.url = @ \o at]
    OBVIOUS
<1>2. OnUrl(s, at) = [s EXCEPT !.req = r]
    BY <1>1 DEF OnUrl
<1>3. /\ r = [url |-> r.url, headers |-> r.headers, body |-> r.body]
      /\ r.url = s.req.url \o at /\ r.body = s.req.body
    BY <1>1 DEF Whole
<1>4. r.url \in Strings /\ r.body \in Strings
    BY <1>3, ConcatStrings DEF Whole
<1> QED BY <1>2, <1>3, <1>4 DEF Whole, IsParser, Same

LEMMA BodyWhole ==
    ASSUME NEW s, Whole(s), NEW at \in Strings
    PROVE  Same(OnBody(s, at), s)
<1>1. PICK r : r = [s.req EXCEPT !.body = @ \o at]
    OBVIOUS
<1>2. OnBody(s, at) = [s EXCEPT !.req = r]
    BY <1>1 DEF OnBody
<1>3. /\ r = [url |-> r.url, headers |-> r.headers, body |-> r.body]
      /\ r.url = s.req.url /\ r.body = s.req.body \o at
    BY <1>1 DEF Whole
<1>4. r.url \in Strings /\ r.body \in Strings
    BY <1>3, ConcatStrings DEF Whole
<1> QED BY <1>2, <1>3, <1>4 DEF Whole, IsParser, Same

\* A request with more headers.
LEMMA MoreHeaders ==
    ASSUME NEW s, Whole(s), NEW h, NEW r, r = [s.req EXCEPT !.headers = h]
    PROVE  /\ r = [url |-> r.url, headers |-> r.headers, body |-> r.body]
           /\ r.url \in Strings /\ r.body \in Strings
BY DEF Whole

LEMMA FieldWhole ==
    ASSUME NEW s, Whole(s), NEW at \in Strings
    PROVE  Same(OnField(s, at), s)
<1>1. CASE s.building = 1
    <2>1. PICK v : v = s.field \o at
        OBVIOUS
    <2>2. v \in Strings
        BY <2>1, ConcatStrings DEF Whole
    <2>3. OnField(s, at) = [s EXCEPT !.field = v]
        BY <1>1, <2>1 DEF OnField
    <2> QED BY <2>2, <2>3 DEF Whole, IsParser, Same
<1>2. CASE s.building # 1
    <2>1. PICK h : h = IF s.value # <<>> THEN Append(s.req.headers, <<s.field, s.value>>)
                       ELSE s.req.headers
        OBVIOUS
    <2>2. PICK r : r = [s.req EXCEPT !.headers = h]
        OBVIOUS
    <2>3. PICK e : e = <<>>
        OBVIOUS
    <2>4. OnField(s, at) = [s EXCEPT !.req = r, !.value = e, !.field = at, !.building = 1]
        BY <1>2, <2>1, <2>2, <2>3 DEF OnField
    <2>5. e \in Strings
        BY <2>3 DEF Strings
    <2>6. /\ r = [url |-> r.url, headers |-> r.headers, body |-> r.body]
          /\ r.url \in Strings /\ r.body \in Strings
        BY <2>2, MoreHeaders
    <2> QED BY <2>4, <2>5, <2>6 DEF Whole, IsParser, Same
<1> QED BY <1>1, <1>2

LEMMA ValueWhole ==
    ASSUME NEW s, Whole(s), NEW at \in Strings
    PROVE  Same(OnValue(s, at), s)
<1>1. PICK v : v = IF s.building = 0 THEN s.value \o at ELSE at
    OBVIOUS
<1>2. v \in Strings
    BY <1>1, ConcatStrings DEF Whole
<1>3. OnValue(s, at) = [s EXCEPT !.value = v, !.building = 0]
    BY <1>1 DEF OnValue
<1> QED BY <1>2, <1>3 DEF Whole, IsParser, Same

LEMMA CallbackWhole ==
    ASSUME NEW s, Whole(s), NEW k \in Kinds, NEW at \in Strings
    PROVE  Same(Callback(s, k, at), s)
<1>1. k = "url" => Callback(s, k, at) = OnUrl(s, at)
    BY DEF Callback
<1>2. k = "field" => Callback(s, k, at) = OnField(s, at)
    BY DEF Callback
<1>3. k = "value" => Callback(s, k, at) = OnValue(s, at)
    BY DEF Callback
<1>4. k = "body" => Callback(s, k, at) = OnBody(s, at)
    BY DEF Callback
<1> QED BY <1>1, <1>2, <1>3, <1>4, UrlWhole, FieldWhole, ValueWhole, BodyWhole DEF Kinds

LEMMA CallWhole ==
    ASSUME NEW s, Whole(s), NEW k \in Kinds
    PROVE  Whole(Call(s, k)) /\ Call(s, k).state = s.state
<1>1. CASE s.marks[k] = Null
    BY <1>1 DEF Call
<1>2. CASE s.marks[k] # Null
    <2>1. PICK m : m = [s.marks EXCEPT ![k] = Null]
        OBVIOUS
    <2>2. PICK t : t = [s EXCEPT !.marks = m]
        OBVIOUS
    <2>3. Call(s, k) = Callback(t, k, s.marks[k])
        BY <1>2, <2>1, <2>2 DEF Call
    <2>4. m = [j \in Kinds |-> m[j]] /\ \A j \in Kinds : m[j] \in Strings \cup {Null}
        BY <2>1 DEF Whole, IsParser
    <2>5. Whole(t) /\ t.state = s.state
        BY <2>2, <2>4 DEF Whole, IsParser
    <2>6. s.marks[k] \in Strings
        BY <1>2 DEF Whole
    <2> QED BY <2>3, <2>5, <2>6, CallbackWhole DEF Same
<1> QED BY <1>1, <1>2

LEMMA HeadersWhole ==
    ASSUME NEW s, Whole(s)
    PROVE  Same(OnHeaders(s), s)
<1>1. CASE s.field = <<>>
    BY <1>1 DEF OnHeaders, Same
<1>2. CASE s.field # <<>>
    <2>1. PICK h : h = Append(s.req.headers, <<s.field, s.value>>)
        OBVIOUS
    <2>2. PICK r : r = [s.req EXCEPT !.headers = h]
        OBVIOUS
    <2>3. PICK e : e = <<>>
        OBVIOUS
    <2>4. OnHeaders(s) = [s EXCEPT !.req = r, !.field = e, !.value = e]
        BY <1>2, <2>1, <2>2, <2>3 DEF OnHeaders
    <2>5. e \in Strings
        BY <2>3 DEF Strings
    <2>6. /\ r = [url |-> r.url, headers |-> r.headers, body |-> r.body]
          /\ r.url \in Strings /\ r.body \in Strings
        BY <2>2, MoreHeaders
    <2> QED BY <2>4, <2>5, <2>6 DEF Whole, IsParser, Same
<1> QED BY <1>1, <1>2

LEMMA BeginWhole ==
    ASSUME NEW s, Whole(s)
    PROVE  Whole(Begin(s))
<1>1. PICK e, r, z : e = <<>> /\ r = NoRequest /\ z = 0
    OBVIOUS
<1>2. Begin(s) = [s EXCEPT !.req = r, !.building = z, !.field = e, !.value = e]
    BY <1>1 DEF Begin
<1>3. e \in Strings
    BY <1>1 DEF Strings
<1>4. /\ r = [url |-> r.url, headers |-> r.headers, body |-> r.body]
      /\ r.url = e /\ r.body = e
    BY <1>1 DEF NoRequest
<1> QED BY <1>2, <1>3, <1>4 DEF Whole, IsParser

LEMMA CompleteKept ==
    ASSUME NEW s, Whole(s)
    PROVE  Kept(Complete(s))
<1>1. PICK x : x = IF StaysOpen(s) THEN "start_req" ELSE "dead"
    OBVIOUS
<1>2. x \notin Loud
    BY <1>1 DEF Loud
<1>3. PICK t, h : t = To(s, x) /\ h = Append(t.handled, s.req)
    OBVIOUS
<1>4. Complete(s) = [t EXCEPT !.handled = h]
    BY <1>1, <1>3 DEF Complete
<1>5. Kept(t)
    BY <1>2, <1>3, ToKept
<1>6. Same([t EXCEPT !.handled = h], t)
    BY <1>5, ControlSame DEF Kept
<1> QED BY <1>4, <1>5, <1>6, SameKept

-----------------------------------------------------------------------------
(* Every step keeps the texts whole *)

LEMMA StartReqKept ==
    ASSUME NEW s, NEW ch, Kept(s), s.state = "start_req"
    PROVE  Kept(StartReq(s, ch))
<1>1. PICK e, n : e = {} /\ n = Null
    OBVIOUS
<1>2. PICK t : t = [s EXCEPT !.flags = e, !.length = n]
    OBVIOUS
<1>3. Same(t, s)
    BY <1>2 DEF Kept, Whole, IsParser, Same
<1>4. Kept(t)
    BY <1>3, SameKept
<1>5. Kept(Error(t)) /\ Kept(To(Begin(t), "req_method"))
    BY <1>4, ErrorSame, SameKept, BeginWhole, ToKept DEF Kept, Loud
<1>6. StartReq(s, ch) = CASE ch \in {"CR", "LF"} -> s
                          [] ch = "GET" -> To(Begin(t), "req_method")
                          [] OTHER -> Error(t)
    BY <1>1, <1>2 DEF StartReq
<1> QED BY <1>5, <1>6

LEMMA ErrorKept ==
    ASSUME NEW s, Kept(s)
    PROVE  Kept(Error(s))
BY ErrorSame, SameKept DEF Kept

LEMMA DeadKept ==
    ASSUME NEW s, NEW ch, Kept(s)
    PROVE  Kept(Dead(s, ch))
BY ErrorKept DEF Dead

LEMMA UrlKept ==
    ASSUME NEW s, NEW ch, Kept(s)
    PROVE  Kept(SpacesBeforeUrl(s, ch))
<1>1. PICK m : m = Mark(s, "url")
    OBVIOUS
<1>2. Whole(m) /\ m.marks["url"] # Null
    BY <1>1, MarkWhole DEF Kept, Kinds
<1>3. Kept(To(m, "req_path"))
    BY <1>2, StateWhole DEF Kept, GoesOn
<1> QED BY <1>1, <1>3, ErrorKept DEF SpacesBeforeUrl

LEMMA PathKept ==
    ASSUME NEW s, NEW ch, Kept(s)
    PROVE  Kept(ReqPath(s, ch))
<1>1. Kept(To(Call(s, "url"), "req_http_start"))
    BY CallWhole, ToKept DEF Kept, Kinds, Loud
<1> QED BY <1>1, ErrorKept DEF ReqPath

LEMMA HttpStartKept ==
    ASSUME NEW s, NEW ch, Kept(s)
    PROVE  Kept(HttpStart(s, ch))
<1>1. PICK t : t = To(s, "req_http_minor")
    OBVIOUS
<1>2. Kept(t)
    BY <1>1, ToKept DEF Kept, Loud
<1>3. Same([t EXCEPT !.version = ch], t)
    BY <1>2, ControlSame DEF Kept
<1>4. Kept([t EXCEPT !.version = ch])
    BY <1>2, <1>3, SameKept
<1> QED BY <1>1, <1>4, ErrorKept DEF HttpStart

LEMMA HttpMinorKept ==
    ASSUME NEW s, NEW ch, Kept(s)
    PROVE  Kept(HttpMinor(s, ch))
BY ToKept, ErrorKept DEF HttpMinor, Kept, Loud

LEMMA HeadersDoneKept ==
    ASSUME NEW s, Whole(s)
    PROVE  Kept(HeadersDone(s))
<1>1. PICK h, z, u : h = OnHeaders(s) /\ z = 0 /\ u = ("upgrade" \in s.flags)
    OBVIOUS
<1>2. PICK t : t = [h EXCEPT !.nread = z, !.upgrade = u]
    OBVIOUS
<1>3. Whole(h)
    BY <1>1, HeadersWhole DEF Same
<1>4. Whole(t)
    BY <1>2, <1>3 DEF Whole, IsParser
<1>5. HeadersDone(s) = CASE t.upgrade -> Complete(t)
                         [] ~ t.upgrade /\ "chunked" \in t.flags -> To(t, "chunk_size_start")
                         [] ~ t.upgrade /\ "chunked" \notin t.flags /\ t.length \notin {0, Null} ->
                               To(t, "body_identity")
                         [] OTHER -> Complete(t)
    BY <1>1, <1>2 DEF HeadersDone
<1>6. /\ Kept(Complete(t)) /\ Kept(To(t, "chunk_size_start"))
      /\ Kept(To(t, "body_identity"))
    BY <1>4, CompleteKept, ToKept DEF Loud
<1> QED BY <1>5, <1>6

LEMMA AlmostDoneKept ==
    ASSUME NEW s, NEW ch, Kept(s)
    PROVE  Kept(HeadersAlmostDone(s, ch))
BY ErrorKept, CompleteKept, HeadersDoneKept DEF HeadersAlmostDone, Kept

LEMMA FieldStartKept ==
    ASSUME NEW s, NEW ch, Kept(s)
    PROVE  Kept(FieldStart(s, ch))
<1>1. PICK m, t, x : m = Mark(s, "field") /\ t = To(m, "header_field")
                     /\ x = Matching(<<>>, ch, Names)
    OBVIOUS
<1>2. Whole(m) /\ m.marks["field"] # Null
    BY <1>1, MarkWhole DEF Kept, Kinds
<1>3. Kept(t)
    BY <1>1, <1>2, StateWhole DEF Kept, GoesOn
<1>4. Same([t EXCEPT !.seen = x], t)
    BY <1>3, ControlSame DEF Kept
<1>5. Kept([t EXCEPT !.seen = x])
    BY <1>3, <1>4, SameKept
<1>6. Kept(To(s, "headers_almost_done"))
    BY ToKept DEF Kept, Loud
<1>7. FieldStart(s, ch) = CASE ch = "CR" -> To(s, "headers_almost_done")
                            [] ch = "LF" -> HeadersAlmostDone(s, ch)
                            [] Token(ch) -> [t EXCEPT !.seen = x]
                            [] OTHER -> Error(s)
    BY <1>1 DEF FieldStart
<1>8. ~ (Token(ch) /\ ch \in {"CR", "LF"})
    BY DEF Token
<1> QED BY <1>5, <1>6, <1>7, <1>8, AlmostDoneKept, ErrorKept

LEMMA FieldKept ==
    ASSUME NEW s, NEW ch, Kept(s)
    PROVE  Kept(Field(s, ch))
<1>1. PICK x : x = Matching(s.seen, ch, Names)
    OBVIOUS
<1>2. Same([s EXCEPT !.seen = x], s)
    BY ControlSame DEF Kept
<1>3. Kept([s EXCEPT !.seen = x])
    BY <1>2, SameKept
<1>4. \A y \in {"header_value_discard_ws", "header_almost_done", "header_field_start"} :
        Kept(To(Call(s, "field"), y))
    BY CallWhole, ToKept DEF Kept, Kinds, Loud
<1>5. Field(s, ch) = CASE Token(ch) -> [s EXCEPT !.seen = x]
                       [] ch = ":" -> To(Call(s, "field"), "header_value_discard_ws")
                       [] ch = "CR" -> To(Call(s, "field"), "header_almost_done")
                       [] ch = "LF" -> To(Call(s, "field"), "header_field_start")
                       [] OTHER -> Error(s)
    BY <1>1 DEF Field
<1>6. ~ (Token(ch) /\ ch \in {"CR", "LF", ":"})
    BY DEF Token
<1> QED BY <1>3, <1>4, <1>5, <1>6, ErrorKept

LEMMA ValueStartKept ==
    ASSUME NEW s, NEW ch, Kept(s)
    PROVE  Kept(ValueStart(s, ch))
<1>1. PICK m, t : m = Mark(s, "value") /\ t = To(m, "header_value")
    OBVIOUS
<1>2. Whole(m) /\ m.marks["value"] # Null
    BY <1>1, MarkWhole DEF Kept, Kinds
<1>3. Kept(t)
    BY <1>1, <1>2, StateWhole DEF Kept, GoesOn
<1>4. \A x : Same([t EXCEPT !.seen = x], t) /\ Same([t EXCEPT !.length = x], t)
    BY <1>3, ControlSame DEF Kept
<1>5. PICK f, u : f = t.flags \cup {"upgrade"} /\ u = [t EXCEPT !.flags = f, !.seen = General]
    OBVIOUS
<1>6. Same(u, t)
    BY <1>3, <1>5 DEF Kept, Whole, IsParser, Same
<1>7. Kept(u) /\ \A x : Kept([t EXCEPT !.seen = x]) /\ Kept([t EXCEPT !.length = x])
    BY <1>3, <1>4, <1>6, SameKept
<1>8. Kept(Error(t))
    BY <1>3, ErrorKept
<1>9. PICK x, l : x = Matching(t.seen, ch, Sought) /\ l = Digit[ch]
    OBVIOUS
<1>10. ValueStart(s, ch) =
        CASE s.seen = Upgrade -> u
          [] s.seen = ContentLength ->
                IF ch \in DOMAIN Digit THEN [t EXCEPT !.length = l] ELSE Error(t)
          [] s.seen \in {Connection, TransferEncoding} -> [t EXCEPT !.seen = x]
          [] OTHER -> [t EXCEPT !.seen = General]
    BY <1>1, <1>5, <1>9 DEF ValueStart
<1>11. Kept([t EXCEPT !.seen = x]) /\ Kept([t EXCEPT !.length = l]) /\ Kept([t EXCEPT !.seen = General])
    BY <1>7
<1> QED BY <1>7, <1>8, <1>10, <1>11, NamesDiffer

LEMMA DiscardWsKept ==
    ASSUME NEW s, NEW ch, Kept(s)
    PROVE  Kept(DiscardWs(s, ch))
<1>1. \A x \in {"header_value_discard_ws_almost_done", "header_value_discard_lws"} :
         Kept(To(s, x))
    BY ToKept DEF Kept, Loud
<1> QED BY <1>1, ValueStartKept DEF DiscardWs

LEMMA DiscardLwsKept ==
    ASSUME NEW s, NEW ch, Kept(s), s.state = "header_value_discard_lws"
    PROVE  Kept(DiscardLws(s, ch))
<1>1. PICK m, t : m = Mark(s, "value") /\ t = Call(m, "value")
    OBVIOUS
<1>2. Whole(m) /\ m.state = s.state
    BY <1>1, MarkWhole DEF Kept, Kinds
<1>3. Whole(t) /\ t.state = s.state
    BY <1>1, <1>2, CallWhole DEF Kinds
<1>4. Kept(t)
    BY <1>3 DEF Kept, GoesOn
<1>5. Kept(FieldStart(t, ch)) /\ Kept(To(s, "header_value_discard_ws"))
    BY <1>4, FieldStartKept, ToKept DEF Kept, Loud
<1> QED BY <1>1, <1>5 DEF DiscardLws

LEMMA ValueKept ==
    ASSUME NEW s, NEW ch, Kept(s)
    PROVE  Kept(Value(s, ch))
<1>1. \A x : Same([s EXCEPT !.seen = x], s) /\ Same([s EXCEPT !.length = x], s)
    BY ControlSame DEF Kept
<1>2. \A x : Kept([s EXCEPT !.seen = x]) /\ Kept([s EXCEPT !.length = x])
    BY <1>1, SameKept
<1>3. PICK x, l : x = Matching(s.seen, ch, Sought) /\ l = 10 * s.length + Digit[ch]
    OBVIOUS
<1>4. Kept([s EXCEPT !.seen = x]) /\ Kept([s EXCEPT !.length = l])
    BY <1>2
<1>5. \A y \in {"header_almost_done", "header_value_lws"} : Kept(To(Call(s, "value"), y))
    BY CallWhole, ToKept DEF Kept, Kinds, Loud
<1>6. Value(s, ch) =
        CASE ch = "CR" -> To(Call(s, "value"), "header_almost_done")
          [] ch = "LF" -> To(Call(s, "value"), "header_value_lws")
          [] ch = "SP" /\ s.seen \in Sought \cup {ContentLength} -> s
          [] s.seen = ContentLength /\ ch \notin {"CR", "LF", "SP"} ->
                IF ch \in DOMAIN Digit THEN [s EXCEPT !.length = l] ELSE Error(s)
          [] OTHER -> [s EXCEPT !.seen = x]
    BY <1>3 DEF Value
<1>7. Kept(Error(s))
    BY ErrorKept
<1> QED BY <1>4, <1>5, <1>6, <1>7

LEMMA ValueLwsKept ==
    ASSUME NEW s, NEW ch, Kept(s)
    PROVE  Kept(ValueLws(s, ch))
<1>1. PICK flag : flag =
        CASE s.seen = Connection \o Close -> {"close"}
          [] s.seen = Connection \o KeepAlive -> {"keep-alive"}
          [] s.seen = TransferEncoding \o Chunked -> {"chunked"}
          [] OTHER -> {}
    OBVIOUS
<1>2. PICK f : f = s.flags \cup flag
    OBVIOUS
<1>3. Same([s EXCEPT !.flags = f], s)
    BY ControlSame DEF Kept
<1>4. PICK t : t = [s EXCEPT !.flags = f]
    OBVIOUS
<1>5. Kept(t)
    BY <1>3, <1>4, SameKept
<1>6. ValueLws(s, ch) = IF ch = "SP" THEN ValueStart(s, ch) ELSE FieldStart(t, ch)
    BY <1>1, <1>2, <1>4 DEF ValueLws
<1> QED BY <1>5, <1>6, ValueStartKept, FieldStartKept

LEMMA BodyIdentityKept ==
    ASSUME NEW s, NEW ch \in STRING, Kept(s), s.state = "body_identity"
    PROVE  Kept(BodyIdentity(s, ch))
<1>1. PICK m : m = Mark(s, "body")
    OBVIOUS
<1>2. Whole(m) /\ m.state = s.state /\ m.marks["body"] # Null
    BY <1>1, MarkWhole DEF Kept, Kinds
<1>3. PICK l : l = m.length - 1
    OBVIOUS
<1>4. Same([m EXCEPT !.length = l], m)
    BY <1>2, ControlSame
<1>5. PICK t : t = [m EXCEPT !.length = l]
    OBVIOUS
<1>6. Whole(t) /\ t.state = s.state /\ t.marks["body"] \in Strings
    BY <1>2, <1>4, <1>5 DEF Same, Whole, Kinds
<1>7. Kept(t)
    BY <1>6 DEF Kept, GoesOn
<1>8. PICK a : a = Append(t.marks["body"], ch)
    OBVIOUS
<1>9. a \in Strings
    BY <1>6, <1>8 DEF Strings
<1>10. PICK n : n = [t.marks EXCEPT !["body"] = a]
    OBVIOUS
<1>11. n = [j \in Kinds |-> n[j]] /\ \A j \in Kinds : n[j] \in Strings \cup {Null}
    BY <1>6, <1>9, <1>10 DEF Whole, IsParser
<1>12. PICK u : u = [t EXCEPT !.marks = n]
    OBVIOUS
<1>13. Whole(u)
    BY <1>6, <1>11, <1>12 DEF Whole, IsParser
<1>14. Kept(Complete(Call(u, "body")))
    BY <1>13, CallWhole, CompleteKept DEF Kinds
<1>15. [t EXCEPT !.marks.body = Append(@, ch)] = u
    BY <1>8, <1>10, <1>12
<1>16. BodyIdentity(s, ch) = IF t.length > 0 THEN t
                            ELSE Complete(Call([t EXCEPT !.marks.body = Append(@, ch)], "body"))
    BY <1>1, <1>3, <1>5 DEF BodyIdentity
<1> QED BY <1>7, <1>14, <1>15, <1>16

LEMMA ChunkSizeStartKept ==
    ASSUME NEW s, NEW ch, Kept(s)
    PROVE  Kept(ChunkSizeStart(s, ch))
<1>1. PICK t, l : t = To(s, "chunk_size") /\ l = Digit[ch]
    OBVIOUS
<1>2. Kept(t)
    BY <1>1, ToKept DEF Kept, Loud
<1>3. Same([t EXCEPT !.length = l], t)
    BY <1>2, ControlSame DEF Kept
<1>4. Kept([t EXCEPT !.length = l])
    BY <1>2, <1>3, SameKept
<1>5. ChunkSizeStart(s, ch) = IF ch \in DOMAIN Digit THEN [t EXCEPT !.length = l] ELSE Error(s)
    BY <1>1 DEF ChunkSizeStart
<1> QED BY <1>4, <1>5, ErrorKept

LEMMA ChunkSizeKept ==
    ASSUME NEW s, NEW ch, Kept(s)
    PROVE  Kept(ChunkSize(s, ch))
<1>1. PICK l : l = 16 * s.length + Digit[ch]
    OBVIOUS
<1>2. Same([s EXCEPT !.length = l], s)
    BY ControlSame DEF Kept
<1>3. Kept([s EXCEPT !.length = l])
    BY <1>2, SameKept
<1>4. Kept(To(s, "chunk_size_almost_done")) /\ Kept(To(s, "chunk_parameters"))
    BY ToKept DEF Kept, Loud
<1>5. ChunkSize(s, ch) = CASE ch = "CR" -> To(s, "chunk_size_almost_done")
                           [] ch \in DOMAIN Digit -> [s EXCEPT !.length = l]
                           [] ch \in {";", "SP"} -> To(s, "chunk_parameters")
                           [] OTHER -> Error(s)
    BY <1>1 DEF ChunkSize
<1>6. ~ (ch \in DOMAIN Digit /\ ch \in {";", "SP", "CR"})
    BY DEF Digit
<1> QED BY <1>3, <1>4, <1>5, <1>6, ErrorKept

LEMMA ChunkSizeAlmostDoneKept ==
    ASSUME NEW s, NEW ch, Kept(s)
    PROVE  Kept(ChunkSizeAlmostDone(s, ch))
<1>1. PICK z : z = 0
    OBVIOUS
<1>2. Same([s EXCEPT !.nread = z], s)
    BY ControlSame DEF Kept
<1>3. PICK t, m : t = [s EXCEPT !.nread = z] /\ m = To(t, "header_field_start")
    OBVIOUS
<1>4. Kept(t)
    BY <1>2, <1>3, SameKept
<1>5. Kept(m) /\ Kept(To(t, "chunk_data"))
    BY <1>3, <1>4, ToKept DEF Kept, Loud
<1>6. PICK f : f = m.flags \cup {"trailing"}
    OBVIOUS
<1>7. Same([m EXCEPT !.flags = f], m)
    BY <1>5, ControlSame DEF Kept
<1>8. Kept([m EXCEPT !.flags = f])
    BY <1>5, <1>7, SameKept
<1>9. ChunkSizeAlmostDone(s, ch) = CASE ch # "LF" -> Error(s)
                                     [] ch = "LF" /\ s.length = 0 -> [m EXCEPT !.flags = f]
                                     [] OTHER -> To(t, "chunk_data")
    BY <1>1, <1>3, <1>6 DEF ChunkSizeAlmostDone
<1> QED BY <1>5, <1>8, <1>9, ErrorKept

LEMMA ChunkDataKept ==
    ASSUME NEW s, NEW ch, Kept(s), s.state = "chunk_data"
    PROVE  Kept(ChunkData(s, ch))
<1>1. PICK m : m = Mark(s, "body")
    OBVIOUS
<1>2. Whole(m) /\ m.state = s.state
    BY <1>1, MarkWhole DEF Kept, Kinds
<1>3. PICK l : l = m.length - 1
    OBVIOUS
<1>4. Same([m EXCEPT !.length = l], m)
    BY <1>2, ControlSame
<1>5. PICK t : t = [m EXCEPT !.length = l]
    OBVIOUS
<1>6. Kept(t)
    BY <1>2, <1>4, <1>5 DEF Same, Kept, GoesOn
<1>7. Kept(To(t, "chunk_data_almost_done"))
    BY <1>6, ToKept DEF Kept, Loud
<1>8. ChunkData(s, ch) = IF t.length = 0 THEN To(t, "chunk_data_almost_done") ELSE t
    BY <1>1, <1>3, <1>5 DEF ChunkData
<1> QED BY <1>6, <1>7, <1>8

LEMMA DataAlmostDoneKept ==
    ASSUME NEW s, NEW ch, Kept(s), s.state = "chunk_data_almost_done"
    PROVE  Kept(Expect(Call(s, "body"), ch, "CR", "chunk_data_done"))
<1>1. PICK t : t = Call(s, "body")
    OBVIOUS
<1>2. Kept(t)
    BY <1>1, CallWhole DEF Kept, Kinds, GoesOn
<1> QED BY <1>1, <1>2, ExpectKept DEF Loud

LEMMA ChunkDataDoneKept ==
    ASSUME NEW s, NEW ch, Kept(s)
    PROVE  Kept(ChunkDataDone(s, ch))
<1>1. PICK z : z = 0
    OBVIOUS
<1>2. Same([s EXCEPT !.nread = z], s)
    BY ControlSame DEF Kept
<1>3. PICK t : t = [s EXCEPT !.nread = z]
    OBVIOUS
<1>4. Kept(t)
    BY <1>2, <1>3, SameKept
<1>5. ChunkDataDone(s, ch) = Expect(t, ch, "LF", "chunk_size_start")
    BY <1>1, <1>3 DEF ChunkDataDone
<1> QED BY <1>4, <1>5, ExpectKept DEF Loud

LEMMA StepKept ==
    ASSUME NEW s, NEW ch \in STRING, s.state \in States, Kept(s)
    PROVE  Kept(Step(s, ch))
<1>1. \A w, x : x \notin Loud => Kept(Expect(s, ch, w, x))
    BY ExpectKept
<1>2. CASE s.state \in {"start_req", "dead", "req_method", "req_spaces_before_url", "req_path",
                        "req_http_start", "req_http_minor", "req_line_almost_done"}
    <2>1. s.state = "start_req" => Step(s, ch) = StartReq(s, ch)
        BY DEF Step
    <2>2. s.state = "dead" => Step(s, ch) = Dead(s, ch)
        BY DEF Step
    <2>3. s.state = "req_method" => Step(s, ch) = Expect(s, ch, "SP", "req_spaces_before_url")
        BY DEF Step
    <2>4. s.state = "req_spaces_before_url" => Step(s, ch) = SpacesBeforeUrl(s, ch)
        BY DEF Step
    <2>5. s.state = "req_path" => Step(s, ch) = ReqPath(s, ch)
        BY DEF Step
    <2>6. s.state = "req_http_start" => Step(s, ch) = HttpStart(s, ch)
        BY DEF Step
    <2>7. s.state = "req_http_minor" => Step(s, ch) = HttpMinor(s, ch)
        BY DEF Step
    <2>8. s.state = "req_line_almost_done" => Step(s, ch) = Expect(s, ch, "LF", "header_field_start")
        BY DEF Step
    <2>9. "req_spaces_before_url" \notin Loud /\ "header_field_start" \notin Loud
        BY DEF Loud
    <2> QED BY <1>1, <1>2, <2>1, <2>2, <2>3, <2>4, <2>5, <2>6, <2>7, <2>8, <2>9, StartReqKept,
               DeadKept, UrlKept, PathKept, HttpStartKept, HttpMinorKept
<1>3. CASE s.state \in {"header_field_start", "header_field", "header_value_discard_ws",
                        "header_value_discard_ws_almost_done", "header_value_discard_lws",
                        "header_value", "header_almost_done", "header_value_lws",
                        "headers_almost_done"}
    <2>1. s.state = "header_field_start" => Step(s, ch) = FieldStart(s, ch)
        BY DEF Step
    <2>2. s.state = "header_field" => Step(s, ch) = Field(s, ch)
        BY DEF Step
    <2>3. s.state = "header_value_discard_ws" => Step(s, ch) = DiscardWs(s, ch)
        BY DEF Step
    <2>4. s.state = "header_value_discard_ws_almost_done" =>
            Step(s, ch) = Expect(s, ch, "LF", "header_value_discard_lws")
        BY DEF Step
    <2>5. s.state = "header_value_discard_lws" => Step(s, ch) = DiscardLws(s, ch)
        BY DEF Step
    <2>6. s.state = "header_value" => Step(s, ch) = Value(s, ch)
        BY DEF Step
    <2>7. s.state = "header_almost_done" => Step(s, ch) = Expect(s, ch, "LF", "header_value_lws")
        BY DEF Step
    <2>8. s.state = "header_value_lws" => Step(s, ch) = ValueLws(s, ch)
        BY DEF Step
    <2>9. s.state = "headers_almost_done" => Step(s, ch) = HeadersAlmostDone(s, ch)
        BY DEF Step
    <2>10. "header_value_discard_lws" \notin Loud /\ "header_value_lws" \notin Loud
        BY DEF Loud
    <2> QED BY <1>1, <1>3, <2>1, <2>2, <2>3, <2>4, <2>5, <2>6, <2>7, <2>8, <2>9, <2>10,
               FieldStartKept, FieldKept, DiscardWsKept, DiscardLwsKept, ValueKept, ValueLwsKept,
               AlmostDoneKept
<1>4. CASE s.state \in BodyStates \cup {"chunk_size_start", "chunk_size", "chunk_parameters",
                                        "chunk_size_almost_done"}
    <2>1. s.state = "body_identity" => Step(s, ch) = BodyIdentity(s, ch)
        BY DEF Step
    <2>2. s.state = "chunk_size_start" => Step(s, ch) = ChunkSizeStart(s, ch)
        BY DEF Step
    <2>3. s.state = "chunk_size" => Step(s, ch) = ChunkSize(s, ch)
        BY DEF Step
    <2>4. s.state = "chunk_parameters" =>
            Step(s, ch) = IF ch = "CR" THEN To(s, "chunk_size_almost_done") ELSE s
        BY DEF Step
    <2>5. s.state = "chunk_size_almost_done" => Step(s, ch) = ChunkSizeAlmostDone(s, ch)
        BY DEF Step
    <2>6. s.state = "chunk_data" => Step(s, ch) = ChunkData(s, ch)
        BY DEF Step
    <2>7. s.state = "chunk_data_almost_done" =>
            Step(s, ch) = Expect(Call(s, "body"), ch, "CR", "chunk_data_done")
        BY DEF Step
    <2>8. s.state = "chunk_data_done" => Step(s, ch) = ChunkDataDone(s, ch)
        BY DEF Step
    <2>9. Kept(To(s, "chunk_size_almost_done"))
        BY ToKept DEF Kept, Loud
    <2> QED BY <1>4, <2>1, <2>2, <2>3, <2>4, <2>5, <2>6, <2>7, <2>8, <2>9, BodyIdentityKept,
               ChunkSizeStartKept, ChunkSizeKept, ChunkSizeAlmostDoneKept,
               ChunkDataKept, DataAlmostDoneKept, ChunkDataDoneKept DEF BodyStates
<1> QED BY <1>2, <1>3, <1>4 DEF States

-----------------------------------------------------------------------------
(* A cut in the middle of a text *)

Unmarked == [j \in Kinds |-> Null]

\* The parser c with a mark of one kind.
Marked(c, k, m) == [c EXCEPT !.marks = [j \in Kinds |-> IF j = k THEN m ELSE Null]]

\* What a symbol within a text may change.
Control(s, state, seen, length, nread, ok) ==
    [s EXCEPT !.state = state, !.seen = seen, !.length = length, !.nread = nread, !.ok = ok]

\* The marks go on to cover the symbol.
Covered(t, ch) ==
    [t EXCEPT !.marks = [k \in Kinds |-> IF t.marks[k] = Null THEN Null ELSE Append(t.marks[k], ch)]]

LEMMA StringsFacts ==
    /\ <<>> \in Strings /\ Null \notin Strings
    /\ \A m \in Strings, ch \in STRING : Append(m, ch) \in Strings
<1>1. <<>> \in Strings
    BY DEF Strings
<1>3. ASSUME NEW m \in Strings, NEW ch \in STRING PROVE Append(m, ch) \in Strings
    BY AppendProperties DEF Strings
<1>2. Null \notin Strings
    BY TextAssumption DEF Strings
<1> QED BY <1>1, <1>2, <1>3

LEMMA PiecesJoin ==
    ASSUME NEW a \in Strings, NEW m \in Strings, NEW ch \in STRING
    PROVE  /\ (a \o m) \o Append(<<>>, ch) = a \o Append(m, ch)
           /\ m \o Append(<<>>, ch) = Append(m, ch)
           /\ (a \o m) \o <<>> = a \o m
           /\ m \o <<>> = m
<1>0. \A S : \A c \in S : Append(<<>>, c) = <<c>> /\ <<c>> \in Seq(S)
    OBVIOUS
<1>1. Append(<<>>, ch) = <<ch>> /\ <<ch>> \in Strings
    BY <1>0 DEF Strings
<1>2. Append(m, ch) = m \o <<ch>>
    BY AppendIsConcat DEF Strings
<1>3. (a \o m) \o <<ch>> = a \o (m \o <<ch>>)
    BY <1>1, ConcatAssociative DEF Strings
<1>4. a \o m \in Strings
    BY DEF Strings
<1>5. (a \o m) \o <<>> = a \o m /\ m \o <<>> = m
    BY <1>4, ConcatEmptySeq DEF Strings
<1> QED BY <1>1, <1>2, <1>3, <1>5

LEMMA ParsersEqual ==
    ASSUME NEW s, NEW t, IsParser(s), IsParser(t),
           s.state = t.state, s.seen = t.seen, s.flags = t.flags, s.length = t.length,
           s.nread = t.nread, s.version = t.version, s.upgrade = t.upgrade, s.marks = t.marks,
           s.ok = t.ok, s.building = t.building, s.field = t.field, s.value = t.value,
           s.req = t.req, s.handled = t.handled
    PROVE  s = t
BY DEF IsParser

\* What the callbacks leave alone.
SameControl(t, s) ==
    /\ t.state = s.state /\ t.seen = s.seen /\ t.flags = s.flags /\ t.length = s.length
    /\ t.nread = s.nread /\ t.version = s.version /\ t.upgrade = s.upgrade /\ t.marks = s.marks
    /\ t.ok = s.ok /\ t.handled = s.handled

SameTexts(t, s) ==
    /\ t.building = s.building /\ t.field = s.field /\ t.value = s.value /\ t.req = s.req

LEMMA TextsAndControlEqual ==
    ASSUME NEW s, NEW t, IsParser(s), IsParser(t), SameControl(s, t), SameTexts(s, t)
    PROVE  s = t
BY ParsersEqual DEF SameControl, SameTexts

LEMMA UrlFields ==
    ASSUME NEW c, Whole(c), NEW at
    PROVE  /\ IsParser(OnUrl(c, at)) /\ SameControl(OnUrl(c, at), c)
           /\ OnUrl(c, at).building = c.building /\ OnUrl(c, at).field = c.field
           /\ OnUrl(c, at).value = c.value
           /\ OnUrl(c, at).req = [url |-> c.req.url \o at, headers |-> c.req.headers,
                                  body |-> c.req.body]
<1>1. PICK v, r : v = c.req.url \o at /\ r = [c.req EXCEPT !.url = v]
    OBVIOUS
<1>2. r = [url |-> v, headers |-> c.req.headers, body |-> c.req.body]
    BY <1>1 DEF Whole
<1>3. PICK t : t = [c EXCEPT !.req = r]
    OBVIOUS
<1>4. t = OnUrl(c, at)
    BY <1>1, <1>3 DEF OnUrl
<1>5. IsParser(t) /\ SameControl(t, c) /\ t.building = c.building /\ t.field = c.field
      /\ t.value = c.value /\ t.req = r
    BY <1>3 DEF Whole, IsParser, SameControl
<1> QED BY <1>1, <1>2, <1>4, <1>5

LEMMA BodyFields ==
    ASSUME NEW c, Whole(c), NEW at
    PROVE  /\ IsParser(OnBody(c, at)) /\ SameControl(OnBody(c, at), c)
           /\ OnBody(c, at).building = c.building /\ OnBody(c, at).field = c.field
           /\ OnBody(c, at).value = c.value
           /\ OnBody(c, at).req = [url |-> c.req.url, headers |-> c.req.headers,
                                   body |-> c.req.body \o at]
<1>1. PICK v, r : v = c.req.body \o at /\ r = [c.req EXCEPT !.body = v]
    OBVIOUS
<1>2. r = [url |-> c.req.url, headers |-> c.req.headers, body |-> v]
    BY <1>1 DEF Whole
<1>3. PICK t : t = [c EXCEPT !.req = r]
    OBVIOUS
<1>4. t = OnBody(c, at)
    BY <1>1, <1>3 DEF OnBody
<1>5. IsParser(t) /\ SameControl(t, c) /\ t.building = c.building /\ t.field = c.field
      /\ t.value = c.value /\ t.req = r
    BY <1>3 DEF Whole, IsParser, SameControl
<1> QED BY <1>1, <1>2, <1>4, <1>5

\* The request with the header before.
WithHeader(c) ==
    [c.req EXCEPT !.headers = IF c.value # <<>> THEN Append(@, <<c.field, c.value>>) ELSE @]

LEMMA FieldFields ==
    ASSUME NEW c, Whole(c), NEW at
    PROVE  /\ IsParser(OnField(c, at)) /\ SameControl(OnField(c, at), c)
           /\ OnField(c, at).building = 1
           /\ OnField(c, at).field = IF c.building = 1 THEN c.field \o at ELSE at
           /\ OnField(c, at).value = IF c.building = 1 THEN c.value ELSE <<>>
           /\ OnField(c, at).req = IF c.building = 1 THEN c.req ELSE WithHeader(c)
<1>1. CASE c.building = 1
    <2>1. PICK v : v = c.field \o at
        OBVIOUS
    <2>2. PICK t : t = [c EXCEPT !.field = v]
        OBVIOUS
    <2>3. t = OnField(c, at)
        BY <1>1, <2>1, <2>2 DEF OnField
    <2>4. IsParser(t) /\ SameControl(t, c) /\ t.building = c.building /\ t.field = v
          /\ t.value = c.value /\ t.req = c.req
        BY <2>2 DEF Whole, IsParser, SameControl
    <2> QED BY <1>1, <2>1, <2>3, <2>4
<1>2. CASE c.building # 1
    <2>1. PICK r, e : r = WithHeader(c) /\ e = <<>>
        OBVIOUS
    <2>2. PICK t : t = [c EXCEPT !.req = r, !.value = e, !.field = at, !.building = 1]
        OBVIOUS
    <2>3. t = OnField(c, at)
        BY <1>2, <2>1, <2>2 DEF OnField, WithHeader
    <2>4. IsParser(t) /\ SameControl(t, c) /\ t.building = 1 /\ t.field = at
          /\ t.value = e /\ t.req = r
        BY <2>2 DEF Whole, IsParser, SameControl
    <2> QED BY <1>2, <2>1, <2>3, <2>4
<1> QED BY <1>1, <1>2

LEMMA ValueFields ==
    ASSUME NEW c, Whole(c), NEW at
    PROVE  /\ IsParser(OnValue(c, at)) /\ SameControl(OnValue(c, at), c)
           /\ OnValue(c, at).building = 0 /\ OnValue(c, at).field = c.field
           /\ OnValue(c, at).value = IF c.building = 0 THEN c.value \o at ELSE at
           /\ OnValue(c, at).req = c.req
<1>1. PICK v : v = IF c.building = 0 THEN c.value \o at ELSE at
    OBVIOUS
<1>2. PICK t : t = [c EXCEPT !.value = v, !.building = 0]
    OBVIOUS
<1>3. t = OnValue(c, at)
    BY <1>1, <1>2 DEF OnValue
<1>4. IsParser(t) /\ SameControl(t, c) /\ t.building = 0 /\ t.field = c.field
      /\ t.value = v /\ t.req = c.req
    BY <1>2 DEF Whole, IsParser, SameControl
<1> QED BY <1>1, <1>3, <1>4

\* Nothing is added by an empty piece, and a piece may be split.
LEMMA UrlPieces ==
    ASSUME NEW c, Whole(c), NEW m \in Strings, NEW ch \in STRING
    PROVE  /\ OnUrl(OnUrl(c, m), <<>>) = OnUrl(c, m)
           /\ OnUrl(OnUrl(c, m), Append(<<>>, ch)) = OnUrl(c, Append(m, ch))
<1>1. PICK q : q = OnUrl(c, m)
    OBVIOUS
<1>2. Whole(q)
    BY <1>1, UrlWhole DEF Same
<1>3. /\ SameControl(q, c) /\ q.building = c.building /\ q.field = c.field
      /\ q.value = c.value
      /\ q.req = [url |-> c.req.url \o m, headers |-> c.req.headers, body |-> c.req.body]
    BY <1>1, UrlFields
<1>4. \A a : OnUrl(q, a).req =
                [url |-> (c.req.url \o m) \o a, headers |-> c.req.headers, body |-> c.req.body]
    <2>1. q.req.url = c.req.url \o m /\ q.req.headers = c.req.headers /\ q.req.body = c.req.body
        BY <1>3
    <2>2. \A a : OnUrl(q, a).req = [url |-> q.req.url \o a, headers |-> q.req.headers, body |-> q.req.body]
        BY <1>2, UrlFields
    <2> QED BY <2>1, <2>2
<1>5. \A a : /\ IsParser(OnUrl(q, a)) /\ SameControl(OnUrl(q, a), q)
             /\ OnUrl(q, a).building = q.building /\ OnUrl(q, a).field = q.field
             /\ OnUrl(q, a).value = q.value
    BY <1>2, UrlFields
<1>6. c.req.url \in Strings
    BY DEF Whole
<1>7. OnUrl(q, <<>>).req = q.req
    BY <1>3, <1>4, <1>6, PiecesJoin
<1>8. OnUrl(q, <<>>) = q
    BY <1>2, <1>5, <1>7, TextsAndControlEqual DEF SameTexts, Whole
<1>9. PICK v, w : v = OnUrl(q, Append(<<>>, ch)) /\ w = OnUrl(c, Append(m, ch))
    OBVIOUS
<1>10. /\ IsParser(w) /\ SameControl(w, c) /\ w.building = c.building /\ w.field = c.field
       /\ w.value = c.value
       /\ w.req = [url |-> c.req.url \o Append(m, ch), headers |-> c.req.headers, body |-> c.req.body]
    BY <1>9, UrlFields
<1>11. v.req = w.req
    <2>1. (c.req.url \o m) \o Append(<<>>, ch) = c.req.url \o Append(m, ch)
        BY <1>6, PiecesJoin
    <2> QED BY <1>4, <1>9, <1>10, <2>1
<1>12. IsParser(v) /\ SameControl(v, w) /\ SameTexts(v, w)
    BY <1>3, <1>5, <1>9, <1>10, <1>11 DEF SameControl, SameTexts
<1>13. v = w
    BY <1>10, <1>12, TextsAndControlEqual
<1> QED BY <1>1, <1>8, <1>9, <1>13

LEMMA BodyPieces ==
    ASSUME NEW c, Whole(c), NEW m \in Strings, NEW ch \in STRING
    PROVE  /\ OnBody(OnBody(c, m), <<>>) = OnBody(c, m)
           /\ OnBody(OnBody(c, m), Append(<<>>, ch)) = OnBody(c, Append(m, ch))
<1>1. PICK q : q = OnBody(c, m)
    OBVIOUS
<1>2. Whole(q)
    BY <1>1, BodyWhole DEF Same
<1>3. /\ SameControl(q, c) /\ q.building = c.building /\ q.field = c.field
      /\ q.value = c.value
      /\ q.req = [url |-> c.req.url, headers |-> c.req.headers, body |-> c.req.body \o m]
    BY <1>1, BodyFields
<1>4. \A a : OnBody(q, a).req =
                [url |-> c.req.url, headers |-> c.req.headers, body |-> (c.req.body \o m) \o a]
    <2>1. q.req.body = c.req.body \o m /\ q.req.headers = c.req.headers /\ q.req.url = c.req.url
        BY <1>3
    <2>2. \A a : OnBody(q, a).req = [url |-> q.req.url, headers |-> q.req.headers, body |-> q.req.body \o a]
        BY <1>2, BodyFields
    <2> QED BY <2>1, <2>2
<1>5. \A a : /\ IsParser(OnBody(q, a)) /\ SameControl(OnBody(q, a), q)
             /\ OnBody(q, a).building = q.building /\ OnBody(q, a).field = q.field
             /\ OnBody(q, a).value = q.value
    BY <1>2, BodyFields
<1>6. c.req.body \in Strings
    BY DEF Whole
<1>7. OnBody(q, <<>>).req = q.req
    BY <1>3, <1>4, <1>6, PiecesJoin
<1>8. OnBody(q, <<>>) = q
    BY <1>2, <1>5, <1>7, TextsAndControlEqual DEF SameTexts, Whole
<1>9. PICK v, w : v = OnBody(q, Append(<<>>, ch)) /\ w = OnBody(c, Append(m, ch))
    OBVIOUS
<1>10. /\ IsParser(w) /\ SameControl(w, c) /\ w.building = c.building /\ w.field = c.field
       /\ w.value = c.value
       /\ w.req = [url |-> c.req.url, headers |-> c.req.headers, body |-> c.req.body \o Append(m, ch)]
    BY <1>9, BodyFields
<1>11. v.req = w.req
    <2>1. (c.req.body \o m) \o Append(<<>>, ch) = c.req.body \o Append(m, ch)
        BY <1>6, PiecesJoin
    <2> QED BY <1>4, <1>9, <1>10, <2>1
<1>12. IsParser(v) /\ SameControl(v, w) /\ SameTexts(v, w)
    BY <1>3, <1>5, <1>9, <1>10, <1>11 DEF SameControl, SameTexts
<1>13. v = w
    BY <1>10, <1>12, TextsAndControlEqual
<1> QED BY <1>1, <1>8, <1>9, <1>13

LEMMA FieldPieces ==
    ASSUME NEW c, Whole(c), NEW m \in Strings, NEW ch \in STRING
    PROVE  /\ OnField(OnField(c, m), <<>>) = OnField(c, m)
           /\ OnField(OnField(c, m), Append(<<>>, ch)) = OnField(c, Append(m, ch))
<1>1. PICK q : q = OnField(c, m)
    OBVIOUS
<1>2. Whole(q)
    BY <1>1, FieldWhole DEF Same
<1>3. /\ SameControl(q, c) /\ q.building = 1
      /\ q.field = IF c.building = 1 THEN c.field \o m ELSE m
      /\ q.value = IF c.building = 1 THEN c.value ELSE <<>>
      /\ q.req = IF c.building = 1 THEN c.req ELSE WithHeader(c)
    BY <1>1, FieldFields
<1>4. \A a : /\ IsParser(OnField(q, a)) /\ SameControl(OnField(q, a), q)
             /\ OnField(q, a).building = 1 /\ OnField(q, a).field = q.field \o a
             /\ OnField(q, a).value = q.value /\ OnField(q, a).req = q.req
    BY <1>2, <1>3, FieldFields
<1>5. q.field \in Strings /\ c.field \in Strings
    BY <1>2 DEF Whole
<1>6. q.field \o <<>> = q.field
    BY <1>5, PiecesJoin
<1>7. OnField(q, <<>>) = q
    BY <1>2, <1>3, <1>4, <1>6, TextsAndControlEqual DEF SameTexts, Whole
<1>8. PICK v, w : v = OnField(q, Append(<<>>, ch)) /\ w = OnField(c, Append(m, ch))
    OBVIOUS
<1>9. /\ IsParser(w) /\ SameControl(w, c) /\ w.building = 1
      /\ w.field = IF c.building = 1 THEN c.field \o Append(m, ch) ELSE Append(m, ch)
      /\ w.value = IF c.building = 1 THEN c.value ELSE <<>>
      /\ w.req = IF c.building = 1 THEN c.req ELSE WithHeader(c)
    BY <1>8, FieldFields
<1>10. q.field \o Append(<<>>, ch) = w.field
    <2>1. /\ (c.field \o m) \o Append(<<>>, ch) = c.field \o Append(m, ch)
          /\ m \o Append(<<>>, ch) = Append(m, ch)
        BY <1>5, PiecesJoin
    <2> QED BY <1>3, <1>9, <2>1
<1>11. IsParser(v) /\ SameControl(v, w) /\ SameTexts(v, w)
    BY <1>3, <1>4, <1>8, <1>9, <1>10 DEF SameControl, SameTexts
<1>12. v = w
    BY <1>9, <1>11, TextsAndControlEqual
<1> QED BY <1>1, <1>7, <1>8, <1>12

LEMMA ValuePieces ==
    ASSUME NEW c, Whole(c), NEW m \in Strings, NEW ch \in STRING
    PROVE  /\ OnValue(OnValue(c, m), <<>>) = OnValue(c, m)
           /\ OnValue(OnValue(c, m), Append(<<>>, ch)) = OnValue(c, Append(m, ch))
<1>1. PICK q : q = OnValue(c, m)
    OBVIOUS
<1>2. Whole(q)
    BY <1>1, ValueWhole DEF Same
<1>3. /\ SameControl(q, c) /\ q.building = 0 /\ q.field = c.field /\ q.req = c.req
      /\ q.value = IF c.building = 0 THEN c.value \o m ELSE m
    BY <1>1, ValueFields
<1>4. \A a : /\ IsParser(OnValue(q, a)) /\ SameControl(OnValue(q, a), q)
             /\ OnValue(q, a).building = 0 /\ OnValue(q, a).field = q.field
             /\ OnValue(q, a).value = q.value \o a /\ OnValue(q, a).req = q.req
    BY <1>2, <1>3, ValueFields
<1>5. q.value \in Strings /\ c.value \in Strings
    BY <1>2 DEF Whole
<1>6. q.value \o <<>> = q.value
    BY <1>5, PiecesJoin
<1>7. OnValue(q, <<>>) = q
    BY <1>2, <1>3, <1>4, <1>6, TextsAndControlEqual DEF SameTexts, Whole
<1>8. PICK v, w : v = OnValue(q, Append(<<>>, ch)) /\ w = OnValue(c, Append(m, ch))
    OBVIOUS
<1>9. /\ IsParser(w) /\ SameControl(w, c) /\ w.building = 0 /\ w.field = c.field
      /\ w.value = IF c.building = 0 THEN c.value \o Append(m, ch) ELSE Append(m, ch)
      /\ w.req = c.req
    BY <1>8, ValueFields
<1>10. q.value \o Append(<<>>, ch) = w.value
    <2>1. /\ (c.value \o m) \o Append(<<>>, ch) = c.value \o Append(m, ch)
          /\ m \o Append(<<>>, ch) = Append(m, ch)
        BY <1>5, PiecesJoin
    <2> QED BY <1>3, <1>9, <2>1
<1>11. IsParser(v) /\ SameControl(v, w) /\ SameTexts(v, w)
    BY <1>3, <1>4, <1>8, <1>9, <1>10 DEF SameControl, SameTexts
<1>12. v = w
    BY <1>9, <1>11, TextsAndControlEqual
<1> QED BY <1>1, <1>7, <1>8, <1>12

LEMMA Pieces ==
    ASSUME NEW c, Whole(c), NEW k \in Kinds, NEW m \in Strings, NEW ch \in STRING
    PROVE  /\ Callback(Callback(c, k, m), k, <<>>) = Callback(c, k, m)
           /\ Callback(Callback(c, k, m), k, Append(<<>>, ch)) = Callback(c, k, Append(m, ch))
<1>1. CASE k = "url"
    <2>1. \A d, a : Callback(d, k, a) = OnUrl(d, a)
        BY <1>1 DEF Callback
    <2>2. /\ OnUrl(OnUrl(c, m), <<>>) = OnUrl(c, m)
          /\ OnUrl(OnUrl(c, m), Append(<<>>, ch)) = OnUrl(c, Append(m, ch))
        BY UrlPieces
    <2> QED BY <2>1, <2>2
<1>2. CASE k = "field"
    <2>1. \A d, a : Callback(d, k, a) = OnField(d, a)
        BY <1>2 DEF Callback
    <2>2. /\ OnField(OnField(c, m), <<>>) = OnField(c, m)
          /\ OnField(OnField(c, m), Append(<<>>, ch)) = OnField(c, Append(m, ch))
        BY FieldPieces
    <2> QED BY <2>1, <2>2
<1>3. CASE k = "value"
    <2>1. \A d, a : Callback(d, k, a) = OnValue(d, a)
        BY <1>3 DEF Callback
    <2>2. /\ OnValue(OnValue(c, m), <<>>) = OnValue(c, m)
          /\ OnValue(OnValue(c, m), Append(<<>>, ch)) = OnValue(c, Append(m, ch))
        BY ValuePieces
    <2> QED BY <2>1, <2>2
<1>4. CASE k = "body"
    <2>1. \A d, a : Callback(d, k, a) = OnBody(d, a)
        BY <1>4 DEF Callback
    <2>2. /\ OnBody(OnBody(c, m), <<>>) = OnBody(c, m)
          /\ OnBody(OnBody(c, m), Append(<<>>, ch)) = OnBody(c, Append(m, ch))
        BY BodyPieces
    <2> QED BY <2>1, <2>2
<1> QED BY <1>1, <1>2, <1>3, <1>4 DEF Kinds

LEMMA CallbackControl ==
    ASSUME NEW c, Whole(c), NEW k \in Kinds, NEW a
    PROVE  IsParser(Callback(c, k, a)) /\ SameControl(Callback(c, k, a), c)
<1>1. k = "url" => Callback(c, k, a) = OnUrl(c, a)
    BY DEF Callback
<1>2. k = "field" => Callback(c, k, a) = OnField(c, a)
    BY DEF Callback
<1>3. k = "value" => Callback(c, k, a) = OnValue(c, a)
    BY DEF Callback
<1>4. k = "body" => Callback(c, k, a) = OnBody(c, a)
    BY DEF Callback
<1>5. k \in {"url", "field", "value", "body"}
    BY DEF Kinds
<1>6. IsParser(OnUrl(c, a)) /\ SameControl(OnUrl(c, a), c)
    BY UrlFields
<1>7. IsParser(OnField(c, a)) /\ SameControl(OnField(c, a), c)
    BY FieldFields
<1>8. IsParser(OnValue(c, a)) /\ SameControl(OnValue(c, a), c)
    BY ValueFields
<1>9. IsParser(OnBody(c, a)) /\ SameControl(OnBody(c, a), c)
    BY BodyFields
<1> QED BY <1>1, <1>2, <1>3, <1>4, <1>5, <1>6, <1>7, <1>8, <1>9

\* What the callbacks make of the texts depends on the texts alone.
LEMMA CallbackTexts ==
    ASSUME NEW c, NEW d, Whole(c), Whole(d), SameTexts(c, d), NEW k \in Kinds, NEW a
    PROVE  SameTexts(Callback(c, k, a), Callback(d, k, a))
<1>0. c.building = d.building /\ c.field = d.field /\ c.value = d.value /\ c.req = d.req
    BY DEF SameTexts
<1>1. CASE k = "url"
    <2>1. Callback(c, k, a) = OnUrl(c, a) /\ Callback(d, k, a) = OnUrl(d, a)
        BY <1>1 DEF Callback
    <2>2. /\ OnUrl(c, a).building = c.building /\ OnUrl(c, a).field = c.field
          /\ OnUrl(c, a).value = c.value
          /\ OnUrl(c, a).req = [url |-> c.req.url \o a, headers |-> c.req.headers,
                                body |-> c.req.body]
        BY UrlFields
    <2>3. /\ OnUrl(d, a).building = d.building /\ OnUrl(d, a).field = d.field
          /\ OnUrl(d, a).value = d.value
          /\ OnUrl(d, a).req = [url |-> d.req.url \o a, headers |-> d.req.headers,
                                body |-> d.req.body]
        BY UrlFields
    <2> QED BY <1>0, <2>1, <2>2, <2>3 DEF SameTexts
<1>2. CASE k = "field"
    <2>1. Callback(c, k, a) = OnField(c, a) /\ Callback(d, k, a) = OnField(d, a)
        BY <1>2 DEF Callback
    <2>2. WithHeader(c) = WithHeader(d)
        BY <1>0 DEF WithHeader
    <2>3. /\ OnField(c, a).building = 1
          /\ OnField(c, a).field = IF c.building = 1 THEN c.field \o a ELSE a
          /\ OnField(c, a).value = IF c.building = 1 THEN c.value ELSE <<>>
          /\ OnField(c, a).req = IF c.building = 1 THEN c.req ELSE WithHeader(c)
        BY FieldFields
    <2>4. /\ OnField(d, a).building = 1
          /\ OnField(d, a).field = IF d.building = 1 THEN d.field \o a ELSE a
          /\ OnField(d, a).value = IF d.building = 1 THEN d.value ELSE <<>>
          /\ OnField(d, a).req = IF d.building = 1 THEN d.req ELSE WithHeader(d)
        BY FieldFields
    <2> QED BY <1>0, <2>1, <2>2, <2>3, <2>4 DEF SameTexts
<1>3. CASE k = "value"
    <2>1. Callback(c, k, a) = OnValue(c, a) /\ Callback(d, k, a) = OnValue(d, a)
        BY <1>3 DEF Callback
    <2>2. /\ OnValue(c, a).building = 0 /\ OnValue(c, a).field = c.field
          /\ OnValue(c, a).value = IF c.building = 0 THEN c.value \o a ELSE a
          /\ OnValue(c, a).req = c.req
        BY ValueFields
    <2>3. /\ OnValue(d, a).building = 0 /\ OnValue(d, a).field = d.field
          /\ OnValue(d, a).value = IF d.building = 0 THEN d.value \o a ELSE a
          /\ OnValue(d, a).req = d.req
        BY ValueFields
    <2> QED BY <1>0, <2>1, <2>2, <2>3 DEF SameTexts
<1>4. CASE k = "body"
    <2>1. Callback(c, k, a) = OnBody(c, a) /\ Callback(d, k, a) = OnBody(d, a)
        BY <1>4 DEF Callback
    <2>2. /\ OnBody(c, a).building = c.building /\ OnBody(c, a).field = c.field
          /\ OnBody(c, a).value = c.value
          /\ OnBody(c, a).req = [url |-> c.req.url, headers |-> c.req.headers,
                                 body |-> c.req.body \o a]
        BY BodyFields
    <2>3. /\ OnBody(d, a).building = d.building /\ OnBody(d, a).field = d.field
          /\ OnBody(d, a).value = d.value
          /\ OnBody(d, a).req = [url |-> d.req.url, headers |-> d.req.headers,
                                 body |-> d.req.body \o a]
        BY BodyFields
    <2> QED BY <1>0, <2>1, <2>2, <2>3 DEF SameTexts
<1> QED BY <1>1, <1>2, <1>3, <1>4 DEF Kinds

LEMMA ControlFields ==
    ASSUME NEW c, Whole(c), NEW st, NEW se, NEW le, NEW nr, NEW ok,
           NEW t, t = Control(c, st, se, le, nr, ok)
    PROVE  /\ Whole(t) /\ t.state = st /\ t.seen = se /\ t.length = le /\ t.nread = nr
           /\ t.ok = ok /\ t.flags = c.flags /\ t.version = c.version /\ t.upgrade = c.upgrade
           /\ t.marks = c.marks /\ t.handled = c.handled /\ SameTexts(t, c)
<1>1. /\ IsParser(t) /\ t.state = st /\ t.seen = se /\ t.length = le /\ t.nread = nr
      /\ t.ok = ok /\ t.flags = c.flags /\ t.version = c.version /\ t.upgrade = c.upgrade
      /\ t.marks = c.marks /\ t.handled = c.handled
      /\ t.building = c.building /\ t.field = c.field /\ t.value = c.value /\ t.req = c.req
    BY DEF Control, Whole, IsParser
<1> QED BY <1>1 DEF Whole, SameTexts

\* A callback and a change of control do not see each other.
LEMMA CallbackCommutes ==
    ASSUME NEW c, Whole(c), NEW k \in Kinds, NEW m \in Strings,
           NEW st, NEW se, NEW le, NEW nr, NEW ok
    PROVE  Control(Callback(c, k, m), st, se, le, nr, ok) = Callback(Control(c, st, se, le, nr, ok), k, m)
<1>1. PICK q, d : q = Callback(c, k, m) /\ d = Control(c, st, se, le, nr, ok)
    OBVIOUS
<1>2. PICK v, w : v = Control(q, st, se, le, nr, ok) /\ w = Callback(d, k, m)
    OBVIOUS
<1>3. Whole(q)
    BY <1>1, CallbackWhole DEF Same
<1>4. SameControl(q, c)
    BY <1>1, CallbackControl
<1>5. /\ Whole(d) /\ d.state = st /\ d.seen = se /\ d.length = le /\ d.nread = nr
      /\ d.ok = ok /\ d.flags = c.flags /\ d.version = c.version /\ d.upgrade = c.upgrade
      /\ d.marks = c.marks /\ d.handled = c.handled /\ SameTexts(d, c)
    BY <1>1, ControlFields
<1>6. /\ Whole(v) /\ v.state = st /\ v.seen = se /\ v.length = le /\ v.nread = nr
      /\ v.ok = ok /\ v.flags = q.flags /\ v.version = q.version /\ v.upgrade = q.upgrade
      /\ v.marks = q.marks /\ v.handled = q.handled /\ SameTexts(v, q)
    BY <1>2, <1>3, ControlFields
<1>7. IsParser(w) /\ SameControl(w, d)
    BY <1>2, <1>5, CallbackControl
<1>8. SameTexts(w, q)
    BY <1>1, <1>2, <1>5, CallbackTexts
<1>9. IsParser(v) /\ SameControl(v, w) /\ SameTexts(v, w)
    BY <1>4, <1>5, <1>6, <1>7, <1>8 DEF SameControl, SameTexts, Whole
<1>10. v = w
    BY <1>7, <1>9, TextsAndControlEqual
<1> QED BY <1>1, <1>2, <1>10

-----------------------------------------------------------------------------
(* Marks *)

LEMMA MarkedFields ==
    ASSUME NEW c, Whole(c), NEW k \in Kinds, NEW m \in Strings \cup {Null},
           NEW t, t = Marked(c, k, m)
    PROVE  /\ Whole(t) /\ t.marks[k] = m /\ \A j \in Kinds : j # k => t.marks[j] = Null
           /\ t.state = c.state /\ t.seen = c.seen /\ t.flags = c.flags /\ t.length = c.length
           /\ t.nread = c.nread /\ t.version = c.version /\ t.upgrade = c.upgrade
           /\ t.ok = c.ok /\ t.handled = c.handled /\ SameTexts(t, c)
<1>1. PICK n : n = [j \in Kinds |-> IF j = k THEN m ELSE Null]
    OBVIOUS
<1>2. /\ n = [j \in Kinds |-> n[j]] /\ n[k] = m /\ \A j \in Kinds : j # k => n[j] = Null
      /\ \A j \in Kinds : n[j] \in Strings \cup {Null}
    BY <1>1
<1>3. t = [c EXCEPT !.marks = n]
    BY <1>1 DEF Marked
<1>4. /\ IsParser(t) /\ t.marks = n
      /\ t.state = c.state /\ t.seen = c.seen /\ t.flags = c.flags /\ t.length = c.length
      /\ t.nread = c.nread /\ t.version = c.version /\ t.upgrade = c.upgrade
      /\ t.ok = c.ok /\ t.handled = c.handled
      /\ t.building = c.building /\ t.field = c.field /\ t.value = c.value /\ t.req = c.req
    BY <1>2, <1>3 DEF Whole, IsParser
<1> QED BY <1>2, <1>4 DEF Whole, SameTexts

LEMMA CallNothing ==
    ASSUME NEW s, NEW k, s.marks[k] = Null
    PROVE  Call(s, k) = s
BY DEF Call

LEMMA FlushedNothing ==
    ASSUME NEW s, NoMarks(s)
    PROVE  Flushed(s) = s
BY CallNothing DEF Flushed, NoMarks, Kinds

LEMMA CallMarked ==
    ASSUME NEW c, Whole(c), c.marks = Unmarked, NEW k \in Kinds, NEW m \in Strings
    PROVE  Call(Marked(c, k, m), k) = Callback(c, k, m)
<1>1. PICK t : t = Marked(c, k, m)
    OBVIOUS
<1>2. /\ Whole(t) /\ t.marks[k] = m /\ \A j \in Kinds : j # k => t.marks[j] = Null
      /\ t.state = c.state /\ t.seen = c.seen /\ t.flags = c.flags /\ t.length = c.length
      /\ t.nread = c.nread /\ t.version = c.version /\ t.upgrade = c.upgrade
      /\ t.ok = c.ok /\ t.handled = c.handled /\ SameTexts(t, c)
    BY <1>1, MarkedFields
<1>3. m # Null
    BY StringsFacts
<1>4. PICK n : n = [t.marks EXCEPT ![k] = Null]
    OBVIOUS
<1>5. n = Unmarked
    BY <1>2, <1>4 DEF Unmarked, Whole, IsParser
<1>6. PICK u : u = [t EXCEPT !.marks = n]
    OBVIOUS
<1>7. /\ IsParser(u) /\ u.marks = n
      /\ u.state = t.state /\ u.seen = t.seen /\ u.flags = t.flags /\ u.length = t.length
      /\ u.nread = t.nread /\ u.version = t.version /\ u.upgrade = t.upgrade
      /\ u.ok = t.ok /\ u.handled = t.handled
      /\ u.building = t.building /\ u.field = t.field /\ u.value = t.value /\ u.req = t.req
    <2>1. n = [j \in Kinds |-> n[j]]
        BY <1>5 DEF Unmarked
    <2> QED BY <1>2, <1>6, <2>1 DEF Whole, IsParser
<1>8. u = c
    BY <1>2, <1>5, <1>7, ParsersEqual DEF Whole, SameTexts
<1>9. Call(t, k) = Callback(u, k, m)
    BY <1>2, <1>3, <1>4, <1>6 DEF Call
<1> QED BY <1>1, <1>8, <1>9

LEMMA FlushedMarked ==
    ASSUME NEW c, Whole(c), c.marks = Unmarked, NEW k \in Kinds, NEW m \in Strings
    PROVE  /\ Flushed(Marked(c, k, m)) = Callback(c, k, m)
           /\ Callback(c, k, m).marks = Unmarked
<1>1. PICK t, q : t = Marked(c, k, m) /\ q = Callback(c, k, m)
    OBVIOUS
<1>2. \A j \in Kinds : j # k => t.marks[j] = Null
    BY <1>1, MarkedFields
<1>3. q.marks = Unmarked
    BY <1>1, CallbackControl DEF SameControl
<1>4. \A j \in Kinds : q.marks[j] = Null
    BY <1>3 DEF Unmarked
<1>5. Call(t, k) = q
    BY <1>1, CallMarked
<1>6. \A j \in Kinds : (j # k => Call(t, j) = t) /\ Call(q, j) = q
    BY <1>2, <1>4, CallNothing
<1>7. Flushed(t) = q
    <2>1. k = "field" => Flushed(t) = q
        BY <1>5, <1>6 DEF Flushed, Kinds
    <2>2. k = "value" => Flushed(t) = q
        BY <1>5, <1>6 DEF Flushed, Kinds
    <2>3. k = "url" => Flushed(t) = q
        BY <1>5, <1>6 DEF Flushed, Kinds
    <2>4. k = "body" => Flushed(t) = q
        BY <1>5, <1>6 DEF Flushed, Kinds
    <2> QED BY <2>1, <2>2, <2>3, <2>4 DEF Kinds
<1> QED BY <1>1, <1>3, <1>7

\* A parser with one mark is one without, marked.
LEMMA MarkedAgain ==
    ASSUME NEW s, Whole(s), NEW k \in Kinds, s.marks[k] # Null,
           \A j \in Kinds : j # k => s.marks[j] = Null
    PROVE  /\ s.marks[k] \in Strings
           /\ \E c : /\ Whole(c) /\ c.marks = Unmarked /\ c.state = s.state
                    /\ s = Marked(c, k, s.marks[k])
<1>0. PICK c : c = [s EXCEPT !.marks = Unmarked]
    OBVIOUS
<1>1. PICK n : n = Unmarked
    OBVIOUS
<1>2. n = [j \in Kinds |-> n[j]] /\ \A j \in Kinds : n[j] = Null
    BY <1>1 DEF Unmarked
<1>3. /\ IsParser(c) /\ c.marks = n
      /\ c.state = s.state /\ c.seen = s.seen /\ c.flags = s.flags /\ c.length = s.length
      /\ c.nread = s.nread /\ c.version = s.version /\ c.upgrade = s.upgrade
      /\ c.ok = s.ok /\ c.handled = s.handled
      /\ c.building = s.building /\ c.field = s.field /\ c.value = s.value /\ c.req = s.req
    BY <1>0, <1>1, <1>2 DEF Whole, IsParser
<1>4. Whole(c)
    BY <1>2, <1>3 DEF Whole
<1>5. s.marks[k] \in Strings
    BY DEF Whole
<1>6. PICK m, t : m = s.marks[k] /\ t = Marked(c, k, m)
    OBVIOUS
<1>10. m \in Strings \cup {Null}
    BY <1>5, <1>6
<1>11. t = Marked(c, k, m)
    BY <1>6
<1>7. /\ Whole(t) /\ t.marks[k] = m /\ \A j \in Kinds : j # k => t.marks[j] = Null
      /\ t.state = c.state /\ t.seen = c.seen /\ t.flags = c.flags /\ t.length = c.length
      /\ t.nread = c.nread /\ t.version = c.version /\ t.upgrade = c.upgrade
      /\ t.ok = c.ok /\ t.handled = c.handled /\ SameTexts(t, c)
    BY <1>4, <1>10, <1>11, MarkedFields
<1>8. t.marks = s.marks
    <2>1. \A j \in Kinds : t.marks[j] = s.marks[j]
        BY <1>6, <1>7
    <2>2. t.marks = [j \in Kinds |-> t.marks[j]] /\ s.marks = [j \in Kinds |-> s.marks[j]]
        BY <1>7 DEF Whole, IsParser
    <2> QED BY <2>1, <2>2
<1>9. t = s
    BY <1>3, <1>7, <1>8, ParsersEqual DEF Whole, SameTexts
<1> QED BY <1>1, <1>3, <1>4, <1>5, <1>6, <1>9

LEMMA ControlMarked ==
    ASSUME NEW c, Whole(c), NEW k \in Kinds, NEW m \in Strings \cup {Null},
           NEW st, NEW se, NEW le, NEW nr, NEW ok
    PROVE  Control(Marked(c, k, m), st, se, le, nr, ok) = Marked(Control(c, st, se, le, nr, ok), k, m)
<1>1. PICK t, d : t = Marked(c, k, m) /\ d = Control(c, st, se, le, nr, ok)
    OBVIOUS
<1>2. PICK v, w : v = Control(t, st, se, le, nr, ok) /\ w = Marked(d, k, m)
    OBVIOUS
<1>3. /\ Whole(t) /\ t.flags = c.flags /\ t.version = c.version /\ t.upgrade = c.upgrade
      /\ t.handled = c.handled /\ SameTexts(t, c)
    BY <1>1, MarkedFields
<1>4. /\ Whole(d) /\ d.state = st /\ d.seen = se /\ d.length = le /\ d.nread = nr
      /\ d.ok = ok /\ d.flags = c.flags /\ d.version = c.version /\ d.upgrade = c.upgrade
      /\ d.handled = c.handled /\ SameTexts(d, c)
    BY <1>1, ControlFields
<1>5. /\ Whole(v) /\ v.state = st /\ v.seen = se /\ v.length = le /\ v.nread = nr
      /\ v.ok = ok /\ v.flags = t.flags /\ v.version = t.version /\ v.upgrade = t.upgrade
      /\ v.marks = t.marks /\ v.handled = t.handled /\ SameTexts(v, t)
    BY <1>2, <1>3, ControlFields
<1>6. /\ Whole(w) /\ w.state = d.state /\ w.seen = d.seen /\ w.flags = d.flags
      /\ w.length = d.length /\ w.nread = d.nread /\ w.version = d.version
      /\ w.upgrade = d.upgrade /\ w.ok = d.ok /\ w.handled = d.handled /\ SameTexts(w, d)
    BY <1>2, <1>4, MarkedFields
<1>7. \A a : Whole(a) => Marked(a, k, m).marks = [j \in Kinds |-> IF j = k THEN m ELSE Null]
    BY DEF Marked, Whole, IsParser
<1>8. v.marks = w.marks
    BY <1>1, <1>2, <1>4, <1>5, <1>7
<1>9. v = w
    BY <1>3, <1>4, <1>5, <1>6, <1>8, ParsersEqual DEF Whole, SameTexts
<1> QED BY <1>1, <1>2, <1>9

LEMMA CoveredMarked ==
    ASSUME NEW c, Whole(c), NEW k \in Kinds, NEW m \in Strings, NEW ch \in STRING
    PROVE  Covered(Marked(c, k, m), ch) = Marked(c, k, Append(m, ch))
<1>1. PICK t : t = Marked(c, k, m)
    OBVIOUS
<1>2. t.marks[k] = m /\ \A j \in Kinds : j # k => t.marks[j] = Null
    BY <1>1, MarkedFields
<1>3. m # Null
    BY StringsFacts
<1>4. PICK a, b : /\ a = [j \in Kinds |-> IF t.marks[j] = Null THEN Null ELSE Append(t.marks[j], ch)]
                  /\ b = [j \in Kinds |-> IF j = k THEN Append(m, ch) ELSE Null]
    OBVIOUS
<1>5. a = b
    BY <1>2, <1>3, <1>4
<1>6. PICK n : n = [j \in Kinds |-> IF j = k THEN m ELSE Null]
    OBVIOUS
<1>7. t = [c EXCEPT !.marks = n]
    BY <1>1, <1>6 DEF Marked
<1>8. [t EXCEPT !.marks = b] = [c EXCEPT !.marks = b]
    BY <1>7 DEF Whole, IsParser
<1>9. Covered(t, ch) = [t EXCEPT !.marks = a] /\ Marked(c, k, Append(m, ch)) = [c EXCEPT !.marks = b]
    BY <1>4 DEF Covered, Marked
<1> QED BY <1>1, <1>5, <1>8, <1>9

LEMMA CoveredNothing ==
    ASSUME NEW s, Whole(s), NoMarks(s), NEW ch
    PROVE  Covered(s, ch) = s
<1>1. s.marks = [j \in Kinds |-> s.marks[j]] /\ \A j \in Kinds : s.marks[j] = Null
    BY DEF Whole, IsParser, NoMarks
<1>2. PICK n : n = [k \in Kinds |-> IF s.marks[k] = Null THEN Null ELSE Append(s.marks[k], ch)]
    OBVIOUS
<1>3. n = s.marks
    BY <1>1, <1>2
<1>4. [s EXCEPT !.marks = n] = s
    BY <1>3 DEF Whole, IsParser
<1> QED BY <1>2, <1>4 DEF Covered

\* A symbol within a text, in the piece in progress and in a piece it begins.
LEMMA SymbolWithin ==
    ASSUME NEW c, Whole(c), c.marks = Unmarked, NEW k \in Kinds, NEW m \in Strings,
           NEW ch \in STRING, NEW st, NEW se, NEW le, NEW nr, NEW ok
    PROVE  Flushed(Covered(Control(Marked(c, k, m), st, se, le, nr, ok), ch))
           = Flushed(Covered(Control(Marked(Callback(c, k, m), k, <<>>), st, se, le, nr, ok), ch))
<1>1. PICK q, d, e :
        /\ q = Callback(c, k, m) /\ d = Control(c, st, se, le, nr, ok)
        /\ e = Control(q, st, se, le, nr, ok)
    OBVIOUS
<1>2. PICK n, l : n = Append(m, ch) /\ l = Append(<<>>, ch)
    OBVIOUS
<1>3. n \in Strings /\ l \in Strings /\ <<>> \in Strings
    BY <1>2, StringsFacts
<1>4. Whole(q) /\ q.marks = Unmarked
    BY <1>1, CallbackWhole, FlushedMarked DEF Same
<1>5. Whole(d) /\ d.marks = Unmarked
    BY <1>1, ControlFields
<1>6. Whole(e) /\ e.marks = Unmarked
    BY <1>1, <1>4, ControlFields
<1>7. Flushed(Covered(Control(Marked(c, k, m), st, se, le, nr, ok), ch)) = Callback(d, k, n)
    <2>1. Control(Marked(c, k, m), st, se, le, nr, ok) = Marked(d, k, m)
        BY <1>1, ControlMarked
    <2>2. Covered(Marked(d, k, m), ch) = Marked(d, k, n)
        BY <1>2, <1>5, CoveredMarked
    <2>3. Flushed(Marked(d, k, n)) = Callback(d, k, n)
        BY <1>3, <1>5, FlushedMarked
    <2> QED BY <2>1, <2>2, <2>3
<1>8. Flushed(Covered(Control(Marked(q, k, <<>>), st, se, le, nr, ok), ch)) = Callback(e, k, l)
    <2>1. Control(Marked(q, k, <<>>), st, se, le, nr, ok) = Marked(e, k, <<>>)
        BY <1>1, <1>3, <1>4, ControlMarked
    <2>2. Covered(Marked(e, k, <<>>), ch) = Marked(e, k, l)
        BY <1>2, <1>3, <1>6, CoveredMarked
    <2>3. Flushed(Marked(e, k, l)) = Callback(e, k, l)
        BY <1>3, <1>6, FlushedMarked
    <2> QED BY <2>1, <2>2, <2>3
<1>9. e = Callback(d, k, m)
    BY <1>1, CallbackCommutes
<1>10. Callback(e, k, l) = Callback(d, k, n)
    BY <1>2, <1>5, <1>9, Pieces
<1> QED BY <1>1, <1>7, <1>8, <1>10

\* Two parsers that differ in their texts only.
Twins(p, r) ==
    /\ Whole(p) /\ Whole(r)
    /\ p.state = r.state /\ p.seen = r.seen /\ p.length = r.length /\ p.nread = r.nread
    /\ p.ok = r.ok

\* What becomes of them: the same change of control, or one and the same parser.
Alike(t, u, p, r) ==
    \/ t = u
    \/ \E st, se, le, nr, ok : /\ t = Control(p, st, se, le, nr, ok)
                              /\ u = Control(r, st, se, le, nr, ok)

LEMMA ControlIs ==
    ASSUME NEW s, Whole(s), NEW x
    PROVE  /\ s = Control(s, s.state, s.seen, s.length, s.nread, s.ok)
           /\ [s EXCEPT !.ok = x] = Control(s, s.state, s.seen, s.length, s.nread, x)
           /\ [s EXCEPT !.seen = x] = Control(s, s.state, x, s.length, s.nread, s.ok)
           /\ [s EXCEPT !.length = x] = Control(s, s.state, s.seen, x, s.nread, s.ok)
           /\ [s EXCEPT !.nread = x] = Control(s, s.state, s.seen, s.length, x, s.ok)
           /\ To(s, x) = Control(s, x, s.seen, s.length, s.nread, s.ok)
<1>0. IsParser(s)
    BY DEF Whole
<1>1. s = Control(s, s.state, s.seen, s.length, s.nread, s.ok)
    BY <1>0 DEF Control, IsParser
<1>2. [s EXCEPT !.ok = x] = Control(s, s.state, s.seen, s.length, s.nread, x)
    BY <1>0 DEF Control, IsParser
<1>3. [s EXCEPT !.seen = x] = Control(s, s.state, x, s.length, s.nread, s.ok)
    BY <1>0 DEF Control, IsParser
<1>4. [s EXCEPT !.length = x] = Control(s, s.state, s.seen, x, s.nread, s.ok)
    BY <1>0 DEF Control, IsParser
<1>5. [s EXCEPT !.nread = x] = Control(s, s.state, s.seen, s.length, x, s.ok)
    BY <1>0 DEF Control, IsParser
<1>6. To(s, x) = Control(s, x, s.seen, s.length, s.nread, s.ok)
    BY <1>0 DEF Control, IsParser, To
<1> QED BY <1>1, <1>2, <1>3, <1>4, <1>5, <1>6

LEMMA StayAlike ==
    ASSUME NEW p, NEW r, Twins(p, r)
    PROVE  Alike(p, r, p, r)
<1>1. p = Control(p, p.state, p.seen, p.length, p.nread, p.ok)
    BY ControlIs DEF Twins
<1>2. r = Control(r, p.state, p.seen, p.length, p.nread, p.ok)
    BY ControlIs DEF Twins
<1> QED BY <1>1, <1>2 DEF Alike

LEMMA ErrorAlike ==
    ASSUME NEW p, NEW r, Twins(p, r)
    PROVE  Alike(Error(p), Error(r), p, r)
<1>1. PICK f : f = FALSE
    OBVIOUS
<1>2. [p EXCEPT !.ok = f] = Control(p, p.state, p.seen, p.length, p.nread, f)
    BY ControlIs DEF Twins
<1>3. [r EXCEPT !.ok = f] = Control(r, p.state, p.seen, p.length, p.nread, f)
    <2>1. [r EXCEPT !.ok = f] = Control(r, r.state, r.seen, r.length, r.nread, f)
        BY ControlIs DEF Twins
    <2>2. /\ p.state = r.state /\ p.seen = r.seen /\ p.length = r.length /\ p.nread = r.nread
          /\ p.ok = r.ok
        BY DEF Twins
    <2> QED BY <2>1, <2>2
<1>4. Error(p) = [p EXCEPT !.ok = f] /\ Error(r) = [r EXCEPT !.ok = f]
    BY <1>1 DEF Error
<1> QED BY <1>2, <1>3, <1>4 DEF Alike

LEMMA SeenAlike ==
    ASSUME NEW p, NEW r, Twins(p, r), NEW x
    PROVE  Alike([p EXCEPT !.seen = x], [r EXCEPT !.seen = x], p, r)
<1>1. [p EXCEPT !.seen = x] = Control(p, p.state, x, p.length, p.nread, p.ok)
    BY ControlIs DEF Twins
<1>2. [r EXCEPT !.seen = x] = Control(r, p.state, x, p.length, p.nread, p.ok)
    <2>1. [r EXCEPT !.seen = x] = Control(r, r.state, x, r.length, r.nread, r.ok)
        BY ControlIs DEF Twins
    <2>2. /\ p.state = r.state /\ p.seen = r.seen /\ p.length = r.length /\ p.nread = r.nread
          /\ p.ok = r.ok
        BY DEF Twins
    <2> QED BY <2>1, <2>2
<1> QED BY <1>1, <1>2 DEF Alike

LEMMA LengthAlike ==
    ASSUME NEW p, NEW r, Twins(p, r), NEW x
    PROVE  Alike([p EXCEPT !.length = x], [r EXCEPT !.length = x], p, r)
<1>1. [p EXCEPT !.length = x] = Control(p, p.state, p.seen, x, p.nread, p.ok)
    BY ControlIs DEF Twins
<1>2. [r EXCEPT !.length = x] = Control(r, p.state, p.seen, x, p.nread, p.ok)
    <2>1. [r EXCEPT !.length = x] = Control(r, r.state, r.seen, x, r.nread, r.ok)
        BY ControlIs DEF Twins
    <2>2. /\ p.state = r.state /\ p.seen = r.seen /\ p.length = r.length /\ p.nread = r.nread
          /\ p.ok = r.ok
        BY DEF Twins
    <2> QED BY <2>1, <2>2
<1> QED BY <1>1, <1>2 DEF Alike

\* One step of the states in the middle of a text.
LEMMA PathAlike ==
    ASSUME NEW p, NEW r, Twins(p, r), Call(p, "url") = Call(r, "url"), NEW ch
    PROVE  Alike(ReqPath(p, ch), ReqPath(r, ch), p, r)
<1>1. CASE ch = "SP"
    BY <1>1 DEF ReqPath, Alike
<1>2. CASE ch \in {"CR", "LF"}
    <2>1. ReqPath(p, ch) = Error(p) /\ ReqPath(r, ch) = Error(r)
        BY <1>2 DEF ReqPath
    <2> QED BY <2>1, ErrorAlike
<1>3. CASE ch \notin {"SP", "CR", "LF"}
    <2>1. ReqPath(p, ch) = p /\ ReqPath(r, ch) = r
        BY <1>3 DEF ReqPath
    <2> QED BY <2>1, StayAlike
<1> QED BY <1>1, <1>2, <1>3

LEMMA FieldAlike ==
    ASSUME NEW p, NEW r, Twins(p, r), Call(p, "field") = Call(r, "field"), NEW ch
    PROVE  Alike(Field(p, ch), Field(r, ch), p, r)
<1>1. CASE Token(ch)
    <2>1. PICK x : x = Matching(p.seen, ch, Names)
        OBVIOUS
    <2>2. p.seen = r.seen
        BY DEF Twins
    <2>3. Field(p, ch) = [p EXCEPT !.seen = x]
        BY <1>1, <2>1 DEF Field, Token
    <2>4. Field(r, ch) = [r EXCEPT !.seen = x]
        BY <1>1, <2>1, <2>2 DEF Field, Token
    <2> QED BY <2>3, <2>4, SeenAlike
<1>2. CASE ~ Token(ch) /\ ch \in {":", "CR", "LF"}
    <2>1. Field(p, ch) = Field(r, ch)
        BY <1>2 DEF Field
    <2> QED BY <2>1 DEF Alike
<1>3. CASE ~ Token(ch) /\ ch \notin {":", "CR", "LF"}
    <2>1. Field(p, ch) = Error(p) /\ Field(r, ch) = Error(r)
        BY <1>3 DEF Field
    <2> QED BY <2>1, ErrorAlike
<1> QED BY <1>1, <1>2, <1>3

LEMMA ValueAlike ==
    ASSUME NEW p, NEW r, Twins(p, r), Call(p, "value") = Call(r, "value"), NEW ch
    PROVE  Alike(Value(p, ch), Value(r, ch), p, r)
<1>0. p.seen = r.seen /\ p.length = r.length
    BY DEF Twins
<1>1. CASE ch \in {"CR", "LF"}
    <2>1. Value(p, ch) = Value(r, ch)
        BY <1>1 DEF Value
    <2> QED BY <2>1 DEF Alike
<1>2. CASE ch = "SP" /\ p.seen \in Sought \cup {ContentLength}
    <2>1. Value(p, ch) = p /\ Value(r, ch) = r
        BY <1>0, <1>2 DEF Value
    <2> QED BY <2>1, StayAlike
<1>3. CASE p.seen = ContentLength /\ ch \notin {"CR", "LF", "SP"} /\ ch \in DOMAIN Digit
    <2>1. PICK l : l = 10 * p.length + Digit[ch]
        OBVIOUS
    <2>2. Value(p, ch) = [p EXCEPT !.length = l]
        BY <1>3, <2>1 DEF Value
    <2>3. Value(r, ch) = [r EXCEPT !.length = l]
        BY <1>0, <1>3, <2>1 DEF Value
    <2> QED BY <2>2, <2>3, LengthAlike
<1>4. CASE p.seen = ContentLength /\ ch \notin {"CR", "LF", "SP"} /\ ch \notin DOMAIN Digit
    <2>1. Value(p, ch) = Error(p) /\ Value(r, ch) = Error(r)
        BY <1>0, <1>4 DEF Value
    <2> QED BY <2>1, ErrorAlike
<1>5. CASE /\ ch \notin {"CR", "LF"} /\ ~ (ch = "SP" /\ p.seen \in Sought \cup {ContentLength})
           /\ p.seen # ContentLength
    <2>1. PICK x : x = Matching(p.seen, ch, Sought)
        OBVIOUS
    <2>2. Value(p, ch) = [p EXCEPT !.seen = x]
        BY <1>5, <2>1 DEF Value
    <2>3. Value(r, ch) = [r EXCEPT !.seen = x]
        BY <1>0, <1>5, <2>1 DEF Value
    <2> QED BY <2>2, <2>3, SeenAlike
<1> QED BY <1>1, <1>2, <1>3, <1>4, <1>5

LEMMA AlikeWithin ==
    ASSUME NEW c, Whole(c), c.marks = Unmarked, NEW k \in Kinds, NEW m \in Strings,
           NEW ch \in STRING, NEW t, NEW u,
           Alike(t, u, Marked(c, k, m), Marked(Callback(c, k, m), k, <<>>))
    PROVE  Flushed(Covered(t, ch)) = Flushed(Covered(u, ch))
<1>1. CASE t = u
    BY <1>1
<1>2. CASE t # u
    <2>1. PICK st, se, le, nr, ok :
            /\ t = Control(Marked(c, k, m), st, se, le, nr, ok)
            /\ u = Control(Marked(Callback(c, k, m), k, <<>>), st, se, le, nr, ok)
        BY <1>2 DEF Alike
    <2> QED BY <2>1, SymbolWithin
<1> QED BY <1>1, <1>2

\* What the next symbol finds of a text, reported or not.
LEMMA MarkedTwins ==
    ASSUME NEW c, Whole(c), c.marks = Unmarked, NEW k \in Kinds, NEW m \in Strings,
           NEW q, q = Callback(c, k, m), NEW ch \in STRING
    PROVE  /\ Twins(Marked(c, k, m), Marked(q, k, <<>>))
           /\ Call(Marked(c, k, m), k) = q /\ Call(Marked(q, k, <<>>), k) = q
<1>1. Whole(q) /\ q.marks = Unmarked
    BY CallbackWhole, FlushedMarked DEF Same
<1>2. SameControl(q, c)
    BY CallbackControl
<1>3. <<>> \in Strings
    BY StringsFacts
<1>4. PICK p, r : p = Marked(c, k, m) /\ r = Marked(q, k, <<>>)
    OBVIOUS
<1>5. /\ Whole(p) /\ p.state = c.state /\ p.seen = c.seen /\ p.length = c.length
      /\ p.nread = c.nread /\ p.ok = c.ok
    BY <1>4, MarkedFields
<1>6. /\ Whole(r) /\ r.state = q.state /\ r.seen = q.seen /\ r.length = q.length
      /\ r.nread = q.nread /\ r.ok = q.ok
    BY <1>1, <1>3, <1>4, MarkedFields
<1>7. Twins(p, r)
    BY <1>2, <1>5, <1>6 DEF Twins, SameControl
<1>8. Call(p, k) = q
    BY <1>4, CallMarked
<1>9. Call(r, k) = Callback(q, k, <<>>)
    BY <1>1, <1>3, <1>4, CallMarked
<1>10. Callback(q, k, <<>>) = q
    BY Pieces
<1> QED BY <1>4, <1>7, <1>8, <1>9, <1>10

LEMMA ConsumedIs ==
    ASSUME NEW s, NEW ch, NEW n, n = IF s.state \in BodyStates THEN s.nread ELSE s.nread + 1,
           NEW r, r = [s EXCEPT !.nread = n]
    PROVE  Consumed(s, ch) =
             Covered(IF r.nread > MaxHeader /\ r.state \notin BodyStates THEN Error(r) ELSE Step(r, ch), ch)
BY DEF Consumed, Covered

LEMMA CutLoud ==
    ASSUME NEW c, Whole(c), c.marks = Unmarked, NEW k \in Kinds, NEW m \in Strings,
           NEW ch \in STRING,
           \/ c.state = "req_path" /\ k = "url"
           \/ c.state = "header_field" /\ k = "field"
           \/ c.state = "header_value" /\ k = "value"
    PROVE  Flushed(Consumed(Marked(c, k, m), ch)) =
           Flushed(Consumed(Marked(Callback(c, k, m), k, <<>>), ch))
<1>1. PICK q, p, r : q = Callback(c, k, m) /\ p = Marked(c, k, m) /\ r = Marked(q, k, <<>>)
    OBVIOUS
<1>2. Twins(p, r) /\ p.state = c.state
    <2>1. Twins(Marked(c, k, m), Marked(Callback(c, k, m), k, <<>>))
        BY MarkedTwins
    <2>2. Marked(c, k, m).state = c.state
        BY MarkedFields
    <2> QED BY <1>1, <2>1, <2>2
<1>3. p.state \notin BodyStates
    BY <1>2 DEF BodyStates
<1>4. PICK n : n = p.nread + 1
    OBVIOUS
<1>5. PICK d, e, a, b : /\ d = [c EXCEPT !.nread = n] /\ e = Callback(d, k, m)
                        /\ a = [p EXCEPT !.nread = n] /\ b = [r EXCEPT !.nread = n]
    OBVIOUS
<1>6. /\ d = Control(c, c.state, c.seen, c.length, n, c.ok)
      /\ a = Control(p, p.state, p.seen, p.length, n, p.ok)
      /\ b = Control(r, r.state, r.seen, r.length, n, r.ok)
    BY <1>2, <1>5, ControlIs DEF Twins
<1>7. Whole(d) /\ d.marks = Unmarked /\ d.state = c.state
    BY <1>6, ControlFields
<1>8. /\ p.state = c.state /\ p.seen = c.seen /\ p.length = c.length /\ p.ok = c.ok
      /\ r.state = c.state /\ r.seen = c.seen /\ r.length = c.length /\ r.ok = c.ok
    <2>1. p.state = c.state /\ p.seen = c.seen /\ p.length = c.length /\ p.ok = c.ok
        BY <1>1, MarkedFields
    <2> QED BY <1>2, <2>1 DEF Twins
<1>9. a = Marked(d, k, m)
    BY <1>1, <1>6, <1>8, ControlMarked
<1>10. b = Marked(e, k, <<>>)
    <2>1. Whole(q) /\ <<>> \in Strings
        BY <1>1, CallbackWhole, StringsFacts DEF Same
    <2>2. b = Marked(Control(q, c.state, c.seen, c.length, n, c.ok), k, <<>>)
        BY <1>1, <1>6, <1>8, <2>1, ControlMarked
    <2>3. Control(q, c.state, c.seen, c.length, n, c.ok) = e
        BY <1>1, <1>5, <1>6, CallbackCommutes
    <2> QED BY <2>2, <2>3
<1>11. Twins(a, b) /\ Call(a, k) = Call(b, k) /\ a.state = c.state /\ b.state = c.state
       /\ a.nread = n /\ b.nread = n
    <2>0. e = Callback(d, k, m)
        BY <1>5
    <2>3. /\ Twins(Marked(d, k, m), Marked(e, k, <<>>))
          /\ Call(Marked(d, k, m), k) = e /\ Call(Marked(e, k, <<>>), k) = e
        BY <1>7, <2>0, MarkedTwins
    <2>1. Twins(a, b) /\ Call(a, k) = Call(b, k)
        BY <1>9, <1>10, <2>3
    <2>2. a.state = c.state /\ a.nread = n
        BY <1>2, <1>6, <1>8, ControlFields DEF Twins
    <2> QED BY <2>1, <2>2 DEF Twins
<1>12. Alike(Step(a, ch), Step(b, ch), a, b)
    <2>1. CASE c.state = "req_path" /\ k = "url"
        <3>1. Step(a, ch) = ReqPath(a, ch) /\ Step(b, ch) = ReqPath(b, ch)
            BY <1>11, <2>1 DEF Step
        <3> QED BY <1>11, <2>1, <3>1, PathAlike
    <2>2. CASE c.state = "header_field" /\ k = "field"
        <3>1. Step(a, ch) = Field(a, ch) /\ Step(b, ch) = Field(b, ch)
            BY <1>11, <2>2 DEF Step
        <3> QED BY <1>11, <2>2, <3>1, FieldAlike
    <2>3. CASE c.state = "header_value" /\ k = "value"
        <3>1. Step(a, ch) = Value(a, ch) /\ Step(b, ch) = Value(b, ch)
            BY <1>11, <2>3 DEF Step
        <3> QED BY <1>11, <2>3, <3>1, ValueAlike
    <2> QED BY <2>1, <2>2, <2>3
<1>13. PICK t, u : /\ t = IF n > MaxHeader THEN Error(a) ELSE Step(a, ch)
                   /\ u = IF n > MaxHeader THEN Error(b) ELSE Step(b, ch)
    OBVIOUS
<1>14. Alike(t, u, a, b)
    BY <1>11, <1>12, <1>13, ErrorAlike
<1>15. Flushed(Covered(t, ch)) = Flushed(Covered(u, ch))
    <2>1. e = Callback(d, k, m)
        BY <1>5
    <2>2. Alike(t, u, Marked(d, k, m), Marked(Callback(d, k, m), k, <<>>))
        BY <1>9, <1>10, <1>14, <2>1
    <2> QED BY <1>7, <2>2, AlikeWithin
<1>16. Consumed(p, ch) = Covered(t, ch)
    <2>1. Consumed(p, ch) = Covered(IF a.nread > MaxHeader /\ a.state \notin BodyStates
                                    THEN Error(a) ELSE Step(a, ch), ch)
        BY <1>3, <1>4, <1>5, ConsumedIs
    <2> QED BY <1>2, <1>3, <1>11, <1>13, <2>1
<1>17. Consumed(r, ch) = Covered(u, ch)
    <2>1. r.state \notin BodyStates /\ r.nread + 1 = n
        BY <1>2, <1>3, <1>4 DEF Twins
    <2>2. Consumed(r, ch) = Covered(IF b.nread > MaxHeader /\ b.state \notin BodyStates
                                    THEN Error(b) ELSE Step(b, ch), ch)
        BY <1>5, <2>1, ConsumedIs
    <2> QED BY <1>2, <1>3, <1>11, <1>13, <2>2
<1> QED BY <1>1, <1>15, <1>16, <1>17

LEMMA MarkAgain ==
    ASSUME NEW s, Whole(s), NEW k \in Kinds, s.marks[k] # Null
    PROVE  Mark(s, k) = s
<1>1. PICK m : m = [s.marks EXCEPT ![k] = s.marks[k]]
    OBVIOUS
<1>2. m = s.marks
    BY <1>1 DEF Whole, IsParser
<1>3. Mark(s, k) = [s EXCEPT !.marks = m]
    BY <1>1 DEF Mark
<1>4. [s EXCEPT !.marks = m] = s
    BY <1>2 DEF Whole, IsParser
<1> QED BY <1>3, <1>4

LEMMA MarkFirst ==
    ASSUME NEW s, Whole(s), s.marks = Unmarked, NEW k \in Kinds
    PROVE  Mark(s, k) = Marked(s, k, <<>>)
<1>1. PICK m : m = [s.marks EXCEPT ![k] = <<>>]
    OBVIOUS
<1>2. PICK n : n = [j \in Kinds |-> IF j = k THEN <<>> ELSE Null]
    OBVIOUS
<1>3. m = n
    BY <1>1, <1>2 DEF Unmarked
<1>4. s.marks[k] = Null
    BY DEF Unmarked
<1>5. Mark(s, k) = [s EXCEPT !.marks = m]
    BY <1>1, <1>4 DEF Mark
<1>6. Marked(s, k, <<>>) = [s EXCEPT !.marks = n]
    BY <1>2 DEF Marked
<1> QED BY <1>3, <1>5, <1>6

\* The last symbol of a body is reported with the mark, wherever that began.
LEMMA BodyReported ==
    ASSUME NEW d, Whole(d), d.marks = Unmarked, NEW m \in Strings, NEW ch \in STRING,
           NEW t, t = Marked(d, "body", m)
    PROVE  Call([t EXCEPT !.marks.body = Append(@, ch)], "body") = Flushed(Covered(t, ch))
<1>0. "body" \in Kinds
    BY DEF Kinds
<1>1. PICK n : n = Append(m, ch)
    OBVIOUS
<1>2. n \in Strings
    BY <1>1, StringsFacts
<1>3. Covered(t, ch) = Marked(d, "body", n)
    BY <1>0, <1>1, CoveredMarked
<1>4. Flushed(Covered(t, ch)) = Callback(d, "body", n)
    BY <1>0, <1>2, <1>3, FlushedMarked
<1>5. PICK a, b : /\ a = [j \in Kinds |-> IF j = "body" THEN m ELSE Null]
                  /\ b = [j \in Kinds |-> IF j = "body" THEN n ELSE Null]
    OBVIOUS
<1>6. t = [d EXCEPT !.marks = a] /\ Marked(d, "body", n) = [d EXCEPT !.marks = b]
    BY <1>5 DEF Marked
<1>7. [a EXCEPT !.body = Append(@, ch)] = b
    BY <1>0, <1>1, <1>5
<1>8. t.marks = a
    BY <1>6 DEF Whole, IsParser
<1>9. [t EXCEPT !.marks.body = Append(@, ch)] = [t EXCEPT !.marks = b]
    BY <1>7, <1>8
<1>10. [t EXCEPT !.marks = b] = [d EXCEPT !.marks = b]
    BY <1>6 DEF Whole, IsParser
<1>11. Call(Marked(d, "body", n), "body") = Callback(d, "body", n)
    BY <1>0, <1>2, CallMarked
<1> QED BY <1>4, <1>6, <1>9, <1>10, <1>11

LEMMA CutBody ==
    ASSUME NEW c, Whole(c), c.marks = Unmarked, NEW m \in Strings, NEW ch \in STRING,
           c.state \in {"body_identity", "chunk_data", "chunk_data_almost_done"}
    PROVE  Flushed(Consumed(Marked(c, "body", m), ch)) =
           Flushed(Consumed(Callback(c, "body", m), ch))
<1>0. "body" \in Kinds
    BY DEF Kinds
<1>1. PICK q, p, r : q = Callback(c, "body", m) /\ p = Marked(c, "body", m)
                     /\ r = Marked(q, "body", <<>>)
    OBVIOUS
<1>2. Whole(q) /\ q.marks = Unmarked
    BY <1>0, <1>1, CallbackWhole, FlushedMarked DEF Same
<1>3. SameControl(q, c)
    BY <1>0, <1>1, CallbackControl
<1>4. Twins(p, r) /\ Call(p, "body") = q
    <2>1. /\ Twins(Marked(c, "body", m), Marked(Callback(c, "body", m), "body", <<>>))
          /\ Call(Marked(c, "body", m), "body") = Callback(c, "body", m)
        BY <1>0, MarkedTwins
    <2> QED BY <1>1, <2>1
<1>5. p.state = c.state /\ p.seen = c.seen /\ p.length = c.length /\ p.nread = c.nread
      /\ p.ok = c.ok /\ p.marks["body"] = m
    BY <1>0, <1>1, MarkedFields
<1>6. p.state \in BodyStates /\ q.state \in BodyStates
    BY <1>3, <1>5 DEF BodyStates, SameControl
<1>7. Consumed(p, ch) = Covered(Step(p, ch), ch)
    <2>1. p = [p EXCEPT !.nread = p.nread]
        BY <1>4 DEF Twins, Whole, IsParser
    <2> QED BY <1>6, <2>1, ConsumedIs
<1>8. Consumed(q, ch) = Covered(Step(q, ch), ch)
    <2>1. q = [q EXCEPT !.nread = q.nread]
        BY <1>2 DEF Whole, IsParser
    <2> QED BY <1>6, <2>1, ConsumedIs
<1>9. Mark(p, "body") = p /\ Mark(q, "body") = r
    <2>1. m # Null
        BY StringsFacts
    <2>2. Mark(p, "body") = p
        BY <1>0, <1>4, <1>5, <2>1, MarkAgain DEF Twins
    <2> QED BY <1>0, <1>1, <1>2, <2>2, MarkFirst
<1>10. PICK l : l = p.length - 1
    OBVIOUS
<1>11. PICK t, u : t = [p EXCEPT !.length = l] /\ u = [r EXCEPT !.length = l]
    OBVIOUS
<1>12. r.length = p.length /\ t.length = l /\ u.length = l
    BY <1>4, <1>11 DEF Twins, Whole, IsParser
<1>13. Alike(t, u, p, r)
    BY <1>4, <1>11, LengthAlike
<1>14. Flushed(Covered(t, ch)) = Flushed(Covered(u, ch))
    BY <1>0, <1>1, <1>13, AlikeWithin
<1>15. CASE c.state = "chunk_data_almost_done"
    <2>1. /\ Step(p, ch) = Expect(Call(p, "body"), ch, "CR", "chunk_data_done")
          /\ Step(q, ch) = Expect(Call(q, "body"), ch, "CR", "chunk_data_done")
        BY <1>3, <1>5, <1>15 DEF Step, SameControl
    <2>2. Call(q, "body") = q
        BY <1>0, <1>2, CallNothing DEF Unmarked
    <2> QED BY <1>1, <1>4, <1>7, <1>8, <2>1, <2>2
<1>16. CASE c.state = "chunk_data"
    <2>1. Step(p, ch) = ChunkData(p, ch) /\ Step(q, ch) = ChunkData(q, ch)
        BY <1>3, <1>5, <1>16 DEF Step, SameControl
    <2>2. ChunkData(p, ch) = IF l = 0 THEN To(t, "chunk_data_almost_done") ELSE t
        BY <1>9, <1>10, <1>11, <1>12 DEF ChunkData
    <2>3. ChunkData(q, ch) = IF l = 0 THEN To(u, "chunk_data_almost_done") ELSE u
        BY <1>9, <1>10, <1>11, <1>12 DEF ChunkData
    <2>4. Alike(To(t, "chunk_data_almost_done"), To(u, "chunk_data_almost_done"), p, r)
        <3>1. To(t, "chunk_data_almost_done") =
                Control(p, "chunk_data_almost_done", p.seen, l, p.nread, p.ok)
            BY <1>4, <1>11 DEF Control, To, Twins, Whole, IsParser
        <3>2. To(u, "chunk_data_almost_done") =
                Control(r, "chunk_data_almost_done", r.seen, l, r.nread, r.ok)
            BY <1>4, <1>11 DEF Control, To, Twins, Whole, IsParser
        <3>3. r.seen = p.seen /\ r.nread = p.nread /\ r.ok = p.ok
            BY <1>4 DEF Twins
        <3>4. To(u, "chunk_data_almost_done") =
                Control(r, "chunk_data_almost_done", p.seen, l, p.nread, p.ok)
            BY <3>2, <3>3
        <3> QED BY <3>1, <3>4 DEF Alike
    <2>5. Flushed(Covered(To(t, "chunk_data_almost_done"), ch)) =
          Flushed(Covered(To(u, "chunk_data_almost_done"), ch))
        BY <1>0, <1>1, <2>4, AlikeWithin
    <2> QED BY <1>1, <1>7, <1>8, <1>14, <2>1, <2>2, <2>3, <2>5
<1>17. CASE c.state = "body_identity"
    <2>1. Step(p, ch) = BodyIdentity(p, ch) /\ Step(q, ch) = BodyIdentity(q, ch)
        BY <1>3, <1>5, <1>17 DEF Step, SameControl
    <2>2. BodyIdentity(p, ch) = IF l > 0 THEN t
             ELSE Complete(Call([t EXCEPT !.marks.body = Append(@, ch)], "body"))
        <3>1. PICK v : v = [Mark(p, "body") EXCEPT !.length = @ - 1]
            OBVIOUS
        <3>2. v = t
            BY <1>9, <1>10, <1>11, <1>12, <3>1
        <3>3. BodyIdentity(p, ch) = IF v.length > 0 THEN v
                 ELSE Complete(Call([v EXCEPT !.marks.body = Append(@, ch)], "body"))
            BY <3>1 DEF BodyIdentity
        <3> QED BY <1>12, <3>2, <3>3
    <2>3. BodyIdentity(q, ch) = IF l > 0 THEN u
             ELSE Complete(Call([u EXCEPT !.marks.body = Append(@, ch)], "body"))
        <3>1. PICK v : v = [Mark(q, "body") EXCEPT !.length = @ - 1]
            OBVIOUS
        <3>2. v = u
            BY <1>9, <1>10, <1>11, <1>12, <3>1
        <3>3. BodyIdentity(q, ch) = IF v.length > 0 THEN v
                 ELSE Complete(Call([v EXCEPT !.marks.body = Append(@, ch)], "body"))
            BY <3>1 DEF BodyIdentity
        <3> QED BY <1>12, <3>2, <3>3
    <2>4. Call([t EXCEPT !.marks.body = Append(@, ch)], "body") = Flushed(Covered(t, ch))
        <3>1. PICK d : d = Control(c, c.state, c.seen, l, c.nread, c.ok)
            OBVIOUS
        <3>2. Whole(d) /\ d.marks = Unmarked
            BY <3>1, ControlFields
        <3>3. t = Control(p, p.state, p.seen, l, p.nread, p.ok)
            BY <1>4, <1>11, ControlIs DEF Twins
        <3>4. t = Marked(d, "body", m)
            BY <1>0, <1>1, <1>5, <3>1, <3>3, ControlMarked
        <3> QED BY <3>2, <3>4, BodyReported
    <2>5. Call([u EXCEPT !.marks.body = Append(@, ch)], "body") = Flushed(Covered(u, ch))
        <3>1. PICK d : d = Control(q, q.state, q.seen, l, q.nread, q.ok)
            OBVIOUS
        <3>2. Whole(d) /\ d.marks = Unmarked
            BY <1>2, <3>1, ControlFields
        <3>3. u = Control(r, r.state, r.seen, l, r.nread, r.ok)
            BY <1>4, <1>11, ControlIs DEF Twins
        <3>4. <<>> \in Strings
            BY StringsFacts
        <3>5. r.state = q.state /\ r.seen = q.seen /\ r.nread = q.nread /\ r.ok = q.ok
            BY <1>0, <1>1, <1>2, <3>4, MarkedFields
        <3>6. u = Marked(d, "body", <<>>)
            BY <1>0, <1>1, <1>2, <3>1, <3>3, <3>4, <3>5, ControlMarked
        <3> QED BY <3>2, <3>4, <3>6, BodyReported
    <2> QED BY <1>1, <1>7, <1>8, <1>14, <2>1, <2>2, <2>3, <2>4, <2>5
<1> QED BY <1>15, <1>16, <1>17

LEMMA ResumedLoud ==
    ASSUME NEW c, NEW k \in Kinds,
           \/ c.state = "req_path" /\ k = "url"
           \/ c.state = "header_field" /\ k = "field"
           \/ c.state = "header_value" /\ k = "value"
    PROVE  Resumed(c) = Marked(c, k, <<>>)
<1>1. PICK goesOn : goesOn = CASE c.state = "header_field" -> {"field"}
                               [] c.state = "header_value" -> {"value"}
                               [] c.state = "req_path" -> {"url"}
                               [] OTHER -> {}
    OBVIOUS
<1>2. goesOn = {k}
    BY <1>1
<1>3. [j \in Kinds |-> IF j \in goesOn THEN <<>> ELSE Null] = [j \in Kinds |-> IF j = k THEN <<>> ELSE Null]
    BY <1>2
<1>4. Resumed(c) = [c EXCEPT !.marks = [j \in Kinds |-> IF j \in goesOn THEN <<>> ELSE Null]]
    BY <1>1 DEF Resumed
<1> QED BY <1>3, <1>4 DEF Marked

LEMMA ResumedQuiet ==
    ASSUME NEW c, Whole(c), NoMarks(c), c.state \notin Loud
    PROVE  Resumed(c) = c
<1>1. PICK goesOn : goesOn = CASE c.state = "header_field" -> {"field"}
                               [] c.state = "header_value" -> {"value"}
                               [] c.state = "req_path" -> {"url"}
                               [] OTHER -> {}
    OBVIOUS
<1>2. goesOn = {}
    BY <1>1 DEF Loud
<1>3. PICK n : n = [j \in Kinds |-> IF j \in goesOn THEN <<>> ELSE Null]
    OBVIOUS
<1>4. n = c.marks
    BY <1>2, <1>3 DEF NoMarks, Whole, IsParser
<1>5. Resumed(c) = [c EXCEPT !.marks = n]
    BY <1>1, <1>3 DEF Resumed
<1>6. [c EXCEPT !.marks = n] = c
    BY <1>4 DEF Whole, IsParser
<1> QED BY <1>5, <1>6

\* The kinds of mark a parser may have, and in which states.
LEMMA OneMark ==
    ASSUME NEW s, Whole(s), MarksFit(s), GoesOn(s)
    PROVE  \/ NoMarks(s) /\ s.state \notin Loud
           \/ \E k \in Kinds, m \in Strings : \E c :
                /\ Whole(c) /\ c.marks = Unmarked /\ c.state = s.state /\ s = Marked(c, k, m)
                /\ \/ c.state = "req_path" /\ k = "url"
                   \/ c.state = "header_field" /\ k = "field"
                   \/ c.state = "header_value" /\ k = "value"
                   \/ /\ c.state \in {"body_identity", "chunk_data", "chunk_data_almost_done"}
                      /\ k = "body"
<1>1. CASE NoMarks(s)
    BY <1>1 DEF NoMarks, GoesOn, Loud, Kinds
<1>2. CASE ~ NoMarks(s)
    <2>1. PICK k \in Kinds : s.marks[k] # Null
        BY <1>2 DEF NoMarks
    <2>2. \A j \in Kinds : j # k => s.marks[j] = Null
        BY <2>1 DEF MarksFit, Kinds
    <2>3. \/ s.state = "req_path" /\ k = "url"
          \/ s.state = "header_field" /\ k = "field"
          \/ s.state = "header_value" /\ k = "value"
          \/ s.state \in {"body_identity", "chunk_data", "chunk_data_almost_done"} /\ k = "body"
        BY <2>1 DEF MarksFit, Kinds
    <2>4. s.marks[k] \in Strings
        BY <2>1, <2>2, MarkedAgain
    <2>5. PICK c : /\ Whole(c) /\ c.marks = Unmarked /\ c.state = s.state
                   /\ s = Marked(c, k, s.marks[k])
        BY <2>1, <2>2, MarkedAgain
    <2>6. PICK m \in Strings : s = Marked(c, k, m)
        BY <2>4, <2>5
    <2>7. \/ c.state = "req_path" /\ k = "url"
          \/ c.state = "header_field" /\ k = "field"
          \/ c.state = "header_value" /\ k = "value"
          \/ c.state \in {"body_identity", "chunk_data", "chunk_data_almost_done"} /\ k = "body"
        BY <2>3, <2>5
    <2> QED BY <2>5, <2>6, <2>7
<1> QED BY <1>1, <1>2

\* A cut changes nothing that has been or will be reported.
LEMMA CutFacts ==
    ASSUME NEW s, Whole(s), MarksFit(s), GoesOn(s), NEW ch \in STRING
    PROVE  /\ Flushed(Resumed(Flushed(s))) = Flushed(s)
           /\ Flushed(Consumed(s, ch)) = Flushed(Consumed(Resumed(Flushed(s)), ch))
<1>1. CASE NoMarks(s) /\ s.state \notin Loud
    <2>1. Flushed(s) = s
        BY <1>1, FlushedNothing
    <2>2. Resumed(s) = s
        BY <1>1, ResumedQuiet
    <2> QED BY <2>1, <2>2
<1>2. CASE ~ (NoMarks(s) /\ s.state \notin Loud)
    <2>1. PICK k \in Kinds, m \in Strings : \E c :
            /\ Whole(c) /\ c.marks = Unmarked /\ c.state = s.state /\ s = Marked(c, k, m)
            /\ \/ c.state = "req_path" /\ k = "url"
               \/ c.state = "header_field" /\ k = "field"
               \/ c.state = "header_value" /\ k = "value"
               \/ c.state \in {"body_identity", "chunk_data", "chunk_data_almost_done"} /\ k = "body"
        BY <1>2, OneMark
    <2>2. PICK c :
            /\ Whole(c) /\ c.marks = Unmarked /\ c.state = s.state /\ s = Marked(c, k, m)
            /\ \/ c.state = "req_path" /\ k = "url"
               \/ c.state = "header_field" /\ k = "field"
               \/ c.state = "header_value" /\ k = "value"
               \/ c.state \in {"body_identity", "chunk_data", "chunk_data_almost_done"} /\ k = "body"
        BY <2>1
    <2>3. PICK q : q = Callback(c, k, m)
        OBVIOUS
    <2>4. Flushed(s) = q /\ q.marks = Unmarked
        BY <2>2, <2>3, FlushedMarked
    <2>5. Whole(q) /\ q.state = c.state
        BY <2>2, <2>3, CallbackWhole DEF Same
    <2>6. CASE k = "body" /\ c.state \in {"body_identity", "chunk_data", "chunk_data_almost_done"}
        <3>1. NoMarks(q) /\ q.state \notin Loud
            BY <2>4, <2>5, <2>6 DEF NoMarks, Unmarked, Loud
        <3>2. Resumed(q) = q /\ Flushed(q) = q
            BY <2>5, <3>1, ResumedQuiet, FlushedNothing
        <3>3. Flushed(Consumed(s, ch)) = Flushed(Consumed(q, ch))
            <4>1. Flushed(Consumed(Marked(c, "body", m), ch)) =
                                     Flushed(Consumed(Callback(c, "body", m), ch))
                BY <2>2, <2>6, CutBody
            <4> QED BY <2>2, <2>3, <2>6, <4>1
        <3> QED BY <2>4, <3>2, <3>3
    <2>7. CASE \/ c.state = "req_path" /\ k = "url"
               \/ c.state = "header_field" /\ k = "field"
               \/ c.state = "header_value" /\ k = "value"
        <3>1. Resumed(q) = Marked(q, k, <<>>)
            BY <2>5, <2>7, ResumedLoud
        <3>2. Flushed(Marked(q, k, <<>>)) = q
            <4>1. <<>> \in Strings
                BY StringsFacts
            <4>2. Flushed(Marked(q, k, <<>>)) = Callback(q, k, <<>>)
                BY <2>4, <2>5, <4>1, FlushedMarked
            <4>3. Callback(Callback(c, k, m), k, <<>>) = Callback(c, k, m)
                BY <2>2, Pieces
            <4> QED BY <2>3, <4>2, <4>3
        <3>3. Flushed(Consumed(Marked(c, k, m), ch)) =
                                 Flushed(Consumed(Marked(Callback(c, k, m), k, <<>>), ch))
            BY <2>2, <2>7, CutLoud
        <3>4. Flushed(Consumed(s, ch)) = Flushed(Consumed(Marked(q, k, <<>>), ch))
            BY <2>2, <2>3, <3>3
        <3> QED BY <2>4, <3>1, <3>2, <3>4
    <2> QED BY <2>2, <2>6, <2>7
<1> QED BY <1>1, <1>2

-----------------------------------------------------------------------------
(* Whatever the cut *)

\* The inductive invariant: that of the assertions, and whole texts.
TextInv == Inv /\ Kept(parser) /\ todo \in Seq(STRING)

LEMMA TextInvInit == Init => TextInv
<1> SUFFICES ASSUME Init PROVE TextInv
    OBVIOUS
<1>1. Inv
    BY InvInit
<1>2. todo \in Seq(STRING)
    BY TextAssumption DEF Init
<1>3. PICK ok0, up0, e, n : ok0 = TRUE /\ up0 = FALSE /\ e = <<>> /\ n = [k \in Kinds |-> Null]
    OBVIOUS
<1>4. parser =
        [state |-> "start_req", seen |-> General, flags |-> {}, length |-> Null, nread |-> 0,
         version |-> "HTTP/1.1", upgrade |-> up0, marks |-> n, ok |-> ok0,
         building |-> 0, field |-> e, value |-> e, req |-> NoRequest, handled |-> e]
    BY <1>3 DEF Init
<1>5. /\ parser.state = "start_req" /\ parser.field = e /\ parser.value = e
      /\ parser.req = NoRequest /\ parser.marks = n
    BY <1>4
<1>6. e \in Strings
    BY <1>3, StringsFacts
<1>7. /\ NoRequest = [url |-> NoRequest.url, headers |-> NoRequest.headers, body |-> NoRequest.body]
      /\ NoRequest.url = e /\ NoRequest.body = e
    BY <1>3 DEF NoRequest
<1>8. IsParser(parser)
    BY <1>1 DEF Inv, Good, Typed
<1>9. Whole(parser)
    BY <1>3, <1>5, <1>6, <1>7, <1>8 DEF Whole
<1>10. GoesOn(parser)
    BY <1>5 DEF GoesOn
<1> QED BY <1>1, <1>2, <1>9, <1>10 DEF TextInv, Kept

LEMMA CoveredKept ==
    ASSUME NEW t, Kept(t), NEW ch \in STRING
    PROVE  Kept(Covered(t, ch))
<1>1. PICK n : n = [k \in Kinds |-> IF t.marks[k] = Null THEN Null ELSE Append(t.marks[k], ch)]
    OBVIOUS
<1>2. \A k \in Kinds : /\ n[k] \in Strings \cup {Null}
                       /\ t.marks[k] # Null => n[k] # Null
    <2> SUFFICES ASSUME NEW k \in Kinds
                 PROVE  n[k] \in Strings \cup {Null} /\ (t.marks[k] # Null => n[k] # Null)
        OBVIOUS
    <2>1. CASE t.marks[k] = Null
        BY <1>1, <2>1
    <2>2. CASE t.marks[k] # Null
        <3>1. t.marks[k] \in Strings
            BY <2>2 DEF Kept, Whole
        <3>2. n[k] = Append(t.marks[k], ch)
            BY <1>1, <2>2
        <3>3. n[k] \in Strings /\ Null \notin Strings
            BY <3>1, <3>2, StringsFacts
        <3> QED BY <3>3
    <2> QED BY <2>1, <2>2
<1>3. n = [k \in Kinds |-> n[k]]
    BY <1>1
<1>4. PICK u : u = [t EXCEPT !.marks = n]
    OBVIOUS
<1>5. IsParser(u) /\ u.marks = n /\ u.state = t.state /\ u.field = t.field
      /\ u.value = t.value /\ u.req = t.req
    BY <1>3, <1>4 DEF Kept, Whole, IsParser
<1>6. Whole(u)
    BY <1>2, <1>5 DEF Kept, Whole
<1>7. GoesOn(u)
    BY <1>2, <1>5 DEF Kept, GoesOn, Kinds
<1> QED BY <1>1, <1>4, <1>6, <1>7 DEF Covered, Kept

LEMMA ConsumedKept ==
    ASSUME NEW s, NEW ch \in STRING, s.state \in States, Kept(s)
    PROVE  Kept(Consumed(s, ch))
<1>1. PICK n : n = IF s.state \in BodyStates THEN s.nread ELSE s.nread + 1
    OBVIOUS
<1>2. PICK r : r = [s EXCEPT !.nread = n]
    OBVIOUS
<1>3. Same(r, s)
    BY <1>2, ControlSame DEF Kept
<1>4. Kept(r) /\ r.state = s.state
    BY <1>3, SameKept DEF Same
<1>5. Kept(Error(r)) /\ Kept(Step(r, ch))
    BY <1>4, ErrorKept, StepKept
<1>6. PICK t : t = IF r.nread > MaxHeader /\ r.state \notin BodyStates THEN Error(r) ELSE Step(r, ch)
    OBVIOUS
<1>7. Kept(t)
    BY <1>5, <1>6
<1>8. Consumed(s, ch) = Covered(t, ch)
    BY <1>1, <1>2, <1>6, ConsumedIs
<1> QED BY <1>7, <1>8, CoveredKept

\* The next piece begins with a mark where a text goes on.
LEMMA ResumedKept ==
    ASSUME NEW s, Kept(s), MarksFit(s)
    PROVE  Kept(Resumed(Flushed(s)))
<1>1. PICK q : q = Flushed(s)
    OBVIOUS
<1>2. Whole(q) /\ q.state = s.state
    <2>1. PICK a, b, c : a = Call(s, "field") /\ b = Call(a, "value") /\ c = Call(b, "url")
        OBVIOUS
    <2>2. Whole(a) /\ a.state = s.state
        BY <2>1, CallWhole DEF Kept, Kinds
    <2>3. Whole(b) /\ b.state = s.state
        BY <2>1, <2>2, CallWhole DEF Kinds
    <2>4. Whole(c) /\ c.state = s.state
        BY <2>1, <2>3, CallWhole DEF Kinds
    <2>5. q = Call(c, "body")
        BY <1>1, <2>1 DEF Flushed
    <2> QED BY <2>4, <2>5, CallWhole DEF Kinds
<1>3. CASE q.state \in Loud
    <2>1. PICK k \in Kinds :
            \/ q.state = "req_path" /\ k = "url"
            \/ q.state = "header_field" /\ k = "field"
            \/ q.state = "header_value" /\ k = "value"
        BY <1>3 DEF Loud, Kinds
    <2>2. Resumed(q) = Marked(q, k, <<>>)
        BY <2>1, ResumedLoud
    <2>3. <<>> \in Strings /\ <<>> # Null
        BY StringsFacts
    <2>4. PICK r : r = Marked(q, k, <<>>)
        OBVIOUS
    <2>5. Whole(r) /\ r.marks[k] = <<>> /\ r.state = q.state
        BY <1>2, <2>3, <2>4, MarkedFields
    <2>6. GoesOn(r)
        BY <2>1, <2>3, <2>5 DEF GoesOn
    <2> QED BY <1>1, <2>2, <2>4, <2>5, <2>6 DEF Kept
<1>4. CASE q.state \notin Loud
    <2>1. PICK goesOn : goesOn = CASE q.state = "header_field" -> {"field"}
                                   [] q.state = "header_value" -> {"value"}
                                   [] q.state = "req_path" -> {"url"}
                                   [] OTHER -> {}
        OBVIOUS
    <2>2. PICK n : n = [j \in Kinds |-> IF j \in goesOn THEN <<>> ELSE Null]
        OBVIOUS
    <2>3. n = [j \in Kinds |-> n[j]] /\ \A j \in Kinds : n[j] = Null
        BY <1>4, <2>1, <2>2 DEF Loud
    <2>4. PICK r : r = [q EXCEPT !.marks = n]
        OBVIOUS
    <2>5. IsParser(r) /\ r.marks = n /\ r.state = q.state /\ r.field = q.field
          /\ r.value = q.value /\ r.req = q.req
        BY <1>2, <2>3, <2>4 DEF Whole, IsParser
    <2>6. Whole(r)
        BY <1>2, <2>3, <2>5 DEF Whole
    <2>7. GoesOn(r)
        BY <1>4, <2>5 DEF GoesOn, Loud
    <2>8. Resumed(q) = r
        BY <2>1, <2>2, <2>4 DEF Resumed
    <2> QED BY <1>1, <2>6, <2>7, <2>8 DEF Kept
<1> QED BY <1>3, <1>4

LEMMA TextInvNext == TextInv /\ [Next]_vars => TextInv'
<1> SUFFICES ASSUME TextInv, [Next]_vars PROVE TextInv'
    OBVIOUS
<1>1. Inv'
    BY ByteKeepsInv, PieceEndsKeepsInv, RestDroppedKeepsInv, StutterKeepsInv DEF TextInv, Next
<1>2. parser.state \in States /\ MarksFit(parser) /\ Kept(parser) /\ todo \in Seq(STRING)
    BY DEF TextInv, Inv, Good, Typed
<1>3. CASE Byte
    <2>1. PICK ch : ch = Head(todo)
        OBVIOUS
    <2>2. ch \in STRING /\ Tail(todo) \in Seq(STRING)
        BY <1>2, <1>3, <2>1, HeadTailProperties DEF Byte, Feeding
    <2>3. PICK p : p = Consumed(parser, ch)
        OBVIOUS
    <2>4. Kept(p)
        BY <1>2, <1>3, <2>2, <2>3, ConsumedKept DEF Byte, Feeding
    <2>5. parser' = p /\ todo' = Tail(todo)
        BY <1>3, <2>1, <2>3 DEF Byte
    <2>6. Kept(parser')
        BY <2>4, <2>5
    <2>7. todo' \in Seq(STRING)
        BY <2>2, <2>5
    <2> QED BY <1>1, <2>6, <2>7 DEF TextInv, Kept, Whole, GoesOn, IsParser, Strings
<1>4. CASE PieceEnds
    <2>1. PICK p : p = Resumed(Flushed(parser))
        OBVIOUS
    <2>2. Kept(p)
        BY <1>2, <2>1, ResumedKept
    <2>3. parser' = p /\ todo' = todo
        BY <1>4, <2>1 DEF PieceEnds
    <2>4. Kept(parser')
        BY <2>2, <2>3
    <2> QED BY <1>1, <1>2, <2>3, <2>4 DEF TextInv, Kept, Whole, GoesOn, IsParser, Strings
<1>5. CASE UNCHANGED vars
    BY <1>1, <1>2, <1>5 DEF vars, TextInv, Kept, Whole, GoesOn, IsParser, Strings
<1>6. CASE RestDropped
    <2>1. PICK p : p = Error(parser)
        OBVIOUS
    <2>2. Kept(p)
        BY <1>2, <2>1, ErrorKept
    <2>3. parser' = p /\ todo' = todo
        BY <1>6, <2>1 DEF RestDropped
    <2>4. Kept(parser')
        BY <2>2, <2>3
    <2> QED BY <1>1, <1>2, <2>3, <2>4 DEF TextInv, Kept, Whole, GoesOn, IsParser, Strings
<1> QED BY <1>3, <1>4, <1>5, <1>6 DEF Next

\* What is reported of a symbol does not depend on the cut before it.
LEMMA CutStep ==
    ASSUME TextInv, Byte \/ PieceEnds
    PROVE  Flushed(parser') = IF todo' = todo THEN Flushed(parser)
                              ELSE Flushed(Consumed(Resumed(Flushed(parser)), Head(todo)))
<1>1. Byte \/ PieceEnds
    OBVIOUS
<1>2. Whole(parser) /\ MarksFit(parser) /\ GoesOn(parser)
    BY DEF TextInv, Inv, Good, Kept
<1>3. PICK ch : ch = Head(todo)
    OBVIOUS
<1>4. ch \in STRING /\ Tail(todo) # todo
    <2>1. todo \in Seq(STRING) /\ todo # <<>>
        BY <1>1 DEF TextInv, Byte, PieceEnds, Feeding
    <2>2. ch \in STRING
        BY <1>3, <2>1, HeadTailProperties
    <2>3. Len(Tail(todo)) = Len(todo) - 1 /\ Len(todo) \in Nat
        BY <2>1, HeadTailProperties, LenProperties
    <2>4. Tail(todo) # todo
        <3>1. \A n \in Nat : n # n - 1
            OBVIOUS
        <3> QED BY <2>3, <3>1
    <2> QED BY <2>2, <2>4
<1>5. /\ Flushed(Resumed(Flushed(parser))) = Flushed(parser)
      /\ Flushed(Consumed(parser, ch)) = Flushed(Consumed(Resumed(Flushed(parser)), ch))
    BY <1>2, <1>4, CutFacts
<1>6. CASE Byte
    <2>1. parser' = Consumed(parser, ch) /\ todo' = Tail(todo)
        BY <1>3, <1>6 DEF Byte
    <2>2. Flushed(parser') = Flushed(Consumed(parser, ch))
        BY <2>1
    <2> QED BY <1>3, <1>4, <1>5, <2>1, <2>2
<1>7. CASE PieceEnds
    <2>1. parser' = Resumed(Flushed(parser)) /\ todo' = todo
        BY <1>7 DEF PieceEnds
    <2>2. Flushed(parser') = Flushed(Resumed(Flushed(parser)))
        BY <2>1
    <2> QED BY <1>5, <2>1, <2>2
<1> QED BY <1>1, <1>6, <1>7

\* For every text and every limit, the requests, headers and bodies that are put
\* together, and the state they are put together in, do not depend on where
\* http_parser_execute is called with the next piece, except right after the head
\* of a request to upgrade, where it fails unless the piece ends.
THEOREM CutsMatterAtUpgradesHolds == Spec => CutsMatterAtUpgrades
<1>1. TextInv /\ [Next]_vars =>
        [\/ returned /\ parser.upgrade /\ parser' = Error(parser)
         \/ Flushed(parser') = IF todo' = todo THEN Flushed(parser)
               ELSE Flushed(Consumed(Resumed(Flushed(parser)), Head(todo)))]_vars
    <2> SUFFICES ASSUME TextInv, Next
                 PROVE  \/ returned /\ parser.upgrade /\ parser' = Error(parser)
                        \/ Flushed(parser') = IF todo' = todo THEN Flushed(parser)
                              ELSE Flushed(Consumed(Resumed(Flushed(parser)), Head(todo)))
        OBVIOUS
    <2>1. CASE RestDropped
        BY <2>1 DEF RestDropped, TextInv, Inv
    <2>2. CASE Byte \/ PieceEnds
        BY <2>2, CutStep
    <2> QED BY <2>1, <2>2 DEF Next
<1> QED BY <1>1, TextInvInit, TextInvNext, PTL DEF Spec, CutsMatterAtUpgrades
=============================================================================
