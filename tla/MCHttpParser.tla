---------------------------- MODULE MCHttpParser ----------------------------
\* A small instance of HttpParser: a message of up to three header lines of every
\* kind and in every order, which another message follows.
EXTENDS HttpParser

Plain == Line(<<"x">>, <<"v">>)
Long == Line(<<"x", "y">>, <<"v", "w">>)

MCLines ==
    { Long,
      Line(<<"x", "y">>, <<>>),                                     \* no value
      Line(<<"x", "y">>, Null),                                     \* no colon
      Line(<<"con", "y">>, <<"v", "CR", "LF", "SP", "w">>),         \* folded
      Line(<<"(">>, <<"v">>),
      Line(Connection, Close), Line(Connection, KeepAlive),
      Line(Connection, Close \o <<"CR", "LF", "SP", "v">>),
      Line(ContentLength, <<"0", "2">>), Line(ContentLength, <<"0">>),
      Line(ContentLength, <<"v">>), Line(ContentLength, <<>>),
      Line(TransferEncoding, Chunked), Line(TransferEncoding, <<"chu", "v">>),
      Line(Upgrade, <<"v">>) }

Message(version, lines, trailers, eol) ==
    [url |-> <<"/", "a">>, version |-> version, lines |-> lines, trailers |-> trailers, eol |-> eol]

Second == Message("HTTP/1.1", <<Long>>, <<>>, <<"CR", "LF">>)

MCScripts ==
    {<<Message(v[1], ls, ts, v[2]), Second>> :
        v \in {<<"HTTP/1.1", <<"CR", "LF">>>>, <<"HTTP/1.0", <<"LF">>>>},
        ls \in BoundedSeq(MCLines, 3),
        ts \in {<<>>, <<Plain, Plain>>, <<Plain, Plain, Plain, Plain>>}}
=============================================================================
