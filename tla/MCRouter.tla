------------------------------ MODULE MCRouter ------------------------------
\* A small instance of Router and RouterFind: patterns that share prefixes, that
\* overlap, that conflict and that begin with a parameter, and every URL of up
\* to four characters.
EXTENDS RouterFind

MCPatterns ==
    { <<"/", "a">>, <<"/", "a", "/">>, <<"/", "a", "1">>, <<"/", "a", "<path>">>,
      <<"/", "<str>">>, <<"/", "<string>", "/", "<string>">>, <<"/", "<uint>", "/">>,
      <<"/", "<float>">>, <<"/", "-", "<int>">>, <<"<path>">> }

MCUrls == {<<"/">> \o u : u \in BoundedSeq({"a", "1", "/", "-", "."}, 3)}

Symmetry == Permutations(Methods)
=============================================================================
