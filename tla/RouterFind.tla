----------------------------- MODULE RouterFind -----------------------------
(***************************************************************************)
(* How validate compresses the trie of module Router by merging nodes, and *)
(* how a request's URL is looked up in it: every alternative is followed   *)
(* and the rule added first wins.                                          *)
(*                                                                         *)
(* A URL is a sequence of characters.  Numbers do not exceed their type.   *)
(***************************************************************************)
EXTENDS Router, FiniteSets, FiniteSetsExt

CONSTANT Urls     \* the URLs looked up

Digits == {"0", "1"}

-----------------------------------------------------------------------------
\* Trie::optimize

Merged(trie, n) ==
    LET Pieces == {<<f, g>> : f \in DOMAIN trie[n].children, g \in UNION
                    {DOMAIN trie[trie[n].children[f]].children : f \in DOMAIN trie[n].children}}
        Real == {p \in Pieces : p[2] \in DOMAIN trie[trie[n].children[p[1]]].children}
    IN  [s \in {p[1] \o p[2] : p \in Real} |->
            LET p == CHOOSE p \in Real : p[1] \o p[2] = s
            IN  trie[trie[n].children[p[1]]].children[p[2]]]

\* Fault: one simple child is enough to merge.
SomeSimple(trie, n) ==
    \E f \in DOMAIN trie[n].children : IsSimpleNode(trie[trie[n].children[f]])

\* mergeWithChild
AllSimple(trie, n) ==
    \A f \in DOMAIN trie[n].children : IsSimpleNode(trie[trie[n].children[f]])

\* optimizeNode
RECURSIVE OptimizeNode(_, _)
OptimizeAll(trie, ns) == FoldLeft(OptimizeNode, trie, SetToSeq(ns))

OptimizeNode(trie, n) ==
    LET t1 == OptimizeAll(trie, {trie[n].params[t] : t \in ParamType} \ {0})
        kids == {t1[n].children[f] : f \in DOMAIN t1[n].children} IN
    CASE kids = {} -> t1
      [] kids # {} /\ AllSimple(t1, n) ->
            OptimizeNode([t1 EXCEPT ![n].children = Merged(t1, n)], n)
      [] OTHER -> OptimizeAll(t1, kids)

-----------------------------------------------------------------------------
\* Trie::find

\* Where the longest run of characters of chars that starts at pos ends.
RECURSIVE RunEnd(_, _, _)
RunEnd(url, pos, chars) ==
    IF pos <= Len(url) /\ url[pos] \in chars THEN RunEnd(url, pos + 1, chars) ELSE pos

\* strtoll, strtoull and strtod after the test of the first character, and the
\* scans for a slash and for the end: the position after the parameter, or pos.
ParamEnd(t, url, pos) ==
    LET signs == CASE t = "UINT" -> {"+"} [] OTHER -> {"+", "-"}
        start == IF url[pos] \in signs THEN pos + 1 ELSE pos
        whole == RunEnd(url, start, Digits)
        point == whole <= Len(url) /\ url[whole] = "."
        frac == IF point THEN RunEnd(url, whole + 1, Digits) ELSE whole
    IN  CASE t \in {"INT", "UINT"} -> IF whole > start THEN whole ELSE pos
          [] t = "DOUBLE" -> IF whole > start \/ frac > whole + 1 THEN frac ELSE pos
          [] t = "STRING" -> IF url[pos] = "/" THEN pos
                             ELSE RunEnd(url, pos, {url[i] : i \in 1..Len(url)} \ {"/"})
          [] t = "PATH" -> Len(url) + 1

Found(rule, params) == [rule |-> rule, params |-> params]
NotFound == Found(0, <<>>)

\* update_found
Better(a, b) == IF b.rule # 0 /\ (a.rule = 0 \/ a.rule > b.rule) THEN b ELSE a

RECURSIVE Find(_, _, _, _, _)
Find(trie, url, n, pos, params) ==
    IF pos > Len(url) THEN Found(trie[n].rule, params) ELSE
    LET kids == trie[n].children
        End(t) == ParamEnd(t, url, pos)
        Piece(t) == <<t, SubSeq(url, pos, End(t) - 1)>>
        ByParam == {Find(trie, url, trie[n].params[t], End(t), Append(params, Piece(t))) :
                        t \in {t \in ParamType : trie[n].params[t] # 0 /\ End(t) > pos}}
        ByChild == {Find(trie, url, kids[f], pos + Len(f), params) :
                        f \in {f \in DOMAIN kids : IsPrefix(f, SubSeq(url, pos, Len(url)))}}
    IN  FoldSet(LAMBDA a, b : Better(b, a), NotFound, ByParam \cup ByChild)

\* Router::handle: 404, 301 or the handler of a rule with its parameters.
Handle(method, url) ==
    LET found == Find(nodes, url, 1, 1, <<>>) IN
    CASE found.rule = 0 -> <<404>>
      [] found.rule = RedirectSlash -> <<301>>
      [] found.rule > 1 /\ method \notin rules[found.rule - 1].methods -> <<404>>
      [] OTHER -> <<200, found.rule, found.params>>

-----------------------------------------------------------------------------
\* Properties

\* What it means that a pattern matches a URL from pos on: a character matches
\* itself, a parameter takes as much as it can.
RECURSIVE Match(_, _, _, _)
Match(pattern, url, pos, params) ==
    CASE pattern = <<>> -> IF pos > Len(url) THEN {params} ELSE {}
      [] pattern # <<>> /\ pos > Len(url) -> {}
      [] pattern # <<>> /\ pos <= Len(url) /\ Head(pattern) \in DOMAIN TypeNamed ->
            LET t == TypeNamed[Head(pattern)]
                end == ParamEnd(t, url, pos) IN
            IF end = pos THEN {}
            ELSE Match(Tail(pattern), url, end, Append(params, <<t, SubSeq(url, pos, end - 1)>>))
      [] OTHER -> IF Head(pattern) # url[pos] THEN {}
                  ELSE Match(Tail(pattern), url, pos + 1, params)

Redirects(url) == \E i \in 1..Len(rules) :
    IsDirectory(rules[i].pattern) /\ Match(Front(rules[i].pattern), url, 1, <<>>) # {}

Expected(method, url) ==
    LET matching == {i \in 1..Len(rules) : Match(rules[i].pattern, url, 1, <<>>) # {}} IN
    CASE Redirects(url) -> <<301>>
      [] ~ Redirects(url) /\ matching = {} -> <<404>>
      [] OTHER -> IF method \notin rules[Min(matching)].methods THEN <<404>>
                  ELSE <<200, Min(matching) + 1,
                         CHOOSE ps \in Match(rules[Min(matching)].pattern, url, 1, <<>>) : TRUE>>

\* Before and after its nodes are merged, the trie answers every request as the
\* list of rules says: the first rule whose pattern matches decides, by its
\* method too, with its own parameters; a redirection goes before all rules.
AnswersLikeRules ==
    status # "failed" => \A url \in Urls, m \in Methods : Handle(m, url) = Expected(m, url)
=============================================================================
