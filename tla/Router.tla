------------------------------- MODULE Router -------------------------------
(***************************************************************************)
(* Routing in crow.h: rules are added to a trie of single characters and   *)
(* parameters, which validate compresses before the server runs.           *)
(*                                                                         *)
(* A pattern is a sequence of symbols: characters and parameters, such as  *)
(* "<int>".  Patterns with an unknown parameter do not compile             *)
(* (CROW_ROUTE).                                                           *)
(***************************************************************************)
EXTENDS Integers, Sequences, SequencesExt

CONSTANTS
    Characters,         \* those of the patterns
    Patterns,           \* the patterns of the rules that may be added
    Methods,            \* HTTP methods; a rule accepts a set of them
    MaxRules,           \* bound: rules added
    Optimize(_, _)      \* optimizeNode of a trie and one of its nodes

ParamType == {"INT", "UINT", "DOUBLE", "STRING", "PATH"}

\* paramTraits
TypeNamed ==
    [name \in {"<int>", "<uint>", "<float>", "<double>", "<str>", "<string>", "<path>"} |->
        CASE name = "<int>" -> "INT"
          [] name = "<uint>" -> "UINT"
          [] name \in {"<float>", "<double>"} -> "DOUBLE"
          [] name \in {"<str>", "<string>"} -> "STRING"
          [] name = "<path>" -> "PATH"]

Symbols == Characters \cup DOMAIN TypeNamed

ASSUME PatternsAssumption ==
    /\ Characters \cap (DOMAIN TypeNamed \cup ParamType) = {}
    /\ Patterns \subseteq Seq(Symbols)

VARIABLES
    rules,        \* rules_, from index 2
    nodes,        \* nodes_, from index 1; 0 stands for no node
    status        \* "open", "valid" after validate, "failed" after an exception

routerVars == <<rules, nodes, status>>

Node ==
    [rule : Nat, params : [ParamType -> Nat],
     children : UNION {[fragments -> Nat] : fragments \in SUBSET {<<s>> : s \in Symbols}}]

EmptyNode == [rule |-> 0, params |-> [t \in ParamType |-> 0], children |-> <<>>]
RedirectSlash == 1

IsSimpleNode(node) == node.rule = 0 /\ \A t \in ParamType : node.params[t] = 0

RouterInit ==
    /\ rules = <<>>
    /\ nodes = <<EmptyNode>>
    /\ status = "open"

-----------------------------------------------------------------------------
\* Trie::add

\* The child of a node for a symbol, 0 if there is none.
Child(node, symbol) ==
    IF symbol \in DOMAIN TypeNamed THEN node.params[TypeNamed[symbol]]
    ELSE IF <<symbol>> \in DOMAIN node.children THEN node.children[<<symbol>>] ELSE 0

WithChild(node, symbol, new) ==
    IF symbol \in DOMAIN TypeNamed THEN [node EXCEPT !.params[TypeNamed[symbol]] = new]
    ELSE [node EXCEPT !.children = [f \in DOMAIN @ \cup {<<symbol>>} |->
                                       IF f = <<symbol>> THEN new ELSE @[f]]]

\* One symbol of the pattern: go to the child for it, made if there is none.
AddSymbol(at, symbol) ==
    LET next == Child(at.nodes[at.idx], symbol)
        new == Len(at.nodes) + 1 IN
    IF next # 0 THEN [idx |-> next, nodes |-> at.nodes]
    ELSE [idx |-> new,
          nodes |-> Append([at.nodes EXCEPT ![at.idx] = WithChild(@, symbol, new)], EmptyNode)]

\* The way down the trie, after each number of symbols.
Way(trie, pattern) ==
    LET at[i \in 0 .. Len(pattern)] ==
            IF i = 0 THEN [idx |-> 1, nodes |-> trie] ELSE AddSymbol(at[i-1], pattern[i])
    IN  at

\* Fault: a second rule for the same pattern replaces the first.
AddReplaces(trie, pattern, ruleIndex) ==
    LET at == Way(trie, pattern)[Len(pattern)] IN
    [ok |-> TRUE, nodes |-> [at.nodes EXCEPT ![at.idx].rule = ruleIndex]]

Add(trie, pattern, ruleIndex) ==
    LET at == Way(trie, pattern)[Len(pattern)]
        free == at.nodes[at.idx].rule = 0 IN
    [ok |-> free,
     nodes |-> IF free THEN [at.nodes EXCEPT ![at.idx].rule = ruleIndex] ELSE at.nodes]

\* A directory rule also matches its URL without the last slash.
IsDirectory(pattern) == Len(pattern) > 1 /\ Last(pattern) = "/"

\* internal_add_rule_object; an exception ends the program before it serves.
AddRule(pattern, methods) ==
    LET first == Add(nodes, pattern, Len(rules) + 2)
        second == Add(first.nodes, Front(pattern), RedirectSlash) IN
    /\ status = "open" /\ Len(rules) < MaxRules
    /\ rules' = Append(rules, [pattern |-> pattern, methods |-> methods])
    /\ nodes' = IF IsDirectory(pattern) /\ first.ok THEN second.nodes ELSE first.nodes
    /\ status' = IF first.ok /\ (IsDirectory(pattern) => second.ok) THEN "open" ELSE "failed"

\* Trie::validate
Validate ==
    /\ status = "open"
    /\ status' = IF IsSimpleNode(nodes[1]) THEN "valid" ELSE "failed"
    /\ nodes' = IF IsSimpleNode(nodes[1]) THEN Optimize(nodes, 1) ELSE nodes
    /\ UNCHANGED rules

RouterNext ==
    \/ \E p \in Patterns, ms \in SUBSET Methods : ms # {} /\ AddRule(p, ms)
    \/ Validate

RouterSpec == RouterInit /\ [][RouterNext]_routerVars

-----------------------------------------------------------------------------
\* Properties

\* The type of the state.  Compressed nodes have longer fragments.
RouterTypeOK ==
    /\ rules \in Seq([pattern : Patterns, methods : SUBSET Methods])
    /\ status \in {"open", "valid", "failed"}
    /\ status = "open" => nodes \in Seq(Node)

\* The label on the way down the trie for a symbol, and for each of a pattern.
Label(symbol) == IF symbol \in DOMAIN TypeNamed THEN TypeNamed[symbol] ELSE symbol
LabelsOf(pattern) == [i \in 1 .. Len(pattern) |-> Label(pattern[i])]

\* What a rule claims: its pattern up to the names of the parameters, and the
\* URLs it redirects.
Claims(p) == {LabelsOf(p)} \cup IF IsDirectory(p) THEN {LabelsOf(Front(p))} ELSE {}

Conflict ==
    \E j \in 1..Len(rules) : \E i \in 1..(j - 1) :
        Claims(rules[i].pattern) \cap Claims(rules[j].pattern) # {}

\* A pattern that claims the head of the trie or a parameter of it.
Headless ==
    \E j \in 1..Len(rules) :
        rules[j].pattern = <<>> \/ rules[j].pattern[1] \in DOMAIN TypeNamed

\* Two rules are refused exactly if no URL could tell them, or the URLs they
\* redirect, apart.  Else only a pattern that does not begin with a character
\* is refused, and that at the latest when the rules are validated.
ConflictsRefused ==
    /\ Conflict => status = "failed"
    /\ status = "failed" => Conflict \/ Headless
    /\ status = "valid" => ~ Headless
=============================================================================
