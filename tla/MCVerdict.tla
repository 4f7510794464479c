----------------------------- MODULE MCVerdict -----------------------------
(***************************************************************************)
(* Verdicts on four declarations: a function 1, a type 2, its field 3 and  *)
(* a declaration 4 of a test file or of test-support code.                 *)
(***************************************************************************)
EXTENDS Verdict, TLC

MCSymbol == 1 .. 4

Row3(shape, live) == [shape |-> shape, holdsLive |-> live, most |-> "certain"]
MCCodes ==
  {"unused-exported", "unused-unexported", "unused-member", "test-only-use",
    "deprecated-unused", ByDead, "unnecessary-export", "unused-enum-member", "write-only", "unused-parameter", "replace"}
MCRowOf ==
  [c \in MCCodes |->
     CASE c \in {"write-only", "unnecessary-export"} -> Row3("declaration", TRUE)
       [] c = "unused-parameter" -> Row3("part", TRUE)
       [] c = "replace" -> Row3("row", TRUE)
       [] OTHER -> Row3("declaration", FALSE)]

Declared(kind, exported, parents, inTest, support) ==
  [kind |-> kind, exported |-> exported, importable |-> TRUE, inTest |-> inTest, support |-> support,
   blank |-> FALSE, parents |-> parents, dir |-> <<>>, unlinked |-> FALSE, exposed |-> FALSE,
   deprecated |-> FALSE, readOrWrite |-> FALSE, testCalled |-> FALSE, generated |-> FALSE, configs |-> {1}]

Symbols(exported, support) ==
  <<[Declared("func", exported, {}, FALSE, FALSE) EXCEPT !.deprecated = TRUE],
    Declared("type", TRUE, {}, FALSE, FALSE),
    Declared("field", TRUE, {2}, FALSE, FALSE),
    Declared("func", FALSE, {}, ~support, support)>>

Draft3(code, id, decl) ==
  [code |-> code, id |-> id, decl |-> decl, at |-> 1, local |-> FALSE, tested |-> FALSE, testRead |-> FALSE,
   unseen |-> FALSE]

\* The mode counts no test, so the field is written only where a test alone reads it.
Drafted(refs) ==
  {[Draft3("write-only", 3, None) EXCEPT !.testRead = 3 \in Range(refs[4])],
   Draft3("unnecessary-export", 1, None),
   Draft3("unused-parameter", None, 1), Draft3("replace", None, None)}

Graph(refs, support, roots, testReached) ==
  [refs |-> refs, uses |-> [s \in MCSymbol |-> <<>>],
   inTestFile |-> {4} \ support, support |-> support, subject |-> MCSymbol,
   parents |-> [s \in MCSymbol |-> IF s = 3 THEN {2} ELSE {}], testReached |-> testReached,
   rooted |-> roots, consumers |-> [s \in MCSymbol |-> {}]]

Policy(x, production) ==
  [exempt |-> x, marked |-> {}, unseen |-> {}, tested |-> {}, production |-> production,
   consumerTests |-> FALSE]

Tree(g, p, symbols, target, minimum) ==
  [g |-> g, p |-> p, target |-> target, minimum |-> minimum,
   severity |-> [c \in MCCodes |-> "deny"], declared |-> {}, loaded |-> {},
   symbols |-> symbols, units |-> <<>>, skipped |-> {}, falling |-> {}, filled |-> {}, spelled |-> {},
   matrix |-> {1}, drafts |-> Drafted(g.refs), edges |-> <<>>, marks |-> <<>>, sweep |-> <<>>, unmarked |-> <<>>]

References ==
  {<<a, b, c, e>> : a \in {<<>>, <<2>>, <<3>>}, b \in {<<>>, <<1>>}, c \in {<<>>, <<1>>},
                    e \in {<<>>, <<1>>, <<3>>}}
Few == {<<<<2>>, <<1>>, <<>>, <<>>>>, <<<<3>>, <<>>, <<>>, <<1>>>>, <<<<>>, <<>>, <<1>>, <<3>>>>}

\* Whether 4 is a test, a helper of a test file or test-support code, and what is rooted.
Role(support, roots) == [support |-> support, roots |-> roots]
Tested == [at |-> 4, kind |-> "test"]
Roles ==
  {Role({}, {Tested}), Role({}, {Tested, [at |-> 1, kind |-> "entry"]}),
   Role({}, {Tested, [at |-> 2, kind |-> "published"]}), Role({}, {}),
   Role({4}, {}), Role({4}, {[at |-> 2, kind |-> "published"]})}

Of(r, o, t, x, e, k, m) ==
  Tree(Graph(r, o.support, o.roots, t), Policy(x, TRUE), Symbols(e, o.support # {}), k, m)

Plain ==
  {Of(r, o, {}, {}, TRUE, "application", "possible") : r \in {r \in References : r[3] = <<>>} \union Few,
     o \in Roles}
Varied ==
  {Of(r, o, {1, 2, 3}, x, e, k, m) :
     r \in Few, o \in Roles, x \in {{}, {[of |-> 2, holders |-> {}]}}, e \in {FALSE},
     k \in {"application", "library"}, m \in {"possible", "certain"}}
Entered == {t \in Plain : \E r \in t.g.rooted : r.at = 1}

\* A type error skips the type, the function falls, reflection fills the field, and an edge
\* names the function.
Noted ==
  {[t EXCEPT !.skipped = {2}] : t \in Plain} \union {[t EXCEPT !.falling = {1}] : t \in Entered}
    \union {[t EXCEPT !.filled = {3}, !.edges = <<1>>, !.minimum = "certain"] : t \in Plain}

MCTrees == Plain \union Varied \union {t \in Noted : t.g.refs \in Few}
Helpers == {t \in Plain : t.g.rooted = {} /\ t.g.support = {} /\ t.g.refs \in Few}

NoSlips == {{}}
MCSlips == {{}, {[code |-> "unused-member", bound |-> 3, site |-> <<"inline", "unused-member", 3>>]}}
=============================================================================
