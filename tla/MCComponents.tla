---------------------------- MODULE MCComponents ----------------------------
(***************************************************************************)
(* Components of four symbols: 1 to 3 of production code, 4 a test         *)
(* declaration or test-support code; 3 may be a member of 2, and 2 a       *)
(* dependent of 1, or 3 of 2.                                              *)
(***************************************************************************)
EXTENDS Components, TLC

MCSymbol == 1 .. 4

References ==
  {<<a, b, c, e>> :
     a \in {<<>>, <<2>>, <<3>>}, b \in {<<>>, <<1>>, <<3>>}, c \in {<<>>, <<1>>, <<2, 1>>},
     e \in {<<>>, <<1>>, <<2>>, <<3, 1>>}}

Graph(refs, container, support, roots) ==
  [refs |-> refs, uses |-> <<<<>>, <<>>, <<>>, <<>>>>,
   inTestFile |-> {4} \ support, support |-> support, subject |-> MCSymbol,
   parents |-> [s \in MCSymbol |-> IF s = 3 THEN container ELSE {}], testReached |-> {},
   rooted |-> roots, consumers |-> [s \in MCSymbol |-> {}]]

Policy(production) ==
  [exempt |-> {}, marked |-> {}, unseen |-> {}, tested |-> {}, production |-> production,
   consumerTests |-> FALSE]

Rooted(s, kind) == [at |-> s, kind |-> kind]

MCSweeps ==
  {[g |-> Graph(r, c, s, o), p |-> Policy(b)] :
     r \in References, c \in {{}, {2}}, s \in {{}, {4}},
     o \in {{}, {Rooted(2, "published")}, {Rooted(4, "test")}}, b \in BOOLEAN}

MCDependents == {[s \in MCSymbol |-> IF s = 1 THEN x ELSE {}] : x \in {{}, {2}}}
=============================================================================
