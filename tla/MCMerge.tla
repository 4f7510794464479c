------------------------------ MODULE MCMerge ------------------------------
(***************************************************************************)
(* Matrices of at most three configurations, each in every order, that     *)
(* differ in what they declare, in the references they make, in what they  *)
(* hold of an interface's method or in the configured strings they match;  *)
(* an empty matrix; and one past the bound.                                *)
(***************************************************************************)
EXTENDS Merge

MCId == 1 .. 4
MCSource == {"a", "b", "java"}

Call(carrier) ==
  [from |-> 1, to |-> 2, site |-> 1, kind |-> "call", build |-> "target", test |-> FALSE,
   carrier |-> carrier]
Tested == [Call(1) EXCEPT !.from = 3, !.test = TRUE]
Written == [Call(1) EXCEPT !.kind = "write"]
Foreign == [Call(1) EXCEPT !.from = Nowhere, !.build = "consumer", !.test = TRUE]

MCReference == {Call(1), Call(2), Tested, Written, Foreign}

\* 1 is a package, 2 an interface's method, 3 a method implementing it, 4 another.
Declared(id, at, parents) ==
  [id |-> id, at |-> at, parents |-> parents, inTestFile |-> FALSE,
   kind |-> IF id = 1 THEN "package" ELSE "other"]
All == <<Declared(1, 1, {}), Declared(2, 3, {1}), Declared(3, 4, {1}), Declared(4, 5, {1})>>

Bare == [symbols |-> All, references |-> <<>>, roots |-> {}, named |-> {}, interfaces |-> {}]

Declares ==
  {[Bare EXCEPT !.symbols = s, !.roots = {2}] :
     s \in {<<>>, <<Declared(2, 3, {1})>>, <<Declared(1, 1, {}), Declared(2, 3, {1})>>,
            <<Declared(1, 2, {}), Declared(3, 4, {2}), Declared(2, 3, {4})>>,
            <<Declared(2, 3, {3}), Declared(1, 6, {}), Declared(4, 7, {1, 3})>>}}

Refers ==
  {[Bare EXCEPT !.references = r] :
     r \in {<<>>, <<Call(1)>>, <<Call(1), Call(2)>>, <<Call(2), Written, Call(1)>>,
            <<Tested, Tested, Foreign>>, <<Written, Call(1), Tested, Call(2), Call(1)>>}}

Method2(sealed, implementations) ==
  [method |-> 2, sealed |-> sealed, implementations |-> implementations]

Implements ==
  {[Bare EXCEPT !.interfaces = i, !.references = r] :
     i \in {{}, {Method2(FALSE, {})}, {Method2(FALSE, {[by |-> 3, empty |-> TRUE]})},
            {Method2(TRUE, {[by |-> 3, empty |-> FALSE]})},
            {Method2(FALSE, {[by |-> 3, empty |-> FALSE], [by |-> 4, empty |-> TRUE]}),
             Method2(FALSE, {[by |-> Nowhere, empty |-> FALSE]})}},
     r \in {<<>>, <<Written>>, <<Call(1)>>}}

Names == {[Bare EXCEPT !.named = n] : n \in SUBSET MCSource}

Matrices(of) == UNION {[1 .. n -> of] : n \in 1 .. 3}

MCInputs ==
  {[per |-> m, patterns |-> <<>>] :
     m \in Matrices(Declares) \union Matrices(Refers) \union Matrices(Implements)
             \union {<<>>, <<Bare, Bare, Bare, Bare>>}}
  \union {[per |-> m, patterns |-> p] : m \in Matrices(Names),
            p \in {<<"b", "java", "b", "a">>, <<"a", "a">>}}
=============================================================================
