------------------------------ MODULE MCSweep ------------------------------
(***************************************************************************)
(* Sweeps of small graphs: two production symbols m and d, a test t of a   *)
(* test file, and u, a helper of a test file or of a test-support package. *)
(***************************************************************************)
EXTENDS Sweep, TLC

CONSTANTS m, d, t, u

MCSymbol == {m, d, t, u}

Graph(refs, uses, support, roots, consumers) ==
  [refs |-> refs, uses |-> uses,
   inTestFile |-> {t} \union ({u} \ support), support |-> support, subject |-> MCSymbol,
   parents |-> [s \in MCSymbol |-> {}], testReached |-> {d},
   rooted |-> roots, consumers |-> consumers]

NoUses == [s \in MCSymbol |-> <<>>]
NoConsumers == [s \in MCSymbol |-> {}]

References(support) ==
  {(m :> rm) @@ (d :> <<>>) @@ (t :> rt) @@ (u :> ru) :
     rm \in {<<>>, <<d>>}, rt \in {<<>>, <<d>>, <<u>>, <<m>>, <<d, u>>, <<m, d>>},
     ru \in {<<>>, <<d>>, <<m>>} \union (IF support = {} THEN {<<t>>} ELSE {})}

Rooteds ==
  {{[at |-> t, kind |-> "test"]}, {[at |-> t, kind |-> "test"], [at |-> m, kind |-> "entry"]},
   {[at |-> m, kind |-> "published"]}, {[at |-> d, kind |-> "blank"], [at |-> t, kind |-> "test"]}}

Graphs == UNION {{Graph(r, NoUses, s, o, NoConsumers) :
                    r \in References(s), o \in Rooteds} : s \in {{}, {u}}}

Policy(x, k, production) ==
  [exempt |-> x, marked |-> k, unseen |-> {}, tested |-> {}, production |-> production,
   consumerTests |-> FALSE]

Exempts == {{}, {[of |-> d, holders |-> {}]}, {[of |-> d, holders |-> {m}]},
            {[of |-> d, holders |-> {m, u}]}, {[of |-> t, holders |-> {}], [of |-> d, holders |-> {t}]}}

Permitted(i) == i.p.production => \A e \in i.p.exempt : e.holders \intersect i.g.inTestFile = {}

\* Every reference graph, under at most one mark.
Common == {[g |-> x, p |-> Policy(e, k, b)] :
             x \in Graphs, e \in Exempts, k \in {{}, {d}, {t}}, b \in BOOLEAN}

\* Fewer graphs with inferred uses, consumers' references, containers, test evidence, an
\* unseen target and a holder outside the inventory.
Rich ==
  {[g |-> [Graph(r, [s \in MCSymbol |-> IF s = m THEN um ELSE <<>>], {u}, o,
                 [s \in MCSymbol |-> IF s = c[1] THEN c[2] ELSE {}])
            EXCEPT !.parents = [s \in MCSymbol |-> IF s = d THEN {m} ELSE {}],
                   !.testReached = {m, d}],
    p |-> [Policy(x, {}, b) EXCEPT !.tested = y, !.unseen = z, !.consumerTests = TRUE]] :
     r \in {(m :> <<>>) @@ (d :> rd) @@ (t :> rt) @@ (u :> <<d>>) :
              rd \in {<<>>, <<m>>}, rt \in {<<d>>, <<u>>, <<m, d>>}},
     um \in {<<>>, <<d>>},
     o \in {{[at |-> t, kind |-> "test"]}, {[at |-> m, kind |-> "blank"]}},
     c \in {<<d, {}>>, <<d, {"production"}>>, <<m, {"testBuild"}>>, <<u, {"consumerTest"}>>},
     x \in {{}, {[of |-> d, holders |-> {m, Outside}]}, {[of |-> m, holders |-> {Outside}]}},
     y \in {{}, {d}, {u}}, z \in {{}, {d}}, b \in BOOLEAN}

\* Fewer still with a suite's method in production code rooted as a test, test-file
\* declarations an exemption's holders or an uncalled interface method hold, and a symbol
\* neither relation judges.
Suites ==
  {[g |-> [Graph(r, [s \in MCSymbol |-> IF s = m THEN um ELSE <<>>], {}, o, NoConsumers)
            EXCEPT !.subject = MCSymbol \ j],
    p |-> Policy(x, {}, b)] :
     r \in {(m :> rm) @@ (d :> <<>>) @@ (t :> rt) @@ (u :> ru) :
              rm \in {<<>>, <<d>>}, rt \in {<<d>>, <<d, u>>, <<u>>}, ru \in {<<>>, <<m>>, <<m, t>>}},
     um \in {<<>>, <<d>>, <<u>>},
     o \in {{[at |-> t, kind |-> "test"]}, {[at |-> m, kind |-> "test"]},
            {[at |-> m, kind |-> "test"], [at |-> d, kind |-> "entry"]}},
     x \in {{}, {[of |-> u, holders |-> {t}]}, {[of |-> u, holders |-> {m}]},
            {[of |-> u, holders |-> {m, t}]}, {[of |-> d, holders |-> {m}]},
            {[of |-> t, holders |-> {u}], [of |-> d, holders |-> {t, m}]}},
     j \in {{}, {u}}, b \in BOOLEAN}

MCSweeps == {i \in Common \union Rich \union Suites : Permitted(i)}
=============================================================================
