------------------------------- MODULE MCPass -------------------------------
(***************************************************************************)
(* Pass over small graphs: three symbols r, h and k, each making at most   *)
(* one plain reference, an exempt symbol t that h and k hold together      *)
(* through a gate, and every way of seeding them the constants allow.      *)
(***************************************************************************)
EXTENDS Pass, TLC

CONSTANTS r, h, k, t

MCSymbol == {r, h, k, t}

\* No reference, or one to a symbol of targets, a test file's or not.
Plain(targets) ==
  {<<>>} \union {<<[to |-> x, gate |-> {}, test |-> b, held |-> FALSE]>> :
                   x \in targets, b \in BOOLEAN}

\* The use of t an exemption h and k hold together states.
Gated == <<[to |-> t, gate |-> {h, k}, test |-> FALSE, held |-> TRUE]>>

\* h holds t first among its edges, k last: the gate is met before and after a
\* plain reference.
Outs ==
  {(r :> pr) @@ (h :> Gated \o ph) @@ (k :> pk \o Gated) @@ (t :> pt) :
     pr \in Plain({h, k}), ph \in Plain({k}), pk \in Plain({h}),
     pt \in {<<>>, <<[to |-> h, gate |-> {}, test |-> FALSE, held |-> FALSE]>>}}

Rooteds ==
  {{[at |-> r, kind |-> "published"]},
   {[at |-> r, kind |-> "entry"], [at |-> k, kind |-> "test"]},
   {[at |-> h, kind |-> "yielded"], [at |-> r, kind |-> "test"]}}

MCInputs ==
  {[out |-> o, rooted |-> g, consumed |-> {}, exempt |-> x, marked |-> m,
    production |-> p, exemptions |-> e, yielded |-> ~e] :
     o \in Outs, g \in Rooteds, x \in {{}, {k}}, m \in {{}, {h}}, p \in BOOLEAN,
     e \in BOOLEAN}

\* One input of each shape a consumer's reference seeds.
ConsumedInputs ==
  {[out |-> o, rooted |-> {}, consumed |-> c, exempt |-> {}, marked |-> {},
    production |-> TRUE, exemptions |-> TRUE, yielded |-> FALSE] :
     o \in Outs, c \in {{r}, {h, k}}}

MCAllInputs == MCInputs \union ConsumedInputs
=============================================================================
