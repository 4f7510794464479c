------------------------------ MODULE Settings ------------------------------
(***************************************************************************)
(* The resolution of the configuration (internal/config): what the checker *)
(* of a document refuses, which source supplies each setting and each      *)
(* member of a keyed section, and the severity an issue kind then has.     *)
(***************************************************************************)
EXTENDS FiniteSetsExt, SequencesExt

CONSTANTS
  KeyOrder,    \* every key a document or a flag may write, in the order they are checked
  RowOf,       \* per declared key, its row of the closed key list
  Go,          \* this analysis's language
  Language,    \* every language
  Unset,       \* no value: no default, a setting nothing supplies
  Bad          \* a value the schema refuses

(***************************************************************************)
(* A row: a setting, a section, a section of named members (`keyed', and   *)
(* `ignored' where they are checked and dropped), whether this analysis    *)
(* reads it, whether a flag supplies it, its default, whether it may be    *)
(* written per language, and the member names of a keyed one.              *)
(***************************************************************************)
Declared == DOMAIN RowOf

Keys(role) == {k \in Declared : RowOf[k].role = role /\ RowOf[k].read}

(***************************************************************************)
(* A written value: a plain one, a number with a fraction, or an object    *)
(* with its members.  A document is what it writes, by key.                *)
(***************************************************************************)
Plain(v) == [shape |-> "plain", value |-> v, members |-> <<>>]
Fraction == [shape |-> "fraction", value |-> Unset, members |-> <<>>]
Object(members) == [shape |-> "object", value |-> Unset, members |-> members]

\* A per-language object as this analysis reads it: the members of the other languages
\* are theirs to check.
Narrowed(row, v) ==
  IF row.perLanguage /\ v.shape = "object"
  THEN Object([n \in DOMAIN v.members \ (Language \ {Go}) |-> v.members[n]])
  ELSE v

RefusesSetting(row, v) ==
  IF row.perLanguage /\ v.shape = "object"
  THEN DOMAIN v.members # {Go} \/ v.members[Go] = Bad
  ELSE v.shape # "plain" \/ v.value = Bad

RefusesKeyed(row, v) ==
  \/ v.shape # "object"
  \/ \E n \in DOMAIN v.members : n \notin row.members \/ v.members[n] = Bad

\* Whether the checker refuses what a document writes for one key.
Refuses(k, v) ==
  \/ k \notin Declared
  \/ /\ RowOf[k].read
     /\ CASE RowOf[k].role = "section" -> v.shape # "object"
          [] RowOf[k].role = "setting" -> RefusesSetting(RowOf[k], Narrowed(RowOf[k], v))
          [] OTHER -> RefusesKeyed(RowOf[k], v)

\* The first key refused, none where the whole document is accepted.
Refused(doc) == SelectSeq(KeyOrder, LAMBDA k : k \in DOMAIN doc /\ Refuses(k, doc[k]))

ValueOf(v) == IF v.shape = "object" THEN v.members[Go] ELSE v.value

\* What an accepted document supplies.
Supplied(doc) ==
  [values |-> [k \in Keys("setting") \intersect DOMAIN doc |-> ValueOf(doc[k])],
   keyed |-> [k \in Keys("keyed") \intersect DOMAIN doc |-> doc[k].members]]
-----------------------------------------------------------------------------
(***************************************************************************)
(* The sources in the order they outrank each other: the flags, each       *)
(* checked as a document of its own, the repository's document and the     *)
(* central one, each `Absent' where the invocation carries none.           *)
(***************************************************************************)
Absent == [carried |-> FALSE, named |-> TRUE, doc |-> <<>>]

SourcesOf(i) ==
  SelectSeq(<<[kind |-> "flag", from |-> i.flags], [kind |-> "repository", from |-> i.repository],
              [kind |-> "central", from |-> i.central]>>, LAMBDA s : s.from.carried)

\* What a source refuses of itself: a flag no option names, a document with no path.
RefusalOf(s) ==
  LET refused == Refused(s.from.doc)
      unoptioned == {k \in DOMAIN s.from.doc : s.kind = "flag" /\ (k \in Declared => ~RowOf[k].option)}
      first == SelectSeq(KeyOrder, LAMBDA k : k \in Range(refused) \union unoptioned)
  IN IF ~s.from.named THEN <<s.kind>>
     ELSE IF first = <<>> THEN <<>> ELSE <<s.kind, first[1]>>

Default == "default"

\* The setting of the highest-ranked source that writes it, or its default.
ResolveSetting(k, sources) ==
  LET holding == SelectSeq(sources, LAMBDA s : k \in DOMAIN Supplied(s.from.doc).values) IN
  IF holding = <<>> THEN [value |-> RowOf[k].default, from |-> Default]
  ELSE [value |-> Supplied(holding[1].from.doc).values[k], from |-> holding[1].kind]

\* Bug: the highest-ranked source that writes a section supplies all its members.
ResolveWhole(k, sources) ==
  LET holding == SelectSeq(sources, LAMBDA s : k \in DOMAIN Supplied(s.from.doc).keyed)
      members == IF holding = <<>> THEN <<>> ELSE Supplied(holding[1].from.doc).keyed[k]
  IN [members |-> [n \in DOMAIN members |-> [value |-> members[n], from |-> holding[1].kind]],
      section |-> IF DOMAIN members # {} THEN {} ELSE IF holding = <<>> THEN {Default} ELSE {holding[1].kind}]

\* A keyed section member by member, the lower sources first; a section that resolves
\* empty has one origin, the highest-ranked source that writes it.
ResolveKeyed(k, sources) ==
  LET holding == SelectSeq(sources, LAMBDA s : k \in DOMAIN Supplied(s.from.doc).keyed)
      Layer(held, s) == LET members == Supplied(s.from.doc).keyed[k] IN
        [n \in DOMAIN held \union DOMAIN members |->
          IF n \in DOMAIN members THEN [value |-> members[n], from |-> s.kind] ELSE held[n]]
      members == FoldLeft(Layer, <<>>, Reverse(holding))
  IN [members |-> members,
      section |-> IF DOMAIN members # {} THEN {} ELSE IF holding = <<>> THEN {Default} ELSE {holding[1].kind}]

\* The resolution, or what it is refused for: a source, or a required setting nothing sets.
Resolve(i) ==
  LET sources == SourcesOf(i)
      refusals == SelectSeq([n \in DOMAIN sources |-> RefusalOf(sources[n])], LAMBDA r : r # <<>>)
      settings == [k \in Keys("setting") |-> ResolveSetting(k, sources)]
      missing == SelectSeq(KeyOrder, LAMBDA k : k \in Keys("setting") /\ settings[k].value = Unset)
      refusal == IF refusals # <<>> THEN refusals[1]
                 ELSE IF missing # <<>> THEN <<"missing", missing[1]>> ELSE <<>>
  IN IF refusal # <<>> THEN [refusal |-> refusal, settings |-> <<>>, keyed |-> <<>>]
     ELSE [refusal |-> <<>>, settings |-> settings,
           keyed |-> [k \in Keys("keyed") |-> ResolveKeyed(k, sources)]]
-----------------------------------------------------------------------------
\* The severity of an issue kind: the key of its code, then its family's, then its own,
\* none where it is off unless asked for.
EffectiveSeverity(kind, severity) ==
  CASE ~kind.live -> "allow"
    [] kind.code \in DOMAIN severity -> severity[kind.code]
    [] kind.family \in DOMAIN severity -> severity[kind.family]
    [] ~kind.enabled -> "allow"
    [] OTHER -> kind.severity
=============================================================================
