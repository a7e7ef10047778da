------------------------------ MODULE MCRequest ------------------------------
(* A brain of two served flows, four boot chains, and four binaries of it.   *)
EXTENDS Request, FiniteSets, Functions, TLC

CONSTANTS a, a2, b, c, d, p, x, y, chat, pair,  \* flow ids
          m1, m2, m3,                       \* specs, and the names clients ask for
          e,                                \* a webhook endpoint
          r1, r2                            \* run ids

Plain(id)   == WithId(New(<<Agent(m1, FALSE, {})>>), id)
Router(id)  == WithId(New(<<Agent(m1, TRUE, {x, y})>>), id)

\* Routed to x or to a stage of its own at y, then a second stage.
Chat(id) ==
  Durable(WithId(seq(<<Router(id), Select(<<Plain(x), WithId(then(Plain(y), Respond), y)>>),
                       Respond, Plain(b), Respond, Notify>>), chat), FALSE)

\* Two agents at once under the wrapper's model; the adjacency check does not
\* see through the wrapper, so one may select astray.  Then a body is deferred.
Two  == WithId(New(<<Agent(None, FALSE, {}), Agent(None, TRUE, {x, y})>>), p)
Wrapped(spec) == WithModel(seq(<<Two>>), spec)
Pair ==
  Durable(WithId(seq(<<Wrapped(m2), Select(<<Plain(x)>>), Respond, Every, Plain(c)>>), pair), TRUE)

\* A trigger alone; agents that may select apart; a trigger behind a trigger,
\* both with bodies of the id d; a webhook that replies.
Alone  == <<Every>>
Apart  == <<WithId(New(<<Agent(m1, TRUE, {x}), Agent(m1, TRUE, {y})>>), p)>>
Nested == <<Every, New(<<Agent(m1, TRUE, {})>>), Every, Plain(d)>>
Hooked == <<Webhook(e), Plain(d), Respond, Every>>

\* An exit no member has; a model that does not build.
Astray  == Durable(WithId(seq(<<Router(a), Select(<<Plain(x)>>)>>), chat), FALSE)
Unbuilt == Wrapped(m3)

Binary(f, g) == [entries |-> SetName(AddUnnamed(AddUnnamed(<<>>, f), g), 2, m2), extra |-> None,
                 boot |-> <<Alone, Apart, Nested, Hooked>>]

\* The last two do not pass the startup walk.
MCBinaries == <<Binary(Chat(a), Pair), Binary(Chat(a2), Pair),
                Binary(Astray, Pair), Binary(Chat(a), Unbuilt)>>

RECURSIVE Parts(_)
Parts(f) == {f} \cup UNION {Parts(f.kids[i]) : i \in DOMAIN f.kids}

Rests(f) == {seqOf(SubSeq(f.kids, i, Len(f.kids))) : i \in {j \in DOMAIN f.kids : f.kind = "seq"}}

MCFlows ==
  LET whole == UNION {Served(n.entries, n.extra) \cup {seqOf(n.boot[i]) : i \in DOMAIN n.boot} : n \in Range(MCBinaries)}
      parts == UNION {Parts(f) : f \in whole}
  IN parts \cup UNION {Rests(f) : f \in parts}

MCWants == (r1 :> m1) @@ (r2 :> m2)

\* What RequestProofs and AnswerProofs assume of a brain, of this one.
ServedFlow(n, r) == resolve(Binaries[n].entries, Binaries[n].extra, Wants[r])
Deployable       == {n \in DOMAIN Binaries : \A f \in Served(Binaries[n].entries, Binaries[n].extra) : Validate(f)}
Quiet(f)         == \A g \in Parts(f) : ~g.durable

BuiltUp == \A f \in Flows : \A i \in DOMAIN f.kids : Cardinality(Parts(f.kids[i])) < Cardinality(Parts(f))

WellMade ==
  \A f \in Flows :
    /\ f.kind \in Kinds
    /\ f.kind = "decorated" => Len(f.kids) = 1 /\ f.id = IF f.name # None THEN f.name ELSE f.kids[1].id
    /\ f.kind = "seq" => f.id = seq(f.kids).id
    /\ f.kind \in {"select", "respond", "notify", "trigger"} => f.id = None
    /\ f.kind = "select" => \A i \in DOMAIN f.kids : f.kids[i].id # None
    /\ f.kind \in {"respond", "notify", "trigger"} => f.kids = <<>>

DurableAtRoot ==
  /\ \A n \in DOMAIN Binaries : \A i \in DOMAIN Binaries[n].boot : Quiet(seqOf(Binaries[n].boot[i]))
  /\ \A r \in Clients :
       \/ \A n \in Deployable : Quiet(ServedFlow(n, r))
       \/ \A n \in Deployable : /\ ServedFlow(n, r).durable
                               /\ \A i \in DOMAIN ServedFlow(n, r).kids : Quiet(ServedFlow(n, r).kids[i])

KeepsShape ==
  \A r \in Clients, n, o \in Deployable :
    ServedFlow(n, r).compatible => Signature(ServedFlow(n, r)) = Signature(ServedFlow(o, r))

ASSUME MCBrainAssumption == BuiltUp /\ WellMade /\ DurableAtRoot /\ KeepsShape
=============================================================================
