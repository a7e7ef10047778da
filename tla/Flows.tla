-------------------------------- MODULE Flows --------------------------------
(***************************************************************************)
(* The values of internal/flow that are fixed before anything runs: flows  *)
(* and their builders, what the runtime asks of a flow's shape (its id,    *)
(* its signature, its terminal steps, whether it may reach a Respond), the *)
(* model ladder, the startup validation of internal/flow/validate.go and   *)
(* the registry of internal/serve that picks the flow of a request.        *)
(*                                                                         *)
(* A flow is a record that holds its parts, so that a function of a flow's *)
(* shape is a recursive function over Flows, a set closed under parts.     *)
(* The fan-out groups have a module of their own (FanOut).                 *)
(***************************************************************************)
EXTENDS Naturals, Sequences

CONSTANTS
  Flows,    \* the flows that may run: the ones served, their parts, and rests
  Specs,    \* the model.Specs in use, None among them
  Default,  \* model.Default(): the first registered model, or None
  Broken,   \* the specs Build rejects (no name, a tag no model has)
  None      \* the empty id, the unset spec, and an absent value

Kinds == {"basic", "seq", "select", "respond", "notify", "trigger", "decorated"}

-----------------------------------------------------------------------------
(* Builders. *)

Flow(kind, kids) ==
  [kind |-> kind, kids |-> kids, name |-> None, id |-> None, agents |-> <<>>, model |-> None,
   durable |-> FALSE, compatible |-> FALSE, endpoint |-> None]

\* An agent: its model, whether it has an OnMessage, the ids it Selects.
Agent(spec, handler, exits) == [model |-> spec, handler |-> handler, exits |-> exits]

New(agents) == [Flow("basic", <<>>) EXCEPT !.agents = agents]

\* A Basic holds its own id and model; anything else is wrapped to get one.
Decorated(f) == IF f.kind \in {"basic", "decorated"}
                  THEN f ELSE [Flow("decorated", <<f>>) EXCEPT !.id = f.id]

WithId(f, id)          == [Decorated(f) EXCEPT !.name = id, !.id = id]
WithModel(f, spec)     == [Decorated(f) EXCEPT !.model = spec]
Durable(f, compatible) == [f EXCEPT !.durable = TRUE, !.compatible = compatible]

Respond           == Flow("respond", <<>>)
Notify            == Flow("notify", <<>>)
Every             == Flow("trigger", <<>>)   \* and Once: the schedule is the Scheduler's
Webhook(endpoint) == [Flow("trigger", <<>>) EXCEPT !.endpoint = endpoint]

idsOf(steps) == SelectSeq([i \in DOMAIN steps |-> steps[i].id], LAMBDA id : id # None)

seq(steps) == [Flow("seq", steps) EXCEPT
                 !.id = IF Len(idsOf(steps)) = 1 THEN idsOf(steps)[1] ELSE None]

then(a, b) == seq(IF a.kind = "seq" THEN Append(a.kids, b) ELSE <<a, b>>)

seqOf(rest) == IF Len(rest) = 1 THEN rest[1] ELSE seq(rest)

\* A member nobody can select is dropped.
Select(members) == Flow("select", SelectSeq(members, LAMBDA m : m.id # None))

-----------------------------------------------------------------------------
(* What the runtime asks of a flow's shape. *)

\* A Respond, seen through the wrappers WithId and WithModel make.
isRespond[f \in Flows] ==
  f.kind = "respond" \/ (f.kind = "decorated" /\ isRespond[f.kids[1]])

terminalSteps(steps) ==
  LET stages == {i \in DOMAIN steps : isRespond[steps[i]]}
  IN IF stages = {} THEN {Len(steps)} ELSE {i - 1 : i \in stages} \ {0}

\* The signature shows kinds, ids and numbers of agents; not models, nor what
\* an agent does, nor anything of a trigger.
structureSig[f \in Flows] ==
  CASE f.kind = "basic"     -> <<"basic", f.id, Len(f.agents)>>
    [] f.kind = "decorated" -> <<"dec", f.name, structureSig[f.kids[1]]>>
    [] f.kind = "trigger"   -> <<"">>
    [] OTHER -> <<f.kind, [i \in DOMAIN f.kids |-> structureSig[f.kids[i]]]>>

\* Whether some path through f may reach a Respond.
reachesRespond[f \in Flows] ==
  f.kind = "respond" \/ \E i \in DOMAIN f.kids : reachesRespond[f.kids[i]]

-----------------------------------------------------------------------------
(* The model ladder. *)

resolveModel(agent, flowModel, scope) ==
  LET ladder == SelectSeq(<<agent.model, flowModel, scope>>, LAMBDA s : s # None)
  IN IF ladder = <<>> THEN Default ELSE ladder[1]

-----------------------------------------------------------------------------
(* Validate: the startup walk. *)

\* An agent with an OnMessage may never ask; a plain one asks for sure.
validAgent(agent, flowModel, scope) ==
  LET spec == resolveModel(agent, flowModel, scope)
  IN IF spec = None THEN agent.handler ELSE spec \notin Broken

exits(f) == UNION {f.agents[i].exits : i \in DOMAIN f.agents}
ids(g)   == {g.kids[i].id : i \in DOMAIN g.kids}

\* FAULT (StartupChecksHold): no exit is looked for in the group after it.
checkNoSelect(a, b) == TRUE

\* Exits are looked for only where a bare Select follows a Basic.
checkSelectAdjacency(a, b) ==
  a.kind = "basic" /\ b.kind = "select" => exits(a) \subseteq ids(b)

walk[f \in Flows] == [scope \in Specs |->
  CASE f.kind = "basic" -> \A i \in DOMAIN f.agents : validAgent(f.agents[i], f.model, scope)
    [] f.kind = "decorated" -> walk[f.kids[1]][IF f.model = None THEN scope ELSE f.model]
    [] f.kind = "seq" ->
         \A i \in DOMAIN f.kids :
           /\ walk[f.kids[i]][scope]
           /\ i + 1 \in DOMAIN f.kids => checkSelectAdjacency(f.kids[i], f.kids[i + 1])
    [] f.kind = "select" -> \A i \in DOMAIN f.kids : walk[f.kids[i]][scope]
    [] OTHER -> TRUE]

Validate(f) == walk[f][None]

-----------------------------------------------------------------------------
(* The registry: entries in the order they were registered. *)

register(entries, f, name, rank) == Append(entries, [flow |-> f, name |-> name, rank |-> rank])
AddUnnamed(entries, f) == register(entries, f, None, 2)
AddDefault(entries, f) == register(entries, f, None, 3)
SetName(entries, i, name) == [entries EXCEPT ![i].name = name, ![i].rank = 1]

\* The entry with the property P that was registered last.
LastOf(entries, P(_)) ==
  CHOOSE i \in DOMAIN entries : P(entries[i]) /\ \A j \in DOMAIN entries : P(entries[j]) => j <= i

TopRank(entries, e) == \A i \in DOMAIN entries : entries[i].rank <= e.rank

\* resolveRegistry and resolve in one: the named flow a request's model asks
\* for, else the flow passed to Serve, else the last of the highest rank.
resolve(entries, extra, name) ==
  IF name # None /\ \E i \in DOMAIN entries : entries[i].name = name
    THEN entries[LastOf(entries, LAMBDA e : e.name = name)].flow
  ELSE IF extra # None THEN extra
  ELSE entries[LastOf(entries, LAMBDA e : TopRank(entries, e))].flow

Served(entries, extra) ==
  {entries[i].flow : i \in {j \in DOMAIN entries : entries[j].name # None}}
    \cup {resolve(entries, extra, None)}
=============================================================================
