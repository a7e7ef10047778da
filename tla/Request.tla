------------------------------- MODULE Request -------------------------------
(***************************************************************************)
(* A served brain walking its flows: the boot chains of bb.Trigger, the    *)
(* requests of its clients, the webhooks and the deferred bodies.  One     *)
(* such walk is a pass; it keeps a stack of the flows it is inside.  Leaf  *)
(* results are checkpointed under a run id, the process may crash between  *)
(* any two steps, any Store call may fail, and a later binary may hold     *)
(* other flows; a client retries under the same run id.                    *)
(*                                                                         *)
(* Passes are taken one at a time: they share only what they keep under    *)
(* their run id, and a run id belongs to one request.  The groups, an      *)
(* agent's turn and the job engine have modules of their own; here a group *)
(* is left out, a turn is its replies, and the engine is the set of jobs   *)
(* it has yet to fire.                                                     *)
(***************************************************************************)
EXTENDS Flows, Integers

CONSTANTS
  Binaries,         \* what may be deployed: name -> [entries, extra, boot]
  Wants,            \* run id -> the model its client asks for
  BootRun,          \* "", the run id of the boot chains
  Fresh,            \* a run id minted for one pass: nothing is found under it
  User,             \* the client's own message
  MaxTriggerDepth,  \* maxTriggerDepth
  MaxPasses,        \* bound: passes that are not boot chains; none left, none deployed
  MaxFaults         \* bound: crashes, and failures of Store calls, agents and sends

Clients == DOMAIN Wants
Runs    == Clients \cup {BootRun}

\* The values of a sequence.
Positions(s) == {s[i] : i \in DOMAIN s}

ASSUME RequestAssumption ==
  /\ None \in Specs /\ Default \in Specs
  /\ BootRun \notin Clients /\ Fresh \notin Runs
  /\ {MaxTriggerDepth, MaxPasses, MaxFaults} \subseteq Nat

\* The client's own message is no agent's.
ASSUME UserAssumption ==
  User \notin [leaf : {f.id : f \in {g \in Flows : g.kind = "basic"}}, agent : Nat, nth : Nat]

\* Flows holds what a pass may be inside of, and every flow is as built.
ASSUME FlowsAssumption ==
  /\ \A f \in Flows :
       /\ f.kids \in Seq(Flows) /\ f.agents \in Seq(Positions(f.agents)) /\ f.model \in Specs
       /\ f.kind = "decorated" => f.kids # <<>>
       /\ f.durable => f.kind \in {"basic", "decorated"}
       /\ f.kind = "seq" => \A i \in DOMAIN f.kids : seqOf(SubSeq(f.kids, i, Len(f.kids))) \in Flows
  /\ \A b \in DOMAIN Binaries :
       /\ Binaries[b].entries \in Seq(Positions(Binaries[b].entries))
       /\ Binaries[b].boot \in Seq(Positions(Binaries[b].boot))
       /\ \A r \in Clients : resolve(Binaries[b].entries, Binaries[b].extra, Wants[r]) \in Flows
       /\ \A i \in DOMAIN Binaries[b].boot : seqOf(Binaries[b].boot[i]) \in Flows

VARIABLES
  (* the Store *)
  ver,        \* <<run, path>> -> the signature last seen there
  saved,      \* <<run, path>> -> the State a leaf left there
  jobs,       \* deferred bodies the engine has yet to fire
  (* the process *)
  binary,     \* the binary that runs
  boot,       \* the boot chains yet to run
  registered, \* body id -> the flow the engine runs for it
  hooks,      \* endpoint -> its handler
  (* the pass *)
  pass,       \* its kind, run id, whether it streams, and its lineage
  stack,      \* the flows it is inside, the innermost first
  st,         \* the State it threads
  pc,         \* where it stands
  replies,    \* agent -> its contribution, as the agents of a leaf finish
  claimed,    \* whether a turn has claimed the sink
  out,        \* the messages the client has been sent
  (* history, for the properties only *)
  asks,       \* leaf -> how often its agents have answered
  current,    \* the keys of saved written under the present structure
  sound,      \* run -> no Store call failed, no change of structure was cut short
  answer,     \* run -> the conversation its last complete answer came from
  (* the bounds' counters *)
  passes, faults

store   == <<ver, saved, jobs>>
process == <<binary, boot, registered, hooks>>
walking == <<pass, stack, st, pc, replies, claimed, out>>
history == <<asks, current, sound, answer>>
bounds  == <<passes, faults>>
vars    == <<store, process, walking, history, bounds>>

NotYet == <<>>                               \* no answer, and no reply
Idle   == [kind |-> "none", run |-> Fresh, stream |-> FALSE, depth |-> 0, lineage |-> 0,
           over |-> FALSE, mixed |-> FALSE]

Top       == stack[1]
Running   == Binaries[binary]
Frame(f)  == [flow |-> f, path |-> <<>>, pos |-> 1, sink |-> FALSE, cp |-> "none", scope |-> None]
Key       == <<pass.run, Top.path>>
Durably   == pass.run # Fresh
Write(f, k, v) == [x \in DOMAIN f \cup {k} |-> IF x = k THEN v ELSE f[x]]
Under(k, path) == Len(path) <= Len(k[2]) /\ SubSeq(k[2], 1, Len(path)) = path

StoreOK     == UNCHANGED <<faults, sound>>
Fault       == faults < MaxFaults /\ faults' = faults + 1
\* A failing Store call of a durable leaf: its run's record is not whole.
StoreFails  == Fault /\ sound' = IF Durably THEN [sound EXCEPT ![pass.run] = FALSE] ELSE sound

RequestTypeOK ==
  /\ pc \in {"down", "boot", "idle", "run", "armed", "ask", "save", "done", "failed", "replied"}
  /\ pc \in {"run", "armed", "ask", "save"} <=> stack # <<>>
  /\ \A i \in DOMAIN stack : stack[i].flow \in Flows /\ stack[i].cp \in {"none", "live", "stale"}
  /\ \A i \in DOMAIN stack : i > 1 => stack[i].flow.kind = "seq"
  /\ pass.run \in Runs \cup {Fresh} /\ pass.depth \in 0..MaxTriggerDepth
  /\ st.sent \in -1..Len(st.chat) /\ st.seed \in 0..Len(st.chat)
  /\ current \subseteq DOMAIN saved
  /\ pc = "ask" => DOMAIN replies = DOMAIN Top.flow.agents
  /\ passes \in 0..MaxPasses /\ faults \in 0..MaxFaults

-----------------------------------------------------------------------------
(* A pass begins, goes on and ends. *)

NoState == [chat |-> <<>>, sel |-> None, seed |-> 0, sent |-> -1]

\* flow.Run: the delivery marks start afresh.
Begin(kind, f, run, stream, chat, depth, lineage) ==
  /\ pass' = [Idle EXCEPT !.kind = kind, !.run = run, !.stream = stream, !.depth = depth,
                          !.lineage = lineage]
  /\ stack' = <<[Frame(f) EXCEPT !.sink = stream]>>
  /\ st' = [NoState EXCEPT !.chat = chat, !.seed = Len(chat)]
  /\ pc' = "run"
  /\ UNCHANGED <<replies, claimed, out>>

\* The innermost flow ends with the State s; a chain around it steps on.
Return(s) ==
  /\ st' = s
  /\ IF Len(stack) = 1
       THEN stack' = <<>> /\ pc' = "done"
       ELSE stack' = <<[stack[2] EXCEPT !.pos = @ + 1]>> \o SubSeq(stack, 3, Len(stack)) /\ pc' = "run"
  /\ replies' = <<>>

\* The innermost flow hands over to a part of it.
Descend(frame) ==
  /\ stack' = <<frame>> \o Tail(stack)
  /\ pc' = "run"
  /\ UNCHANGED <<st, replies>>

\* An error unwinds the whole pass; over a change of structure it leaves the
\* results of two structures behind.
Cut == sound' = IF pass.over THEN [sound EXCEPT ![pass.run] = FALSE] ELSE sound
Fail ==
  /\ stack' = <<>> /\ pc' = "failed" /\ replies' = <<>>
  /\ Cut
  /\ UNCHANGED st

-----------------------------------------------------------------------------
(* Durable: the structure guard and the saved leaves. *)

\* The durable flow's own signature, or that of what the wrapper holds.
Signature(f) == structureSig[IF f.kind = "decorated" THEN f.kids[1] ELSE f]

\* The guard finds another structure, or cannot tell: nothing is resumed.
Stale ==
  /\ stack' = [stack EXCEPT ![1].cp = "stale"]
  /\ current' = {k \in current : ~(k[1] = pass.run /\ Under(k, Top.path))}
  /\ pass' = [pass EXCEPT !.over = @ \/ \E k \in DOMAIN saved : k[1] = pass.run /\ Under(k, Top.path)]

Live == stack' = [stack EXCEPT ![1].cp = "live"] /\ UNCHANGED <<current, pass>>

\* FAULT (AnsweredByItself): whatever is saved is resumed into.
ActivateUnguarded ==
  /\ pc = "run" /\ Top.flow.durable /\ Durably
  /\ pc' = "armed"
  /\ Live /\ StoreOK
  /\ UNCHANGED <<store, process, st, replies, claimed, out, asks, answer, passes>>

\* activateDurable and versionChanged, which writes the signature it sees.
ActivateDurable ==
  /\ pc = "run" /\ Top.flow.durable /\ Durably
  /\ pc' = "armed"
  /\ \/ Top.flow.compatible /\ Live /\ StoreOK /\ UNCHANGED ver
     \/ /\ ~Top.flow.compatible
        /\ \/ /\ Key \in DOMAIN ver /\ ver[Key] = Signature(Top.flow)
              /\ Live /\ StoreOK /\ UNCHANGED ver
           \/ /\ Key \in DOMAIN ver => ver[Key] # Signature(Top.flow)
              /\ Stale
              /\ \/ StoreOK /\ ver' = Write(ver, Key, Signature(Top.flow))
                 \/ StoreFails /\ UNCHANGED ver
           \/ Stale /\ StoreFails /\ UNCHANGED ver
  /\ UNCHANGED <<saved, jobs, process, st, replies, claimed, out, asks, answer, passes>>

Ready(kind) ==
  /\ pc \in {"run", "armed"} /\ Top.flow.kind = kind
  /\ pc = "run" => ~(Top.flow.durable /\ Durably)

\* A leaf whose result is saved returns it, in place of the State it was given.
Load ==
  /\ Ready("basic") /\ Top.cp = "live" /\ Key \in DOMAIN saved
  /\ Return(saved[Key])
  /\ UNCHANGED <<store, process, pass, claimed, out, history, bounds>>

\* Nothing to resume from, or no telling: the agents are asked.
Miss ==
  /\ Ready("basic")
  /\ \/ (Top.cp # "live" \/ Key \notin DOMAIN saved) /\ StoreOK
     \/ Top.cp = "live" /\ StoreFails
  /\ pc' = "ask"
  /\ replies' = [i \in DOMAIN Top.flow.agents |-> NotYet]
  /\ UNCHANGED <<store, process, pass, stack, st, claimed, out, asks, current, answer, passes>>

\* FAULT (ImplementsTranscript): the leaf is saved without what came before it.
SaveReplies ==
  /\ pc = "save" /\ StoreOK
  /\ IF Top.cp = "none" THEN UNCHANGED <<saved, current>>
       ELSE /\ saved' = Write(saved, Key, [st EXCEPT !.chat = SubSeq(@, Len(@), Len(@))])
            /\ current' = current \cup {Key}
  /\ Return(st)
  /\ UNCHANGED <<ver, jobs, process, pass, claimed, out, asks, answer, passes>>

Save ==
  /\ pc = "save"
  /\ \/ Top.cp = "none" /\ StoreOK /\ UNCHANGED <<saved, current>>
     \/ Top.cp # "none" /\ StoreOK /\ saved' = Write(saved, Key, st) /\ current' = current \cup {Key}
     \/ Top.cp # "none" /\ StoreFails /\ UNCHANGED <<saved, current>>
  /\ Return(st)
  /\ UNCHANGED <<ver, jobs, process, pass, claimed, out, asks, answer, passes>>

-----------------------------------------------------------------------------
(* A leaf's agents.  One runs inline and may stream; several run at once,   *)
(* with no sink, and their replies are taken in the order of declaration.   *)

Agents    == Top.flow.agents
Answered  == {i \in DOMAIN replies : replies[i] # NotYet}
AskedOf(i) == resolveModel(Agents[i], Top.flow.model, Top.scope)

\* A plain agent without a model that builds cannot but fail.
CanAnswer(i) == Agents[i].handler \/ AskedOf(i) \notin Broken \cup {None}

Said(i) == [leaf |-> Top.flow.id, agent |-> i, nth |-> asks[Top.flow.id] + 1]

\* The agent replies.  An OnMessage of the author's may also select one of the
\* exits it declares, and need not reply at all.
Reply(i, exit, silent) ==
  /\ pc = "ask" /\ i \in DOMAIN replies \ Answered /\ CanAnswer(i)
  /\ exit # None \/ silent => Agents[i].handler
  /\ replies' = [replies EXCEPT ![i] = [said |-> IF silent THEN <<>> ELSE <<Said(i)>>, sel |-> exit]]
  /\ UNCHANGED <<store, process, pass, stack, st, pc, claimed, out, history, bounds>>

\* The only agent of a terminal leaf claims the sink: the client has its reply
\* as it is made.
Streams(exit) ==
  /\ pc = "ask" /\ Top.sink /\ ~claimed /\ DOMAIN replies = {1} /\ Answered = {} /\ CanAnswer(1)
  /\ exit # None => Agents[1].handler
  /\ claimed' = TRUE
  /\ out' = Append(out, Said(1))
  /\ replies' = <<[said |-> <<Said(1)>>, sel |-> exit]>>
  /\ UNCHANGED <<store, process, pass, stack, st, pc, history, bounds>>

\* The first error cancels the agents still at work, and is the leaf's.
AgentFails(i) ==
  /\ pc = "ask" /\ i \in DOMAIN replies \ Answered
  /\ IF CanAnswer(i) THEN Fault ELSE UNCHANGED faults
  /\ Fail
  /\ UNCHANGED <<store, process, pass, claimed, out, asks, current, answer, passes>>

Spoken[n \in Nat] == IF n = 0 THEN <<>> ELSE Spoken[n - 1] \o replies[n].said
Selected == {replies[i].sel : i \in DOMAIN replies} \ {None}

\* Agents that select different members are an error.
SelectConflict ==
  /\ pc = "ask" /\ Answered = DOMAIN replies
  /\ \E a, b \in Selected : a # b
  /\ Fail
  /\ UNCHANGED <<store, process, pass, claimed, out, asks, current, answer, bounds>>

\* The replies join the conversation; an older selection is gone.
Collect ==
  /\ pc = "ask" /\ Answered = DOMAIN replies
  /\ \A a, b \in Selected : a = b
  /\ st' = [st EXCEPT !.chat = @ \o Spoken[Len(replies)],
                      !.sel = IF Selected = {} THEN None ELSE CHOOSE a \in Selected : TRUE]
  /\ asks' = [asks EXCEPT ![Top.flow.id] = @ + 1]
  /\ pc' = "save"
  /\ UNCHANGED <<store, process, pass, stack, replies, claimed, out, current, sound, answer, bounds>>

-----------------------------------------------------------------------------
(* The flows that hold others. *)

\* A wrapper contributes its model to what is inside, and its checkpoint.
EnterDecorated ==
  /\ Ready("decorated")
  /\ Descend([Top EXCEPT !.flow = Top.flow.kids[1],
                         !.scope = IF Top.flow.model = None THEN @ ELSE Top.flow.model])
  /\ UNCHANGED <<store, process, pass, claimed, out, history, bounds>>

SeqAt(kind) == Ready("seq") /\ Top.pos \in DOMAIN Top.flow.kids /\ (Top.flow.kids[Top.pos].kind = "trigger" <=> kind)

\* Only a terminal step, and a Respond, keep the client's sink.
SeqStep ==
  /\ SeqAt(FALSE)
  /\ LET f == Top.flow.kids[Top.pos]
         keeps == Top.pos \in terminalSteps(Top.flow.kids) \/ isRespond[f]
     IN stack' = <<[Top EXCEPT !.flow = f, !.path = Append(@, Top.pos), !.pos = 1,
                               !.sink = @ /\ keeps]>> \o stack
  /\ pc' = "run"
  /\ UNCHANGED <<store, process, pass, st, replies, claimed, out, history, bounds>>

SeqEnds ==
  /\ Ready("seq") /\ Top.pos > Len(Top.flow.kids)
  /\ Return(st)
  /\ UNCHANGED <<store, process, pass, claimed, out, history, bounds>>

\* Nobody selected: the conversation passes through.
SelectNone ==
  /\ Ready("select") /\ st.sel = None
  /\ Return(st)
  /\ UNCHANGED <<store, process, pass, claimed, out, history, bounds>>

\* FAULT (RequestTypeOK): the group is still there when its member ends.
SelectPushes ==
  /\ Ready("select")
  /\ \E i \in DOMAIN Top.flow.kids :
       /\ Top.flow.kids[i].id = st.sel
       /\ stack' = <<[Top EXCEPT !.flow = Top.flow.kids[i], !.path = Append(@, st.sel)]>> \o stack
  /\ st' = [st EXCEPT !.sel = None]
  /\ pc' = "run"
  /\ UNCHANGED <<store, process, pass, replies, claimed, out, history, bounds>>

\* The selection is spent on the first member of that id.
SelectEnter ==
  /\ Ready("select")
  /\ \E i \in DOMAIN Top.flow.kids :
       /\ Top.flow.kids[i].id = st.sel
       /\ \A j \in DOMAIN Top.flow.kids : Top.flow.kids[j].id = st.sel => i <= j
       /\ stack' = <<[Top EXCEPT !.flow = Top.flow.kids[i], !.path = Append(@, st.sel)]>> \o Tail(stack)
  /\ st' = [st EXCEPT !.sel = None]
  /\ pc' = "run"
  /\ UNCHANGED <<store, process, pass, replies, claimed, out, history, bounds>>

UnknownSelect ==
  /\ Ready("select") /\ st.sel \notin ids(Top.flow) \cup {None}
  /\ Fail
  /\ UNCHANGED <<store, process, pass, claimed, out, asks, current, answer, bounds>>

\* A send to the outside, which may fail.
NotifySends ==
  /\ Ready("notify")
  /\ \/ Return(st) /\ UNCHANGED <<faults, sound>>
     \/ st.chat # <<>> /\ Fault /\ Fail
  /\ UNCHANGED <<store, process, pass, claimed, out, asks, current, answer, passes>>

-----------------------------------------------------------------------------
(* Respond: a stage is delivered. *)

Stage == SubSeq(st.chat, (IF st.sent < 0 THEN st.seed ELSE st.sent) + 1, Len(st.chat))

\* What has not been streamed is written, and the next stage may stream.  With
\* no sink only the mark moves.  mixed: part of a stage never went out, or it had
\* no sink to go to.
RespondRuns ==
  /\ Ready("respond")
  /\ out' = IF Top.sink /\ ~claimed THEN out \o Stage ELSE out
  /\ claimed' = (claimed /\ ~Top.sink)
  /\ pass' = [pass EXCEPT !.mixed = @ \/ ~Top.sink \/ ~(Positions(Stage) \subseteq Positions(out'))]
  /\ Return([st EXCEPT !.sent = Len(st.chat)])
  /\ UNCHANGED <<store, process, history, bounds>>

-----------------------------------------------------------------------------
(* Triggers: the chain is split, what follows is deferred. *)

Rest == SubSeq(Top.flow.kids, Top.pos + 1, Len(Top.flow.kids))
Node == Top.flow.kids[Top.pos]

\* A trigger with no chain around it is a pass-through.
BareTrigger ==
  /\ Ready("trigger")
  /\ Return(st)
  /\ UNCHANGED <<store, process, pass, claimed, out, history, bounds>>

\* Nothing follows, or a job meets a webhook and has no registry at hand.
NothingToDefer ==
  /\ SeqAt(TRUE)
  /\ Rest = <<>> \/ (Node.endpoint # None /\ pass.kind = "job")
  /\ Return(st)
  /\ UNCHANGED <<store, process, pass, claimed, out, history, bounds>>

Splits == SeqAt(TRUE) /\ Rest # <<>> /\ (Node.endpoint = None \/ pass.kind # "job")

\* The body has no single id, the lineage is too deep, the endpoint is taken.
Refused ==
  \/ Node.endpoint = None /\ Len(idsOf(Rest)) # 1
  \/ pass.depth + 1 > MaxTriggerDepth
  \/ Node.endpoint \in DOMAIN hooks

\* The trigger is refused, or the engine's own Store calls fail.
DeferFails ==
  /\ Splits
  /\ IF Refused THEN UNCHANGED faults ELSE Node.endpoint = None /\ Fault
  /\ Fail
  /\ UNCHANGED <<store, process, pass, claimed, out, asks, current, answer, passes>>

\* FAULT (LineageBounded): the body's payload does not carry the depth.
DeferFlat ==
  /\ Splits /\ ~Refused /\ Node.endpoint = None
  /\ LET id == idsOf(Rest)[1]
     IN /\ jobs' = jobs \cup {[id |-> id, chat |-> st.chat, depth |-> 0, lineage |-> pass.lineage + 1]}
        /\ registered' = IF id \in DOMAIN registered THEN registered
                                                     ELSE Write(registered, id, seqOf(Rest))
  /\ Return(st)
  /\ UNCHANGED <<ver, saved, binary, boot, hooks, pass, claimed, out, history, bounds>>

\* deferBody: the first body of an id is the one the engine runs for that id.
DeferBody ==
  /\ Splits /\ ~Refused /\ Node.endpoint = None
  /\ LET id == idsOf(Rest)[1]
     IN /\ jobs' = jobs \cup {[id |-> id, chat |-> st.chat, depth |-> pass.depth + 1,
                               lineage |-> pass.lineage + 1]}
        /\ registered' = IF id \in DOMAIN registered THEN registered
                                                     ELSE Write(registered, id, seqOf(Rest))
  /\ Return(st)
  /\ UNCHANGED <<ver, saved, binary, boot, hooks, pass, claimed, out, history, bounds>>

\* The handler replays the conversation as it is now on every call.
RegisterWebhook ==
  /\ Splits /\ ~Refused /\ Node.endpoint # None
  /\ hooks' = Write(hooks, Node.endpoint,
                    [body |-> seqOf(Rest), chat |-> st.chat, depth |-> pass.depth + 1,
                     lineage |-> pass.lineage + 1,
                     reply |-> \E i \in DOMAIN Rest : reachesRespond[Rest[i]]])
  /\ Return(st)
  /\ UNCHANGED <<store, binary, boot, registered, pass, claimed, out, history, bounds>>

-----------------------------------------------------------------------------
(* The server. *)

Clear == /\ pass' = Idle /\ stack' = <<>> /\ st' = NoState
         /\ replies' = <<>> /\ claimed' = FALSE /\ out' = <<>>

\* build: every served flow is validated before anything runs.
Deploy(b) ==
  /\ pc = "down" /\ passes < MaxPasses
  /\ \A f \in Served(Binaries[b].entries, Binaries[b].extra) : Validate(f)
  /\ binary' = b /\ boot' = Binaries[b].boot /\ pc' = "boot"
  /\ UNCHANGED <<store, registered, hooks, pass, stack, st, replies, claimed, out, history, bounds>>

\* RunAtStartup, for the chains in the order they were made.
RunAtStartup ==
  /\ pc = "boot" /\ boot # <<>>
  /\ boot' = Tail(boot)
  /\ Begin("boot", seqOf(Head(boot)), BootRun, FALSE, <<>>, 0, 0)
  /\ UNCHANGED <<store, binary, registered, hooks, history, bounds>>

Booted ==
  /\ pc = "boot" /\ boot = <<>>
  /\ pc' = "idle"
  /\ UNCHANGED <<store, process, pass, stack, st, replies, claimed, out, history, bounds>>

NewPass == pc = "idle" /\ passes < MaxPasses /\ passes' = passes + 1

\* A client asks for the model its run id stands for.
Serve(r, stream) ==
  /\ NewPass
  /\ Begin("request", resolve(Running.entries, Running.extra, Wants[r]), r, stream, <<User>>, 0, 0)
  /\ UNCHANGED <<store, process, history, faults>>

\* POST /v1/hooks/{id}: answered when the body may reply, else accepted.
CallHook(e) ==
  /\ NewPass /\ e \in DOMAIN hooks
  /\ Begin(IF hooks[e].reply THEN "hook" ELSE "background", hooks[e].body, Fresh, FALSE,
           hooks[e].chat, hooks[e].depth, hooks[e].lineage)
  /\ UNCHANGED <<store, process, history, faults>>

\* The engine fires a body this process has a flow for.
FireJob(j) ==
  /\ NewPass /\ j \in jobs /\ j.id \in DOMAIN registered
  /\ jobs' = jobs \ {j}
  /\ Begin("job", registered[j.id], Fresh, FALSE, j.chat, j.depth, j.lineage)
  /\ UNCHANGED <<ver, saved, process, history, faults>>

\* State.Answer: what the Respond stages delivered, or the last message.
Answer(s) == CASE s.sent >= 0 -> SubSeq(s.chat, s.seed + 1, s.sent)
               [] s.sent < 0 /\ s.chat = <<>> -> <<>>
               [] OTHER -> <<s.chat[Len(s.chat)]>>

\* FAULT (StreamedAsAnswered): a stream nobody claimed gets the answer again.
FinishUnclaimed ==
  /\ pc = "done" /\ pc' = "replied"
  /\ out' = CASE pass.kind = "request" /\ pass.stream -> IF claimed THEN out ELSE out \o Answer(st)
              [] pass.kind \in {"request", "hook"} /\ ~pass.stream -> Answer(st)
              [] OTHER -> out
  /\ answer' = IF Durably THEN [answer EXCEPT ![pass.run] = st.chat] ELSE answer
  /\ UNCHANGED <<store, process, pass, stack, st, replies, claimed, asks, current, sound, bounds>>

\* The reply: whole, or the stages already written and, when nobody streamed
\* and no Respond ran, the buffered answer.
Finish ==
  /\ pc = "done" /\ pc' = "replied"
  /\ out' = CASE pass.kind = "request" /\ pass.stream ->
                   IF st.sent < 0 /\ ~claimed THEN out \o Answer(st) ELSE out
              [] pass.kind \in {"request", "hook"} /\ ~pass.stream -> Answer(st)
              [] OTHER -> out
  /\ answer' = IF Durably THEN [answer EXCEPT ![pass.run] = st.chat] ELSE answer
  /\ UNCHANGED <<store, process, pass, stack, st, replies, claimed, asks, current, sound, bounds>>


\* The handler returns; a boot chain that failed ends the process.
Ended ==
  /\ pc \in {"replied", "failed"}
  /\ pc' = CASE pass.kind # "boot" -> "idle"
             [] pc = "replied" /\ pass.kind = "boot" -> "boot"
             [] OTHER -> "down"
  /\ IF pc' = "down" THEN boot' = <<>> /\ registered' = <<>> /\ hooks' = <<>> ELSE UNCHANGED <<boot, registered, hooks>>
  /\ Clear
  /\ UNCHANGED <<store, binary, history, bounds>>

Crash ==
  /\ pc # "down" /\ Fault
  /\ pc' = "down" /\ boot' = <<>> /\ registered' = <<>> /\ hooks' = <<>>
  /\ Clear /\ Cut
  /\ UNCHANGED <<store, binary, asks, current, answer, passes>>

-----------------------------------------------------------------------------
Init ==
  /\ ver = <<>> /\ saved = <<>> /\ jobs = {}
  /\ binary = None /\ boot = <<>> /\ registered = <<>> /\ hooks = <<>>
  /\ pass = Idle /\ stack = <<>> /\ st = NoState /\ pc = "down"
  /\ replies = <<>> /\ claimed = FALSE /\ out = <<>>
  /\ asks = [l \in {f.id : f \in {g \in Flows : g.kind = "basic"}} |-> 0]
  /\ current = {} /\ sound = [r \in Runs |-> TRUE] /\ answer = [r \in Runs |-> NotYet]
  /\ passes = 0 /\ faults = 0

\* One step of the pass.
Walk ==
  \/ ActivateDurable \/ Load \/ Miss \/ Save
  \/ \E i \in DOMAIN replies :
       \/ AgentFails(i)
       \/ \E x \in Agents[i].exits \cup {None} :
            Streams(x) \/ \E silent \in BOOLEAN : Reply(i, x, silent)
  \/ SelectConflict \/ Collect
  \/ EnterDecorated \/ SeqStep \/ SeqEnds \/ SelectNone \/ SelectEnter \/ UnknownSelect
  \/ NotifySends \/ RespondRuns
  \/ BareTrigger \/ NothingToDefer \/ DeferFails \/ DeferBody \/ RegisterWebhook
  \/ RunAtStartup \/ Booted \/ Finish \/ Ended

Next ==
  \/ Walk
  \/ \E b \in DOMAIN Binaries : Deploy(b)
  \/ \E r \in Clients, stream \in BOOLEAN : Serve(r, stream)
  \/ \E e \in DOMAIN hooks : CallHook(e)
  \/ \E j \in jobs : FireJob(j)
  \/ Crash

\* The goroutine of a pass goes on; clients, deployments and crashes need not.
Spec == Init /\ [][Next]_vars /\ WF_vars(Walk)

-----------------------------------------------------------------------------
(* Properties. *)

\* Where m stands in the conversation.
At(m) == CHOOSE i \in DOMAIN st.chat : st.chat[i] = m

\* A streaming client is sent the messages of the conversation in order and
\* each once, and has in the end what a client that does not stream is
\* answered (JoinAssistantText, shared by Respond's flush and State.Answer).
\* Left open: a stage whose last turn streamed over buffered replies, or that
\* ended at a Respond the sink does not reach (mixed), and a run whose records
\* are not whole.  It needs flows that are Durable as a whole or not at all: in
\* seq(P, Respond, Durable(A), Respond) a retry puts the saved conversation for what
\* was said and streamed before it (durable.go:129).
StreamedAsAnswered ==
  pass.kind = "request" /\ pass.stream /\ sound[pass.run] =>
    /\ pc \in {"run", "done", "replied"} =>
         /\ Positions(out) \subseteq Positions(st.chat)
         /\ \A i, j \in DOMAIN out : i < j => At(out[i]) < At(out[j])
    /\ pc = "replied" /\ ~pass.mixed => out = Answer(st)

\* What the startup walk accepts, a request finds at run time: every agent it
\* asks resolves to a model that builds, though the walk passes the enclosing
\* model down the tree and the runtime carries it on the context; and an exit
\* declared before a bare Select is one of its members.
StartupChecksHold ==
  pass.kind = "request" =>
    /\ pc = "ask" => \A i \in DOMAIN replies : CanAnswer(i)
    /\ pc = "run" /\ Top.flow.kind = "select" /\ Len(stack) > 1
         /\ stack[2].pos > 1 /\ stack[2].flow.kids[stack[2].pos - 1].kind = "basic"
         /\ stack[2].flow.kids[stack[2].pos] = Top.flow
         => st.sel \in ids(Top.flow) \cup {None}

\* The leaves of a flow.
Leaves[f \in Flows] ==
  IF f.kind = "basic" THEN {f.id} ELSE UNION {Leaves[f.kids[i]] : i \in DOMAIN f.kids}

\* A retry is never resumed into a different tree: whatever was deployed in
\* between, each message of an answer was said by a leaf of the very flow that
\* answers (docs/IMPLEMENTATION.md:110 on the structure signature).  Left open: a
\* run whose records are not whole, and a deployment that moves a Durable to
\* another place of the tree: the signature is kept by place (durable.go:105),
\* and what was saved under one place is read back under another.
AnsweredByItself ==
  pass.kind = "request" /\ sound[pass.run] /\ pc = "done" =>
    \A i \in DOMAIN st.chat \ {1} :
      st.chat[i].leaf \in Leaves[resolve(Running.entries, Running.extra, Wants[pass.run])]

\* However triggers defer bodies that trigger again, through payloads, the
\* engine and webhooks, no body descends from more than MaxTriggerDepth others.
LineageBounded ==
  /\ pass.lineage <= MaxTriggerDepth
  /\ \A j \in jobs : j.lineage <= MaxTriggerDepth
  /\ \A e \in DOMAIN hooks : hooks[e].lineage <= MaxTriggerDepth

\* The durable promise to a client that retries (Transcript).
Promise == INSTANCE Transcript WITH
  log <- [r \in Runs |-> [k \in {c \in current : c[1] = r} |-> saved[k].chat]]

ImplementsTranscript == Promise!Spec

=============================================================================
