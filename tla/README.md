# A verification of big-brain

TLA+ models of `big-brain`, a Go library for composing language-model agents
into served, durable programs. Each module translates one part of the source;
TLC checks it on small instances, and TLAPS proves what matters most for all
values of the constants. `PROJECT.json` lists the components, the runs, the
source lines behind every definition, the hazards and the theorems.

    tlc -workers 2 -config EngineSafety.cfg MCEngine.tla     # check one run
    tlapm EngineProofs.tla                                   # check the proofs

## The system

A brain is a tree of **flows**. A request (OpenAI or Anthropic protocol), a
webhook call, a cron tick or a one-shot timer runs the tree once; agents in it
ask models and reply. Deferred work and crons ride on a durable **engine**
which keeps its queue in a `Store`.

| Component | Source | State | Operations | Talks to |
|---|---|---|---|---|
| Engine core | `pkg/engine/engine.go` | heap of pending runs, `wake` channel, flow table; in the Store: `runs/index`, `run/<id>`, `cancelled/<id>` | `New`/load, `Register`, `EnqueueID`, `Cancel`, `Run` (dispatcher and workers), `ack` | Store; the flows it executes, which call it back |
| Cron schedules | `pkg/engine/cron.go` | a self-rescheduling run `tick/...` | `Every`, `fire`, `parseCron`, `next` | engine core |
| Steps, retries, durable Sleep | `pkg/engine/step.go` | savepoints `step/`, `retry/`, `sleep/` of a run | `Step`, `Do`, `Sleep` | Store; unwinds the flow by a panic the engine catches |
| Stores | `pkg/engine/store.go` | a map, or one file for each key | `Get`, `Put` | the file system |
| Flow nodes and sequences | `internal/flow/flow.go`, `durable*.go`, `checkpoint.go`, `validate.go` | `State` threaded through a chain; checkpoints `flow/<run><path>`, `ver/<run><path>` | `Basic.run`, `seq.run`, `versionChanged`, `load`, `save`, `Validate` | agents, Store |
| Groups and fan-out | `internal/flow/groups.go`, `concurrent.go` | first error, first success, merged selections, queued commits | `All`, `One`, `Group`, `runAgents` | members, shared chat |
| Triggers | `internal/flow/trigger.go` | pending commits, trigger depth | `Every`, `Once`, `Webhook` nodes, `deferBody` | Serving's scheduler and webhook registry |
| Select and Respond | `internal/flow/select.go`, `notify.go`, `decorate.go` | selection, delivery marker `sent` | `Select`, `Respond`, `Notify` | client sink |
| Turn and streaming | `internal/agent/turn.go`, `stream.go`, `sink.go`, `reply.go`, `shared.go` | stream buffer, sink claim, replies | `Stream`, `Reply`, `pump`, `readAll` | model stream, client |
| Chat and tool rounds | `internal/agent/chat.go` and neighbours | the conversation, the round counter | `Ask`, `Resolve` | model, tool handlers |
| Serving | `internal/serve/*.go` | flow registry, webhook registry, once tombstones | `Serve`, `Run`, `Defer`, webhook calls | engine, flows |
| Models and tools | `pkg/model/*.go` | model registry, token tally | `Lookup`, `Add`, `Unresolved`, HTTP clients | providers |
| Wire formats, facade, telemetry, traces, demos | `internal/openai`, `internal/anthropic`, `pkg/bb`, `cmd` | none that decides anything | conversion, re-export, records | |

### What is hard about it

* The engine holds its mutex for the heap only; every Store call is made
  without it. So index writes of different goroutines interleave, the
  dispatcher decides under one lock and acts under another, and a crash can
  fall between any two writes.
* A run may unwind (Sleep, long backoff), be interrupted by shutdown, be
  cancelled while it executes, or re-arm itself under the ID that its worker
  is about to acknowledge.
* Members of a group run concurrently and cancel each other; work they would
  schedule must be committed for the accepted member alone.
* Tokens pass through four goroutines from the model to the client, any of
  which may end first.
* A resumed request walks the tree again, which may have changed since.
* A model, a client and the brain settle tool calls between them in rounds,
  in two wire formats on either side.

`PROJECT.json` lists each hazard at its line, with the properties that watch
it, or the reason why none does.

### What makes each component correct

* **Engine core**: a run is in one place at a time; an acknowledged run never
  executes again; a live run is always backed by its record; nothing starts
  before its Wake; no wakeup is lost; every enqueued run is executed to its end.
* **Cron**: the schedule outlives restarts, ticks advance, a cancelled schedule
  stops, no tick is missed.
* **Steps**: one result for each step, whatever crashes; a saved step is not
  executed again; a Sleep keeps its first deadline.
* **Flows**: the result of a group does not depend on completion order except
  where it should; only accepted branches schedule; each reply is delivered once.
* **Durability**: a resume reproduces the uninterrupted run, and never resumes
  into a changed structure.
* **Streaming**: what the client saw is what the chat records; every goroutine
  ends.
* **Serving**: a Once fires once and is never lost; what the startup walk
  accepts cannot fail for want of a model; a client that streams reads what one
  that does not is answered.
* **Tool rounds**: the model is asked with transcripts its provider takes; each
  call is run once, by the brain or by the client.

## Plan

In the order they were written; a module composes those it extends.

1. `Engine` — the engine core. `EngineProofs` — its theorems, and `Ticker`'s.
2. `Ticker` (extends `Engine`) — a cron schedule.
3. `FanOut` — `All`, `One`, `Group` and pending commits. `FanOutProofs`.
4. `Stream` — model stream, buffer, handler, tee, client. `StreamProofs`.
5. `Flows`, `Request` (extends `Flows`), `Transcript` — the tree a pass walks, its
   triggers, checkpoints, stages and retries; the promise a retry rests on.
   `RequestProofs`; `AnswerProofs` (extends it) — what is answered and streamed.
6. `Job` — `Step`, `Sleep` and the Once that schedules them. `JobProofs`.
7. `Wire`, `Tools` (extends `Wire`) — tool rounds, in both formats. `WireProofs`,
   `ToolsProofs`.

Left: the calendar of `cron.go` as functions; FileStore's file names; an abstract
choice of one winner that `One` implements; a group inside a durable chain; proofs
of what an answer tells where a Durable stands inside a flow.

## Modules

### Engine

State maps one to one: `pending` is `e.pending` as a bag of Run records, `wake`
the channel of capacity one, `index`, `record` and `tomb` the Store's keys,
`missing` the runs whose flow is not registered. Each goroutine has a program
counter `pc`, the call it is in (`op`), the Run that call is about (`arg`), the
index it has read (`snap`), and, for workers, the run it executes (`held`).
`dpc` and `next` are the dispatcher's. `used`, `listed`, `cancelled`,
`returned` and `settled` are history for the properties.

A step is one critical section, one Store call or one channel operation:
`EnqueueID` (the look for a pending ID), `AddIndexGet`, `AddIndexPut`,
`PersistRun`, `Insert`, `Nudge`; `Cancel`, `PutTombstone`, `AckGet`, `AckIndex`,
`AckRun`; `FlowReturns`, `FlowYields`, `FlowInterrupted`, `UnknownFlow` for
`exec`; `Peek`, `Woken`, `TimerFires`, `Claim`, `HandOff`, `DispatchDone` for
`dispatch`; `Shutdown`, `Exit`, `Crash`, `New` for the process. A flow is left
open: between its start and its end it may make any engine call. Any Store
call may fail, `MaxFaults` times.

A run ID is `Fresh` (minted by `Enqueue`, used once) or `Named` (chosen by the
caller). Most of the engine's guarantees hold for minted IDs only, and the
paragraph on gaps below says why.

Abstracted: the flow's input (a Run is its ID, Wake and Attempt), the heap's
array (any minimum may be its head), traces, and the order of the index.

### Ticker

The ticker's flow over the whole engine: every engine step is an action of
`Engine`, and `stage` and `cursor` say how far the flow's own code is. `Every`
arms at each boot, before `Run` starts; `Check` reads the tombstone, `Fire`
enqueues targets, `Rearm` enqueues the flow's own ID, `TickerEnds` lets `exec`
acknowledge it. A crontab spec is the set of `Minutes` it matches, and `NextTick`
looks through them for a `Year`; with none it answers with the instant a year out, as
`next` does (`cron.go:208`), so that `Ticks` is the matches and the instants parked
so. `armed`, `fired`, `stopped` and `late` are history. A flow that calls `Every` during
a request, beside the workers, is left out.

### FanOut

A tree of All, One and Group nodes over leaves, each node named by its index
path as in the source; `tree` is chosen at the start, so one run covers several
trees. `st` follows a member's goroutine: off, on, (said,) done or failed, and
settled once `fanOut` or `groupGroup.run` has taken its result under the lock.
`Start`, `Speak`, `Return`, `Defer`, `Fail` are a leaf's; `Settle` is the tail of
the goroutine (`firstErr.set`, One's first success, `selMerge.add`);
`GroupFails`, `GroupEnds`, `Accept`, `Commit`, `Committed` are what follows
`wg.Wait()`. What a context carries is computed from the path: `Cancelled`,
`SharedOf` (the nearest Group), `Pending` (the nearest member of a One).

Abstracted: a leaf replies once; a failing agent may fail at any point; messages
are the paths of their leaves. A webhook node inside a One registers at once,
winner or not (`trigger.go:161`), and is left out here.

### Stream

One turn's stream. Tokens are numbered; an answer is how many it has and how it
ends (cleanly, with a tool call, with an error). A variable or two stands for
each goroutine: `model` (the provider's, `pos` chunks read, `offer` the chunk it
sends), `monitor`, `pump`, `replay` (`at` is its `i`), `agent` (the handler and
`runOneAgent` around it), `tee`. `chunks`, `calls`, `closed`, `err` and `waiters`
are `streamBuf`'s fields; `blocked` are the readers in `<-w`. A channel is
unbuffered, so a send and its receive are one step (`ModelSends`, `PumpTakes`,
`RangeNext`, `Put`); `Push` and `Close` are the buffer's critical sections;
`TeeWrites` is separate from `Put` because another writer might come between.
`sink`, `schema` and `custom` choose the path: streamed, or drained first by
`CollectAll`; the default handler, or an author's which may `Abandons` or
`StopsEarly`. `Serve` is the server's own write after the run.

Abstracted: usage and the tally, a second claim of the sink (one agent at a time
holds it: `concurrent.go:30`, `groups.go:134`, `:214` strip it from all others;
`Request` has the claims of successive stages), and what tokens say.

### Flows, Request, Transcript

`Flows` holds what is fixed before anything runs: a flow is a record of its parts
(`New`, `WithId`, `then`, `Select`, `Durable`, … are the builders), and the
functions of its shape are recursive functions over `Flows`, a set closed under
parts: `isRespond`, `terminalSteps`, `structureSig`, `reachesRespond`, the model
ladder `resolveModel`, the startup walk `Validate`, the registry's `resolve`.

`Request` walks them. A pass (a request, a webhook call, a fired job, a boot
chain) keeps a `stack` of the flows it is inside, each frame with its `path`, its
position, whether it holds the sink, the checkpoint in force and the model in
scope; `st` is the `State` it threads. `ActivateDurable` is `versionChanged`,
`Load`, `Miss` and `Save` the checkpoint of a leaf, `Reply`, `Streams`,
`AgentFails`, `Collect`, `SelectConflict` the agents of a leaf (one inline, several
at once), `SeqStep` and `SelectEnter` and `RespondRuns` the nodes of those names,
`DeferBody`, `RegisterWebhook`, `DeferFails`, `NothingToDefer` a trigger, `Deploy`
`build`'s startup walk, `RunAtStartup`, `Serve`, `CallHook`, `FireJob` what begins a
pass, `Finish` what the client is sent, `Crash` the end of the process at any
point. A later `Deploy` may choose another binary; a client retries under the same
run id. A message is its leaf, its agent and how often the leaf was asked, so that
what is resumed and what is asked anew can be told apart.

`Transcript` is the promise in a few actions: what has been recorded under a run id is
recorded once, and an answer extends every record, until the structure changes or
a record is lost. `ImplementsTranscript` is `Request` under a refinement mapping
that keeps the checkpoints written under the present structure.

Abstracted: passes run one at a time (they share only what they keep under their
run id); a group is left to `FanOut`, a turn to `Stream`, the engine to `Engine`
(here it is the set of jobs yet to fire); a job's pass, and a webhook caller's
`X-Run-Id`, are run ids nothing is saved under. Transcript's promise is about a
flow durable as a whole.

### Job

One durable job from the inside. `script` is its flow: a sequence of calls of
`Step` and `Sleep`. `record`, `savepoint`, `retry`, `deadline` and `tombstone` are
its keys in the Store, `pending` the engine's heap (how many entries of the run wake
at each instant). The ID of a Once is the same each time it is scheduled, so the heap
may hold the run twice and several of the engine's `Workers` may execute it at once:
`pc`, `pos`, `attempt`, `until` and `seen` are functions of the worker.

`StepDup`, `StepCached`, `StepGetFails`, `StepRuns`, `FnOK`, `FnFails`, `Save`,
`PutRetry`, `Waited` are `Step` between two Store calls; `SleepGet`, `SleepPut` and
`Until` are `Sleep`, whose Get and Put another worker may come between; `Dispatch`,
`Settle`, `Requeue` and `Reinsert` the engine's `exec`. `DeferGet`, `DeferLook`,
`DeferPersist`, `DeferInsert`, `DeferPut` are `engineScheduler.Defer` of a Once and the
three parts of its `EnqueueID`, by the boot chain or by requests, which may overlap.
`New`, `Crash`, `Shutdown`, `Exit` are the process. A failing Put may have taken
effect (`MayPut`). `told`, `first`, `slept`, `failures` and `settled` are history, and
so are `raced` (two requests overlapped in Defer, or one was cut short) and `twice`
(the run was inserted while it was queued or executing).

Abstracted: the two writes of a persist and of an ack are one step, and so are the
dispatcher's claim and the worker that takes the run; `Engine` has them apart. A
claimed run is to `EnqueueID` what an executing one is, not pending, and a worker may
wait before the first call of its flow, so nothing is lost by the latter.

### Wire, Tools

`Wire` has tool interactions as neutral messages and in both formats: from the
client (`FromOpenAI`, `FromAnthropic`), to the model (`openaiMessages`,
`anthropicMessage`), the assembly of streamed calls (`Add`, `done`), and the events
of a response (`WriteStart`, `WriteDelta`, `WriteToolCalls`, `WriteStop`,
`WriteStreamError`), with a reader and a well-formedness check for each side.

`Tools` plays the rounds: `Send` decodes the client's transcript, `Ask` asks the
model, `Delta` is one piece of its answer, `Collected` what Ask returns, `Run`,
`Handle`, `Again`, `Exhausted`, `Cancelled` and `HandBack` are `Resolve`, `Receive`
is the client, which runs the calls it was handed and sends its transcript again.
`done` mints an id for an unnamed call in OpenAI's format only, as the adapters do;
`Unnamed` says which formats' providers may leave a call unnamed.
`Breaks` and `CutShort` are a model that fails and a client that leaves. A text is
whether anything was said, the arguments of a call are the pieces they come in.
The agent's handler is the documented one: Resolve, then Reply and Call.

## Runs

Every passing run ends with no error; the actions it never fires are those its
constants exclude, and another run fires them.

| Run | Question | Bounds |
|---|---|---|
| `EngineSafety` | One holder, no lost wakeup, nothing early, acknowledged runs stay finished, live runs have records | 2 minted runs, 1 client, 2 workers, 2 calls, 1 restart, 1 failing Store call, flows missing after a restart |
| `EngineOneWorker` | Durability and progress where nothing races | 1 worker, no client, 1 ticker, 1 seeded run, 1 restart |
| `Ticker` | The schedule stays alive, is queued once and fires no tick twice (`TickOnce`), executions that begin after a Cancel fire nothing | Catchup, a match at 1 and a tick parked at 3 (a year is 1), 1 client that cancels, 1 restart, 1 failing Store call |
| `FanOut` | Only accepted branches schedule, once (`TriggersOnce`); merging; winners; orphans; termination | 13 trees of 2 to 4 leaves and up to 3 levels, 2 selections, 1 failing Defer |
| `Stream` | Wakeups, what the client saw, whole answers, and the end of every goroutine upstream | answers of up to 2 tokens, every ending, every path, 1 client that may leave |
| `Request` | A streamed answer is the answer; validated flows find models and exits; a retry answers as recorded (`ImplementsTranscript`) and by its own flow; trigger depth; every pass ends | 2 served flows (one durable as a whole, one with concurrent agents under `Durable`), 4 boot chains, 4 binaries of which 2 fail to start, 2 clients, 2 passes, trigger depth 2, 1 crash or failure |
| `Job` | One result for each step, waits resumed, a Once fires once | 3 flows (a long backoff and a sleep; retry forever with a short one; two steps of one name), 2 requests or a boot chain, 2 workers, 3 instants after the first, 4 failures of a step, 2 crashes or shutdowns, 1 failing Store call; a run in two places is followed in one flow, through one setback and one failure (constraint `Followed`) |
| `Tools` | Legal transcripts, each call settled in one place, the client reads the reply | both formats on both sides, calls OpenAI's providers leave unnamed, 2 own tools and 1 forwarded, 6 answers of up to 2 parallel calls, 2 rounds, 3 asks, 3 requests, 2 failures or departures |

The bounds let each pair of writers meet at each pair of steps, a restart fall
between any two steps, and a run be claimed, yield and be claimed again. Two
minted runs suffice because the properties speak of one run, or of one run and
one that displaces it; a second worker or client is there to race. In `Request`
two passes are a request and its retry, or a boot chain's trigger and the body it
defers; one fault is a crash at any step of either, or any Store call that fails.
In `Job` two restarts let a run be cut twice; the instants are before, at and
after a deadline. Its constraint `Followed` cuts short what comes after the run has
been in two places, of which `StepOnce` and `WaitsResumed` say nothing; there two
workers go through one flow, for the types and for `OnceFires`. In `Tools` three
requests are a question, the client's results and a further question over the whole
transcript. CHECK_DEADLOCK is off where the counters that bound calls, passes,
restarts and time let the system stop. Symmetry is used in safety runs only.

These runs are expected to be violated; each is a finding, where the code does
not do what its comments say:

| Run | What TLC finds |
|---|---|
| `EngineIndexRace` | Two concurrent Enqueues read the same index, and the second write drops the first ID: a restart loses that run. |
| `TickerMissed` | `exec` acknowledges the ID under which the ticker has just re-armed, so the armed tick is not in the Store; a crash misses it for good. |
| `FanOutFailure` | In `One(a, b)`, `a` failing first cancels `b`, and One fails although `b` would have succeeded. |
| `StreamCutShort` | The client leaves; the model's goroutine closes its channel with no error chunk; the turn succeeds with a truncated reply, which a checkpoint would keep for the retry. |

Where a comment promises more than the code does, the properties above say
what does hold. Reading the code for the models showed these gaps, which no
run claims:

* `ack` drops the error of its `Get` (`engine.go:370`) and writes back an empty
  index, so one failing read loses every pending run at the next boot; hence
  `Durable` is checked without failures.
* A one-off run cancelled while it executes is queued again if it yields
  (`engine.go:311`, against `engine.go:185-186`).
* Two `EnqueueID` calls for one named ID may both insert it (`engine.go:138`);
  `NamedOnce` (in `TickOnce`) is checked where the ticker's flow and `Every` are
  the only callers. Two requests that reach one Once do it: two of the workers
  (`serve.go:40`) then execute one run, each finds no savepoint, runs the function and
  returns its own result (against `step.go:89-91`), and they overwrite a Sleep's first
  deadline (`step.go:192-204`). TLC finds the former in a few steps where `StepOnce` is
  stated without its guard. `StepOnce` and `WaitsResumed` speak of runs that have not been in
  two places (`twice`), and `OnceFires` says that only a race of requests, or one
  that was cut short, brings a run there.
* A named run cancelled and enqueued again for later, between the dispatcher's
  two looks at the heap, starts at once (`engine.go:278`); `NotEarly` is about
  minted IDs.
* A tick between `fire`'s last `e.now()` and the flow's own (`cron.go:64`) is
  skipped, Catchup or not; a Cancel during a firing does not stop the re-arm;
  one failing write in a firing ends the schedule until the next boot. Hence
  `TickerAlive` and `CancelledStops` speak of times when the Store answers, and
  of executions that begin after the Cancel.
* A Group nested in a Group replaces its shared chat and the outer one never
  sees its replies (`groups.go:130`, `:163`); a One nested in a Group leaves its
  losers' replies in the shared chat. `RepliesInOrder` is about trees with
  neither.
* When the client leaves, the tee may go before the handler has written all its
  tokens, and the default agent then waits in `out <- tok` (`flow.go:249`) for
  ever, and its request with it; `RequestEnds` therefore ends at the client's
  departure. A handler that stops ranging over `reply.Stream()` leaves the replay's
  goroutine behind (`stream.go:148`); `StreamDrains` says that the goroutines
  before the buffer end all the same.
* A member of All that fails leaves what other members have already scheduled
  (`groups.go:178-180` assumes that every contribution is kept).
* One series of a step's attempts ends with what ends the execution: `WaitsResumed`
  bounds failures by the retries times one more than the crashes, shutdowns, Store
  errors and acknowledgements, because a short backoff keeps its count in memory only.
* `versionChanged` writes the new signature before any leaf is saved under it
  (`durable.go:103-113`, against `docs/IMPLEMENTATION.md:110`): a pass that is cut
  between the two leaves the old leaves under the new signature, and a retry
  resumes into them. `Request`'s `sound` excludes runs so cut.
* A saved State loses `State.Req` (`flow.go:196`), and a deferred payload the
  request's unexported tools (`trigger.go:152-154`).
* A deferred body no longer has the model of the `WithModel` around its trigger,
  which the startup walk assumed (`validate.go:25-27`).
* `checkSelectAdjacency` does not see through wrappers, so that a selection may miss
  at run time (`UnknownSelect`).
* A stage whose last turn streamed is not flushed, so that the buffered replies of
  its earlier steps never reach a client that streams; nor do those of a Respond
  in a step whose sink was stripped (`message.go:5-9`). `StreamedAsAnswered` leaves
  such stages open (`mixed`). The proof found the second: `seq(seq(Respond), b)` marks
  an empty stage as delivered in a step that has no sink, b streams its reply, and a
  client that does not stream is answered with nothing. `StreamedAsAnswered` also
  needs flows durable as a whole or not at all: in `seq(P, Respond, Durable(A),
  Respond)` a retry replaces what was streamed before the Durable by the saved
  conversation (`durable.go:129`).
* The engine runs the first body registered under an id for every later trigger of
  that id (`serve/engine.go:38-56`); a webhook reached by a second request fails
  with `ErrDupWebhook`.
* Where a checkpoint's Get or Put fails the agents are asked again, and the answer
  of a retry need not be that of the first attempt.
* A Once fires twice, against "must fire exactly once, ever" (`serve/engine.go:64`),
  where a second request looks at the tombstone before the first has written it and
  enqueues after the first one's run has ended, and where a crash falls between a
  request's `EnqueueID` and its tombstone. `OnceFires` excludes just these (`raced`).
* A crontab spec that matches nothing within a year (29 February, mostly) is parked
  a year out (`cron.go:208`), and the ticker fires there though the spec does not
  match, against "treated as unreachable" (`cron.go:198-199`); `TickerTypeOK` allows it.
* `anthropicCallBuf.done` keeps the empty id of a call that has none
  (`anthropic.go:234-243`), where `callBuf.done` mints one "since every result must
  reference something" (`openai.go:244-245`). Two such calls share an id, and behind an
  OpenAI client the answer comes back with an empty `tool_call_id` and is no answer:
  with `Unnamed = {"openai", "anthropic"}` TLC finds `AsksAreLegal` violated. `Tools` is
  checked, and proved, for providers that name their calls in Anthropic's format, which
  has an id in every tool_use block (`AnthropicNames`).
* At the round cap the handlers of the last round have run and their results are
  dropped with `ErrMaxRounds` (`chat.go:263-265`).
* The adapters close their channel with no error when the context ends
  (`openai.go:100-128`, against `model.go:53-54`), so a cut Ask takes a truncated
  reply for a whole one; `SentAsAnswered` compares with the model only while the
  client is there.
* A text that an Anthropic client sends beside tool results is dropped
  (`anthropic/convert.go:24-26`, against its comment); a stream that fails is closed
  as if it had ended before the error event (`serve.go:341-347`).
* `Unresolved` tells calls by their id (`tool.go:300-302`); a provider that used an id
  again in a later round would have that call taken for answered. Ids are unique in
  `Tools`.

### Fairness

`FairSpec` assumes weak fairness of each goroutine's steps, of a flow's end, of
the dispatcher, of the clock, and of starting a process that is gone: goroutines
that can run are scheduled, flows return, and a service is restarted. Clients,
cancellations, shutdowns, crashes and Store failures owe nothing. Liveness is
checked in `EngineOneWorker` without symmetry.

`FanOut`'s `FairSpec` gives each node's steps weak fairness, and an agent's
return when its context is cancelled; an agent that waits for cancellation
owes nothing else.

`Stream`'s `FairSpec` schedules each goroutine and assumes that the provider's
stream yields or ends, and that a handler goes on; the client owes nothing.

`Request` has weak fairness of `Walk`, the steps of the goroutine a pass runs in;
clients, webhook callers, the engine's firing, deployments and crashes owe
nothing. `Job` and `Tools` are checked for safety only, and assume none.

## Proofs

`EngineProofs` proves, for any sets of IDs, clients and workers and any bounds,
under `ConstantsAssumption` only (disjoint sets, bounds in Nat):

* `TypeCorrect` — the type invariant, which is inductive with `ThreadsOK`, the
  relation between a thread's program counter and its registers.
* `RunHeldOnce` and `SettledStaysSettled` — from `HolderInv`. Neither is
  inductive alone: that a claimed run is not queued rests on no thread carrying
  it, that on an Enqueue using an unused ID, and that an acknowledged run is not
  reloaded rests on no thread being left to write its record. `DownInv` (a
  process that is gone holds nothing) lets the reload start from the Store.
* `WakeupReaches` — `NoLostWakeup` is inductive as it stands.
* `NeverEarly` — from `DueInv`: between the dispatcher's two looks a minted run
  can leave the heap but no other run with its ID can enter.
* `RecordsBackRuns` — from `RecordInv`, which adds the thread about to insert.
* `OneCallerLosesNothing` — `Durable`, for as long as no Store call fails, where
  only one thread calls the engine (`OneCaller`). Without that it is false: two
  callers that read the index and write it back lose an ID, which the run
  `EngineIndexRace` shows. `DurableInv` says what the one caller has read or
  written between two Store calls.

Of the ticker it proves, for any crontab, times and workers, under `TickerAssumption`
(a year is positive, and its last conjunct says that a ticker stored by an earlier
life was armed for a match):

* `EngineUnderTicker` — what is shown of the engine alone holds below the
  ticker: every step of the whole is an engine step or changes only what the
  engine's invariants do not speak of.
* `TicksFireOnce` — `TickOnce`, by a token. The ticker is in at most one of the
  heap, the dispatcher's hand and one thread (`TokenInv`); it gets into the heap by
  the thread that has it and out of it by the dispatcher (`ReadyInv`), and what was
  fired lies before what is armed (`FiredInv`), until a restart reads the Store back.
* `SchedulesLiveOn` — `TickerAlive`, from `AliveInv`: at every stage of the flow the
  token has a way back into the heap.
* `CancelledSchedulesStop` — `CancelledStops`, of executions that begin after a Cancel
  has returned, while the Store answers; from `TombInv`: the tombstone is there
  before Cancel returns, and whoever has passed the check for it is not late.
* `TicksAreMatches` — `TickerTypeOK`, whose telling part is that the target is fired
  only for an instant `next` answers with, a match or one parked a year out; from
  `TicksInv`, which says it of every tick in a record, the heap and a worker
  (`NextTickIs`).

`FanOutProofs` proves, for every tree that satisfies `FanOutAssumption` and
every set of ids:

* `NothingOutlivesItsGroup` — `NoOrphans`, inductive with the shape of the
  state: a group ends when its members have settled, and what is below a settled
  member settled before it (`AboveKid`).
* `WinnersStand` — from it: a member settles only while its group waits, so a
  failed One can no longer acquire a winner.
* `ConflictsSeen` — from `MergeInv`: selMerge's selection is some member's, every
  other is equal to it or the flag is up.
* `TriggersAreScheduledOnce` — `TriggersOnce`, from `TrigInv`: a call that is queued
  was reached inside that member and accepted by every One in between (`QueuedInv`,
  `KeptInv`), it is queued once (`OnceInv`), it leaves the outermost queue as it is
  scheduled (`SchedInv`), and a call that is never made leaves an error that reaches
  the root (`LostInv`, `BrokenInv`). The lemmas before it are about paths: which
  members a node is in, and that `Pending` is the innermost of them.
* `FanOutTypes` — `FanOutTypeOK`, by `ChatTypes`. What All merges is `FlattenSeq` of
  what its members added; `FlattenLays` says of it which entry of which sequence
  stands where, by induction over the sequences (a set of numbers that contains 0
  and every successor, `AllNumbers`), and `KidsAre` that the members of a group are
  numbered without a gap, for which `FanOutAssumption` has trees finite.
* `RepliesStayInOrder` — `RepliesInOrder`, from `ReplyInv`: a node outside every Group
  begins with the user's message alone (`GivenInv`); a Group's conversation holds
  what the leaves below it have said, once each (`SpokenInv`); who has returned a
  chat and who settled by an error (`TellInv`); and what such a node has returned
  is the reply of every leaf below it that the Ones in between took, in order
  (`ChatInv`, `Replies`). One returns its winner's chat, whose branch cannot
  change any more (`ToldKept`); All's members come one after another in the order
  of their numbers (`KidsBefore`); in a Group that ends well everybody has spoken
  (`AllBelowTold`).

`StreamProofs` proves, for answers of any length:

* `NoWakeIsMissed` — inductive once a registered reader is known to be blocked, and
  the replay never ahead of the buffer.
* `ClientSawTheReply` — `SeenIsReply`, from four parts: the chunks in flight
  continue the buffer (`Order`), the tokens in flight continue the text
  (`ReplayInv`), what the tee has recorded (`TeeInv`), and that what the client was
  shown is the text up to the token being written (`SeenInv`).

* `SuccessIsWhole` — `WholeAnswer`, from `WholeInv`: while nothing is cancelled each
  chunk the model has read is in one place (`Source`), so a buffer that is closed
  without an error holds the whole answer (`ClosedIsComplete`); the replay ends only
  there; and the turn's own context is cancelled only by the handler's return.
* `StreamTypes` — `StreamTypeOK`: that positions stay within the answer rests on the
  invariants above.

`JobProofs` proves, for every set of flows, threshold, horizon, bound, and any sets
of requests and workers, under `JobAssumption`:

* `TypeCorrect` — inductive with `LongBackoff`, without which the Wake of a yield
  need not be a time.
* `OneResult` — `StepOnce`, from `SavedFirst` (while the run has not been in two places,
  what was told is what is saved, and a step at work has nothing saved) and `OnePlace`
  (until then the heap has one entry, or one worker the run, or neither).
* `WaitsGoOn` — `WaitsResumed`. The deadline is its first one (`DeadlineKept`); that
  retries are bounded needs `Counted` (every failure is counted by the attempt at
  work, by the saved counter, or by a setback that ended an execution), which rests on
  `Entered` (a step that was entered is seen, so a second one of its name fails).
* `FiresOnce` — `OnceFires`, from `Backed` (a tombstone has a run behind it), `Roles`
  (the boot chain calls Defer before the workers start, requests after), `Calm`
  (without a race at most one request is between its look and its tombstone, and it
  inserts only where no run has been) and `OneLife`: without races and
  faults one run exists, and nobody is about to persist a second.

`RequestProofs` proves, for every set of flows and binaries that satisfies
`RequestAssumption` and `FlowsAssumption` (flows are as their builders make them),

* `Lineage` — `LineageBounded`: the depth that payloads, webhooks and contexts carry
  is the true number of ancestors, and bounded, at every point it is copied.
* `RequestTypes` — `RequestTypeOK`, from `TypeInv`, which says what each variable is
  made of: the frames of a stack are flows of the brain at paths, the innermost one
  is the flow the program counter says (`StandOK`, `AskOK`), and what the Store keeps
  is a State that a leaf left (`KeptOK`).
* `RecordsStay` — for the runs of clients, the part of `ImplementsTranscript` that is
  about records: every step of `Request` is a Record, Forget or Doubt of
  `Transcript`, an answer that may tell anything (`Told`), or a stutter. From
  `RecordInv`: the frames of a stack stand each inside the step of the next
  (`Pathed`), so that below a Durable that resumes nothing every record is behind
  the pass (`NotAhead`), and what is saved next is new; and below one that resumes, a
  leaf is asked only where nothing is saved, or the Get failed and `sound` is off.

and two about the startup walk, for flows that are built of flows made before them
(`BuiltUp`: `made` numbers them in the order their builders ran; the builders take
flows by value, so no flow is inside itself):

* `AskedBuild` — every agent that a request asks has a model that builds, in the
  scope it is asked in. The walk is a fixpoint, which its definition leaves open
  without an order; with one, `walk` of a flow is what it says of its parts
  (`WalkInto`), and the pass carries it down as the walk did (`Visited`).
* `StartupChecks` — `StartupChecksHold`, from `Selections`: what was selected when a
  chain comes to its next step is an exit of the leaf before it, or nothing. A
  leaf that is resumed has the exits it had when it was saved only where a
  redeployment keeps them (`KeepsExits`): an agent's exits are not in the structure's
  signature, which tells a leaf's id and number of agents
  (`durable_config.go:63-90`), so a redeployment that renames an exit resumes
  selections that no branch has. That is what the code does, and the hypothesis says
  what a deployment has to keep.

`AnswerProofs` proves three theorems, the first two about what an answer tells:

* `AnswersImplement` — `ImplementsTranscript`, the whole of it: an answer tells every
  step that is recorded for its run as it was recorded.
* `AnsweredBySelf` — `AnsweredByItself`: each message of an answer was said by a leaf
  of the flow that answers.

They need more of a brain than the others, because they are not true of every one.
TLC finds on a brain made for it: version 2 is `Durable(seq(c, b))`, and its signature
is written at the root before it crashes; version 1, rolled back to, is
`seq(Durable(a), b)`, whose Durable writes its own signature one place further down,
saves a's result there and crashes; version 2 again finds its signature as it left it
and resumes, at c's place, what a had said (`durable.go:103-113`, `:134`). A Durable
that a redeployment moves, adds or removes below another structure's records is in no
signature above it. So the hypotheses are, besides `BuiltUp`:

* `WellMade` — flows are as their builders make them: a wrapper wraps one flow, a chain
  has the id of its only step that has one (`flow.go`, `decorate.go`), the members of a
  Select have ids (`select.go`). It makes a signature tell the walk apart: two flows of
  one signature have the same leaves at the same places.
* `DurableAtRoot` — of every binary that passes the startup walk, a client is served a
  flow that is Durable as a whole with no Durable inside, or one without any; and boot
  chains hold none.
* `KeepsShape` — a flow that is declared `ForwardCompatible` keeps its structure. The
  guard is off for it (`durable.go:67`), and the code takes the author's word that the
  change is compatible (`durable_config.go:34-37`); here the word is the plainest one.

Everything else is as in the model: crashes, Store failures, other binaries in any
order, exits that a redeployment renames. `MCRequest` states the four of the runs'
brain as an assumption, which TLC evaluates, so they are not empty: its clients have a
flow that is compatible and one that is not, and its binaries differ in structure.

The argument is that a pass is determined between its leaves. A standing is the
frames of the stack, as signatures with their places, and the State; `Go` is the step
that a flow's code makes from a standing that is no leaf, and `Back` the return from
one. `TrailInv` says that for every run whose records are whole there are a set `T` of
standings, its end `z` and a flow `g` such that `T` begins where a pass of `g` does and
leads to `z`, by `Go` and by what is recorded of the leaves in between; that `z` goes on
from every recorded conversation and has its place behind it (`Past`); and that a
pass under way stands in `T`, in a flow of `g`'s signature. Where a pass resumes a leaf
it moves on inside `T`; where it asks one, no standing but `z` can be at a leaf without
a record, so it is at `z`, and the record it saves lengthens the trail (`FollowedSave`);
where a structure is new, the trail begins anew (`FollowedActivate`). A pass that ends
well has no frames left and stands in `T`; nothing leads on from there, so it is at
`z`. What an older structure left saved, and a pass now saves over, is found by no
other pass unless that one is cut, which `sound` excludes (`Resumable`). `WalkInv` is
what a pass is inside: the whole of what was asked for (`AtRoot`), or its quiet inside,
resumed and recorded alike throughout (`Within`). `SaidInv` is the trail's `SaidBy` for
the conversation at hand.

The third, under the same hypotheses and `UserAssumption` (what a client says is no
message of an agent's), is about what is streamed:

* `StreamedSame` — `StreamedAsAnswered`: a client that streams is sent messages of the
  conversation, in its order and each once, and in the end what a client that does not
  stream is answered.

Five invariants carry it (`StreamInv`). `ChatInv`, with `RepliesInv`: the conversation
begins with the client's message, and no message is in it twice, because a leaf's
messages are numbered by how often it was asked, and what is saved is no younger than
that (`Fits`); so a message has one place, and to have been sent is to have been sent
once. `SinkInv` is about who may hold the sink. `Held`: down the stack, a flow has the
sink only if the one below has it and stands at a terminal step or at a Respond.
`ClaimInv`: who has claimed the sink is before a Respond that has it too (`Pending`),
or was the last to speak where no Respond delivered anything (`Through`, `Last`), so
that no claim outlives its stage. `StageInv`: once a whole stage was delivered, another
Respond is to come or nothing is. `OutInv`: what was sent lies along the conversation
up to the mark (`Along`, an increasing map of places), is all of it unless `mixed`, and
is one message more when a turn has claimed the sink. A resumed leaf fits in because
its record goes on from the conversation at hand and has its mark (`LoadGoesOn`, from
the trail). `RepliedInv` is what is left of it when the reply has ended.

All boot chains share the run id "" (`serve/engine.go:103`) and start at the root's
path, so that two durable boot tasks would displace each other's records; hence what
`DurableAtRoot` says of them.

`WireProofs` is about the operators of `Wire`, for sequences of any length. The
prover's induction theorems cannot be used, so an induction is written as a set of
numbers that contains 0 and every successor (`Induction`, from `Least`), or of
sequences closed under Append (`SeqInduction`). What is recursive in `Wire` is
`Flatten`, and everything is stated by what it does to concatenations and single
entries (`FlattenConcat`, `ThroughConcat`).

* `ReadBack` — a client reads from a response the text, calls and end it was written
  from, in both formats.
* `ResponseWell`, `ErrorWell` — a response is well formed, and so is a stream that
  fails: the blocks that are open form a ledger, and each call's events are a walk
  from nothing open to nothing open (`Runs`).
* `UnresolvedIs` — the calls a transcript owes are those of its last message, if all
  others are answered.

`ToolsProofs` proves, for any tools, answers, formats and bounds, under
`ToolsAssumption` and the hypothesis `AnthropicNames` (without which they are
false, see the gaps above), from `ToolsInv`, whose parts are needed together: what a reply
holds (`Replied`, from how deltas fill the buffer, `Filling`), what a response is
written from (`Sending`), who has settled which call (`Settling`) and what the
client's transcript answers (`Talking`):

* `CallsSettledOnce` — `SettledOnce`: ids count up, so the calls of an answer at work
  are above every call that was settled before, but for those its own handlers have
  run; and what is handed back is the reply's calls alone because the transcript has
  answered all others.
* `ToolsTypes` — `ToolsTypeOK`.
* `ResponsesAsAnswered` — `SentAsAnswered`, by `Replied`, `Sending` and `WireProofs`.
* `AsksAreTaken` — `AsksAreLegal`, with `Conversing`: the conversation is a walk from
  nothing owed to nothing owed (`Settled`), and so is each thing that is added to
  it: a message that neither calls nor answers, and a message that calls with what
  answers it, in one message (`SettledBy`) or in several (`SettledSingly`).

Model-checked only: all liveness, which is beyond the provers, and `Transcript`'s
refinement for brains with a Durable inside a flow.

## Not modelled

The facade, telemetry, traces and the demonstration programs hold no state that
decides anything. Model providers, clients and the file system are external. Of
the components that are modelled in part, `PROJECT.json` names what is missing:
the calendar of crontab specs, FileStore's file names, HTTP itself, sampling
parameters, schemas and usage, groups inside a durable chain.
