---------------------------------- MODULE Job ----------------------------------
(***************************************************************************)
(* One durable job from the inside: the steps and sleeps of its flow       *)
(* (pkg/engine/step.go), with their savepoints, retry counters and         *)
(* deadlines, and the Once trigger that schedules it, at every boot or     *)
(* from requests (internal/serve/engine.go).  Its ID is the same each      *)
(* time, so a run that two requests schedule can be on two workers.  The   *)
(* process may crash or be shut down between any two steps and a Store     *)
(* call may fail.                                                          *)
(*                                                                         *)
(* The engine underneath is what Engine shows of it: a run that is         *)
(* persisted is in the heap again after a boot, with the Wake it last had, *)
(* and no longer once it has been acknowledged; the writes of a persist or *)
(* an ack, and dispatch's claim and the worker that takes it, are one step *)
(* here and apart there.                                                   *)
(***************************************************************************)
EXTENDS Integers, Sequences, FiniteSets

CONSTANTS
  Scripts,      \* the flows: each the calls of Step, Do and Sleep it makes, in order
  At,           \* the instant the Once is due
  Requests,     \* requests whose flow reaches the Once
  boot,         \* the boot chain, the other caller of Defer
  Workers,      \* of the engine
  Threshold,    \* retryYieldThreshold
  Horizon,      \* bound: the last instant; whatever is later is due then
  MaxFails,     \* bound: failures of the functions the steps run
  MaxRestarts,  \* bound: crashes and shutdowns
  MaxFaults,    \* bound: Store calls that return an error
  None          \* no record, savepoint, counter or deadline

Callers == Requests \cup {boot}
Time    == 0..Horizon
Names   == UNION {{s[i].name : i \in DOMAIN s} : s \in Scripts}

\* A call: of a Step or Do its Retries (-1: Forever) and Backoff, of a Sleep its d.
Call == [kind : {"step", "sleep"}, name : STRING, retries : Int, min : Nat, max : Nat, d : Nat]

ASSUME JobAssumption ==
  /\ Scripts \subseteq Seq(Call) /\ At \in Time
  /\ {Threshold, Horizon, MaxFails, MaxRestarts, MaxFaults} \subseteq Nat
  /\ boot \notin Requests /\ None \notin Int

VARIABLES
  script,     \* the flow of this brain
  chained,    \* whether its boot chain reaches the Once, or requests do
  (* the Store *)
  record,     \* the Wake of the persisted run
  savepoint,  \* step/<run>/<name>
  retry,      \* retry/<run>/<name>
  deadline,   \* sleep/<run>/<name>
  tombstone,  \* once-fired/<run> is there
  (* the process *)
  phase,      \* "down", "boot" (wireScheduler), "up" or "stopping"
  known,      \* the body has been registered
  pending,    \* the heap: how many entries of the run wake at each instant
  defer,      \* where each caller is in Defer
  (* each worker, in the run *)
  pc, pos, attempt,
  until,      \* the end of a backoff, the Wake of a yield, or what is to be saved
  seen,       \* the step names of this execution
  now,
  (* history *)
  told,       \* name -> the results Step has returned
  first,      \* name -> the deadline of the Sleep when it was first stored
  slept,      \* name -> when the Sleep first returned
  failures,   \* name -> how often the function has failed
  results,    \* how many results the functions have returned
  settled,    \* how often the run has been acknowledged
  raced,      \* two requests overlapped in Defer, or one was cut short there
  twice,      \* the run was put in the heap while it was there or executing
  (* the bounds' counters *)
  restarts, faults

brain   == <<script, chained>>
store   == <<record, savepoint, retry, deadline, tombstone>>
process == <<phase, known, pending, defer>>
worker  == <<pc, pos, attempt, until, seen>>
history == <<told, first, slept, failures, results, settled, raced, twice>>
vars    == <<brain, store, process, worker, now, history, restarts, faults>>

op(w)   == script[pos[w]]
name(w) == op(w).name

Places == {"idle", "at", "rest", "fn", "save", "count", "backoff", "yield", "insert", "failed"}

JobTypeOK ==
  /\ script \in Scripts /\ chained \in BOOLEAN
  /\ record \in Time \cup {None} /\ pending \in [Time -> Nat]
  /\ savepoint \in [Names -> Nat \cup {None}] /\ retry \in [Names -> Nat \cup {None}]
  /\ deadline \in [Names -> Time \cup {None}] /\ tombstone \in BOOLEAN
  /\ phase \in {"down", "boot", "up", "stopping"} /\ known \in BOOLEAN
  /\ defer \in [Callers -> {"idle", "get", "enqueue", "persist", "insert", "put"}]
  /\ pc \in [Workers -> Places] /\ pos \in [Workers -> 1..(Len(script) + 1)]
  /\ attempt \in [Workers -> Nat] /\ until \in [Workers -> Int] /\ seen \in [Workers -> SUBSET Names]
  /\ now \in Time
  /\ \A w \in Workers :
       /\ pc[w] \in {"fn", "save", "count", "backoff"} => pos[w] <= Len(script) /\ op(w).kind = "step"
       /\ pc[w] = "rest" => pos[w] <= Len(script) /\ op(w).kind = "sleep"
       /\ pc[w] \in {"rest", "yield", "insert"} => until[w] \in Time
       /\ pc[w] = "save" => until[w] \in Nat
  /\ told \in [Names -> SUBSET Nat] /\ first \in [Names -> Time \cup {None}]
  /\ slept \in [Names -> Time \cup {None}] /\ failures \in [Names -> Nat]
  /\ results \in Nat /\ settled \in Nat /\ raced \in BOOLEAN /\ twice \in BOOLEAN
  /\ restarts \in 0..MaxRestarts /\ faults \in 0..MaxFaults

-----------------------------------------------------------------------------
(* Time, and the Store. *)

Later(d) == IF now + d < Horizon THEN now + d ELSE Horizon

StoreOK    == UNCHANGED faults
StoreFails == faults < MaxFaults /\ faults' = faults + 1

\* Put: the value is replaced whole, or an error may leave either value.
Put(var, n, v)    == [var EXCEPT ![n] = v]
MayPut(var, n, v) == {var, Put(var, n, v)}

\* stepCfg.delay: min, doubled with each further attempt, up to max.
delay(c, tries) ==
  LET d == c.min * 2^(tries - 1)
  IN IF tries > 1 /\ d >= c.max THEN c.max ELSE d

Backoff(w) == delay(op(w), attempt[w] + 1)

\* insert and heap.Pop.
Insert(wake) == [pending EXCEPT ![wake] = @ + 1]
Empty        == \A t \in Time : pending[t] = 0
Due(t)       == pending[t] > 0 /\ t <= now /\ \A u \in Time : u < t => pending[u] = 0

Executing == {w \in Workers : pc[w] # "idle"}

-----------------------------------------------------------------------------
(* Defer of a Once: the tombstone, EnqueueID, the tombstone. *)

Deferring(c, from, to) == defer[c] = from /\ defer' = [defer EXCEPT ![c] = to]

\* The boot chain's error ends the process, its success starts the workers.
AfterDefer(c, ok) == phase' = IF c # boot THEN phase ELSE IF ok THEN "up" ELSE "stopping"

\* A request's flow comes to the trigger.
Reach(c) ==
  /\ c \in Requests /\ phase = "up" /\ ~chained
  /\ Deferring(c, "idle", "get")
  /\ UNCHANGED <<brain, store, phase, known, pending, worker, now, history, restarts, faults>>

\* Another request is between its look at the tombstone and its own.
Overlap(c) == \E o \in Requests \ {c} : defer[o] \in {"enqueue", "persist", "insert", "put"}

\* FAULT (OnceFires): the tombstone is written ahead of the run.
DeferGetPut(c) ==
  /\ known' = TRUE /\ StoreOK /\ tombstone' = TRUE
  /\ \/ tombstone /\ Deferring(c, "get", "idle") /\ AfterDefer(c, TRUE) /\ UNCHANGED raced
     \/ ~tombstone /\ Deferring(c, "get", "enqueue") /\ UNCHANGED phase /\ raced' = (raced \/ Overlap(c))
  /\ UNCHANGED <<brain, record, savepoint, retry, deadline, pending, worker, now, told, first,
                 slept, failures, results, settled, twice, restarts>>

\* The body is registered first; a tombstone ends the call.
DeferGet(c) ==
  /\ known' = TRUE
  /\ \/ tombstone /\ StoreOK /\ Deferring(c, "get", "idle") /\ AfterDefer(c, TRUE) /\ UNCHANGED raced
     \/ ~tombstone /\ StoreOK /\ Deferring(c, "get", "enqueue") /\ UNCHANGED phase
        /\ raced' = (raced \/ Overlap(c))
     \/ StoreFails /\ Deferring(c, "get", "idle") /\ AfterDefer(c, FALSE) /\ UNCHANGED raced
  /\ UNCHANGED <<brain, store, pending, worker, now, told, first, slept, failures, results,
                 settled, twice, restarts>>

\* EnqueueID: a run that is pending is left alone; one that is executing is not seen.
DeferLook(c) ==
  /\ Deferring(c, "enqueue", IF Empty THEN "persist" ELSE "put")
  /\ UNCHANGED <<brain, store, phase, known, pending, worker, now, history, restarts, faults>>

\* The look is over when the run is persisted, and this when it is inserted.
DeferPersist(c) ==
  /\ \/ StoreOK /\ Deferring(c, "persist", "insert") /\ record' = At /\ UNCHANGED <<phase, raced>>
     \/ StoreFails /\ Deferring(c, "persist", "idle") /\ record' \in {record, At}
        /\ AfterDefer(c, FALSE) /\ raced' = (raced \/ c # boot)
  /\ UNCHANGED <<brain, savepoint, retry, deadline, tombstone, known, pending, worker, now, told,
                 first, slept, failures, results, settled, twice, restarts>>

DeferInsert(c) ==
  /\ Deferring(c, "insert", "put") /\ pending' = Insert(At)
  /\ twice' = (twice \/ ~Empty \/ Executing # {})
  /\ UNCHANGED <<brain, store, phase, known, worker, now, told, first, slept, failures, results,
                 settled, raced, restarts, faults>>

DeferPut(c) ==
  /\ Deferring(c, "put", "idle")
  /\ \/ StoreOK /\ tombstone' = TRUE /\ AfterDefer(c, TRUE) /\ UNCHANGED raced
     \/ StoreFails /\ tombstone' \in {tombstone, TRUE} /\ AfterDefer(c, FALSE)
        /\ raced' = (raced \/ c # boot)
  /\ UNCHANGED <<brain, record, savepoint, retry, deadline, known, pending, worker, now, told,
                 first, slept, failures, results, settled, twice, restarts>>

-----------------------------------------------------------------------------
(* exec and invoke: the flow runs from its beginning; a yield is requeued. *)

Goes(w, to) == pc' = [pc EXCEPT ![w] = to]

\* What the execution knew is gone with it.
Free(w) ==
  /\ Goes(w, "idle") /\ pos' = [pos EXCEPT ![w] = 1] /\ attempt' = [attempt EXCEPT ![w] = 0]
  /\ until' = [until EXCEPT ![w] = 0] /\ seen' = [seen EXCEPT ![w] = {}]

\* The heap's first run is due: a worker takes it, whatever the others execute.
Dispatch(w, t) ==
  /\ phase = "up" /\ pc[w] = "idle" /\ Due(t)
  /\ pending' = [pending EXCEPT ![t] = @ - 1]
  /\ Goes(w, IF known THEN "at" ELSE "idle")
  /\ UNCHANGED <<brain, store, phase, known, defer, pos, attempt, until, seen, now, history, restarts, faults>>

\* The flow returned, with an error if pc is "failed".  A failure of a run the
\* shutdown has cancelled keeps its record; ack is otherwise best effort.
Settle(w) ==
  /\ pc[w] = "failed" \/ (pc[w] = "at" /\ pos[w] > Len(script))
  /\ Free(w)
  /\ \/ pc[w] = "failed" /\ phase = "stopping" /\ UNCHANGED <<record, settled, faults>>
     \/ ~(pc[w] = "failed" /\ phase = "stopping") /\ settled' = settled + 1
        /\ \/ StoreOK /\ record' = None
           \/ StoreFails /\ record' \in {record, None}
  /\ UNCHANGED <<brain, savepoint, retry, deadline, tombstone, process, now, told, first, slept,
                 failures, results, raced, twice, restarts>>

\* The worker is released: the run is persisted, or dropped if that fails,
Requeue(w) ==
  /\ pc[w] = "yield"
  /\ \/ StoreOK /\ record' = until[w] /\ Goes(w, "insert") /\ UNCHANGED <<pos, attempt, until, seen>>
     \/ StoreFails /\ record' \in {record, until[w]} /\ Free(w)
  /\ UNCHANGED <<brain, savepoint, retry, deadline, tombstone, process, now, history, restarts>>

\* and then waits in the heap.
Reinsert(w) ==
  /\ pc[w] = "insert" /\ Free(w) /\ pending' = Insert(until[w])
  /\ twice' = (twice \/ ~Empty \/ Executing # {w})
  /\ UNCHANGED <<brain, store, phase, known, defer, now, told, first, slept, failures, results,
                 settled, raced, restarts, faults>>

-----------------------------------------------------------------------------
(* Step and Do. *)

Calls(w, kind) == pc[w] = "at" /\ pos[w] <= Len(script) /\ op(w).kind = kind

\* The call returns v and the flow goes on.
Return(w, v) ==
  /\ told' = [told EXCEPT ![name(w)] = @ \cup {v}]
  /\ Goes(w, "at") /\ pos' = [pos EXCEPT ![w] = @ + 1] /\ UNCHANGED <<attempt, until>>

Fails(w) == Goes(w, "failed") /\ UNCHANGED <<pos, attempt, until>>

\* The name is used up.
Enters(w) ==
  /\ Calls(w, "step") /\ name(w) \notin seen[w]
  /\ seen' = [seen EXCEPT ![w] = @ \cup {name(w)}]

StepKept == UNCHANGED <<brain, record, deadline, tombstone, process, now, first, slept, settled,
                        raced, twice, restarts>>

\* ErrDupStep.
StepDup(w) ==
  /\ Calls(w, "step") /\ name(w) \in seen[w] /\ Fails(w)
  /\ StepKept /\ UNCHANGED <<savepoint, retry, seen, told, failures, results, faults>>

\* FAULT (JobTypeOK): the Get's ok is not looked at.
StepCachedOrNot(w) ==
  /\ Enters(w) /\ Return(w, savepoint[name(w)])
  /\ StepKept /\ UNCHANGED <<savepoint, retry, failures, results, faults>>

\* The savepoint answers a step that has been run.
StepCached(w) ==
  /\ Enters(w) /\ savepoint[name(w)] # None /\ Return(w, savepoint[name(w)])
  /\ StepKept /\ UNCHANGED <<savepoint, retry, failures, results, faults>>

StepGetFails(w) ==
  /\ Enters(w) /\ StoreFails /\ Fails(w)
  /\ StepKept /\ UNCHANGED <<savepoint, retry, told, failures, results>>

StartAttempt(w) == IF retry[name(w)] = None THEN 0 ELSE retry[name(w)]

Attempts(w, n) == attempt' = [attempt EXCEPT ![w] = n] /\ Goes(w, "fn") /\ UNCHANGED <<pos, until>>

\* FAULT (StepOnce): an error of the savepoint's Get is taken for a miss.
StepUnread(w) ==
  /\ Enters(w) /\ Attempts(w, StartAttempt(w))
  /\ \/ savepoint[name(w)] = None /\ StoreOK
     \/ StoreFails
  /\ StepKept /\ UNCHANGED <<savepoint, retry, told, failures, results>>

\* No savepoint: the attempts go on where a yield left them; an error of that Get
\* is ignored.  (One step: only a second worker in the run could write between the
\* two Gets, and then this one might as well have read both before or after it.)
StepRuns(w) ==
  /\ Enters(w) /\ savepoint[name(w)] = None
  /\ \/ StoreOK /\ Attempts(w, StartAttempt(w))
     \/ StoreFails /\ Attempts(w, 0)
  /\ StepKept /\ UNCHANGED <<savepoint, retry, told, failures, results>>

FnOK(w) ==
  /\ pc[w] = "fn" /\ Goes(w, "save")
  /\ results' = results + 1 /\ until' = [until EXCEPT ![w] = results']
  /\ StepKept /\ UNCHANGED <<savepoint, retry, pos, attempt, seen, told, failures, faults>>

\* The savepoint is written, and only then the result returned.
Save(w) ==
  /\ pc[w] = "save"
  /\ \/ StoreOK /\ savepoint' = Put(savepoint, name(w), until[w]) /\ Return(w, until[w])
     \/ StoreFails /\ savepoint' \in MayPut(savepoint, name(w), until[w]) /\ Fails(w) /\ UNCHANGED told
  /\ StepKept /\ UNCHANGED <<retry, seen, failures, results>>

Exhausted(w) == op(w).retries >= 0 /\ attempt[w] >= op(w).retries

FnFails(w) ==
  /\ pc[w] = "fn" /\ failures[name(w)] < MaxFails
  /\ failures' = [failures EXCEPT ![name(w)] = @ + 1]
  /\ UNCHANGED <<pos, attempt>>
  /\ \/ Exhausted(w) /\ Goes(w, "failed") /\ UNCHANGED until
     \/ ~Exhausted(w) /\ Backoff(w) >= Threshold /\ Goes(w, "count") /\ UNCHANGED until
     \/ ~Exhausted(w) /\ Backoff(w) < Threshold /\ Goes(w, "backoff")
        /\ until' = [until EXCEPT ![w] = Later(Backoff(w))]
  /\ StepKept /\ UNCHANGED <<savepoint, retry, seen, told, results, faults>>

\* A long backoff: the next attempt is recorded and the worker released.
PutRetry(w) ==
  /\ pc[w] = "count"
  /\ \/ StoreOK /\ retry' = Put(retry, name(w), attempt[w] + 1)
        /\ Goes(w, "yield") /\ until' = [until EXCEPT ![w] = Later(Backoff(w))]
     \/ StoreFails /\ retry' \in MayPut(retry, name(w), attempt[w] + 1)
        /\ Goes(w, "failed") /\ UNCHANGED until
  /\ StepKept /\ UNCHANGED <<pos, attempt, savepoint, seen, told, failures, results>>

\* A short one is waited out, unless the context is cancelled.
Waited(w) ==
  /\ pc[w] = "backoff"
  /\ \/ now >= until[w] /\ Attempts(w, attempt[w] + 1)
     \/ phase = "stopping" /\ Fails(w)
  /\ StepKept /\ UNCHANGED <<savepoint, retry, seen, told, failures, results, faults>>

-----------------------------------------------------------------------------
(* Sleep. *)

SleepKept == UNCHANGED <<brain, record, savepoint, retry, tombstone, process, attempt, seen, now,
                         told, failures, results, settled, raced, twice, restarts>>

\* now is before wake: the worker is released; else the flow goes on.
Until(w, wake) ==
  \/ /\ now < wake /\ Goes(w, "yield") /\ until' = [until EXCEPT ![w] = wake] /\ UNCHANGED <<pos, slept>>
  \/ /\ now >= wake /\ Goes(w, "at") /\ pos' = [pos EXCEPT ![w] = @ + 1] /\ UNCHANGED until
     /\ slept' = IF slept[name(w)] = None THEN Put(slept, name(w), now) ELSE slept

\* FAULT (WaitsResumed): each entry computes a deadline of its own.
SleepGetNone(w) ==
  /\ Calls(w, "sleep") /\ StoreOK /\ Goes(w, "rest")
  /\ until' = [until EXCEPT ![w] = Later(op(w).d)] /\ UNCHANGED <<deadline, first, slept, pos>>
  /\ SleepKept

\* A later entry reads the deadline; the first computes it,
SleepGet(w) ==
  /\ Calls(w, "sleep") /\ UNCHANGED <<deadline, first>>
  /\ \/ StoreOK /\ deadline[name(w)] # None /\ Until(w, deadline[name(w)])
     \/ StoreOK /\ deadline[name(w)] = None /\ Goes(w, "rest")
        /\ until' = [until EXCEPT ![w] = Later(op(w).d)] /\ UNCHANGED <<slept, pos>>
     \/ StoreFails /\ Fails(w) /\ UNCHANGED slept
  /\ SleepKept

FirstSeen(n, wake) == IF first[n] = None THEN Put(first, n, wake) ELSE first

\* and stores it.
SleepPut(w) ==
  /\ pc[w] = "rest"
  /\ \/ deadline' = Put(deadline, name(w), until[w]) /\ first' = FirstSeen(name(w), until[w])
        /\ \/ StoreOK /\ Until(w, until[w])
           \/ StoreFails /\ Fails(w) /\ UNCHANGED slept
     \/ StoreFails /\ Fails(w) /\ UNCHANGED <<deadline, first, slept>>
  /\ SleepKept

-----------------------------------------------------------------------------
(* The process. *)

Down == /\ phase' = "down" /\ known' = FALSE /\ pending' = [t \in Time |-> 0]
        /\ defer' = [c \in Callers |-> "idle"]
        /\ pc' = [w \in Workers |-> "idle"] /\ pos' = [w \in Workers |-> 1]
        /\ attempt' = [w \in Workers |-> 0] /\ until' = [w \in Workers |-> 0]
        /\ seen' = [w \in Workers |-> {}]

Cut == raced' = (raced \/ \E c \in Requests : defer[c] \in {"insert", "put"})

\* engine.New loads the run, and the boot chain comes to the trigger; a Get that
\* fails ends New or skips the run.
New ==
  /\ phase = "down"
  /\ \/ StoreOK /\ pending' = (IF record = None THEN pending ELSE Insert(record))
     \/ StoreFails /\ UNCHANGED pending
  /\ IF chained THEN phase' = "boot" /\ defer' = [defer EXCEPT ![boot] = "get"]
                ELSE phase' = "up" /\ UNCHANGED defer
  /\ UNCHANGED <<brain, store, known, worker, now, history, restarts>>

Crash ==
  /\ phase # "down" /\ restarts < MaxRestarts /\ restarts' = restarts + 1
  /\ Down /\ Cut
  /\ UNCHANGED <<brain, store, now, told, first, slept, failures, results, settled, twice, faults>>

\* The context is cancelled: no run is dispatched; Run waits for the workers.
Shutdown ==
  /\ phase = "up" /\ restarts < MaxRestarts /\ restarts' = restarts + 1
  /\ phase' = "stopping"
  /\ UNCHANGED <<brain, store, known, pending, defer, worker, now, history, faults>>

Exit ==
  /\ phase = "stopping" /\ Executing = {}
  /\ Down /\ Cut
  /\ UNCHANGED <<brain, store, now, told, first, slept, failures, results, settled, twice, restarts,
                 faults>>

Tick ==
  /\ now < Horizon /\ now' = now + 1
  /\ UNCHANGED <<brain, store, process, worker, history, restarts, faults>>

-----------------------------------------------------------------------------

Init ==
  /\ script \in Scripts /\ chained \in BOOLEAN
  /\ record = None /\ tombstone = FALSE
  /\ savepoint = [n \in Names |-> None] /\ retry = [n \in Names |-> None]
  /\ deadline = [n \in Names |-> None]
  /\ phase = "down" /\ known = FALSE /\ pending = [t \in Time |-> 0]
  /\ defer = [c \in Callers |-> "idle"]
  /\ pc = [w \in Workers |-> "idle"] /\ pos = [w \in Workers |-> 1]
  /\ attempt = [w \in Workers |-> 0] /\ until = [w \in Workers |-> 0]
  /\ seen = [w \in Workers |-> {}] /\ now = 0
  /\ told = [n \in Names |-> {}] /\ first = [n \in Names |-> None]
  /\ slept = [n \in Names |-> None] /\ failures = [n \in Names |-> 0]
  /\ results = 0 /\ settled = 0 /\ raced = FALSE /\ twice = FALSE /\ restarts = 0 /\ faults = 0

Deferred == \E c \in Callers :
  DeferGet(c) \/ DeferLook(c) \/ DeferPersist(c) \/ DeferInsert(c) \/ DeferPut(c)

Flow(w) ==
  \/ Save(w) \/ PutRetry(w) \/ Waited(w) \/ SleepGet(w) \/ SleepPut(w)
  \/ StepDup(w) \/ StepCached(w) \/ StepGetFails(w) \/ StepRuns(w) \/ FnOK(w) \/ FnFails(w)

Work == \E w \in Workers :
  (\E t \in Time : Dispatch(w, t)) \/ Settle(w) \/ Requeue(w) \/ Reinsert(w) \/ Flow(w)

Next == Deferred \/ Work \/ New \/ Crash \/ Shutdown \/ Exit \/ Tick \/ \E c \in Requests : Reach(c)

Spec == Init /\ [][Next]_vars

-----------------------------------------------------------------------------

\* A step has one result, whatever is crashed, retried and resumed: once a caller
\* has been told it, its function is not run again in this run's life, nor in a
\* second one under the same ID; unless the run was in two places at once.
StepOnce ==
  ~twice => \A n \in Names : Cardinality(told[n]) <= 1 /\ (told[n] # {} => savepoint[n] \in told[n])

\* The step that a flow reaches first under its name; a later one is ErrDupStep.
FirstOfName(i) ==
  /\ script[i].kind = "step"
  /\ \A j \in 1..(i - 1) : script[j].kind = "step" => script[j].name # script[i].name

\* What cost a step the attempts since its last yield: the process, a Store call or
\* the run ended.
Setbacks == restarts + faults + settled

\* A wait goes on across yields and restarts where it was: a Sleep has one deadline
\* and does not return before it, and a step makes no more attempts than its Retries
\* allow, but for those a setback repeats; unless the run was in two places at once.
WaitsResumed ==
  ~twice =>
    /\ \A n \in Names : /\ deadline[n] # None => deadline[n] = first[n]
                        /\ slept[n] # None => deadline[n] # None /\ deadline[n] <= slept[n]
    /\ \A i \in DOMAIN script : FirstOfName(i) /\ script[i].retries >= 0 =>
         failures[script[i].name] <= (script[i].retries + 1) * (Setbacks + 1)

\* A Once fires: behind its tombstone there is a run that has ended or is still
\* persisted.  It is never in two places, and fires once unless the Store fails: but
\* only if no two requests race to it, and none is cut by a crash or an error between
\* its EnqueueID and its tombstone (serve/engine.go:64).
OnceFires ==
  /\ tombstone => record # None \/ settled > 0
  /\ ~raced => ~twice
  /\ ~raced /\ faults = 0 => settled <= 1

=============================================================================
