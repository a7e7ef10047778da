------------------------------- MODULE JobProofs -------------------------------
(***************************************************************************)
(* Proofs about Job, for every flow, every bound and any number of         *)
(* requests and workers: its type invariant; that a run is in one place    *)
(* unless requests race to schedule it; and that in a run that is, a step  *)
(* has one result, waits are resumed and a Once fires once.                *)
(***************************************************************************)
EXTENDS Job, FiniteSetTheorems, TLAPS

-----------------------------------------------------------------------------
(* The helpers. *)

LEMMA OpType ==
  ASSUME script \in Scripts, NEW w \in Workers, pos[w] \in 1..Len(script)
  PROVE  op(w) \in Call /\ name(w) \in Names
BY JobAssumption DEF op, name, Names

LEMMA LenType == script \in Scripts => Len(script) \in Nat
BY JobAssumption

LEMMA BackoffInt ==
  ASSUME script \in Scripts, NEW w \in Workers, pos[w] \in 1..Len(script), attempt[w] \in Nat
  PROVE  Backoff(w) \in Int
<1>1. op(w).min \in Int /\ op(w).max \in Int BY OpType DEF Call
<1>2. 2^attempt[w] \in Int OBVIOUS
<1>3. op(w).min * 2^attempt[w] \in Int BY <1>1, <1>2
<1> QED BY <1>1, <1>3 DEF Backoff, delay

LEMMA BackoffKept ==
  ASSUME NEW w \in Workers, script' = script, pos'[w] = pos[w], attempt'[w] = attempt[w]
  PROVE  Backoff(w)' = Backoff(w)
BY DEF Backoff, op, delay

LEMMA LaterType ==
  ASSUME now \in Time, NEW d \in Int
  PROVE  Later(d) \in Int /\ (d >= 0 => Later(d) \in Time)
BY JobAssumption DEF Later, Time

LEMMA Bounds ==
  /\ At \in Time /\ Time \subseteq Nat /\ 0 \in Time
  /\ Threshold \in Nat /\ MaxRestarts \in Nat /\ MaxFaults \in Nat /\ Horizon \in Nat
  /\ None \notin Int /\ boot \in Callers /\ boot \notin Requests /\ Callers = Requests \cup {boot}
BY JobAssumption DEF Time, Callers

-----------------------------------------------------------------------------
(* Types, part by part. *)

Stages == {"idle", "get", "enqueue", "persist", "insert", "put"}

Working(w) == pc[w] \in {"fn", "save", "count", "backoff"}

StoreType ==
  /\ record \in Time \cup {None} /\ tombstone \in BOOLEAN
  /\ savepoint \in [Names -> Nat \cup {None}] /\ retry \in [Names -> Nat \cup {None}]
  /\ deadline \in [Names -> Time \cup {None}]

ProcessType ==
  /\ phase \in {"down", "boot", "up", "stopping"} /\ known \in BOOLEAN
  /\ pending \in [Time -> Nat] /\ defer \in [Callers -> Stages]

BrainType == script \in Scripts /\ chained \in BOOLEAN /\ now \in Time

LocalsType ==
  /\ pc \in [Workers -> Places] /\ pos \in [Workers -> 1..(Len(script) + 1)]
  /\ attempt \in [Workers -> Nat] /\ until \in [Workers -> Int] /\ seen \in [Workers -> SUBSET Names]

\* What a worker is about; a long backoff is a nonnegative one.
WorkerType(w) ==
  /\ Working(w) => pos[w] <= Len(script) /\ op(w).kind = "step"
  /\ pc[w] = "rest" => pos[w] <= Len(script) /\ op(w).kind = "sleep"
  /\ pc[w] \in {"rest", "yield", "insert"} => until[w] \in Time
  /\ pc[w] = "save" => until[w] \in Nat
  /\ pc[w] = "count" => Backoff(w) >= Threshold

HistoryType ==
  /\ told \in [Names -> SUBSET Nat] /\ first \in [Names -> Time \cup {None}]
  /\ slept \in [Names -> Time \cup {None}] /\ failures \in [Names -> Nat]
  /\ results \in Nat /\ settled \in Nat /\ raced \in BOOLEAN /\ twice \in BOOLEAN
  /\ restarts \in 0..MaxRestarts /\ faults \in 0..MaxFaults

TypeInv == /\ StoreType /\ ProcessType /\ BrainType /\ LocalsType /\ HistoryType
           /\ \A w \in Workers : WorkerType(w)

LEMMA TypeInvTypes == TypeInv => JobTypeOK
BY DEF TypeInv, JobTypeOK, StoreType, ProcessType, BrainType, LocalsType, WorkerType, HistoryType, Working,
       Stages

LEMMA FaultsType ==
  ASSUME faults \in 0..MaxFaults, StoreOK \/ StoreFails
  PROVE  faults' \in 0..MaxFaults /\ faults \in Nat /\ faults' \in Nat /\ faults' >= faults
BY Bounds DEF StoreOK, StoreFails

LEMMA TypeInit == Init => TypeInv
<1> SUFFICES ASSUME Init PROVE TypeInv
  OBVIOUS
<1>1. StoreType    BY Bounds DEF Init, StoreType
<1>2. ProcessType  BY DEF Init, ProcessType, Stages
<1>3. BrainType  BY Bounds DEF Init, BrainType
<1>4. LocalsType
  <2>1. Len(script) \in Nat  BY LenType DEF Init
  <2>2. 1 \in 1..(Len(script) + 1)  BY <2>1
  <2>3. pc \in [Workers -> Places] /\ seen \in [Workers -> SUBSET Names]  BY DEF Init, Places
  <2>4. attempt \in [Workers -> Nat] /\ until \in [Workers -> Int]  BY DEF Init
  <2>5. pos \in [Workers -> 1..(Len(script) + 1)]  BY <2>2 DEF Init
  <2> QED BY <2>3, <2>4, <2>5 DEF LocalsType
<1>5. HistoryType
  <2>1. told \in [Names -> SUBSET Nat]  BY DEF Init
  <2>2. restarts \in 0..MaxRestarts /\ faults \in 0..MaxFaults  BY Bounds DEF Init
  <2>3. first \in [Names -> Time \cup {None}] /\ slept \in [Names -> Time \cup {None}]
        /\ failures \in [Names -> Nat]
    BY DEF Init
  <2>4. results \in Nat /\ settled \in Nat /\ raced \in BOOLEAN /\ twice \in BOOLEAN  BY DEF Init
  <2> QED BY <2>1, <2>2, <2>3, <2>4 DEF HistoryType
<1>6. \A w \in Workers : WorkerType(w)  BY DEF Init, WorkerType, Working
<1> QED BY <1>1, <1>2, <1>3, <1>4, <1>5, <1>6 DEF TypeInv

\* The worker w moves, the others do not.
Kept(w) == /\ pc'[w] = pc[w] /\ pos'[w] = pos[w] /\ attempt'[w] = attempt[w] /\ until'[w] = until[w]
           /\ seen'[w] = seen[w]

Moves(w) == \A u \in Workers \ {w} : Kept(u)

\* A worker that does not move keeps its types.
LEMMA WorkerKept ==
  ASSUME NEW w \in Workers, WorkerType(w), script' = script, Kept(w)
  PROVE  WorkerType(w)'
BY BackoffKept DEF WorkerType, Kept, Working, op

LEMMA AllKept ==
  ASSUME TypeInv, UNCHANGED <<brain, worker>>, now' \in Time
  PROVE  BrainType' /\ LocalsType' /\ \A w \in Workers : WorkerType(w)'
<1>1. BrainType' /\ LocalsType'  BY DEF TypeInv, BrainType, LocalsType, brain, worker
<1>2. ASSUME NEW w \in Workers PROVE WorkerType(w)'
  BY <1>2, WorkerKept DEF TypeInv, Kept, brain, worker
<1> QED BY <1>1, <1>2

DeferStep(c) == DeferGet(c) \/ DeferLook(c) \/ DeferPersist(c) \/ DeferInsert(c) \/ DeferPut(c)

LEMMA TypeDeferred == ASSUME TypeInv, NEW c \in Callers, Reach(c) \/ DeferStep(c) PROVE TypeInv'
<1> USE DEF TypeInv, DeferStep
<1>w. BrainType' /\ LocalsType' /\ \A w \in Workers : WorkerType(w)'
  <2>1. UNCHANGED <<brain, worker, now>>
    BY DEF Reach, DeferGet, DeferLook, DeferPersist, DeferInsert, DeferPut
  <2> QED BY <2>1, AllKept DEF BrainType
<1>h. HistoryType'
  <2>1. faults' \in 0..MaxFaults
    BY FaultsType DEF HistoryType, Reach, DeferGet, DeferLook, DeferPersist, DeferInsert, DeferPut, StoreOK
  <2>2. raced' \in {raced, raced \/ Overlap(c), raced \/ c # boot}
        /\ twice' \in {twice, twice \/ ~Empty \/ Executing # {}}
    BY DEF history, Reach, DeferGet, DeferLook, DeferPersist, DeferInsert, DeferPut
  <2>3. raced' \in BOOLEAN /\ twice' \in BOOLEAN
    <3>1. raced \in BOOLEAN /\ twice \in BOOLEAN  BY DEF HistoryType
    <3> QED BY <2>2, <3>1, Zenon
  <2>4. UNCHANGED <<told, first, slept, failures, results, settled, restarts>>
    BY DEF history, Reach, DeferGet, DeferLook, DeferPersist, DeferInsert, DeferPut
  <2> QED BY <2>1, <2>3, <2>4 DEF HistoryType
<1>d. defer' \in [Callers -> Stages]
  BY DEF ProcessType, Stages, Reach, DeferGet, DeferLook, DeferPersist, DeferInsert, DeferPut, Deferring
<1>p. pending' \in [Time -> Nat]
  <2>1. Insert(At) \in [Time -> Nat]  BY Bounds DEF ProcessType, Insert
  <2> QED BY <2>1 DEF ProcessType, Reach, DeferGet, DeferLook, DeferPersist, DeferInsert, DeferPut
<1>f. phase' \in {"down", "boot", "up", "stopping"} /\ known' \in BOOLEAN
  BY DEF ProcessType, Reach, DeferGet, DeferLook, DeferPersist, DeferInsert, DeferPut, AfterDefer
<1>s. StoreType'
  <2>1. UNCHANGED <<savepoint, retry, deadline>> /\ tombstone' \in {tombstone, TRUE} /\ record' \in {record, At}
    BY DEF store, Reach, DeferGet, DeferLook, DeferPersist, DeferInsert, DeferPut
  <2> QED BY <2>1, Bounds DEF StoreType
<1> QED BY <1>w, <1>h, <1>d, <1>p, <1>f, <1>s DEF ProcessType

LEMMA TypeProcess == ASSUME TypeInv, New \/ Crash \/ Shutdown \/ Exit \/ Tick PROVE TypeInv'
<1> USE DEF TypeInv
<1>1. StoreType'
  BY DEF StoreType, store, New, Crash, Shutdown, Exit, Tick
<1>2. ProcessType'
  <2>1. CASE New  BY <2>1, Bounds DEF ProcessType, StoreType, Insert, New, Stages
  <2>2. CASE Crash \/ Exit  BY <2>2, Bounds DEF ProcessType, Crash, Exit, Down, Stages
  <2>3. CASE Shutdown \/ Tick  BY <2>3 DEF ProcessType, process, Shutdown, Tick
  <2> QED BY <2>1, <2>2, <2>3
<1>3. BrainType' /\ LocalsType' /\ \A w \in Workers : WorkerType(w)'
  <2>1. now' \in Time
    BY JobAssumption DEF BrainType, Time, New, Crash, Shutdown, Exit, Tick
  <2>2. CASE New \/ Shutdown \/ Tick
    <3>1. UNCHANGED <<brain, worker>>  BY <2>2 DEF New, Shutdown, Tick
    <3> QED BY <2>1, <3>1, AllKept
  <2>3. CASE Crash \/ Exit
    <3>1. Down /\ UNCHANGED <<script, chained>>  BY <2>3 DEF Crash, Exit, brain
    <3>2. BrainType'  BY <2>1, <3>1 DEF BrainType
    <3>3. 1 \in 1..(Len(script) + 1)  BY LenType DEF BrainType
    <3>4. LocalsType'  BY <3>1, <3>3 DEF LocalsType, Down, Places
    <3>5. \A w \in Workers : WorkerType(w)'  BY <3>1 DEF WorkerType, Working, Down
    <3> QED BY <3>2, <3>4, <3>5
  <2> QED BY <2>2, <2>3
<1>4. HistoryType'
  <2>1. faults' \in 0..MaxFaults
    BY FaultsType DEF HistoryType, New, Crash, Shutdown, Exit, Tick, StoreOK
  <2>2. raced' = raced \/ Cut  BY DEF history, New, Crash, Shutdown, Exit, Tick
  <2>3. raced' \in BOOLEAN  BY <2>2, Zenon DEF HistoryType, Cut
  <2>4. restarts' \in 0..MaxRestarts
    BY Bounds DEF HistoryType, New, Crash, Shutdown, Exit, Tick
  <2>5. UNCHANGED <<told, first, slept, failures, results, settled, twice>>
    BY DEF history, New, Crash, Shutdown, Exit, Tick
  <2> QED BY <2>1, <2>3, <2>4, <2>5 DEF HistoryType
<1> QED BY <1>1, <1>2, <1>3, <1>4

\* A step of the worker w: the others stay as they are.
Apart(w) == Moves(w) /\ UNCHANGED <<script, chained, now>>

LEMMA OthersKept ==
  ASSUME TypeInv, NEW w \in Workers, Apart(w), LocalsType', WorkerType(w)'
  PROVE  BrainType' /\ LocalsType' /\ \A u \in Workers : WorkerType(u)'
<1>1. ASSUME NEW u \in Workers \ {w} PROVE WorkerType(u)'
  BY <1>1, WorkerKept DEF TypeInv, Apart, Moves
<1> QED BY <1>1 DEF TypeInv, Apart, BrainType

RunStep(w) == (\E t \in Time : Dispatch(w, t)) \/ Settle(w) \/ Requeue(w) \/ Reinsert(w)

LEMMA RunApart ==
  ASSUME LocalsType, NEW w \in Workers, RunStep(w)
  PROVE  Apart(w)
BY DEF LocalsType, RunStep, Apart, Moves, Kept, brain, Dispatch, Settle, Requeue, Reinsert, Goes, Free

LEMMA FreeType ==
  ASSUME LocalsType, script' = script, Len(script) \in Nat, NEW w \in Workers, Free(w)
  PROVE  LocalsType' /\ WorkerType(w)'
<1>1. 1 \in 1..(Len(script) + 1)  OBVIOUS
<1>2. LocalsType'  BY <1>1 DEF LocalsType, Free, Goes, Places
<1>3. pc'[w] = "idle"  BY DEF LocalsType, Free, Goes
<1> QED BY <1>2, <1>3 DEF WorkerType, Working

LEMMA TypeRun ==
  ASSUME TypeInv, NEW w \in Workers, RunStep(w)
  PROVE  TypeInv'
<1> USE DEF TypeInv, RunStep
<1>0. Apart(w) /\ Len(script) \in Nat
  BY RunApart, LenType DEF BrainType
<1>1. StoreType'
  <2>1. CASE Requeue(w)
    <3>1. until[w] \in Time  BY <2>1 DEF WorkerType, Requeue
    <3> QED BY <2>1, <3>1 DEF StoreType, Requeue
  <2>2. CASE Reinsert(w) \/ Settle(w) \/ \E t \in Time : Dispatch(w, t)
    BY <2>2 DEF StoreType, store, Reinsert, Settle, Dispatch
  <2> QED BY <2>1, <2>2
<1>2. ProcessType'
  <2>1. CASE Reinsert(w)
    <3>1. until[w] \in Time  BY <2>1 DEF WorkerType, Reinsert
    <3>2. Insert(until[w]) \in [Time -> Nat]  BY <3>1 DEF ProcessType, Insert
    <3> QED BY <2>1, <3>2 DEF ProcessType, Reinsert
  <2>2. CASE Settle(w) \/ Requeue(w)
    BY <2>2 DEF ProcessType, process, Settle, Requeue
  <2>3. ASSUME NEW t \in Time, Dispatch(w, t) PROVE ProcessType'
    BY <2>3 DEF ProcessType, Dispatch, Due
  <2> QED BY <2>1, <2>2, <2>3
<1>3. LocalsType' /\ WorkerType(w)'
  <2>1. CASE Free(w)  BY <2>1, <1>0, FreeType DEF Apart
  <2>2. CASE Requeue(w) /\ ~Free(w)
    <3>1. /\ until[w] \in Time /\ pc' = [pc EXCEPT ![w] = "insert"]
          /\ UNCHANGED <<pos, attempt, until, seen>>
      BY <2>2 DEF Requeue, WorkerType, Goes
    <3> QED BY <1>0, <3>1 DEF LocalsType, WorkerType, Working, Apart, Places
  <2>3. ASSUME NEW t \in Time, Dispatch(w, t) PROVE LocalsType' /\ WorkerType(w)'
    <3>1. /\ pc'[w] \in {"at", "idle"} /\ pc' = [pc EXCEPT ![w] = pc'[w]]
          /\ UNCHANGED <<pos, attempt, until, seen>>
      BY <2>3 DEF Dispatch, Goes, LocalsType
    <3> QED BY <1>0, <3>1 DEF LocalsType, WorkerType, Working, Apart, Places
  <2> QED BY <2>1, <2>2, <2>3 DEF Settle, Reinsert
<1>4. HistoryType'
  <2>1. faults' \in 0..MaxFaults
    BY FaultsType DEF HistoryType, Dispatch, Settle, Requeue, Reinsert, StoreOK
  <2>2. twice' \in {twice, twice \/ ~Empty \/ Executing # {w}}
    BY DEF history, Dispatch, Settle, Requeue, Reinsert
  <2>3. twice' \in BOOLEAN
    <3>1. twice \in BOOLEAN  BY DEF HistoryType
    <3> QED BY <2>2, <3>1, Zenon
  <2>4. settled' \in Nat  BY DEF HistoryType, history, Dispatch, Settle, Requeue, Reinsert
  <2>5. UNCHANGED <<told, first, slept, failures, results, raced, restarts>>
    BY DEF history, Dispatch, Settle, Requeue, Reinsert
  <2> QED BY <2>1, <2>3, <2>4, <2>5 DEF HistoryType
<1>5. BrainType' /\ \A u \in Workers : WorkerType(u)'  BY <1>0, <1>3, OthersKept
<1> QED BY <1>1, <1>2, <1>3, <1>4, <1>5

\* The flow's steps: they concern the call that the worker is at.
StepStep(w) == StepDup(w) \/ StepCached(w) \/ StepGetFails(w) \/ StepRuns(w) \/ FnOK(w) \/ Save(w)

RetryStep(w) == FnFails(w) \/ PutRetry(w) \/ Waited(w)

SleepStep(w) == SleepGet(w) \/ SleepPut(w)

LEMMA FlowSteps == \A w \in Workers : Flow(w) <=> StepStep(w) \/ RetryStep(w) \/ SleepStep(w)
BY DEF Flow, StepStep, RetryStep, SleepStep

LEMMA FlowAt ==
  ASSUME TypeInv, NEW w \in Workers, Flow(w)
  PROVE  /\ pos[w] \in 1..Len(script) /\ op(w) \in Call /\ name(w) \in Names
         /\ op(w).kind = IF SleepStep(w) THEN "sleep" ELSE "step"
<1>1. pos[w] <= Len(script) /\ op(w).kind = IF SleepStep(w) THEN "sleep" ELSE "step"
  <2>1. CASE SleepGet(w)  BY <2>1 DEF SleepGet, Calls, SleepStep
  <2>2. CASE SleepPut(w)  BY <2>2 DEF SleepPut, TypeInv, WorkerType, SleepStep
  <2>3. CASE StepStep(w) \/ RetryStep(w)
    <3>1. pos[w] <= Len(script) /\ op(w).kind = "step"
      BY <2>3 DEF StepStep, RetryStep, TypeInv, WorkerType, Working, StepDup, StepCached, StepGetFails,
                  StepRuns, Enters, Calls, FnOK, Save, FnFails, PutRetry, Waited
    <3>2. ~SleepStep(w)
      BY <3>1 DEF SleepStep, SleepGet, SleepPut, Calls, TypeInv, WorkerType
    <3> QED BY <3>1, <3>2
  <2> QED BY <2>1, <2>2, <2>3, FlowSteps DEF SleepStep
<1>2. pos[w] \in 1..(Len(script) + 1) /\ Len(script) \in Nat
  BY LenType DEF TypeInv, BrainType, LocalsType
<1>3. pos[w] \in 1..Len(script)  BY <1>1, <1>2
<1> QED BY <1>1, <1>3, OpType DEF TypeInv, BrainType

LEMMA FlowApart ==
  ASSUME TypeInv, NEW w \in Workers, Flow(w)
  PROVE  /\ Apart(w) /\ pc[w] # "idle" /\ pc'[w] # "idle"
         /\ UNCHANGED <<record, tombstone, process, settled, raced, twice, restarts>>
<1> USE DEF Flow, TypeInv, LocalsType, StepKept, SleepKept, StepDup, StepCached, StepGetFails, StepRuns, FnOK,
            Save, FnFails, PutRetry, Waited, SleepGet, SleepPut, Enters, Calls
<1>1. UNCHANGED <<script, chained, now, record, tombstone, process, settled, raced, twice, restarts>>
  BY DEF brain
<1>2. pc[w] # "idle"  OBVIOUS
<1>3. pc'[w] # "idle" /\ pc' = [pc EXCEPT ![w] = pc'[w]]
  BY DEF Goes, Fails, Return, Attempts, Until
<1>4. \A u \in Workers \ {w} : pos'[u] = pos[u] /\ attempt'[u] = attempt[u]
  BY DEF Fails, Return, Attempts, Until
<1>5. \A u \in Workers \ {w} : until'[u] = until[u] /\ seen'[u] = seen[u]
  BY DEF Fails, Return, Attempts, Until
<1>6. \A u \in Workers \ {w} : pc'[u] = pc[u]  BY <1>3
<1> QED BY <1>1, <1>2, <1>3, <1>4, <1>5, <1>6 DEF Apart, Moves, Kept

LEMMA TypeStep ==
  ASSUME TypeInv, NEW w \in Workers, StepStep(w)
  PROVE  StoreType' /\ HistoryType' /\ LocalsType' /\ WorkerType(w)'
<1> USE DEF StepKept, StepStep
<1>0. Flow(w)  BY FlowSteps
<1>1. pos[w] \in 1..Len(script) /\ name(w) \in Names /\ op(w).kind = "step" /\ script' = script
  <2>1. ~SleepStep(w)
    BY DEF TypeInv, WorkerType, Working, SleepStep, SleepGet, SleepPut, Calls, StepDup, StepCached, StepGetFails,
           StepRuns, FnOK, Save, Enters
  <2> QED BY <1>0, <2>1, FlowAt, FlowApart DEF Apart
<1>l. Len(script) \in Nat  BY LenType DEF TypeInv, BrainType
<1>2. StoreType'
  <2>1. CASE Save(w)
    <3>1. until[w] \in Nat  BY <2>1 DEF Save, TypeInv, WorkerType
    <3>2. savepoint' \in {savepoint, Put(savepoint, name(w), until[w])}  BY <2>1 DEF Save, MayPut
    <3>3. savepoint' \in [Names -> Nat \cup {None}]  BY <3>1, <3>2, <1>1 DEF TypeInv, StoreType, Put
    <3> QED BY <2>1, <3>3 DEF Save, TypeInv, StoreType
  <2>2. CASE ~Save(w)
    BY <2>2 DEF TypeInv, StoreType, StepDup, StepCached, StepGetFails, StepRuns, FnOK
  <2> QED BY <2>1, <2>2
<1>3. HistoryType'
  <2>1. faults' \in 0..MaxFaults
    BY FaultsType DEF TypeInv, HistoryType, StepDup, StepCached, StepGetFails, StepRuns, FnOK, Save, StoreOK
  <2>2. told' \in [Names -> SUBSET Nat]
    <3>1. CASE StepCached(w)
      BY <3>1, <1>1 DEF TypeInv, StoreType, HistoryType, StepCached, Return
    <3>2. CASE Save(w)
      <4>1. until[w] \in Nat  BY <3>2 DEF Save, TypeInv, WorkerType
      <4> QED BY <3>2, <4>1, <1>1 DEF TypeInv, HistoryType, Save, Return
    <3>3. CASE StepDup(w) \/ StepGetFails(w) \/ StepRuns(w) \/ FnOK(w)
      BY <3>3 DEF TypeInv, HistoryType, StepDup, StepGetFails, StepRuns, FnOK
    <3> QED BY <3>1, <3>2, <3>3
  <2>3. results' \in Nat
    BY DEF TypeInv, HistoryType, StepDup, StepCached, StepGetFails, StepRuns, FnOK, Save
  <2>4. UNCHANGED <<first, slept, failures, settled, raced, twice, restarts>>
    BY DEF StepDup, StepCached, StepGetFails, StepRuns, FnOK, Save
  <2> QED BY <2>1, <2>2, <2>3, <2>4 DEF TypeInv, HistoryType
<1>4. LocalsType' /\ WorkerType(w)'
  <2>1. seen' \in [Workers -> SUBSET Names]
    BY <1>1 DEF TypeInv, LocalsType, StepDup, StepCached, StepGetFails, StepRuns, FnOK, Save, Enters
  <2>2. CASE Fails(w)
    BY <2>1, <2>2, <1>1 DEF TypeInv, LocalsType, WorkerType, Working, Fails, Goes, Places
  <2>3. CASE \E v : Return(w, v)
    <3>1. pos'[w] = pos[w] + 1 /\ pos[w] + 1 \in 1..(Len(script) + 1)
      BY <2>3, <1>1, <1>l DEF Return, TypeInv, LocalsType
    <3> QED BY <2>1, <2>3, <3>1, <1>1 DEF TypeInv, LocalsType, WorkerType, Working, Return, Goes, Places
  <2>4. CASE StepRuns(w)
    <3>1. PICK n \in {StartAttempt(w), 0} : Attempts(w, n)  BY <2>4 DEF StepRuns
    <3>2. n \in Nat  BY <1>1, <3>1 DEF StartAttempt, TypeInv, StoreType
    <3>3. LocalsType'  BY <2>1, <3>1, <3>2, <1>1 DEF TypeInv, LocalsType, Attempts, Goes, Places
    <3>4. pc'[w] = "fn" /\ pos'[w] = pos[w]  BY <3>1 DEF Attempts, Goes, TypeInv, LocalsType
    <3> QED BY <3>3, <3>4, <1>1, <1>l DEF WorkerType, Working, op
  <2>5. CASE FnOK(w)
    <3>1. results' \in Nat  BY <1>3 DEF HistoryType
    <3>2. LocalsType'  BY <2>1, <2>5, <3>1, <1>1 DEF TypeInv, LocalsType, FnOK, Goes, Places
    <3>3. pc'[w] = "save" /\ pos'[w] = pos[w] /\ until'[w] = results'
      BY <2>5 DEF FnOK, Goes, TypeInv, LocalsType
    <3> QED BY <3>1, <3>2, <3>3, <1>1, <1>l DEF WorkerType, Working, op
  <2> QED BY <2>2, <2>3, <2>4, <2>5 DEF StepDup, StepCached, StepGetFails, Save
<1> QED BY <1>2, <1>3, <1>4

LEMMA TypeRetry ==
  ASSUME TypeInv, NEW w \in Workers, RetryStep(w)
  PROVE  StoreType' /\ HistoryType' /\ LocalsType' /\ WorkerType(w)'
<1> USE DEF StepKept, RetryStep
<1>0. Flow(w)  BY FlowSteps
<1>1. pos[w] \in 1..Len(script) /\ name(w) \in Names /\ op(w).kind = "step" /\ script' = script
  <2>1. ~SleepStep(w)
    BY DEF TypeInv, WorkerType, Working, SleepStep, SleepGet, SleepPut, Calls, FnFails, PutRetry, Waited
  <2> QED BY <1>0, <2>1, FlowAt, FlowApart DEF Apart
<1>l. Len(script) \in Nat /\ attempt[w] \in Nat
  BY LenType DEF TypeInv, BrainType, LocalsType
<1>b. Backoff(w) \in Int /\ Later(Backoff(w)) \in Int /\ (Backoff(w) >= 0 => Later(Backoff(w)) \in Time)
  BY <1>1, <1>l, BackoffInt, LaterType DEF TypeInv, BrainType
<1>2. StoreType'
  <2>1. retry' \in {retry, Put(retry, name(w), attempt[w] + 1)}
    BY DEF FnFails, PutRetry, Waited, MayPut
  <2>2. retry' \in [Names -> Nat \cup {None}]  BY <2>1, <1>1, <1>l DEF TypeInv, StoreType, Put
  <2> QED BY <2>2 DEF TypeInv, StoreType, FnFails, PutRetry, Waited
<1>3. HistoryType'
  <2>1. faults' \in 0..MaxFaults
    BY FaultsType DEF TypeInv, HistoryType, FnFails, PutRetry, Waited, StoreOK
  <2>2. failures' \in [Names -> Nat]
    BY <1>1 DEF TypeInv, HistoryType, FnFails, PutRetry, Waited
  <2>4. UNCHANGED <<told, first, slept, results, settled, raced, twice, restarts>>
    BY DEF FnFails, PutRetry, Waited
  <2> QED BY <2>1, <2>2, <2>4 DEF TypeInv, HistoryType
<1>4. LocalsType' /\ WorkerType(w)'
  <2>1. seen' = seen  BY DEF FnFails, PutRetry, Waited
  <2>2. CASE pc' = [pc EXCEPT ![w] = "failed"] /\ UNCHANGED <<pos, attempt, until>>
    BY <2>1, <2>2, <1>1 DEF TypeInv, LocalsType, WorkerType, Working, Places
  <2>3. CASE FnFails(w) /\ pc'[w] # "failed"
    <3>1. /\ pc'[w] \in {"count", "backoff"} /\ pc' = [pc EXCEPT ![w] = pc'[w]]
          /\ pos' = pos /\ attempt' = attempt /\ seen' = seen
          /\ until' \in {until, [until EXCEPT ![w] = Later(Backoff(w))]}
          /\ (pc'[w] = "count" => Backoff(w) >= Threshold)
      BY <2>3 DEF FnFails, Goes, TypeInv, LocalsType
    <3>2. LocalsType'  BY <3>1, <1>1, <1>b DEF TypeInv, LocalsType, Places
    <3>3. Backoff(w)' = Backoff(w)  BY <3>1, <1>1, BackoffKept
    <3> QED BY <3>1, <3>2, <3>3, <1>1, <1>l DEF WorkerType, Working, op
  <2>4. CASE PutRetry(w) /\ pc'[w] # "failed"
    <3>1. /\ pc' = [pc EXCEPT ![w] = "yield"] /\ until' = [until EXCEPT ![w] = Later(Backoff(w))]
          /\ pos' = pos /\ attempt' = attempt /\ seen' = seen
      BY <2>4 DEF PutRetry, Goes, TypeInv, LocalsType
    <3>2. Later(Backoff(w)) \in Time
      BY <2>4, <1>b, Bounds DEF PutRetry, TypeInv, WorkerType
    <3> QED BY <3>1, <3>2, <1>1, <1>b DEF TypeInv, LocalsType, WorkerType, Working, Places
  <2>5. CASE Waited(w) /\ pc'[w] # "failed"
    <3>1. Attempts(w, attempt[w] + 1) /\ seen' = seen
      BY <2>5 DEF Waited, Fails, Goes, TypeInv, LocalsType
    <3>2. LocalsType' /\ pc'[w] = "fn" /\ pos' = pos
      BY <3>1, <1>1, <1>l DEF TypeInv, LocalsType, Attempts, Goes, Places
    <3> QED BY <3>2, <1>1, <1>l DEF WorkerType, Working, op
  <2>6. CASE pc'[w] = "failed"
    <3>1. pc' = [pc EXCEPT ![w] = "failed"] /\ UNCHANGED <<pos, attempt, until>>
      BY <2>6 DEF FnFails, PutRetry, Waited, Fails, Attempts, Goes, TypeInv, LocalsType
    <3> QED BY <2>2, <3>1
  <2> QED BY <2>3, <2>4, <2>5, <2>6
<1> QED BY <1>2, <1>3, <1>4

LEMMA TypeSleep ==
  ASSUME TypeInv, NEW w \in Workers, SleepStep(w)
  PROVE  StoreType' /\ HistoryType' /\ LocalsType' /\ WorkerType(w)'
<1> USE DEF SleepKept, SleepStep
<1>0. Flow(w)  BY FlowSteps
<1>1. /\ pos[w] \in 1..Len(script) /\ op(w) \in Call /\ name(w) \in Names /\ op(w).kind = "sleep"
      /\ script' = script /\ Len(script) \in Nat
  BY <1>0, FlowAt, FlowApart, LenType DEF Apart, TypeInv, BrainType
<1>b. Later(op(w).d) \in Time /\ now \in Time  BY <1>1, LaterType DEF TypeInv, BrainType, Call
<1>u. SleepPut(w) => until[w] \in Time  BY DEF SleepPut, TypeInv, WorkerType
<1>t. Time \subseteq Int  BY Bounds
<1>2. StoreType'
  <2>1. deadline' \in [Names -> Time \cup {None}]
    BY <1>1, <1>u DEF TypeInv, StoreType, SleepGet, SleepPut, Put
  <2> QED BY <2>1 DEF TypeInv, StoreType, SleepGet, SleepPut
<1>3. HistoryType'
  <2>1. faults' \in 0..MaxFaults
    BY FaultsType DEF TypeInv, HistoryType, SleepGet, SleepPut
  <2>2. first' \in [Names -> Time \cup {None}]
    BY <1>1, <1>u DEF TypeInv, HistoryType, SleepGet, SleepPut, Put, FirstSeen
  <2>3. slept' \in [Names -> Time \cup {None}]
    BY <1>1, <1>b DEF TypeInv, HistoryType, SleepGet, SleepPut, Put, Until
  <2>4. UNCHANGED <<told, failures, results, settled, raced, twice, restarts>>
    BY DEF SleepGet, SleepPut
  <2> QED BY <2>1, <2>2, <2>3, <2>4 DEF TypeInv, HistoryType
<1>4. LocalsType' /\ WorkerType(w)'
  <2>1. attempt' = attempt /\ seen' = seen  BY DEF SleepGet, SleepPut
  <2>2. CASE Fails(w)
    BY <2>1, <2>2, <1>1 DEF TypeInv, LocalsType, WorkerType, Working, Fails, Goes, Places
  <2>3. ASSUME NEW wake \in Time, Until(w, wake) PROVE LocalsType' /\ WorkerType(w)'
    <3>1. pos[w] + 1 \in 1..(Len(script) + 1)  BY <1>1
    <3> QED BY <2>1, <2>3, <3>1, <1>1, <1>t DEF TypeInv, LocalsType, WorkerType, Working, Until, Goes, Places
  <2>4. CASE pc' = [pc EXCEPT ![w] = "rest"] /\ until' = [until EXCEPT ![w] = Later(op(w).d)] /\ pos' = pos
    <3>1. pc'[w] = "rest" /\ until'[w] \in Time  BY <2>4, <1>b DEF TypeInv, LocalsType
    <3>2. LocalsType'  BY <2>1, <2>4, <1>1, <1>b, <1>t DEF TypeInv, LocalsType, Places
    <3> QED BY <2>4, <3>1, <3>2, <1>1 DEF WorkerType, Working, op
  <2>5. deadline[name(w)] \in Time \cup {None}  BY <1>1 DEF TypeInv, StoreType
  <2> QED BY <2>2, <2>3, <2>4, <2>5, <1>u DEF SleepGet, SleepPut, Goes
<1> QED BY <1>2, <1>3, <1>4

LEMMA TypeFlow ==
  ASSUME TypeInv, NEW w \in Workers, Flow(w)
  PROVE  TypeInv'
<1>1. StoreType' /\ HistoryType' /\ LocalsType' /\ WorkerType(w)'
  BY FlowSteps, TypeStep, TypeRetry, TypeSleep
<1>2. Apart(w) /\ process' = process  BY FlowApart
<1>3. ProcessType'  BY <1>2 DEF TypeInv, ProcessType, process
<1>4. BrainType' /\ \A u \in Workers : WorkerType(u)'  BY <1>1, <1>2, OthersKept
<1> QED BY <1>1, <1>3, <1>4 DEF TypeInv

LEMMA TypeStutter == TypeInv /\ UNCHANGED vars => TypeInv'
<1> SUFFICES ASSUME TypeInv, UNCHANGED vars PROVE TypeInv'
  OBVIOUS
<1>1. UNCHANGED <<brain, worker, store, process, history, now, restarts, faults>>  BY DEF vars
<1>2. BrainType' /\ LocalsType' /\ \A w \in Workers : WorkerType(w)'
  BY <1>1, AllKept DEF TypeInv, BrainType
<1>3. StoreType' /\ ProcessType' /\ HistoryType'
  BY <1>1 DEF TypeInv, store, process, history, StoreType, ProcessType, HistoryType
<1> QED BY <1>2, <1>3 DEF TypeInv

\* The steps of Next, one case each.
Steps == \/ \E c \in Callers : Reach(c) \/ DeferStep(c)
         \/ \E w \in Workers : RunStep(w) \/ Flow(w)
         \/ New \/ Crash \/ Shutdown \/ Exit \/ Tick
         \/ UNCHANGED vars

LEMMA NextSteps == [Next]_vars => Steps
BY DEF Next, Deferred, Work, Steps, DeferStep, RunStep, Callers

LEMMA TypeStepwise == TypeInv /\ [Next]_vars => TypeInv'
BY NextSteps, TypeDeferred, TypeProcess, TypeRun, TypeFlow, TypeStutter DEF Steps

\* Every reachable state is well typed, whatever the flow, the bounds and the number
\* of workers.
THEOREM TypeCorrect == Spec => []JobTypeOK
<1>1. TypeInv => JobTypeOK  BY TypeInvTypes
<1> QED BY <1>1, TypeInit, TypeStepwise, PTL DEF Spec

-----------------------------------------------------------------------------
(* A run that no two requests schedule is in one place. *)

Idle == \A w \in Workers : pc[w] = "idle"

LEMMA IdleIs == Executing = {} <=> Idle
BY DEF Executing, Idle

\* While the boot chain schedules the run nothing else does, or executes it.
Roles ==
  /\ phase = "down" => (\A c \in Callers : defer[c] = "idle") /\ Empty /\ Idle
  /\ phase = "boot" => Idle /\ chained
  /\ chained => \A c \in Requests : defer[c] = "idle"
  /\ defer[boot] # "idle" => phase = "boot"
  /\ defer[boot] \in {"persist", "insert"} => Empty

LEMMA RolesDeferred == ASSUME TypeInv, Roles, NEW c \in Callers, Reach(c) \/ DeferStep(c) PROVE Roles'
<1> USE DEF Roles, TypeInv, ProcessType, DeferStep
<1>1. UNCHANGED <<chained, pc>>
  BY DEF Reach, DeferGet, DeferLook, DeferPersist, DeferInsert, DeferPut, brain, worker
<1>2. \A d \in Callers : d # c => defer'[d] = defer[d]
  BY DEF Reach, DeferGet, DeferLook, DeferPersist, DeferInsert, DeferPut, Deferring
<1>3. phase # "down" /\ phase' # "down" /\ Idle' = Idle
  <2>1. phase # "down"
    BY Bounds DEF Reach, DeferGet, DeferLook, DeferPersist, DeferInsert, DeferPut, Deferring
  <2>2. phase' # "down"
    BY <2>1 DEF Reach, DeferGet, DeferLook, DeferPersist, DeferInsert, DeferPut, AfterDefer
  <2> QED BY <1>1, <2>1, <2>2 DEF Idle
<1>4. CASE c = boot
  <2>1. phase = "boot"
    BY <1>4, Bounds DEF Reach, DeferGet, DeferLook, DeferPersist, DeferInsert, DeferPut, Deferring
  <2>2. \A d \in Requests : defer'[d] = defer[d]  BY <1>2, <1>4, Bounds
  <2>3. defer'[boot] = "idle" \/ phase' = phase
    BY <1>4, Bounds DEF Reach, DeferGet, DeferLook, DeferPersist, DeferInsert, DeferPut, Deferring
  <2>4. defer'[boot] \in {"persist", "insert"} => Empty'
    <3>1. CASE DeferLook(c)
      <4>1. pending' = pending /\ (defer'[boot] = "persist" => Empty) /\ defer'[boot] # "insert"
        BY <3>1, <1>4, Bounds DEF DeferLook, Deferring
      <4> QED BY <4>1 DEF Empty
    <3>2. CASE DeferPersist(c)
      <4>1. pending' = pending /\ Empty  BY <3>2, <1>4 DEF DeferPersist, Deferring
      <4> QED BY <4>1 DEF Empty
    <3>3. CASE Reach(c) \/ DeferGet(c) \/ DeferInsert(c) \/ DeferPut(c)
      BY <3>3, <1>4, Bounds DEF Reach, DeferGet, DeferInsert, DeferPut, Deferring
    <3> QED BY <3>1, <3>2, <3>3
  <2> QED BY <1>1, <1>3, <1>4, <2>1, <2>2, <2>3, <2>4
<1>5. CASE c # boot
  <2>1. ~chained
    BY <1>5, Bounds DEF Reach, DeferGet, DeferLook, DeferPersist, DeferInsert, DeferPut, Deferring
  <2>2. defer[boot] = "idle" /\ phase # "boot"  BY <2>1
  <2>3. defer'[boot] = "idle" /\ phase' = phase
    BY <1>2, <1>5, <2>2, Bounds
       DEF Reach, DeferGet, DeferLook, DeferPersist, DeferInsert, DeferPut, AfterDefer
  <2> QED BY <1>1, <1>3, <2>1, <2>2, <2>3
<1> QED BY <1>4, <1>5

LEMMA RolesStep == TypeInv /\ Roles /\ [Next]_vars => Roles'
<1> SUFFICES ASSUME TypeInv, Roles, Steps PROVE Roles'
  BY NextSteps
<1>1. ASSUME NEW c \in Callers, Reach(c) \/ DeferStep(c) PROVE Roles'  BY <1>1, RolesDeferred
<1>2. ASSUME NEW w \in Workers, RunStep(w) PROVE Roles'
  <2>1. phase \notin {"down", "boot"}
    BY <1>2 DEF Roles, Idle, RunStep, Dispatch, Settle, Requeue, Reinsert
  <2>2. UNCHANGED <<phase, chained, defer>>
    BY <1>2 DEF RunStep, Dispatch, Settle, Requeue, Reinsert, brain, process
  <2> QED BY <2>1, <2>2 DEF Roles
<1>3. ASSUME NEW w \in Workers, Flow(w) PROVE Roles'
  <2>1. UNCHANGED <<process, chained>> /\ pc[w] # "idle"  BY <1>3, FlowApart DEF Apart
  <2> QED BY <2>1 DEF Roles, Idle, process, Empty
<1>4. CASE New
  <2>1. pc' = pc /\ chained' = chained /\ phase' # "down"  BY <1>4 DEF New, worker, brain
  <2> QED BY <1>4, <2>1, Bounds DEF New, Roles, Idle, TypeInv, ProcessType
<1>5. CASE Crash \/ Exit
  <2>1. Down /\ chained' = chained  BY <1>5 DEF Crash, Exit, brain
  <2> QED BY <2>1, Bounds DEF Down, Roles, Idle, Empty
<1>6. CASE Shutdown
  <2>1. UNCHANGED <<chained, pending, defer>> /\ phase = "up" /\ phase' = "stopping"
    BY <1>6 DEF Shutdown, brain
  <2> QED BY <2>1 DEF Roles, Empty
<1>7. CASE Tick \/ UNCHANGED vars
  <2>1. UNCHANGED <<chained, process, pc>>  BY <1>7 DEF Tick, vars, brain, worker
  <2> QED BY <2>1 DEF Roles, Idle, process, Empty
<1> QED BY <1>1, <1>2, <1>3, <1>4, <1>5, <1>6, <1>7 DEF Steps

LEMMA RolesInit == Init => Roles
BY Bounds DEF Init, Roles, Idle, Empty

\* The run waits once, or one worker executes it.
Alone ==
  /\ \A t \in Time : pending[t] <= 1
  /\ \A t, u \in Time : pending[t] > 0 /\ pending[u] > 0 => t = u
  /\ \A w \in Workers : pc[w] # "idle" => Empty /\ \A u \in Workers \ {w} : pc[u] = "idle"

OnePlace == ~twice => Alone

\* Neither history is forgotten.
LEMMA Forever ==
  ASSUME TypeInv, [Next]_vars
  PROVE  (twice => twice') /\ (raced => raced')
<1> SUFFICES ASSUME Steps PROVE (twice => twice') /\ (raced => raced')
  BY NextSteps
<1>1. ASSUME NEW c \in Callers, Reach(c) \/ DeferStep(c) PROVE (twice => twice') /\ (raced => raced')
  <2>1. raced' \in {raced, raced \/ Overlap(c), raced \/ c # boot}
        /\ twice' \in {twice, twice \/ ~Empty \/ Executing # {}}
    BY <1>1 DEF history, DeferStep, Reach, DeferGet, DeferLook, DeferPersist, DeferInsert, DeferPut
  <2> QED BY <2>1, Zenon
<1>2. ASSUME NEW w \in Workers, RunStep(w) PROVE (twice => twice') /\ (raced => raced')
  <2>1. raced' = raced /\ twice' \in {twice, twice \/ ~Empty \/ Executing # {w}}
    BY <1>2 DEF history, RunStep, Dispatch, Settle, Requeue, Reinsert
  <2> QED BY <2>1, Zenon
<1>3. ASSUME NEW w \in Workers, Flow(w) PROVE (twice => twice') /\ (raced => raced')
  BY <1>3, FlowApart
<1>4. CASE New \/ Crash \/ Shutdown \/ Exit \/ Tick \/ UNCHANGED vars
  <2>1. twice' = twice /\ (raced' = raced \/ Cut)
    BY <1>4 DEF New, Crash, Shutdown, Exit, Tick, vars, history
  <2>2. ASSUME Cut PROVE raced => raced'  BY <2>2, Zenon DEF Cut
  <2> QED BY <2>1, <2>2
<1> QED BY <1>1, <1>2, <1>3, <1>4 DEF Steps

\* Where the run is taken out of the heap, or put into it.
LEMMA InsertAlone ==
  ASSUME TypeInv, NEW wake \in Time, Empty, pending' = Insert(wake), Idle'
  PROVE  Alone'
BY Bounds DEF TypeInv, ProcessType, Insert, Empty, Idle, Alone

LEMMA DispatchAlone ==
  ASSUME TypeInv, Alone, NEW w \in Workers, NEW t \in Time, Dispatch(w, t)
  PROVE  Alone' /\ Empty' /\ Idle
<1>1. pending[t] = 1 /\ \A u \in Time : u # t => pending[u] = 0
  BY DEF TypeInv, ProcessType, Alone, Dispatch, Due
<1>2. Idle  BY <1>1 DEF Alone, Empty, Idle
<1>3. Empty'
  <2>1. pending' = [pending EXCEPT ![t] = 0]  BY <1>1 DEF Dispatch, TypeInv, ProcessType
  <2> QED BY <1>1, <2>1 DEF Empty, TypeInv, ProcessType
<1>4. \A u \in Workers \ {w} : pc'[u] = "idle"
  BY <1>2 DEF Dispatch, Goes, Idle, TypeInv, LocalsType
<1> QED BY <1>2, <1>3, <1>4 DEF Alone, Empty

LEMMA OnePlaceStep == TypeInv /\ Roles /\ OnePlace /\ [Next]_vars => OnePlace'
<1> SUFFICES ASSUME TypeInv, Roles, Alone, ~twice', Steps PROVE Alone'
  BY NextSteps, Forever DEF OnePlace
<1>k. ASSUME UNCHANGED <<pending, pc>> PROVE Alone'  BY <1>k DEF Alone, Empty
<1>1. ASSUME NEW c \in Callers, Reach(c) \/ DeferStep(c) PROVE Alone'
  <2>1. CASE DeferInsert(c)
    <3>1. Empty /\ Executing = {} /\ pc' = pc  BY <2>1 DEF DeferInsert, worker
    <3>2. Idle'  BY <3>1, IdleIs DEF Idle
    <3> QED BY <2>1, <3>1, <3>2, InsertAlone, Bounds DEF DeferInsert
  <2>2. CASE ~DeferInsert(c)
    BY <1>1, <2>2, <1>k DEF DeferStep, Reach, DeferGet, DeferLook, DeferPersist, DeferPut, worker
  <2> QED BY <2>1, <2>2
<1>2. ASSUME NEW w \in Workers, RunStep(w) PROVE Alone'
  <2>1. CASE Reinsert(w)
    <3>1. Empty /\ Executing = {w} /\ pc' = [pc EXCEPT ![w] = "idle"] /\ until[w] \in Time
      BY <2>1 DEF Reinsert, Free, Goes, TypeInv, WorkerType
    <3>2. Idle'  BY <3>1 DEF Idle, Executing, TypeInv, LocalsType
    <3> QED BY <2>1, <3>1, <3>2, InsertAlone DEF Reinsert
  <2>2. CASE Settle(w) \/ Requeue(w)
    <3>1. /\ pending' = pending /\ pc' = [pc EXCEPT ![w] = pc'[w]]
          /\ pc[w] # "idle"
      BY <2>2 DEF Settle, Requeue, Free, Goes, process, TypeInv, LocalsType
    <3> QED BY <3>1 DEF Alone, Empty, TypeInv, LocalsType
  <2>3. ASSUME NEW t \in Time, Dispatch(w, t) PROVE Alone'  BY <2>3, DispatchAlone
  <2> QED BY <1>2, <2>1, <2>2, <2>3 DEF RunStep
<1>3. ASSUME NEW w \in Workers, Flow(w) PROVE Alone'
  <2>1. Moves(w) /\ pending' = pending /\ pc[w] # "idle"  BY <1>3, FlowApart DEF Apart, process
  <2>2. \A u \in Workers \ {w} : pc'[u] = "idle"  BY <2>1 DEF Alone, Moves, Kept
  <2> QED BY <2>1, <2>2 DEF Alone, Empty
<1>4. CASE New
  <2>1. phase = "down" /\ pc' = pc  BY <1>4 DEF New, worker
  <2>2. Empty /\ Idle /\ Idle'  BY <2>1 DEF Roles, Idle
  <2>3. CASE pending' = pending  BY <2>1, <2>3, <1>k
  <2>4. CASE record # None /\ pending' = Insert(record)
    BY <2>2, <2>4, InsertAlone DEF TypeInv, StoreType
  <2> QED BY <1>4, <2>3, <2>4 DEF New
<1>5. CASE Crash \/ Exit
  <2>1. Down  BY <1>5 DEF Crash, Exit
  <2> QED BY <2>1, Bounds DEF Down, Alone, Empty
<1>6. CASE Shutdown \/ Tick \/ UNCHANGED vars
  BY <1>6, <1>k DEF Shutdown, Tick, vars, worker, process
<1> QED BY <1>1, <1>2, <1>3, <1>4, <1>5, <1>6 DEF Steps

LEMMA OnePlaceInit == Init => OnePlace
BY Bounds DEF Init, OnePlace, Alone, Empty

-----------------------------------------------------------------------------
(* A step has one result. *)

\* Outside the flow no step or sleep goes on, and what they keep is left alone.
InFlow == \E w \in Workers : Flow(w)

LEMMA Elsewhere ==
  ASSUME TypeInv, [Next]_vars, ~InFlow
  PROVE  /\ UNCHANGED <<script, savepoint, retry, deadline, told, first, slept, failures>>
         /\ \A w \in Workers : pc'[w] \notin {"idle", "at", "insert"} => Kept(w)
<1> SUFFICES ASSUME Steps
             PROVE  /\ UNCHANGED <<script, savepoint, retry, deadline, told, first, slept, failures>>
                    /\ \A w \in Workers : pc'[w] \notin {"idle", "at", "insert"} => Kept(w)
  BY NextSteps
<1>1. ASSUME UNCHANGED worker PROVE \A w \in Workers : Kept(w)  BY <1>1 DEF worker, Kept
<1>2. CASE \E c \in Callers : Reach(c) \/ DeferStep(c)
  <2>1. UNCHANGED <<script, savepoint, retry, deadline, told, first, slept, failures, worker>>
    BY <1>2 DEF DeferStep, Reach, DeferGet, DeferLook, DeferPersist, DeferInsert, DeferPut, brain, store, history
  <2> QED BY <2>1, <1>1
<1>3. ASSUME NEW w \in Workers, RunStep(w)
      PROVE  /\ UNCHANGED <<script, savepoint, retry, deadline, told, first, slept, failures>>
             /\ \A u \in Workers : pc'[u] \notin {"idle", "at", "insert"} => Kept(u)
  <2>1. UNCHANGED <<script, savepoint, retry, deadline, told, first, slept, failures>>
    BY <1>3 DEF RunStep, Dispatch, Settle, Requeue, Reinsert, brain, store, history
  <2>2. pc'[w] \in {"idle", "at", "insert"}
    BY <1>3 DEF RunStep, Dispatch, Settle, Requeue, Reinsert, Free, Goes, TypeInv, LocalsType
  <2>3. Moves(w)  BY <1>3, RunApart DEF Apart, TypeInv
  <2> QED BY <2>1, <2>2, <2>3 DEF Moves
<1>4. CASE New \/ Shutdown \/ Tick \/ UNCHANGED vars
  <2>1. UNCHANGED <<script, savepoint, retry, deadline, told, first, slept, failures, worker>>
    BY <1>4 DEF New, Shutdown, Tick, vars, brain, store, history
  <2> QED BY <2>1, <1>1
<1>5. CASE Crash \/ Exit
  BY <1>5 DEF Crash, Exit, Down, brain, store
<1> QED BY <1>2, <1>3, <1>4, <1>5 DEF Steps, InFlow

\* A flow's step of a run in one place: the other workers are idle, before and after.
LEMMA FlowAlone ==
  ASSUME TypeInv, OnePlace, [Next]_vars, ~twice', NEW w \in Workers, Flow(w)
  PROVE  /\ ~twice /\ Apart(w) /\ \A u \in Workers : u # w => pc[u] = "idle" /\ pc'[u] = "idle"
         /\ \A u \in Workers : pc'[u] # "idle" => u = w
<1>1. ~twice /\ Apart(w) /\ pc[w] # "idle"  BY Forever, FlowApart
<1>2. \A u \in Workers : u # w => pc[u] = "idle" /\ pc'[u] = "idle"
  BY <1>1 DEF OnePlace, Alone, Apart, Moves, Kept
<1> QED BY <1>1, <1>2

LEMMA NameKept ==
  ASSUME NEW w \in Workers, script' = script, pos'[w] = pos[w]
  PROVE  name(w)' = name(w) /\ op(w)' = op(w)
BY DEF name, op

\* What has been told is the savepoint, and a step that is run has none.
Saved ==
  /\ \A n \in Names : told[n] \subseteq {savepoint[n]} \ {None}
  /\ \A w \in Workers : Working(w) => savepoint[name(w)] = None

SavedFirst == ~twice => Saved

\* A worker's step that tells nothing.
LEMMA SavedKept ==
  ASSUME Saved, UNCHANGED <<told, savepoint>>,
         \A w \in Workers : Working(w)' => savepoint[name(w)'] = None
  PROVE  Saved'
BY DEF Saved

LEMMA SavedStep == TypeInv /\ OnePlace /\ SavedFirst /\ [Next]_vars => SavedFirst'
<1> SUFFICES ASSUME TypeInv, OnePlace, SavedFirst, [Next]_vars, ~twice' PROVE Saved'
  BY DEF SavedFirst
<1>0. Saved  BY Forever DEF SavedFirst
<1>1. CASE ~InFlow
  <2>1. UNCHANGED <<script, savepoint, told>>  BY <1>1, Elsewhere
  <2>2. ASSUME NEW w \in Workers, Working(w)' PROVE savepoint[name(w)'] = None
    <3>1. Kept(w)  BY <1>1, <2>2, Elsewhere DEF Working
    <3>2. Working(w) /\ name(w)' = name(w)  BY <2>1, <2>2, <3>1, NameKept DEF Working, Kept
    <3> QED BY <1>0, <3>2 DEF Saved
  <2> QED BY <1>0, <2>1, <2>2, SavedKept
<1>2. ASSUME NEW w \in Workers, Flow(w) PROVE Saved'
  <2>1. /\ script' = script /\ name(w) \in Names
        /\ \A u \in Workers : Working(u)' => u = w
    BY <1>2, FlowAlone, FlowAt DEF Apart, Working
  <2>t. /\ told \in [Names -> SUBSET Nat] /\ savepoint \in [Names -> Nat \cup {None}] /\ None \notin Int
        /\ pc \in [Workers -> Places] /\ pos \in [Workers -> 1..(Len(script) + 1)]
    BY Bounds DEF TypeInv, HistoryType, StoreType, LocalsType
  <2>k. ASSUME UNCHANGED <<told, savepoint>>, Working(w)' => savepoint[name(w)] = None /\ pos'[w] = pos[w]
        PROVE  Saved'
    <3>1. Working(w)' => savepoint[name(w)'] = None  BY <2>k, <2>1, NameKept
    <3> QED BY <3>1, <2>k, <2>1, <1>0, SavedKept
  <2>2. CASE StepDup(w) \/ StepGetFails(w) \/ SleepStep(w)
    <3>1. UNCHANGED <<told, savepoint>> /\ pc'[w] \in {"failed", "rest", "yield", "at"}
      BY <2>2, <2>t DEF StepDup, StepGetFails, SleepStep, SleepGet, SleepPut, SleepKept, Fails, Goes, Until
    <3> QED BY <3>1, <2>k DEF Working
  <2>3. CASE StepRuns(w)
    <3>1. UNCHANGED <<told, savepoint, pos>> /\ savepoint[name(w)] = None
      BY <2>3 DEF StepRuns, Attempts
    <3> QED BY <3>1, <2>k
  <2>4. CASE FnOK(w) \/ RetryStep(w)
    <3>1. Working(w) /\ UNCHANGED <<told, savepoint, pos>>
      BY <2>4 DEF Working, FnOK, RetryStep, FnFails, PutRetry, Waited, Attempts, Fails
    <3> QED BY <3>1, <2>k, <1>0 DEF Saved
  <2>5. CASE StepCached(w)
    <3>1. savepoint[name(w)] # None /\ told' = [told EXCEPT ![name(w)] = @ \cup {savepoint[name(w)]}]
          /\ savepoint' = savepoint /\ pc'[w] = "at"
      BY <2>5, <2>t DEF StepCached, Return, Goes
    <3>2. \A n \in Names : told'[n] \subseteq {savepoint'[n]} \ {None}
      BY <3>1, <2>1, <2>t, <1>0 DEF Saved
    <3> QED BY <3>1, <3>2, <2>1 DEF Saved, Working
  <2>6. CASE Save(w)
    <3>1. until[w] \in Nat /\ savepoint[name(w)] = None
      BY <2>6, <1>0 DEF TypeInv, WorkerType, Save, Saved, Working
    <3>2. told[name(w)] = {}  BY <3>1, <2>1, <1>0 DEF Saved
    <3>3. pc'[w] \in {"at", "failed"}  BY <2>6, <2>t DEF Save, Return, Fails, Goes
    <3>4. \A n \in Names : told'[n] \subseteq {savepoint'[n]} \ {None}
      BY <2>6, <3>1, <3>2, <2>1, <2>t, <1>0 DEF Saved, Save, Put, MayPut, Return
    <3> QED BY <3>3, <3>4, <2>1 DEF Saved, Working
  <2> QED BY <1>2, FlowSteps, <2>2, <2>3, <2>4, <2>5, <2>6 DEF StepStep
<1> QED BY <1>1, <1>2 DEF InFlow

PlaceInv == TypeInv /\ Roles /\ OnePlace

LEMMA PlaceInvariant == (Init => PlaceInv) /\ (PlaceInv /\ [Next]_vars => PlaceInv')
BY TypeInit, RolesInit, OnePlaceInit, TypeStepwise, RolesStep, OnePlaceStep DEF PlaceInv

\* For any flow, any failures of its functions and of the Store, any crashes and any
\* number of workers: unless the run was put in the heap a second time, once a step
\* has returned a result no other is ever returned under its name.
THEOREM OneResult == Spec => []StepOnce
<1>1. Init => SavedFirst  BY DEF Init, SavedFirst, Saved, Working
<1>2. TypeInv /\ SavedFirst => StepOnce
  <2> SUFFICES ASSUME TypeInv, Saved, NEW n \in Names
               PROVE  Cardinality(told[n]) <= 1 /\ (told[n] # {} => savepoint[n] \in told[n])
    BY DEF StepOnce, SavedFirst
  <2>1. told[n] = {} \/ told[n] = {savepoint[n]}  BY DEF Saved
  <2>2. Cardinality({}) = 0 /\ Cardinality({savepoint[n]}) = 1
    BY FS_EmptySet, FS_Singleton
  <2> QED BY <2>1, <2>2
<1>3. PlaceInv /\ SavedFirst /\ [Next]_vars => SavedFirst'  BY SavedStep DEF PlaceInv
<1>4. PlaceInv => TypeInv  BY DEF PlaceInv
<1> QED BY <1>1, <1>2, <1>3, <1>4, PlaceInvariant, PTL DEF Spec

-----------------------------------------------------------------------------
(* A Sleep keeps its deadline. *)

\* A Sleep that is to store a deadline has none.
Rested ==
  /\ \A n \in Names : /\ deadline[n] = first[n]
                      /\ slept[n] # None => deadline[n] # None /\ deadline[n] <= slept[n]
  /\ \A w \in Workers : pc[w] = "rest" => deadline[name(w)] = None

DeadlineKept == ~twice => Rested

LEMMA RestedKept ==
  ASSUME Rested, UNCHANGED <<deadline, first, slept>>,
         \A w \in Workers : pc'[w] = "rest" => deadline[name(w)'] = None
  PROVE  Rested'
BY DEF Rested

LEMMA DeadlineStep == TypeInv /\ OnePlace /\ DeadlineKept /\ [Next]_vars => DeadlineKept'
<1> SUFFICES ASSUME TypeInv, OnePlace, DeadlineKept, [Next]_vars, ~twice' PROVE Rested'
  BY DEF DeadlineKept
<1>0. Rested  BY Forever DEF DeadlineKept
<1>1. CASE ~InFlow
  <2>1. UNCHANGED <<script, deadline, first, slept>>  BY <1>1, Elsewhere
  <2>2. ASSUME NEW w \in Workers, pc'[w] = "rest" PROVE deadline[name(w)'] = None
    <3>1. Kept(w)  BY <1>1, <2>2, Elsewhere
    <3>2. pc[w] = "rest" /\ name(w)' = name(w)  BY <2>1, <2>2, <3>1, NameKept DEF Kept
    <3> QED BY <1>0, <3>2 DEF Rested
  <2> QED BY <1>0, <2>1, <2>2, RestedKept
<1>2. ASSUME NEW w \in Workers, Flow(w) PROVE Rested'
  <2>1. /\ script' = script /\ name(w) \in Names
        /\ \A u \in Workers : pc'[u] = "rest" => u = w
    BY <1>2, FlowAlone, FlowAt DEF Apart
  <2>t. /\ deadline \in [Names -> Time \cup {None}] /\ first \in [Names -> Time \cup {None}]
        /\ slept \in [Names -> Time \cup {None}] /\ Time \subseteq Nat /\ None \notin Int /\ now \in Time
        /\ pc \in [Workers -> Places]
    BY Bounds DEF TypeInv, HistoryType, StoreType, LocalsType, BrainType
  <2>k. ASSUME UNCHANGED <<deadline, first, slept>>,
               pc'[w] = "rest" => deadline[name(w)] = None /\ pos' = pos
        PROVE  Rested'
    <3>1. pc'[w] = "rest" => deadline[name(w)'] = None  BY <2>k, <2>1, NameKept
    <3> QED BY <3>1, <2>k, <2>1, <1>0, RestedKept
  <2>2. CASE StepStep(w) \/ RetryStep(w)
    <3>1. UNCHANGED <<deadline, first, slept>>
      BY <2>2 DEF StepStep, StepDup, StepCached, StepGetFails, StepRuns, FnOK, Save, RetryStep, FnFails,
                  PutRetry, Waited, StepKept
    <3>2. pc'[w] # "rest"
      BY <2>2, <2>t DEF StepStep, StepDup, StepCached, StepGetFails, StepRuns, FnOK, Save, RetryStep, FnFails,
                  PutRetry, Waited, Fails, Return, Attempts, Goes
    <3> QED BY <3>1, <3>2, <2>k
  <2>u. ASSUME NEW wake \in Time, deadline'[name(w)] = wake, first'[name(w)] = wake, Until(w, wake),
               slept[name(w)] # None => wake <= slept[name(w)],
               \A n \in Names \ {name(w)} : deadline'[n] = deadline[n] /\ first'[n] = first[n]
        PROVE  Rested'
    <3>1. slept'[name(w)] # None => wake <= slept'[name(w)]
      BY <2>u, <2>1, <2>t DEF Until, Put
    <3>2. \A n \in Names \ {name(w)} : slept'[n] = slept[n]
      BY <2>u, <2>1, <2>t DEF Until, Put
    <3>3. pc'[w] # "rest"  BY <2>u, <2>t DEF Until, Goes
    <3>4. \A n \in Names : /\ deadline'[n] = first'[n]
                           /\ slept'[n] # None => deadline'[n] # None /\ deadline'[n] <= slept'[n]
      BY <1>0, <2>u, <2>t, <3>1, <3>2 DEF Rested
    <3> QED BY <3>3, <3>4, <2>1 DEF Rested
  <2>3. CASE SleepGet(w)
    <3>1. CASE deadline[name(w)] # None /\ Until(w, deadline[name(w)])
      BY <2>3, <3>1, <2>1, <2>t, <2>u, <1>0 DEF SleepGet, Rested
    <3>2. CASE deadline[name(w)] = None /\ UNCHANGED <<slept, pos>>
      BY <2>3, <3>2, <2>k DEF SleepGet
    <3>3. CASE Fails(w) /\ UNCHANGED slept
      <4>1. pc'[w] # "rest"  BY <3>3, <2>t DEF Fails, Goes
      <4> QED BY <2>3, <3>3, <4>1, <2>k DEF SleepGet
    <3> QED BY <2>3, <3>1, <3>2, <3>3 DEF SleepGet
  <2>4. CASE SleepPut(w)
    <3>0. until[w] \in Time /\ deadline[name(w)] = None /\ first[name(w)] = None /\ slept[name(w)] = None
      BY <2>4, <2>1, <1>0 DEF SleepPut, TypeInv, WorkerType, Rested
    <3>1. CASE UNCHANGED <<deadline, first, slept>> /\ Fails(w)
      <4>1. pc'[w] # "rest"  BY <3>1, <2>t DEF Fails, Goes
      <4> QED BY <3>1, <4>1, <2>k
    <3>2. CASE deadline' = Put(deadline, name(w), until[w]) /\ first' = FirstSeen(name(w), until[w])
      <4>1. /\ deadline'[name(w)] = until[w] /\ first'[name(w)] = until[w]
            /\ \A n \in Names \ {name(w)} : deadline'[n] = deadline[n] /\ first'[n] = first[n]
        BY <3>0, <3>2, <2>1, <2>t DEF Put, FirstSeen
      <4>2. CASE Until(w, until[w])  BY <3>0, <4>1, <4>2, <2>u
      <4>3. CASE Fails(w) /\ UNCHANGED slept
        <5>1. pc'[w] # "rest"  BY <4>3, <2>t DEF Fails, Goes
        <5>2. \A n \in Names : /\ deadline'[n] = first'[n]
                               /\ slept'[n] # None => deadline'[n] # None /\ deadline'[n] <= slept'[n]
          BY <1>0, <3>0, <4>1, <4>3 DEF Rested
        <5> QED BY <5>1, <5>2, <2>1 DEF Rested
      <4> QED BY <2>4, <3>2, <4>2, <4>3, <3>0, <2>t, <4>1 DEF SleepPut
    <3> QED BY <2>4, <3>1, <3>2 DEF SleepPut
  <2> QED BY <1>2, FlowSteps, <2>2, <2>3, <2>4 DEF SleepStep
<1> QED BY <1>1, <1>2 DEF InFlow

-----------------------------------------------------------------------------
(* A step that is run is the first of its name. *)

\* The names of the calls that an execution is past are used up.
EnteredBy(w) ==
  /\ \A j \in 1..(pos[w] - 1) : script[j].kind = "step" => script[j].name \in seen[w]
  /\ Working(w) => FirstOfName(pos[w]) /\ name(w) \in seen[w]

Entered == \A w \in Workers : EnteredBy(w)

\* A step that has not been entered is the first of its name.
LEMMA NewIsFirst ==
  ASSUME TypeInv, Entered, NEW w \in Workers, Enters(w)
  PROVE  FirstOfName(pos[w]) /\ pos[w] \in 1..Len(script)
<1>1. pos[w] \in 1..Len(script) /\ op(w).kind = "step" /\ name(w) \notin seen[w]
  <2>1. pos[w] \in 1..(Len(script) + 1) /\ Len(script) \in Nat
    BY LenType DEF TypeInv, BrainType, LocalsType
  <2> QED BY <2>1 DEF Enters, Calls
<1>2. \A j \in 1..(pos[w] - 1) : script[j].kind = "step" => script[j].name # script[pos[w]].name
  BY <1>1 DEF Entered, EnteredBy, name, op
<1> QED BY <1>1, <1>2 DEF FirstOfName, op

LEMMA FirstKept == script' = script => \A i : (FirstOfName(i))' <=> FirstOfName(i)
BY DEF FirstOfName

LEMMA EnteredKept ==
  ASSUME NEW w \in Workers, EnteredBy(w), script' = script, pos'[w] = pos[w], seen[w] \subseteq seen'[w],
         Working(w)' => Working(w) \/ (FirstOfName(pos[w]) /\ name(w) \in seen'[w])
  PROVE  EnteredBy(w)'
<1>1. \A j \in 1..(pos'[w] - 1) : script'[j].kind = "step" => script'[j].name \in seen'[w]
  BY DEF EnteredBy
<1>2. Working(w)' => FirstOfName(pos[w])' /\ name(w)' \in seen'[w]
  <2>1. FirstOfName(pos[w])' <=> FirstOfName(pos[w])  BY DEF FirstOfName
  <2> QED BY <2>1, NameKept DEF EnteredBy
<1> QED BY <1>1, <1>2 DEF EnteredBy

LEMMA EnteredAfresh ==
  ASSUME NEW w \in Workers, pos'[w] = 1, pc'[w] = "idle"
  PROVE  EnteredBy(w)'
BY DEF EnteredBy, Working

LEMMA EnteredStep == TypeInv /\ Entered /\ [Next]_vars => Entered'
<1> SUFFICES ASSUME TypeInv, Entered, Steps, NEW u \in Workers PROVE EnteredBy(u)'
  BY NextSteps DEF Entered
<1>t. /\ pos \in [Workers -> 1..(Len(script) + 1)] /\ Len(script) \in Nat /\ pc \in [Workers -> Places]
      /\ seen \in [Workers -> SUBSET Names]
  BY LenType DEF TypeInv, LocalsType, BrainType
<1>e. EnteredBy(u)  BY DEF Entered
<1>k. ASSUME Kept(u), script' = script PROVE EnteredBy(u)'
  BY <1>k, <1>e, EnteredKept DEF Kept, Working
<1>1. CASE \E c \in Callers : Reach(c) \/ DeferStep(c)
  <2>1. UNCHANGED <<script, worker>>
    BY <1>1 DEF DeferStep, Reach, DeferGet, DeferLook, DeferPersist, DeferInsert, DeferPut, brain
  <2> QED BY <2>1, <1>k DEF worker, Kept
<1>2. CASE New \/ Shutdown \/ Tick \/ UNCHANGED vars
  <2>1. UNCHANGED <<script, worker>>  BY <1>2 DEF New, Shutdown, Tick, vars, brain
  <2> QED BY <2>1, <1>k DEF worker, Kept
<1>3. CASE Crash \/ Exit
  <2>1. Down  BY <1>3 DEF Crash, Exit
  <2> QED BY <2>1, EnteredAfresh DEF Down
<1>4. ASSUME NEW w \in Workers, RunStep(w) PROVE EnteredBy(u)'
  <2>0. Apart(w)  BY <1>4, RunApart DEF TypeInv
  <2>1. CASE u # w  BY <2>0, <2>1, <1>k DEF Apart, Moves
  <2>2. CASE u = w /\ Free(w)
    BY <2>2, <1>t, EnteredAfresh DEF Free, Goes
  <2>3. CASE u = w /\ ~Free(w)
    <3>1. UNCHANGED <<pos, seen>> /\ pc'[w] \in {"at", "idle", "insert"}
      BY <1>4, <2>3, <1>t DEF RunStep, Dispatch, Settle, Requeue, Reinsert, Goes
    <3> QED BY <2>0, <2>3, <3>1, <1>e, EnteredKept DEF Working, Apart
  <2> QED BY <2>1, <2>2, <2>3
<1>5. ASSUME NEW w \in Workers, Flow(w) PROVE EnteredBy(u)'
  <2>0. Apart(w) /\ pos[w] \in 1..Len(script)  BY <1>5, FlowApart, FlowAt
  <2>1. CASE u # w  BY <2>0, <2>1, <1>k DEF Apart, Moves
  <2>s. seen[w] \subseteq seen'[w]
    BY <1>5, <1>t DEF Flow, StepDup, StepCached, StepGetFails, StepRuns, FnOK, Save, FnFails, PutRetry, Waited,
                      SleepGet, SleepPut, SleepKept, Enters
  <2>2. CASE u = w /\ pos'[w] = pos[w] /\ ~StepRuns(w)
    <3>1. Working(w)' => Working(w)
      BY <1>5, <2>2, <1>t DEF Flow, StepDup, StepCached, StepGetFails, FnOK, Save, FnFails, PutRetry, Waited,
                SleepGet, SleepPut, Fails, Return, Goes, Until, Working
    <3> QED BY <2>0, <2>2, <2>s, <3>1, <1>e, EnteredKept DEF Apart
  <2>3. CASE u = w /\ StepRuns(w)
    <3>1. pos' = pos /\ FirstOfName(pos[w]) /\ name(w) \in seen'[w]
      <4>1. FirstOfName(pos[w])  BY <2>3, NewIsFirst DEF StepRuns
      <4> QED BY <2>3, <4>1, <1>t DEF StepRuns, Enters, Attempts
    <3> QED BY <2>0, <2>3, <2>s, <3>1, <1>e, EnteredKept DEF Apart
  <2>4. CASE u = w /\ pos'[w] # pos[w] /\ ~StepRuns(w)
    <3>1. pos'[w] = pos[w] + 1 /\ pc'[w] = "at"
      BY <1>5, <2>4, <1>t DEF Flow, StepDup, StepCached, StepGetFails, FnOK, Save, FnFails, PutRetry, Waited,
                SleepGet, SleepPut, Fails, Return, Goes, Until, Attempts
    <3>2. script[pos[w]].kind = "step" => script[pos[w]].name \in seen'[w]
      <4>1. CASE SleepStep(w)
        BY <1>5, <4>1, FlowAt DEF op
      <4>2. CASE StepCached(w)
        BY <4>2, <1>t DEF StepCached, Enters, name, op
      <4>3. CASE ~SleepStep(w) /\ ~StepCached(w)
        <5>1. pc[w] = "save" /\ seen' = seen
          BY <1>5, <4>3, <2>4, <1>t DEF Flow, StepDup, StepGetFails, FnOK, Save, FnFails, PutRetry, Waited,
                SleepStep, Fails, Goes, Attempts
        <5> QED BY <5>1, <1>e, <2>4 DEF EnteredBy, Working, name, op
      <4> QED BY <4>1, <4>2, <4>3
    <3>3. \A j \in 1..(pos'[w] - 1) : script'[j].kind = "step" => script'[j].name \in seen'[w]
      <4>1. \A j \in 1..(pos'[w] - 1) : j = pos[w] \/ j \in 1..(pos[w] - 1)  BY <2>0, <3>1, <1>t
      <4> QED BY <4>1, <3>2, <2>s, <2>0, <1>e, <2>4 DEF EnteredBy, Apart
    <3> QED BY <2>4, <3>1, <3>3 DEF EnteredBy, Working
  <2> QED BY <2>1, <2>2, <2>3, <2>4
<1> QED BY <1>1, <1>2, <1>3, <1>4, <1>5 DEF Steps

-----------------------------------------------------------------------------
(* The attempts of a step are counted. *)

\* The setbacks that have ended an execution; what stops the process ends it later.
Ended == restarts + faults + settled - (IF phase = "stopping" THEN 1 ELSE 0)

LEMMA FaultsGrow ==
  ASSUME TypeInv, [Next]_vars
  PROVE  /\ {restarts, faults, settled, restarts', faults', settled'} \subseteq Nat
         /\ faults' \in {faults, faults + 1} /\ restarts' \in {restarts, restarts + 1}
         /\ settled' \in {settled, settled + 1}
<1>1. {restarts, faults, settled, restarts', faults', settled'} \subseteq Nat
  <2>1. TypeInv'  BY TypeStepwise
  <2> QED BY <2>1, Bounds DEF TypeInv, HistoryType
<1>2. Steps  BY NextSteps
<1>3. faults' \in {faults, faults + 1}
  <2>1. ASSUME NEW c \in Callers, Reach(c) \/ DeferStep(c) PROVE faults' \in {faults, faults + 1}
    BY <2>1 DEF DeferStep, Reach, DeferGet, DeferLook, DeferPersist, DeferInsert, DeferPut, StoreOK, StoreFails
  <2>2. ASSUME NEW w \in Workers, RunStep(w) PROVE faults' \in {faults, faults + 1}
    BY <2>2 DEF RunStep, Dispatch, Settle, Requeue, Reinsert, StoreOK, StoreFails
  <2>3. ASSUME NEW w \in Workers, Flow(w) PROVE faults' \in {faults, faults + 1}
    BY <2>3 DEF Flow, StepDup, StepCached, StepGetFails, StepRuns, FnOK, Save, FnFails, PutRetry, Waited,
                SleepGet, SleepPut, StoreOK, StoreFails
  <2>4. CASE New \/ Crash \/ Shutdown \/ Exit \/ Tick \/ UNCHANGED vars
    BY <2>4 DEF New, Crash, Shutdown, Exit, Tick, vars, StoreOK, StoreFails
  <2> QED BY <1>2, <2>1, <2>2, <2>3, <2>4 DEF Steps
<1>4. restarts' \in {restarts, restarts + 1} /\ settled' \in {settled, settled + 1}
  <2>1. ASSUME NEW c \in Callers, Reach(c) \/ DeferStep(c) PROVE UNCHANGED <<restarts, settled>>
    BY <2>1 DEF DeferStep, Reach, DeferGet, DeferLook, DeferPersist, DeferInsert, DeferPut, history
  <2>2. ASSUME NEW w \in Workers, RunStep(w) PROVE restarts' = restarts /\ settled' \in {settled, settled + 1}
    BY <2>2 DEF RunStep, Dispatch, Settle, Requeue, Reinsert, history
  <2>3. ASSUME NEW w \in Workers, Flow(w) PROVE UNCHANGED <<restarts, settled>>
    BY <2>3, FlowApart
  <2>4. CASE New \/ Crash \/ Shutdown \/ Exit \/ Tick \/ UNCHANGED vars
    BY <2>4 DEF New, Crash, Shutdown, Exit, Tick, vars, history
  <2> QED BY <1>2, <2>1, <2>2, <2>3, <2>4 DEF Steps
<1> QED BY <1>1, <1>3, <1>4

LEMMA EndedStep ==
  ASSUME TypeInv, Roles, [Next]_vars
  PROVE  Ended \in Int /\ Ended' \in Int /\ Ended' >= Ended
<1>t. /\ {restarts, faults, settled, restarts', faults', settled'} \subseteq Nat
      /\ faults' >= faults /\ restarts' >= restarts /\ settled' >= settled
  BY FaultsGrow
<1>1. Ended \in Int /\ Ended' \in Int  BY <1>t DEF Ended
<1>2. CASE phase' = "stopping" => phase = "stopping"  BY <1>t, <1>2 DEF Ended
<1>3. CASE phase' = "stopping" /\ phase # "stopping"
  <2>1. faults' = faults + 1 \/ restarts' = restarts + 1
    <3>1. ASSUME NEW c \in Callers, Reach(c) \/ DeferStep(c) PROVE StoreFails
      BY <1>3, <3>1 DEF DeferStep, Reach, DeferGet, DeferLook, DeferPersist, DeferInsert, DeferPut, AfterDefer
    <3>2. ASSUME NEW w \in Workers, RunStep(w) \/ Flow(w) PROVE FALSE
      <4>1. phase' = phase
        BY <3>2, FlowApart DEF RunStep, Dispatch, Settle, Requeue, Reinsert, process
      <4> QED BY <4>1, <1>3
    <3>3. CASE New \/ Crash \/ Exit \/ Tick \/ UNCHANGED vars
      BY <1>3, <3>3 DEF New, Crash, Exit, Tick, vars, Down, process
    <3>4. CASE Shutdown  BY <3>4 DEF Shutdown
    <3> QED BY NextSteps, <3>1, <3>2, <3>3, <3>4 DEF Steps, StoreFails
  <2> QED BY <1>t, <1>3, <2>1 DEF Ended
<1> QED BY <1>1, <1>2, <1>3

\* The failures that those allow the step at i.
Quota(i) == (script[i].retries + 1) * Ended

Limited(i) == FirstOfName(i) /\ script[i].retries >= 0

LEMMA Product ==
  ASSUME NEW r \in Nat, NEW k \in Int, NEW m \in Int, k <= m
  PROVE  /\ (r + 1) * k \in Int /\ (r + 1) * m \in Int /\ (r + 1) * k <= (r + 1) * m
         /\ (k # m => (r + 1) * k + r + 1 <= (r + 1) * m)
<1>1. (r + 1) * m = (r + 1) * k + (r + 1) * (m - k)  OBVIOUS
<1>2. (r + 1) * (m - k) >= 0  OBVIOUS
<1>3. k # m => (r + 1) * (m - k) >= r + 1
  <2>1. (r + 1) * (m - k) = (r + 1) * (m - k - 1) + r + 1  OBVIOUS
  <2>2. ASSUME NEW a \in Nat PROVE (r + 1) * a >= 0  OBVIOUS
  <2>3. ASSUME k # m PROVE (r + 1) * (m - k - 1) >= 0
    <3>1. m - k - 1 \in Nat  BY <2>3
    <3> QED BY <2>2, <3>1
  <2> QED BY <2>1, <2>3
<1> QED BY <1>1, <1>2, <1>3

LEMMA QuotaStep ==
  ASSUME TypeInv, Roles, [Next]_vars, NEW i \in DOMAIN script, Limited(i)
  PROVE  /\ script[i] \in Call /\ script[i].retries \in Nat /\ script[i].name \in Names
         /\ Quota(i) \in Int /\ Quota(i)' \in Int /\ Quota(i) <= Quota(i)'
         /\ Ended' # Ended => Quota(i) + script[i].retries + 1 <= Quota(i)'
<1>1. script \in Seq(Call) /\ script \in Scripts  BY JobAssumption DEF TypeInv, BrainType
<1>2. script[i] \in Call /\ script[i].retries \in Nat
  <2>1. script[i] \in Call  BY <1>1
  <2>2. script[i].retries \in Int  BY <2>1 DEF Call
  <2> QED BY <2>1, <2>2 DEF Limited
<1>3. script[i].name \in Names  BY <1>1 DEF Names
<1>4. script' = script  BY Elsewhere, FlowApart DEF InFlow, Apart
<1>5. Ended \in Int /\ Ended' \in Int /\ Ended <= Ended'  BY EndedStep
<1> DEFINE r == script[i].retries
<1>6. /\ (r + 1) * Ended \in Int /\ (r + 1) * Ended' \in Int /\ (r + 1) * Ended <= (r + 1) * Ended'
      /\ (Ended # Ended' => (r + 1) * Ended + r + 1 <= (r + 1) * Ended')
  BY <1>2, <1>5, Product
<1>7. Quota(i) = (r + 1) * Ended /\ Quota(i)' = (r + 1) * Ended'  BY <1>4 DEF Quota
<1> QED BY <1>2, <1>3, <1>6, <1>7

\* Where the attempts of a step are counted from, and how far its worker is.
StartedAt(n) == IF retry[n] = None THEN 0 ELSE retry[n]

Attempted(w) == attempt[w] + (IF pc[w] \in {"count", "backoff"} THEN 1 ELSE 0)

AtStep(w, i) == Working(w) /\ pos[w] = i

\* No execution has failed, or ended by the shutdown.
Ongoing == (\A w \in Workers : pc[w] # "failed") /\ (phase = "stopping" => ~Idle)

CountedAt(i) ==
  LET n == script[i].name
      R == script[i].retries
  IN /\ retry[n] # None => retry[n] <= R
     /\ failures[n] <= Quota(i) + R + 1
     /\ \A w \in Workers : AtStep(w, i) => Attempted(w) <= R /\ failures[n] <= Quota(i) + Attempted(w)
     /\ savepoint[n] = None /\ Ongoing /\ (\A w \in Workers : ~AtStep(w, i)) =>
          failures[n] <= Quota(i) + StartedAt(n)

CountedAll == \A i \in DOMAIN script : Limited(i) => CountedAt(i)

Counted == ~twice => CountedAll

LEMMA FirstUnique ==
  ASSUME NEW i \in Nat \ {0}, NEW j \in Nat \ {0}, FirstOfName(i), FirstOfName(j),
         script[i].name = script[j].name
  PROVE  i = j
BY DEF FirstOfName

\* Outside the flow the counts stay, or a setback allows for them.
LEMMA OngoingBack ==
  ASSUME TypeInv, Roles, OnePlace, [Next]_vars, ~InFlow, ~twice', Ended' = Ended, Ongoing'
  PROVE  Ongoing /\ \A w \in Workers : Working(w) => Working(w)' /\ pos'[w] = pos[w]
<1>0. ~twice /\ Alone  BY Forever DEF OnePlace
<1>t. /\ {restarts, faults, settled, restarts', faults', settled'} \subseteq Nat
      /\ pc \in [Workers -> Places]
  BY FaultsGrow DEF TypeInv, LocalsType
<1>1. CASE Idle /\ phase # "stopping"  BY <1>1 DEF Ongoing, Idle, Working
<1>2. CASE UNCHANGED <<pc, pos, phase>>  BY <1>2 DEF Ongoing, Idle, Working
<1>3. ASSUME NEW c \in Callers, Reach(c) \/ DeferStep(c), ~(Idle /\ phase # "stopping") PROVE UNCHANGED <<pc, pos, phase>>
  <2>1. UNCHANGED worker /\ (c # boot => phase' = phase)
    BY <1>3 DEF DeferStep, Reach, DeferGet, DeferLook, DeferPersist, DeferInsert, DeferPut, AfterDefer
  <2>2. c # boot
    BY <1>3, Bounds DEF Roles, DeferStep, Reach, DeferGet, DeferLook, DeferPersist, DeferInsert, DeferPut, Deferring
  <2> QED BY <2>1, <2>2 DEF worker
<1>4. ASSUME NEW w \in Workers, RunStep(w)
      PROVE  Ongoing /\ \A u \in Workers : Working(u) => Working(u)' /\ pos'[u] = pos[u]
  <2>1. Apart(w) /\ phase' = phase  BY <1>4, RunApart DEF TypeInv, RunStep, Dispatch, Settle, Requeue, Reinsert, process
  <2>2. CASE \E t \in Time : Dispatch(w, t)
    <3>1. Idle /\ phase = "up"  BY <2>2, <1>0, DispatchAlone DEF Dispatch
    <3> QED BY <3>1, <1>1
  <2>3. CASE Settle(w)
    <3>1. pc[w] = "failed" /\ phase = "stopping" /\ pc'[w] = "idle"
      <4>1. ~(pc[w] = "failed" /\ phase = "stopping") => Ended' # Ended
        BY <2>3, <1>t, <2>1 DEF Settle, Ended, StoreOK, StoreFails
      <4> QED BY <4>1, <2>3, <1>t DEF Settle, Free, Goes
    <3>2. Idle'  BY <3>1, <2>1, <1>0 DEF Alone, Apart, Moves, Kept, Idle
    <3> QED BY <3>1, <3>2, <2>1 DEF Ongoing
  <2>4. CASE Requeue(w) \/ Reinsert(w)
    <3>1. pc[w] \in {"yield", "insert"}  BY <2>4 DEF Requeue, Reinsert
    <3>2. \A u \in Workers : u # w => pc[u] = "idle"  BY <3>1, <1>0 DEF Alone
    <3> QED BY <3>1, <3>2 DEF Ongoing, Idle, Working
  <2> QED BY <1>4, <2>2, <2>3, <2>4 DEF RunStep
<1>5. CASE New
  <2>1. Idle /\ phase # "stopping"  BY <1>5 DEF New, Roles
  <2> QED BY <2>1, <1>1
<1>6. CASE Crash \/ Exit
  <2>1. Ended' # Ended  BY <1>6, <1>t DEF Crash, Exit, Down, Ended
  <2> QED BY <2>1
<1>7. CASE Shutdown
  BY <1>7 DEF Shutdown, worker, Ongoing, Idle, Working
<1>8. CASE Tick \/ UNCHANGED vars
  BY <1>8, <1>2 DEF Tick, vars, worker, process
<1>9. Steps  BY NextSteps
<1> QED BY <1>1, <1>2, <1>3, <1>4, <1>5, <1>6, <1>7, <1>8, <1>9 DEF Steps, InFlow

LEMMA CountedElsewhere ==
  ASSUME TypeInv, Roles, OnePlace, CountedAll, [Next]_vars, ~InFlow, ~twice',
         NEW i \in DOMAIN script, Limited(i)
  PROVE  CountedAt(i)'
<1> DEFINE n == script[i].name
           R == script[i].retries
<1>1. /\ UNCHANGED <<script, savepoint, retry, failures>>
      /\ \A w \in Workers : pc'[w] \notin {"idle", "at", "insert"} => Kept(w)
  BY Elsewhere
<1>2. /\ R \in Nat /\ n \in Names /\ Quota(i) \in Int /\ Quota(i)' \in Int /\ Quota(i) <= Quota(i)'
      /\ Ended' # Ended => Quota(i) + R + 1 <= Quota(i)'
  BY QuotaStep
<1>3. /\ failures[n] \in Nat /\ StartedAt(n) \in Nat /\ \A w \in Workers : Attempted(w) \in Nat
  BY <1>2 DEF TypeInv, HistoryType, StoreType, LocalsType, StartedAt, Attempted
<1>c. CountedAt(i)  BY DEF CountedAll
<1>4. ASSUME NEW w \in Workers, AtStep(w, i)'
      PROVE  AtStep(w, i) /\ Attempted(w)' = Attempted(w)
  <2>1. Kept(w)  BY <1>1, <1>4 DEF AtStep, Working
  <2> QED BY <1>4, <2>1 DEF Kept, AtStep, Working, Attempted
<1>5. script'[i].name = n /\ script'[i].retries = R /\ StartedAt(n)' = StartedAt(n)
  BY <1>1 DEF StartedAt
<1>6. retry[n] # None => retry[n] <= R  BY <1>c DEF CountedAt
<1>7. failures[n] <= Quota(i) + R + 1  BY <1>c DEF CountedAt
<1>8. failures[n] <= Quota(i)' + R + 1  BY <1>2, <1>3, <1>7
<1>9. \A w \in Workers : AtStep(w, i)' => Attempted(w)' <= R /\ failures[n] <= Quota(i)' + Attempted(w)'
  BY <1>2, <1>3, <1>4, <1>c DEF CountedAt
<1>10. ASSUME savepoint[n] = None, Ongoing', \A w \in Workers : ~AtStep(w, i)'
       PROVE  failures[n] <= Quota(i)' + StartedAt(n)
  <2>1. CASE Ended' # Ended  BY <2>1, <1>2, <1>3, <1>7
  <2>2. CASE Ended' = Ended
    <3>1. Ongoing /\ \A w \in Workers : ~AtStep(w, i)
      BY <1>10, <2>2, OngoingBack DEF AtStep, Working
    <3>2. failures[n] <= Quota(i) + StartedAt(n)  BY <3>1, <1>10, <1>c DEF CountedAt
    <3> QED BY <3>2, <1>2, <1>3
  <2> QED BY <2>1, <2>2
<1> QED BY <1>1, <1>5, <1>6, <1>8, <1>9, <1>10 DEF CountedAt

\* In the flow of w.
LEMMA CountedInFlow ==
  ASSUME TypeInv, Roles, OnePlace, Entered, CountedAll, [Next]_vars, ~twice',
         NEW i \in DOMAIN script, Limited(i), NEW w \in Workers, Flow(w)
  PROVE  CountedAt(i)'
<1> DEFINE n == script[i].name
           R == script[i].retries
           mine == pos[w] = i
<1>1. /\ script' = script /\ phase' = phase
      /\ \A u \in Workers : pc'[u] # "idle" => u = w
      /\ \A u \in Workers : u # w => pc[u] = "idle"
      /\ pc[w] # "idle" /\ pc'[w] # "idle"
  BY FlowAlone, FlowApart DEF Apart, process
<1>2. /\ R \in Nat /\ n \in Names /\ Quota(i) \in Int /\ Quota(i)' \in Int /\ Quota(i) <= Quota(i)'
      /\ Ended' # Ended => Quota(i) + R + 1 <= Quota(i)'
  BY QuotaStep
<1>t. /\ failures \in [Names -> Nat] /\ retry \in [Names -> Nat \cup {None}] /\ None \notin Int
      /\ savepoint \in [Names -> Nat \cup {None}] /\ name(w) \in Names
      /\ attempt \in [Workers -> Nat] /\ attempt[w] \in Nat /\ pc \in [Workers -> Places]
      /\ pos \in [Workers -> 1..(Len(script) + 1)] /\ pos[w] \in 1..Len(script) /\ Len(script) \in Nat
  BY FlowAt, Bounds, LenType DEF TypeInv, HistoryType, StoreType, LocalsType, BrainType
<1>a. attempt[w] \in Nat  BY <1>t
<1>3. failures[n] \in Nat /\ StartedAt(n) \in Nat /\ Attempted(w) \in Nat
  BY <1>2, <1>t DEF StartedAt, Attempted
<1>c. CountedAt(i)  BY DEF CountedAll
<1>4. retry[n] # None => retry[n] <= R  BY <1>c DEF CountedAt
<1>5. failures[n] <= Quota(i) + R + 1  BY <1>c DEF CountedAt
<1>6. AtStep(w, i) => Attempted(w) <= R /\ failures[n] <= Quota(i) + Attempted(w)
  BY <1>c DEF CountedAt
<1>7. ASSUME savepoint[n] = None, pc[w] # "failed", ~AtStep(w, i)
      PROVE  failures[n] <= Quota(i) + StartedAt(n)
  <2>1. Ongoing  BY <1>7, <1>1 DEF Ongoing, Idle
  <2>2. \A u \in Workers : ~AtStep(u, i)  BY <1>7, <1>1 DEF AtStep, Working
  <2> QED BY <2>1, <2>2, <1>7, <1>c DEF CountedAt
<1>8. Working(w) => (mine <=> name(w) = n)
  <2>1. i \in Nat \ {0} /\ pos[w] \in Nat \ {0}
    <3>1. script \in Seq(Call)  BY JobAssumption DEF TypeInv, BrainType
    <3>2. i \in 1..Len(script)  BY <3>1
    <3> QED BY <3>2, <1>t
  <2>2. Working(w) => FirstOfName(pos[w])  BY DEF Entered, EnteredBy
  <2> QED BY <2>1, <2>2, FirstUnique DEF Limited, name, op
<1>9. Ended' = Ended <=> faults' = faults
  BY <1>1, FlowApart, FaultsGrow DEF Ended
\* What is left to show of each step.
<1>g. ASSUME failures'[n] \in Nat,
             retry'[n] # None => retry'[n] <= R,
             failures'[n] <= Quota(i)' + R + 1,
             AtStep(w, i)' => Attempted(w)' <= R /\ failures'[n] <= Quota(i)' + Attempted(w)',
             savepoint'[n] = None /\ pc'[w] # "failed" /\ ~AtStep(w, i)' =>
               failures'[n] <= Quota(i)' + StartedAt(n)'
      PROVE  CountedAt(i)'
  <2>1. \A u \in Workers : AtStep(u, i)' => u = w  BY <1>1 DEF AtStep, Working
  <2>2. Ongoing' => pc'[w] # "failed"  BY DEF Ongoing
  <2> QED BY <1>1, <1>g, <2>1, <2>2 DEF CountedAt, StartedAt
<1>10. CASE UNCHANGED <<failures, retry>> /\ faults' # faults
  <2>1. failures'[n] <= Quota(i)'  BY <1>2, <1>3, <1>5, <1>9, <1>10
  <2>2. AtStep(w, i)' => Attempted(w)' = 0
    <3>1. CASE StepRuns(w)
      BY <3>1, <1>10, <1>t DEF StepRuns, StoreOK, Attempts, Goes, Attempted
    <3>2. CASE ~StepRuns(w)
      BY <3>2, <1>10, <1>t DEF Flow, StepDup, StepCached, StepGetFails, FnOK, Save, FnFails, PutRetry, Waited,
         SleepGet, SleepPut, StoreOK, Fails, Goes, AtStep, Working
    <3> QED BY <3>1, <3>2
  <2>3. StartedAt(n)' = StartedAt(n)  BY <1>10, <1>1 DEF StartedAt
  <2> QED BY <1>g, <1>2, <1>3, <1>4, <1>10, <2>1, <2>2, <2>3
<1>11. CASE UNCHANGED <<failures, retry, faults>> /\ pc'[w] = "failed"
  <2>1. Quota(i)' = Quota(i)  BY <1>11, <1>9, <1>1 DEF Quota
  <2> QED BY <1>g, <1>3, <1>4, <1>5, <1>11, <2>1 DEF AtStep, Working
<1>12. CASE (StepCached(w) \/ SleepStep(w)) /\ faults' = faults
  <2>1. /\ UNCHANGED <<failures, retry, savepoint>> /\ pc'[w] \in {"at", "rest", "yield", "failed"}
        /\ pc[w] \in {"at", "rest"}
    BY <1>12, <1>t DEF StepCached, Enters, Calls, Return, Goes, SleepStep, SleepGet, SleepPut, SleepKept, Fails, Until
  <2>2. Quota(i)' = Quota(i) /\ StartedAt(n)' = StartedAt(n)
    BY <1>12, <2>1, <1>9, <1>1 DEF Quota, StartedAt
  <2> QED BY <1>g, <1>3, <1>4, <1>5, <1>7, <2>1, <2>2 DEF AtStep, Working
<1>13. CASE StepRuns(w) /\ faults' = faults
  <2>1. /\ UNCHANGED <<failures, retry, savepoint, pos>> /\ pc'[w] = "fn" /\ pc[w] = "at"
        /\ attempt'[w] = StartAttempt(w) /\ savepoint[name(w)] = None
    BY <1>13, <1>t, FaultsGrow DEF StepRuns, Enters, Calls, Attempts, Goes, StoreFails
  <2>2. Quota(i)' = Quota(i) /\ StartedAt(n)' = StartedAt(n)
    BY <1>13, <2>1, <1>9, <1>1 DEF Quota, StartedAt
  <2>3. ~AtStep(w, i)  BY <2>1 DEF AtStep, Working
  <2>4. CASE mine
    <3>1. name(w) = n  BY <2>4 DEF name, op
    <3>2. failures[n] <= Quota(i) + StartedAt(n) /\ Attempted(w)' = StartedAt(n)
      BY <1>7, <2>1, <2>3, <3>1, <1>3 DEF StartAttempt, StartedAt, Attempted
    <3>3. StartedAt(n) <= R  BY <1>2, <1>4 DEF StartedAt
    <3>4. AtStep(w, i)'  BY <2>1, <2>4 DEF AtStep, Working
    <3> QED BY <1>g, <1>3, <1>4, <1>5, <2>1, <2>2, <3>2, <3>3, <3>4
  <2>5. CASE ~mine
    <3>1. ~AtStep(w, i)'  BY <2>1, <2>5 DEF AtStep
    <3> QED BY <1>g, <1>3, <1>4, <1>5, <1>7, <2>1, <2>2, <2>3, <3>1
  <2> QED BY <2>4, <2>5
<1>14. CASE (FnOK(w) \/ Waited(w)) /\ pc'[w] # "failed"
  <2>1. /\ UNCHANGED <<failures, retry, savepoint, pos, faults>> /\ Working(w) /\ Working(w)'
        /\ Attempted(w)' = Attempted(w) /\ pc[w] # "failed"
    BY <1>14, <1>t DEF FnOK, Waited, Fails, Attempts, Goes, Working, Attempted
  <2>2. Quota(i)' = Quota(i) /\ StartedAt(n)' = StartedAt(n)
    BY <2>1, <1>9, <1>1 DEF Quota, StartedAt
  <2>3. AtStep(w, i)' <=> AtStep(w, i)  BY <2>1 DEF AtStep
  <2> QED BY <1>g, <1>3, <1>4, <1>5, <1>6, <1>7, <2>1, <2>2, <2>3
<1>15. CASE Save(w) /\ faults' = faults
  <2>1. /\ UNCHANGED <<failures, retry>> /\ Working(w) /\ pc'[w] = "at" /\ pc[w] # "failed"
        /\ savepoint' = Put(savepoint, name(w), until[w]) /\ until[w] \in Nat
    BY <1>15, <1>t, FaultsGrow DEF Save, Return, Goes, Working, StoreFails, TypeInv, WorkerType
  <2>2. Quota(i)' = Quota(i) /\ StartedAt(n)' = StartedAt(n)
    BY <1>15, <2>1, <1>9, <1>1 DEF Quota, StartedAt
  <2>3. savepoint'[n] = None => savepoint[n] = None /\ ~AtStep(w, i)
    BY <2>1, <1>2, <1>8, <1>t DEF Put, AtStep
  <2>4. ~AtStep(w, i)'  BY <2>1 DEF AtStep, Working
  <2> QED BY <1>g, <1>3, <1>4, <1>5, <1>7, <2>1, <2>2, <2>3, <2>4
<1>16. CASE FnFails(w)
  <2>1. /\ UNCHANGED <<retry, savepoint, pos, attempt, faults>> /\ pc[w] = "fn"
        /\ failures' = [failures EXCEPT ![name(w)] = @ + 1]
        /\ (pc'[w] = "failed" \/ (pc'[w] \in {"count", "backoff"} /\ ~Exhausted(w)))
    BY <1>16, <1>t DEF FnFails, Goes
  <2>2. Quota(i)' = Quota(i) /\ StartedAt(n)' = StartedAt(n)
    BY <2>1, <1>9, <1>1 DEF Quota, StartedAt
  <2>3. CASE mine
    <3>1. failures'[n] = failures[n] + 1 /\ AtStep(w, i)
      BY <1>8, <2>1, <2>3, <1>2, <1>t DEF AtStep, Working
    <3>2. attempt[w] <= R /\ failures[n] <= Quota(i) + attempt[w]
      BY <3>1, <2>1, <1>6, <1>t DEF Attempted
    <3>3. CASE pc'[w] = "failed"
      <4>1. ~AtStep(w, i)'  BY <3>3 DEF AtStep, Working
      <4>2. failures'[n] \in Nat /\ failures'[n] <= Quota(i)' + R + 1
        BY <1>2, <1>3, <1>a, <2>2, <3>1, <3>2
      <4> QED BY <1>g, <1>4, <2>1, <3>3, <4>1, <4>2
    <3>4. CASE pc'[w] \in {"count", "backoff"} /\ ~Exhausted(w)
      <4>1. attempt[w] + 1 <= R  BY <3>4, <2>3, <1>2, <1>t DEF Exhausted, op
      <4>2. Attempted(w)' = attempt[w] + 1 /\ AtStep(w, i)'
        BY <3>4, <2>1, <2>3 DEF Attempted, AtStep, Working
      <4>3. /\ failures'[n] \in Nat /\ failures'[n] <= Quota(i)' + R + 1
            /\ Attempted(w)' <= R /\ failures'[n] <= Quota(i)' + Attempted(w)'
        BY <1>2, <1>3, <1>a, <2>2, <3>1, <3>2, <4>1, <4>2
      <4> QED BY <1>g, <1>4, <2>1, <4>2, <4>3
    <3> QED BY <2>1, <3>3, <3>4
  <2>4. CASE ~mine
    <3>1. failures'[n] = failures[n] /\ ~AtStep(w, i)' /\ ~AtStep(w, i)
      BY <1>8, <2>1, <2>4, <1>2, <1>t DEF AtStep, Working
    <3> QED BY <1>g, <1>3, <1>4, <1>5, <1>7, <2>1, <2>2, <3>1
  <2> QED BY <2>3, <2>4
<1>17. CASE PutRetry(w)
  <2>1. /\ UNCHANGED <<failures, savepoint>> /\ pc[w] = "count" /\ pc'[w] \in {"yield", "failed"}
        /\ retry' \in {retry, Put(retry, name(w), attempt[w] + 1)}
        /\ (faults' = faults => pc'[w] = "yield" /\ retry' = Put(retry, name(w), attempt[w] + 1))
    BY <1>17, <1>t, FaultsGrow DEF PutRetry, Goes, MayPut, StoreFails
  <2>2. ~AtStep(w, i)' /\ (mine <=> name(w) = n) /\ (mine => AtStep(w, i))
    BY <2>1, <1>8 DEF AtStep, Working
  <2>3. mine => attempt[w] + 1 <= R /\ failures[n] <= Quota(i) + attempt[w] + 1
    BY <2>1, <2>2, <1>6, <1>t, <1>2, <1>3 DEF Attempted
  <2>4. retry'[n] # None => retry'[n] <= R
    BY <2>1, <2>2, <2>3, <1>2, <1>4, <1>t DEF Put
  <2>5. CASE faults' # faults
    <3>1. failures'[n] <= Quota(i)'  BY <1>2, <1>3, <1>5, <1>9, <2>1, <2>5
    <3>2. StartedAt(n)' \in Nat
      <4>1. retry'[n] \in Nat \cup {None}  BY <1>2, TypeStepwise DEF TypeInv, StoreType
      <4> QED BY <4>1, <1>1 DEF StartedAt
    <3> QED BY <1>g, <1>2, <1>3, <2>1, <2>2, <2>4, <3>1, <3>2
  <2>6. CASE faults' = faults
    <3>1. Quota(i)' = Quota(i)  BY <2>6, <1>9, <1>1 DEF Quota
    <3>2. CASE mine
      <4>1. StartedAt(n)' = attempt[w] + 1
        BY <2>1, <2>2, <2>6, <3>2, <1>1, <1>2, <1>t DEF StartedAt, Put
      <4> QED BY <1>g, <1>2, <1>3, <1>5, <1>t, <2>1, <2>2, <2>3, <2>4, <3>1, <3>2, <4>1
    <3>3. CASE ~mine
      <4>1. StartedAt(n)' = StartedAt(n) /\ ~AtStep(w, i)
        BY <2>1, <2>2, <2>6, <3>3, <1>1, <1>2, <1>t DEF StartedAt, Put, AtStep
      <4> QED BY <1>g, <1>3, <1>5, <1>7, <2>1, <2>2, <2>4, <3>1, <4>1
    <3> QED BY <3>2, <3>3
  <2> QED BY <2>5, <2>6
<1>18. CASE StepDup(w) \/ StepGetFails(w) \/ (Waited(w) /\ pc'[w] = "failed")
  <2>1. UNCHANGED <<failures, retry>> /\ pc'[w] = "failed"
    BY <1>18, <1>t DEF StepDup, StepGetFails, Waited, Fails, Goes
  <2> QED BY <2>1, <1>10, <1>11
<1>19. CASE (StepCached(w) \/ SleepStep(w) \/ StepRuns(w) \/ Save(w)) /\ faults' # faults
  <2>1. UNCHANGED <<failures, retry>>
    BY <1>19 DEF StepCached, SleepStep, SleepGet, SleepPut, SleepKept, StepRuns, Save
  <2> QED BY <2>1, <1>10, <1>19
<1>20. CASE FnOK(w) /\ pc'[w] = "failed"
  BY <1>20, <1>t DEF FnOK, Goes
<1>21. StepStep(w) \/ RetryStep(w) \/ SleepStep(w)  BY FlowSteps
<1>22. CASE StepStep(w)
  <2>1. CASE StepDup(w) \/ StepGetFails(w)  BY <2>1, <1>18
  <2>2. CASE StepCached(w)  BY <2>2, <1>12, <1>19
  <2>3. CASE StepRuns(w)  BY <2>3, <1>13, <1>19
  <2>4. CASE FnOK(w)  BY <2>4, <1>14, <1>20
  <2>5. CASE Save(w)  BY <2>5, <1>15, <1>19
  <2> QED BY <1>22, <2>1, <2>2, <2>3, <2>4, <2>5 DEF StepStep
<1>23. CASE RetryStep(w)
  BY <1>23, <1>14, <1>16, <1>17, <1>18 DEF RetryStep
<1>24. CASE SleepStep(w)  BY <1>24, <1>12, <1>19
<1> QED BY <1>21, <1>22, <1>23, <1>24

LEMMA CountedStep ==
  TypeInv /\ Roles /\ OnePlace /\ Entered /\ Counted /\ [Next]_vars => Counted'
<1> SUFFICES ASSUME TypeInv, Roles, OnePlace, Entered, Counted, [Next]_vars, ~twice'
             PROVE  CountedAll'
  BY DEF Counted
<1>1. CountedAll  BY Forever DEF Counted
<1>2. script' = script  BY Elsewhere, FlowApart DEF InFlow, Apart
<1>3. ASSUME NEW i \in DOMAIN script, Limited(i) PROVE CountedAt(i)'
  BY <1>1, <1>3, CountedElsewhere, CountedInFlow DEF InFlow
<1>4. \A i \in DOMAIN script : (Limited(i))' <=> Limited(i)
  BY <1>2 DEF Limited, FirstOfName
<1> QED BY <1>2, <1>3, <1>4 DEF CountedAll

WaitInv == PlaceInv /\ DeadlineKept /\ Entered /\ Counted

\* For any flow and any number of workers, unless the run was put in the heap a second
\* time: a Sleep keeps the deadline of its first entry and does not return before it,
\* and a step makes no more attempts than its Retries allow, but for one series more
\* with each crash, shutdown, Store error and acknowledgement.
THEOREM WaitsGoOn == Spec => []WaitsResumed
<1>1. Init => WaitInv
  <2> SUFFICES ASSUME Init PROVE WaitInv
    OBVIOUS
  <2>1. PlaceInv  BY PlaceInvariant
  <2>2. DeadlineKept  BY DEF Init, DeadlineKept, Rested
  <2>3. Entered  BY DEF Init, Entered, EnteredBy, Working
  <2>4. Counted
    <3> SUFFICES ASSUME NEW i \in DOMAIN script, Limited(i) PROVE CountedAt(i)
      BY DEF Counted, CountedAll
    <3>1. script \in Scripts /\ script \in Seq(Call)  BY JobAssumption DEF Init
    <3>2. script[i] \in Call /\ script[i].name \in Names  BY <3>1 DEF Names
    <3>3. script[i].retries \in Nat  BY <3>2 DEF Limited, Call
    <3>4. Quota(i) = 0  BY <3>3 DEF Init, Quota, Ended
    <3>5. \A w \in Workers : ~AtStep(w, i)  BY DEF Init, AtStep, Working
    <3> QED BY <3>2, <3>3, <3>4, <3>5 DEF Init, CountedAt, StartedAt
  <2> QED BY <2>1, <2>2, <2>3, <2>4 DEF WaitInv
<1>2. WaitInv /\ [Next]_vars => WaitInv'
  BY PlaceInvariant, DeadlineStep, EnteredStep, CountedStep DEF WaitInv, PlaceInv
<1>3. WaitInv => WaitsResumed
  <2> SUFFICES ASSUME WaitInv, ~twice PROVE WaitsResumed
    BY DEF WaitsResumed
  <2>1. \A n \in Names : /\ deadline[n] # None => deadline[n] = first[n]
                         /\ slept[n] # None => deadline[n] # None /\ deadline[n] <= slept[n]
    BY DEF WaitInv, DeadlineKept, Rested
  <2>2. ASSUME NEW i \in DOMAIN script, FirstOfName(i), script[i].retries >= 0
        PROVE  failures[script[i].name] <= (script[i].retries + 1) * (Setbacks + 1)
    <3>1. script \in Scripts /\ script \in Seq(Call)
      BY JobAssumption DEF WaitInv, PlaceInv, TypeInv, BrainType
    <3>2. script[i] \in Call /\ script[i].name \in Names  BY <3>1 DEF Names
    <3>3. script[i].retries \in Nat  BY <2>2, <3>2 DEF Call
    <3>4. failures[script[i].name] \in Nat
      BY <3>2 DEF WaitInv, PlaceInv, TypeInv, HistoryType
    <3>5. Setbacks \in Int /\ Ended \in Int /\ Ended <= Setbacks
      <4>1. {restarts, faults, settled} \subseteq Nat  BY Bounds DEF WaitInv, PlaceInv, TypeInv, HistoryType
      <4> QED BY <4>1 DEF Setbacks, Ended
    <3>6. failures[script[i].name] <= (script[i].retries + 1) * Ended + script[i].retries + 1
      BY <2>2 DEF WaitInv, Counted, CountedAll, Limited, CountedAt, Quota
    <3> DEFINE r == script[i].retries
    <3>7. /\ (r + 1) * Ended \in Int /\ (r + 1) * Setbacks \in Int
          /\ (r + 1) * Ended <= (r + 1) * Setbacks
      BY <3>3, <3>5, Product
    <3>8. (r + 1) * (Setbacks + 1) = (r + 1) * Setbacks + r + 1  BY <3>3, <3>5
    <3> QED BY <3>3, <3>4, <3>6, <3>7, <3>8
  <2> QED BY <2>1, <2>2 DEF WaitsResumed
<1> QED BY <1>1, <1>2, <1>3, PTL DEF Spec

-----------------------------------------------------------------------------
(* A Once fires, and once. *)

Fired == record # None \/ settled > 0

Held == ~Empty \/ ~Idle

\* Whatever is under way, or behind a tombstone, was persisted.
Backed == tombstone \/ Held \/ (\E c \in Callers : defer[c] \in {"insert", "put"}) => Fired

LEMMA OnceTypes ==
  ASSUME TypeInv, [Next]_vars
  PROVE  /\ record \in Time \cup {None} /\ At \in Time /\ None \notin Time /\ settled \in Nat /\ settled' \in Nat
         /\ settled' >= settled /\ faults \in Nat /\ faults' \in Nat /\ (faults' = 0 => faults = 0)
         /\ pending \in [Time -> Nat] /\ defer \in [Callers -> Stages] /\ pc \in [Workers -> Places]
<1>1. {faults, settled, faults', settled'} \subseteq Nat /\ faults' \in {faults, faults + 1}
      /\ settled' \in {settled, settled + 1}
  BY FaultsGrow
<1>2. settled \in Nat /\ settled' \in Nat /\ settled' >= settled  BY <1>1
<1>3. faults \in Nat /\ faults' \in Nat /\ (faults' = 0 => faults = 0)  BY <1>1
<1>4. At \in Time /\ None \notin Time  BY Bounds DEF Time
<1> QED BY <1>2, <1>3, <1>4 DEF TypeInv, StoreType, ProcessType, LocalsType

\* In the flow the run stays where it is.
LEMMA OnceInFlow ==
  ASSUME TypeInv, NEW w \in Workers, Flow(w)
  PROVE  /\ UNCHANGED <<chained, record, tombstone, phase, pending, defer, settled, raced, twice>>
         /\ Held /\ Held' /\ (Empty' <=> Empty) /\ ~Idle /\ ~Idle'
BY FlowApart DEF Apart, process, Held, Idle, Empty

LEMMA BackedStep == TypeInv /\ Backed /\ [Next]_vars => Backed'
<1> SUFFICES ASSUME TypeInv, Backed, [Next]_vars PROVE Backed'
  OBVIOUS
<1>t. /\ record \in Time \cup {None} /\ At \in Time /\ None \notin Time /\ settled \in Nat /\ settled' \in Nat
      /\ settled' >= settled /\ defer \in [Callers -> Stages] /\ pc \in [Workers -> Places]
  BY OnceTypes
<1>f. Fired' => Backed'  BY DEF Backed
<1>k. ASSUME record' = record PROVE Fired => Fired'  BY <1>k, <1>t DEF Fired
<1>1. ASSUME NEW c \in Callers, Reach(c) \/ DeferStep(c) PROVE Backed'
  <2>0. pc' = pc /\ settled' = settled
    BY <1>1 DEF DeferStep, Reach, DeferGet, DeferLook, DeferPersist, DeferInsert, DeferPut, worker, history
  <2>1. CASE defer[c] \in {"insert", "put"}
    <3>1. Fired  BY <2>1 DEF Backed
    <3>2. record' = record
      BY <1>1, <2>1, Bounds DEF DeferStep, Reach, DeferGet, DeferLook, DeferPersist, DeferInsert, DeferPut, Deferring, store
    <3> QED BY <3>1, <3>2, <1>k, <1>f
  <2>2. CASE DeferPersist(c)
    <3>1. record' = At \/ (record' = record /\ defer'[c] = "idle")
      BY <2>2, <1>t DEF DeferPersist, Deferring
    <3>2. CASE record' = At  BY <3>2, <1>t, <1>f DEF Fired
    <3>3. CASE record' = record /\ defer'[c] = "idle"
      <4>1. UNCHANGED <<tombstone, pending>> /\ \A d \in Callers \ {c} : defer'[d] = defer[d]
        BY <2>2, <1>t DEF DeferPersist, Deferring
      <4>2. Fired' <=> Fired  BY <2>0, <3>3 DEF Fired
      <4> QED BY <2>0, <3>3, <4>1, <4>2 DEF Backed, Held, Idle, Empty
    <3> QED BY <3>1, <3>2, <3>3
  <2>3. CASE Reach(c) \/ DeferGet(c) \/ DeferLook(c)
    <3>1. UNCHANGED <<record, tombstone, pending>> /\ \A d \in Callers \ {c} : defer'[d] = defer[d]
      BY <2>3, <1>t DEF Reach, DeferGet, DeferLook, Deferring, store
    <3>2. defer'[c] \in {"insert", "put"} => Held
      BY <2>3, <1>t DEF Reach, DeferGet, DeferLook, Deferring, Held
    <3>3. Fired' <=> Fired  BY <2>0, <3>1 DEF Fired
    <3> QED BY <2>0, <3>1, <3>2, <3>3 DEF Backed, Held, Idle, Empty
  <2>4. DeferInsert(c) \/ DeferPut(c) => defer[c] \in {"insert", "put"}
    BY DEF DeferInsert, DeferPut, Deferring
  <2> QED BY <1>1, <2>1, <2>2, <2>3, <2>4 DEF DeferStep
<1>2. ASSUME NEW w \in Workers, RunStep(w) PROVE Backed'
  <2>1. Held  BY <1>2 DEF RunStep, Dispatch, Due, Empty, Settle, Requeue, Reinsert, Held, Idle
  <2>2. Fired  BY <2>1 DEF Backed
  <2>3. Fired'
    <3>1. CASE Requeue(w)
      <4>1. until[w] \in Time  BY <3>1 DEF TypeInv, WorkerType, Requeue
      <4> QED BY <3>1, <4>1, <2>2, <1>t DEF Requeue, Fired, history
    <3>2. CASE Settle(w)
      BY <3>2, <2>2, <1>t DEF Settle, Fired
    <3>3. CASE Reinsert(w) \/ \E t \in Time : Dispatch(w, t)
      <4>1. record' = record  BY <3>3 DEF Reinsert, Dispatch, store
      <4> QED BY <4>1, <2>2, <1>k
    <3> QED BY <1>2, <3>1, <3>2, <3>3 DEF RunStep
  <2> QED BY <2>3, <1>f
<1>3. ASSUME NEW w \in Workers, Flow(w) PROVE Backed'
  <2>1. record' = record /\ Held  BY <1>3, OnceInFlow
  <2> QED BY <2>1, <1>k, <1>f DEF Backed
<1>4. CASE New
  <2>1. UNCHANGED <<record, settled, tombstone, pc>>  BY <1>4 DEF New, store, history, worker
  <2>2. Fired' <=> Fired  BY <2>1 DEF Fired
  <2>3. CASE record # None  BY <2>1, <2>3, <1>f DEF Fired
  <2>4. CASE record = None
    <3>1. pending' = pending /\ \A c \in Callers : defer'[c] \in {defer[c], "get"}
      BY <1>4, <2>4, <1>t DEF New
    <3> QED BY <2>1, <2>2, <3>1 DEF Backed, Held, Idle, Empty
  <2> QED BY <2>3, <2>4
<1>5. CASE Crash \/ Exit
  <2>1. Down /\ UNCHANGED <<record, settled, tombstone>>  BY <1>5 DEF Crash, Exit, store
  <2>2. ~Held' /\ \A c \in Callers : defer'[c] = "idle"  BY <2>1 DEF Down, Held, Idle, Empty
  <2> QED BY <2>1, <2>2 DEF Backed, Fired
<1>6. CASE Shutdown \/ Tick \/ UNCHANGED vars
  <2>1. UNCHANGED <<record, settled, tombstone, pending, defer, pc>>
    BY <1>6 DEF Shutdown, Tick, vars, store, history, worker, process
  <2> QED BY <2>1 DEF Backed, Held, Idle, Empty, Fired
<1> QED BY NextSteps, <1>1, <1>2, <1>3, <1>4, <1>5, <1>6 DEF Steps

\* Requests that do not race: one schedules the run, where there is none.
Scheduling == {c \in Requests : defer[c] \in {"enqueue", "persist", "insert", "put"}}

Quiet ==
  /\ \A c, d \in Scheduling : c = d
  /\ \A c \in Requests : /\ defer[c] \in {"enqueue", "persist"} => ~Fired
                         /\ defer[c] = "insert" => ~Held /\ settled = 0
  /\ ~chained /\ Fired /\ ~tombstone => \E c \in Requests : defer[c] \in {"insert", "put"}
  /\ ~twice

Calm == ~raced => Quiet

\* A step that leaves a request's place in Defer, and the run, alone.
LEMMA QuietKept ==
  ASSUME Quiet, UNCHANGED <<chained, tombstone, settled, twice>>, record' = record,
         \A c \in Requests : defer'[c] = defer[c], Held' => Held
  PROVE  Quiet'
BY DEF Quiet, Scheduling, Fired

LEMMA CalmStep == TypeInv /\ Roles /\ OnePlace /\ Backed /\ Calm /\ [Next]_vars => Calm'
<1> SUFFICES ASSUME TypeInv, Roles, OnePlace, Backed, Calm, [Next]_vars, ~raced' PROVE Quiet'
  BY DEF Calm
<1>0. ~raced /\ Quiet  BY Forever DEF Calm
<1>a. ~twice /\ Alone  BY <1>0 DEF Quiet, OnePlace
<1>t. /\ record \in Time \cup {None} /\ At \in Time /\ None \notin Time /\ settled \in Nat /\ settled' \in Nat
      /\ settled' >= settled /\ defer \in [Callers -> Stages] /\ pc \in [Workers -> Places]
  BY OnceTypes
<1>n. ASSUME ~Fired PROVE ~Held /\ settled = 0 /\ record = None /\ Empty /\ Idle
  BY <1>n, <1>t DEF Backed, Held, Fired
<1>1. ASSUME NEW c \in Callers, Reach(c) \/ DeferStep(c) PROVE Quiet'
  <2>0. UNCHANGED <<chained, settled, pc>> /\ \A d \in Callers : d # c => defer'[d] = defer[d]
    BY <1>1, <1>t DEF DeferStep, Reach, DeferGet, DeferLook, DeferPersist, DeferInsert, DeferPut, Deferring,
       brain, worker, history
  <2>1. CASE c = boot
    <3>1. chained /\ Idle /\ \A d \in Requests : defer[d] = "idle" /\ defer'[d] = "idle"
      <4>1. defer[boot] # "idle"
        BY <1>1, <2>1, Bounds DEF DeferStep, Reach, DeferGet, DeferLook, DeferPersist, DeferInsert, DeferPut, Deferring
      <4>2. chained /\ Idle /\ \A d \in Requests : defer[d] = "idle"  BY <4>1 DEF Roles
      <4> QED BY <4>2, <2>0, <2>1, Bounds
    <3>2. ~twice'
      <4>1. CASE DeferInsert(c)
        <5>1. Empty /\ Executing = {}  BY <2>1, <3>1, <4>1, IdleIs DEF Roles, DeferInsert, Deferring
        <5> QED BY <4>1, <5>1, <1>a DEF DeferInsert
      <4>2. CASE ~DeferInsert(c)
        BY <1>1, <4>2, <1>a DEF DeferStep, Reach, DeferGet, DeferLook, DeferPersist, DeferPut, history
      <4> QED BY <4>1, <4>2
    <3> QED BY <2>0, <3>1, <3>2 DEF Quiet, Scheduling
  <2>2. CASE c # boot
    <3>0. c \in Requests /\ ~chained
      <4>1. c \in Requests /\ (defer[c] # "idle" \/ ~chained)
        BY <1>1, <2>2, Bounds DEF DeferStep, Reach, DeferGet, DeferLook, DeferPersist, DeferInsert, DeferPut, Deferring
      <4> QED BY <4>1 DEF Roles
    <3>1. CASE Reach(c) \/ (DeferGet(c) /\ defer'[c] = "idle")
      <4>1. /\ UNCHANGED <<record, tombstone, twice, pending>> /\ defer[c] \in {"idle", "get"}
            /\ defer'[c] \in {"idle", "get"}
        BY <3>1, <3>0, <1>t, Bounds DEF Reach, DeferGet, Deferring, store, history
      <4>2. Fired' <=> Fired  BY <4>1, <2>0 DEF Fired
      <4>3. Scheduling' = Scheduling
        BY <4>1, <2>0, Bounds DEF Scheduling
      <4>4. Held' => Held  BY <4>1, <2>0 DEF Held, Idle, Empty
      <4>5. \A d \in Requests : defer'[d] # "get" /\ defer'[d] # "idle" => defer'[d] = defer[d]
        BY <4>1, <2>0, Bounds
      <4>6. \A d \in Requests : defer[d] \in {"insert", "put"} => defer'[d] = defer[d]
        BY <4>1, <2>0, Bounds
      <4> QED BY <4>1, <4>2, <4>3, <4>4, <4>5, <4>6, <2>0, <1>0 DEF Quiet
    <3>2. CASE DeferGet(c) /\ defer'[c] # "idle"
      <4>1. /\ UNCHANGED <<record, tombstone, twice, pending>> /\ ~tombstone /\ ~Overlap(c)
            /\ defer'[c] = "enqueue"
        BY <3>2, <3>0, <1>t, Bounds DEF DeferGet, Deferring, store
      <4>2. \A d \in Requests : d # c => defer[d] \notin {"enqueue", "persist", "insert", "put"}
        BY <4>1 DEF Overlap
      <4>3. defer[c] = "get"  BY <3>2 DEF DeferGet, Deferring
      <4>4. ~Fired  BY <4>1, <4>2, <4>3, <3>0, <1>0 DEF Quiet
      <4>5. ~Fired'  BY <4>1, <4>4, <2>0 DEF Fired
      <4>6. \A d \in Requests : d # c => defer'[d] \notin {"enqueue", "persist", "insert", "put"}
        BY <4>2, <2>0, Bounds
      <4> QED BY <4>1, <4>5, <4>6, <1>a DEF Quiet, Scheduling
    <3>s. ASSUME c \in Scheduling
          PROVE  \A d \in Requests : d # c => defer'[d] \notin {"enqueue", "persist", "insert", "put"}
      BY <3>s, <2>0, <1>0, Bounds DEF Quiet, Scheduling
    <3>3. CASE DeferLook(c)
      <4>1. /\ UNCHANGED <<record, tombstone, twice, pending>> /\ defer[c] = "enqueue"
            /\ defer'[c] = IF Empty THEN "persist" ELSE "put"
        BY <3>3, <3>0, <1>t, Bounds DEF DeferLook, Deferring, store, history
      <4>2. ~Fired  BY <4>1, <3>0, <1>0 DEF Quiet
      <4>3. defer'[c] = "persist"  BY <4>1, <4>2, <1>n
      <4>4. ~Fired'  BY <4>1, <4>2, <2>0 DEF Fired
      <4>5. \A d \in Requests : d # c => defer'[d] \notin {"enqueue", "persist", "insert", "put"}
        BY <3>s, <4>1, <3>0 DEF Scheduling
      <4> QED BY <4>1, <4>3, <4>4, <4>5, <1>a DEF Quiet, Scheduling
    <3>4. CASE DeferPersist(c)
      <4>1. /\ UNCHANGED <<tombstone, twice, pending>> /\ defer[c] = "persist"
            /\ defer'[c] = "insert"
        BY <3>4, <3>0, <2>2, <1>t, Bounds DEF DeferPersist, Deferring
      <4>2. ~Fired  BY <4>1, <3>0, <1>0 DEF Quiet
      <4>3. ~Held' /\ settled' = 0
        BY <4>1, <4>2, <2>0, <1>n DEF Held, Idle, Empty
      <4>5. \A d \in Requests : d # c => defer'[d] \notin {"enqueue", "persist", "insert", "put"}
        BY <3>s, <4>1, <3>0 DEF Scheduling
      <4> QED BY <3>0, <4>1, <4>3, <4>5, <1>a DEF Quiet, Scheduling
    <3>5. CASE DeferInsert(c)
      <4>1. UNCHANGED <<record, tombstone>> /\ defer[c] = "insert" /\ defer'[c] = "put"
        BY <3>5, <3>0, <1>t, Bounds DEF DeferInsert, Deferring, store
      <4>2. Empty /\ Executing = {}
        BY <4>1, <3>0, <1>0, IdleIs DEF Quiet, Held
      <4>3. ~twice'  BY <3>5, <4>2, <1>a DEF DeferInsert
      <4>5. \A d \in Requests : d # c => defer'[d] \notin {"enqueue", "persist", "insert", "put"}
        BY <3>s, <4>1, <3>0 DEF Scheduling
      <4> QED BY <3>0, <4>1, <4>3, <4>5 DEF Quiet, Scheduling
    <3>6. CASE DeferPut(c)
      <4>1. defer[c] = "put" /\ defer'[c] = "idle" /\ tombstone' = TRUE /\ UNCHANGED <<twice, record, pending>>
        BY <3>6, <3>0, <2>2, <1>t, Bounds DEF DeferPut, Deferring
      <4>5. \A d \in Requests : defer'[d] \notin {"enqueue", "persist", "insert", "put"}
        BY <3>s, <4>1, <3>0 DEF Scheduling
      <4> QED BY <4>1, <4>5, <1>a DEF Quiet, Scheduling
    <3> QED BY <1>1, <3>1, <3>2, <3>3, <3>4, <3>5, <3>6 DEF DeferStep
  <2> QED BY <2>1, <2>2
<1>2. ASSUME NEW w \in Workers, RunStep(w) PROVE Quiet'
  <2>1. Held /\ Fired
    <3>1. Held  BY <1>2 DEF RunStep, Dispatch, Due, Empty, Settle, Requeue, Reinsert, Held, Idle
    <3> QED BY <3>1 DEF Backed
  <2>2. UNCHANGED <<chained, tombstone, defer>>
    BY <1>2 DEF RunStep, Dispatch, Settle, Requeue, Reinsert, brain, store, process
  <2>3. ~twice'
    <3>1. CASE Reinsert(w)
      <4>1. pc[w] # "idle"  BY <3>1 DEF Reinsert
      <4>2. Empty /\ Executing = {w}  BY <4>1, <1>a DEF Alone, Executing
      <4> QED BY <3>1, <4>2, <1>a DEF Reinsert
    <3>2. CASE ~Reinsert(w)
      BY <1>2, <3>2, <1>a DEF RunStep, Dispatch, Settle, Requeue, history
    <3> QED BY <3>1, <3>2
  <2>4. \A c \in Requests : defer[c] \notin {"enqueue", "persist", "insert"}
    BY <2>1, <1>0 DEF Quiet
  <2> QED BY <2>1, <2>2, <2>3, <2>4, <1>0 DEF Quiet, Scheduling
<1>3. ASSUME NEW w \in Workers, Flow(w) PROVE Quiet'
  <2>1. /\ UNCHANGED <<chained, record, tombstone, phase, pending, defer, settled, raced, twice>> /\ Held
    BY <1>3, OnceInFlow
  <2> QED BY <2>1, <1>0, QuietKept
<1>4. CASE New
  <2>1. /\ \A c \in Callers : defer[c] = "idle"
        /\ UNCHANGED <<chained, tombstone, record, settled, twice>>
    BY <1>4 DEF New, Roles, brain, store, history
  <2>2. \A c \in Requests : defer'[c] = "idle"  BY <1>4, <2>1, <1>t, Bounds DEF New
  <2>3. ~chained /\ Fired /\ ~tombstone => FALSE  BY <2>1, <1>0, Bounds DEF Quiet
  <2> QED BY <2>1, <2>2, <2>3, <1>a DEF Quiet, Scheduling, Fired
<1>5. CASE Crash \/ Exit
  <2>1. /\ Down /\ UNCHANGED <<chained, tombstone, record, settled, twice>>
        /\ Cut
    BY <1>5 DEF Crash, Exit, brain, store, history
  <2>2. \A c \in Requests : defer'[c] = "idle"  BY <2>1, Bounds DEF Down
  <2>3. ~ \E c \in Requests : defer[c] \in {"insert", "put"}  BY <2>1 DEF Cut
  <2>4. ~(~chained /\ Fired /\ ~tombstone)  BY <2>3, <1>0 DEF Quiet
  <2> QED BY <2>1, <2>2, <2>4, <1>a DEF Quiet, Scheduling, Fired
<1>6. CASE Shutdown \/ Tick \/ UNCHANGED vars
  <2>1. UNCHANGED <<chained, tombstone, record, settled, twice, defer, pending, pc>>
    BY <1>6 DEF Shutdown, Tick, vars, brain, store, history, worker, process
  <2>2. Held' => Held  BY <2>1 DEF Held, Idle, Empty
  <2> QED BY <2>1, <2>2, <1>0, QuietKept
<1> QED BY NextSteps, <1>1, <1>2, <1>3, <1>4, <1>5, <1>6 DEF Steps

\* Without errors and races the run has one life.
Single ==
  /\ settled <= 1 /\ (settled = 1 => record = None)
  /\ Held => record # None /\ settled = 0
  /\ defer[boot] \in {"enqueue", "persist", "insert"} => ~tombstone /\ settled = 0
  /\ chained /\ ~tombstone => settled = 0 /\ phase \in {"down", "boot"}

OneLife == ~raced /\ faults = 0 => Single

LEMMA SingleKept ==
  ASSUME Single, UNCHANGED <<chained, record, tombstone, settled>>, Held' => Held,
         defer'[boot] = defer[boot], chained /\ ~tombstone => phase' = phase
  PROVE  Single'
BY DEF Single

LEMMA OneLifeStep ==
  TypeInv /\ Roles /\ OnePlace /\ Backed /\ Calm /\ OneLife /\ [Next]_vars => OneLife'
<1> SUFFICES ASSUME TypeInv, Roles, OnePlace, Backed, Calm, OneLife, [Next]_vars, ~raced', faults' = 0
             PROVE  Single'
  BY DEF OneLife
<1>t. /\ record \in Time \cup {None} /\ At \in Time /\ None \notin Time /\ settled \in Nat /\ settled' \in Nat
      /\ defer \in [Callers -> Stages] /\ pc \in [Workers -> Places] /\ faults = 0
      /\ pending \in [Time -> Nat] /\ faults' # faults + 1 /\ boot \in Callers
  BY OnceTypes, Bounds
<1>0. ~raced /\ Quiet /\ Single /\ Alone
  BY <1>t, Forever DEF Calm, OneLife, Quiet, OnePlace
<1>1. ASSUME NEW c \in Callers, Reach(c) \/ DeferStep(c) PROVE Single'
  <2>0. UNCHANGED <<chained, settled, pc>> /\ \A d \in Callers : d # c => defer'[d] = defer[d]
    BY <1>1, <1>t DEF DeferStep, Reach, DeferGet, DeferLook, DeferPersist, DeferInsert, DeferPut, Deferring,
       brain, worker, history
  <2>1. CASE c = boot
    <3>1. chained /\ Idle /\ phase = "boot"
      BY <1>1, <2>1, Bounds
      DEF Roles, DeferStep, Reach, DeferGet, DeferLook, DeferPersist, DeferInsert, DeferPut, Deferring
    <3>2. CASE DeferGet(c)
      <4>1. /\ UNCHANGED <<record, tombstone, pending>>
            /\ \/ tombstone /\ defer'[boot] = "idle"
               \/ ~tombstone /\ defer'[boot] = "enqueue" /\ phase' = phase
        BY <3>2, <2>1, <1>t DEF DeferGet, Deferring, StoreFails, store
      <4>2. Held' => Held  BY <4>1, <2>0 DEF Held, Idle, Empty
      <4> QED BY <4>1, <4>2, <2>0, <3>1, <1>0 DEF Single
    <3>3. CASE DeferLook(c)
      <4>1. /\ UNCHANGED <<record, tombstone, pending, phase>> /\ defer[boot] = "enqueue"
        BY <3>3, <2>1 DEF DeferLook, Deferring, store
      <4>2. Held' => Held  BY <4>1, <2>0 DEF Held, Idle, Empty
      <4> QED BY <4>1, <4>2, <2>0, <3>1, <1>0 DEF Single
    <3>4. CASE DeferPersist(c)
      <4>1. /\ UNCHANGED <<tombstone, pending, phase>> /\ defer[boot] = "persist" /\ record' = At
        BY <3>4, <2>1, <1>t DEF DeferPersist, Deferring, StoreFails
      <4>2. Held' => Held  BY <4>1, <2>0 DEF Held, Idle, Empty
      <4> QED BY <4>1, <4>2, <2>0, <3>1, <1>0, <1>t DEF Single
    <3>5. CASE DeferInsert(c)
      <4>1. /\ UNCHANGED <<record, tombstone, phase>> /\ defer[boot] = "insert" /\ defer'[boot] = "put"
        BY <3>5, <2>1, <1>t DEF DeferInsert, Deferring, store
      <4>2. record # None /\ settled = 0
        <5>1. Fired  BY <4>1, <2>1 DEF Backed
        <5> QED BY <4>1, <5>1, <1>0 DEF Single, Fired
      <4> QED BY <4>1, <4>2, <2>0, <3>1, <1>0 DEF Single
    <3>6. CASE DeferPut(c)
      <4>1. UNCHANGED <<record, pending>> /\ defer'[boot] = "idle" /\ tombstone' = TRUE
        BY <3>6, <2>1, <1>t DEF DeferPut, Deferring, StoreFails
      <4>2. Held' => Held  BY <4>1, <2>0 DEF Held, Idle, Empty
      <4> QED BY <4>1, <4>2, <2>0, <1>0 DEF Single
    <3>7. CASE Reach(c)  BY <3>7, <2>1, Bounds DEF Reach
    <3> QED BY <1>1, <3>2, <3>3, <3>4, <3>5, <3>6, <3>7 DEF DeferStep
  <2>2. CASE c # boot
    <3>0. c \in Requests /\ ~chained /\ defer'[boot] = defer[boot]
      <4>1. c \in Requests /\ (defer[c] # "idle" \/ ~chained)
        BY <1>1, <2>2, Bounds DEF DeferStep, Reach, DeferGet, DeferLook, DeferPersist, DeferInsert, DeferPut, Deferring
      <4> QED BY <4>1, <2>0, <2>2, Bounds DEF Roles
    <3>b. defer[boot] = "idle"
      <4>1. phase # "boot"  BY <3>0 DEF Roles
      <4> QED BY <4>1 DEF Roles
    <3>1. CASE Reach(c) \/ DeferGet(c) \/ DeferLook(c)
      <4>1. UNCHANGED <<record, tombstone, pending>>
        BY <3>1 DEF Reach, DeferGet, DeferLook, store
      <4>2. Held' => Held  BY <4>1, <2>0 DEF Held, Idle, Empty
      <4> QED BY <4>1, <4>2, <2>0, <3>0, <1>0, SingleKept
    <3>2. CASE DeferPersist(c)
      <4>1. defer[c] = "persist" /\ record' = At /\ UNCHANGED <<tombstone, pending>>
        BY <3>2, <1>t DEF DeferPersist, Deferring, StoreFails
      <4>2. ~Fired  BY <4>1, <3>0, <1>0 DEF Quiet
      <4>3. settled = 0 /\ ~Held  BY <4>2, <1>t DEF Fired, Backed
      <4>4. ~Held'  BY <4>1, <4>3, <2>0 DEF Held, Idle, Empty
      <4> QED BY <4>1, <4>3, <4>4, <2>0, <3>0, <3>b DEF Single
    <3>3. CASE DeferInsert(c)
      <4>1. defer[c] = "insert" /\ UNCHANGED <<record, tombstone>>
        BY <3>3 DEF DeferInsert, Deferring, store
      <4>2. settled = 0 /\ record # None
        BY <4>1, <3>0, <1>0 DEF Quiet, Backed, Fired
      <4> QED BY <4>1, <4>2, <2>0, <3>0, <3>b DEF Single
    <3>4. CASE DeferPut(c)
      <4>1. UNCHANGED <<record, pending>>  BY <3>4 DEF DeferPut
      <4>2. Held' => Held  BY <4>1, <2>0 DEF Held, Idle, Empty
      <4> QED BY <4>1, <4>2, <2>0, <3>0, <3>b, <1>0 DEF Single
    <3> QED BY <1>1, <3>1, <3>2, <3>3, <3>4 DEF DeferStep
  <2> QED BY <2>1, <2>2
<1>2. ASSUME NEW w \in Workers, RunStep(w) PROVE Single'
  <2>1. Held /\ phase \notin {"down", "boot"}
    <3>1. Held  BY <1>2 DEF RunStep, Dispatch, Due, Empty, Settle, Requeue, Reinsert, Held, Idle
    <3>2. phase \notin {"down", "boot"}
      BY <1>2 DEF Roles, Idle, RunStep, Dispatch, Settle, Requeue, Reinsert
    <3> QED BY <3>1, <3>2
  <2>2. settled = 0 /\ record # None  BY <2>1, <1>0 DEF Single
  <2>3. UNCHANGED <<chained, tombstone, defer, phase>> /\ (chained => tombstone) /\ defer[boot] = "idle"
    <3>1. UNCHANGED <<chained, tombstone, defer, phase>>
      BY <1>2 DEF RunStep, Dispatch, Settle, Requeue, Reinsert, brain, store, process
    <3> QED BY <3>1, <2>1, <1>0 DEF Single, Roles
  <2>4. CASE Settle(w)
    <3>1. \/ settled' = 1 /\ record' = None
          \/ settled' = settled /\ record' = record
      BY <2>4, <2>2, <1>t DEF Settle, StoreFails
    <3>2. ~Held'
      <4>1. pc[w] # "idle" /\ pending' = pending  BY <2>4 DEF Settle, process
      <4>2. Empty' /\ \A u \in Workers : pc'[u] = "idle"
        BY <4>1, <2>4, <1>0, <1>t DEF Alone, Empty, Settle, Free, Goes
      <4> QED BY <4>2 DEF Held, Idle
    <3> QED BY <3>1, <3>2, <2>2, <2>3 DEF Single
  <2>5. CASE Requeue(w)
    <3>1. until[w] \in Time  BY <2>5 DEF TypeInv, WorkerType, Requeue
    <3>2. record' # None /\ settled' = settled
      BY <2>5, <3>1, <2>2, <1>t DEF Requeue, StoreFails, history
    <3> QED BY <3>2, <2>2, <2>3 DEF Single
  <2>6. CASE Reinsert(w) \/ \E t \in Time : Dispatch(w, t)
    <3>1. record' = record /\ settled' = settled
      BY <2>6 DEF Reinsert, Dispatch, store, history
    <3> QED BY <3>1, <2>2, <2>3 DEF Single
  <2> QED BY <1>2, <2>4, <2>5, <2>6 DEF RunStep
<1>3. ASSUME NEW w \in Workers, Flow(w) PROVE Single'
  <2>1. UNCHANGED <<chained, record, tombstone, phase, defer, settled>> /\ Held
    BY <1>3, OnceInFlow
  <2> QED BY <2>1, <1>0, SingleKept
<1>4. CASE New
  <2>1. /\ UNCHANGED <<chained, tombstone, record, settled, pc>> /\ phase = "down" /\ defer[boot] = "idle"
    BY <1>4, <1>t DEF New, Roles, brain, store, history, worker
  <2>2. defer'[boot] \in {"idle", "get"} /\ (chained => phase' = "boot")
    BY <1>4, <2>1, <1>t DEF New
  <2>3. ~Held  BY <2>1, <1>0 DEF Roles, Held
  <2>4. Held' => record # None
    <3>1. record = None => pending' = pending  BY <1>4 DEF New
    <3> QED BY <3>1, <2>1, <2>3 DEF Held, Idle, Empty
  <2>5. record # None => settled = 0  BY <1>0, <1>t DEF Single
  <2> QED BY <2>1, <2>2, <2>4, <2>5, <1>0 DEF Single
<1>5. CASE Crash \/ Exit
  <2>1. Down /\ UNCHANGED <<chained, tombstone, record, settled>>
    BY <1>5 DEF Crash, Exit, brain, store, history
  <2>2. ~Held' /\ defer'[boot] = "idle" /\ phase' = "down"  BY <2>1, <1>t DEF Down, Held, Idle, Empty
  <2> QED BY <2>1, <2>2, <1>0 DEF Single
<1>6. CASE Shutdown \/ Tick \/ UNCHANGED vars
  <2>1. UNCHANGED <<chained, tombstone, record, settled, defer, pending, pc>>
        /\ (phase \in {"down", "boot"} => phase' = phase)
    BY <1>6 DEF Shutdown, Tick, vars, brain, store, history, worker, process
  <2>2. Held' => Held  BY <2>1 DEF Held, Idle, Empty
  <2> QED BY <2>1, <2>2, <1>0, SingleKept DEF Single
<1> QED BY NextSteps, <1>1, <1>2, <1>3, <1>4, <1>5, <1>6 DEF Steps

OnceInv == PlaceInv /\ Backed /\ Calm /\ OneLife

\* For any flow, any number of requests and workers, any crashes and Store errors: a
\* Once behind a tombstone has fired; unless requests race or one is cut short, its
\* run is in one place, and without Store errors it is acknowledged once.
THEOREM FiresOnce == Spec => []OnceFires
<1>1. Init => OnceInv
  <2> SUFFICES ASSUME Init PROVE OnceInv
    OBVIOUS
  <2>1. PlaceInv  BY PlaceInvariant
  <2>2. ~Held /\ ~Fired /\ ~tombstone /\ ~twice /\ settled = 0 /\ \A c \in Callers : defer[c] = "idle"
    BY DEF Init, Held, Idle, Empty, Fired
  <2>3. Backed  BY <2>2 DEF Backed
  <2>4. Calm  BY <2>2, Bounds DEF Calm, Quiet, Scheduling
  <2>5. OneLife  BY <2>2, Bounds DEF Init, OneLife, Single
  <2> QED BY <2>1, <2>3, <2>4, <2>5 DEF OnceInv
<1>2. OnceInv /\ [Next]_vars => OnceInv'
  BY PlaceInvariant, BackedStep, CalmStep, OneLifeStep DEF OnceInv, PlaceInv
<1>3. OnceInv => OnceFires
  BY DEF OnceInv, Backed, Fired, Calm, Quiet, OneLife, Single, OnceFires
<1> QED BY <1>1, <1>2, <1>3, PTL DEF Spec
=============================================================================
