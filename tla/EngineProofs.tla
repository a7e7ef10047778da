---------------------------- MODULE EngineProofs ----------------------------
(***************************************************************************)
(* Proofs about Engine, for every set of run IDs, clients and workers and  *)
(* every bound; then about Ticker, which extends it, for every crontab.    *)
(* There the argument is that of a token: at any time the schedule is in   *)
(* one place only, and whoever holds the token is the one who may arm it   *)
(* again.                                                                  *)
(***************************************************************************)
EXTENDS Ticker, WellFoundedInduction, TLAPS

-----------------------------------------------------------------------------
(* The engine.                                                             *)

\* What a thread's place in the code says of its call and of what it holds.
ThreadsOK ==
  \A t \in Threads :
    /\ pc[t] \in {"idle", "flow"} <=> op[t] = "none"
    /\ pc[t] \in PersistPC => op[t] \in {"enqueue", "requeue"}
    /\ pc[t] \in AckPC => op[t] \in {"settle", "cancel", "evict"}
    /\ pc[t] = "tombstone" => op[t] \in {"cancel", "evict"}
    /\ held[t] # NoRun => t \in Workers
    /\ pc[t] = "idle" => held[t] = NoRun
    /\ pc[t] = "flow" => t \in Workers
    /\ op[t] = "requeue" => t \in Workers
    /\ op[t] = "requeue" /\ pc[t] # "nudge" => held[t] \in Run /\ arg[t].id = held[t].id
    /\ op[t] = "requeue" /\ pc[t] = "nudge" => held[t] = NoRun
    /\ op[t] = "settle" => pc[t] \in AckPC /\ held[t] \in Run /\ arg[t] = held[t]
    /\ t \in Workers /\ op[t] \in {"enqueue", "cancel", "evict"} => held[t] \in Run

TypeInv == TypeOK /\ ThreadsOK

\* A Run is a record of three fields.
LEMMA RunIsARecord ==
  ASSUME NEW id \in Ids, NEW when \in Time, NEW n \in 0..MaxAttempt
  PROVE  [id |-> id, wake |-> when, attempt |-> n] \in Run
BY DEF Run

\* New leaves the engine well typed.
THEOREM InitTypeInv == Init => TypeInv
<1> SUFFICES ASSUME Init PROVE TypeInv
  OBVIOUS
<1>1. 0 \in Time /\ 0 \in 0..MaxAttempt /\ 0 \in 0..MaxCalls /\ 0 \in 0..MaxRestarts /\ 0 \in 0..MaxFaults
  BY ConstantsAssumption DEF Time
<1>2. record \in [Ids -> Run \cup {NoRun}]
  BY <1>1, RunIsARecord DEF Init
<1>3. Seeded \subseteq Ids
  BY ConstantsAssumption
<1>4. TypeOK
  BY <1>1, <1>2, <1>3 DEF Init, TypeOK, PCs, Ops
<1>5. ThreadsOK
  BY DEF Init, ThreadsOK, PersistPC, AckPC
<1> QED
  BY <1>4, <1>5 DEF TypeInv

\* A call that returns leaves its thread idle, or back in its flow.
RegistersOK ==
  /\ pc \in [Threads -> PCs] /\ op \in [Threads -> Ops]
  /\ arg \in [Threads -> Run \cup {NoRun}] /\ held \in [Threads -> Run \cup {NoRun}]
  /\ snap \in [Threads -> SUBSET Ids]
  /\ \A t \in Threads : pc[t] \notin {"idle", "flow"} => arg[t] \in Run
  /\ \A t \in Threads : pc[t] = "flow" => held[t] \in Run

\* Leaving an engine call keeps the thread state typed.
LEMMA ReturnTypes ==
  ASSUME TypeInv, NEW t \in Threads, pc[t] \notin {"idle", "flow"}, Return(t)
  PROVE  RegistersOK' /\ ThreadsOK'
<1>1. ThreadsOK'
  BY DEF Return, TypeInv, TypeOK, ThreadsOK, PersistPC, AckPC, PCs, Ops
<1>2. RegistersOK'
  BY DEF Return, TypeInv, TypeOK, ThreadsOK, RegistersOK, PersistPC, AckPC, PCs, Ops
<1> QED
  BY <1>1, <1>2

\* Each action preserves it.
LEMMA NextTypeInv == TypeInv /\ [Next]_vars => TypeInv'
<1> SUFFICES ASSUME TypeInv, [Next]_vars PROVE TypeInv'
  OBVIOUS
<1> USE DEF TypeInv
<1>1. ASSUME NEW t \in Threads, NEW id \in Ids, NEW when \in Time, EnqueueID(t, id, when)
      PROVE  TypeInv'
  <2>1. 0 \in 0..MaxAttempt
    BY ConstantsAssumption
  <2>2. [id |-> id, wake |-> when, attempt |-> 0] \in Run
    BY <2>1, RunIsARecord
  <2>3. calls' \in 0..MaxCalls
    BY <1>1, ConstantsAssumption DEF EnqueueID, MayCall, TypeOK
  <2>4. TypeOK'
    BY <1>1, <2>2, <2>3 DEF TypeOK, EnqueueID, Call, store, process, disp, PCs, Ops, PersistPC
  <2>5. ThreadsOK'
    BY <1>1, <2>2 DEF TypeOK, ThreadsOK, EnqueueID, MayCall, Running, Call, process, PersistPC, AckPC
  <2> QED
    BY <2>4, <2>5
<1>2. ASSUME NEW t \in Threads, NEW id \in Ids, EnqueueNoop(t, id) PROVE TypeInv'
  <2>1. calls' \in 0..MaxCalls
    BY <1>2, ConstantsAssumption DEF EnqueueNoop, MayCall, TypeOK
  <2>2. TypeOK' /\ ThreadsOK'
    BY <1>2, <2>1 DEF TypeOK, ThreadsOK, EnqueueNoop, store, process, disp, threads, history
  <2> QED
    BY <2>2
<1>3. ASSUME NEW t \in Threads, NEW id \in Ids, Cancel(t, id) PROVE TypeInv'
  <2>1. 0 \in Time /\ 0 \in 0..MaxAttempt
    BY ConstantsAssumption DEF Time
  <2>2. [id |-> id, wake |-> 0, attempt |-> 0] \in Run
    BY <2>1, RunIsARecord
  <2>3. calls' \in 0..MaxCalls
    BY <1>3, ConstantsAssumption DEF Cancel, MayCall, TypeOK
  <2>4. TypeOK'
    BY <1>3, <2>2, <2>3 DEF TypeOK, Cancel, Call, store, disp, PCs, Ops, AckPC
  <2>5. ThreadsOK'
    BY <1>3, <2>2 DEF TypeOK, ThreadsOK, Cancel, MayCall, Running, Call, PersistPC, AckPC
  <2> QED
    BY <2>4, <2>5
<1>4. ASSUME NEW t \in Threads, AddIndexGet(t) PROVE TypeInv'
  <2>1. faults' \in 0..MaxFaults
    BY <1>4, ConstantsAssumption DEF TypeOK, AddIndexGet, StoreOK, StoreFails
  <2>2. RegistersOK' /\ ThreadsOK'
    <3>1. CASE Return(t)
      BY <1>4, <3>1, ReturnTypes DEF AddIndexGet
    <3>2. CASE ~Return(t)
      BY <1>4, <3>2 DEF TypeOK, ThreadsOK, RegistersOK, AddIndexGet, Goto, PCs, PersistPC, AckPC
    <3> QED
      BY <3>1, <3>2
  <2>3. TypeOK'
    BY <1>4, <2>1, <2>2 DEF TypeOK, ThreadsOK, RegistersOK, AddIndexGet, store, process, disp, history, PersistPC
  <2> QED
    BY <2>2, <2>3
<1>5. ASSUME NEW t \in Threads, AddIndexPut(t) PROVE TypeInv'
  <2>1. faults' \in 0..MaxFaults
    BY <1>5, ConstantsAssumption DEF TypeOK, AddIndexPut, StoreOK, StoreFails
  <2>2. RegistersOK' /\ ThreadsOK'
    <3>1. CASE Return(t)
      BY <1>5, <3>1, ReturnTypes DEF AddIndexPut
    <3>2. CASE ~Return(t)
      BY <1>5, <3>2 DEF TypeOK, ThreadsOK, RegistersOK, AddIndexPut, Goto, PCs, PersistPC, AckPC
    <3> QED
      BY <3>1, <3>2
  <2>3. TypeOK'
    BY <1>5, <2>1, <2>2 DEF TypeOK, ThreadsOK, RegistersOK, AddIndexPut, process, disp, history, Run, PersistPC
  <2> QED
    BY <2>2, <2>3
<1>6. ASSUME NEW t \in Threads, PersistRun(t) PROVE TypeInv'
  <2>1. faults' \in 0..MaxFaults
    BY <1>6, ConstantsAssumption DEF TypeOK, PersistRun, StoreOK, StoreFails
  <2>2. RegistersOK' /\ ThreadsOK'
    <3>1. CASE Return(t)
      BY <1>6, <3>1, ReturnTypes DEF PersistRun
    <3>2. CASE ~Return(t)
      BY <1>6, <3>2 DEF TypeOK, ThreadsOK, RegistersOK, PersistRun, Goto, PCs, PersistPC, AckPC
    <3> QED
      BY <3>1, <3>2
  <2>3. TypeOK'
    BY <1>6, <2>1, <2>2 DEF TypeOK, ThreadsOK, RegistersOK, PersistRun, process, disp, history, Run, PersistPC
  <2> QED
    BY <2>2, <2>3
<1>7. ASSUME NEW t \in Threads, Insert(t) PROVE TypeInv'
  <2>1. arg[t] \in Run /\ arg[t].id \in Ids
    BY <1>7 DEF TypeOK, Run, Insert, Goto
  <2>2. pending' \in [Run -> Nat]
    BY <1>7, <2>1 DEF TypeOK, Insert, insert
  <2>3. listed' \subseteq Ids
    BY <1>7, <2>1 DEF TypeOK, Insert
  <2>4. TypeOK'
    BY <1>7, <2>1, <2>2, <2>3 DEF TypeOK, PCs, Insert, Goto, store, disp, bounds
  <2>5. ThreadsOK'
    BY <1>7 DEF TypeOK, ThreadsOK, PersistPC, AckPC, Insert, insert, Goto, store, disp, bounds
  <2> QED
    BY <2>4, <2>5
<1>8. ASSUME NEW t \in Threads, Nudge(t) PROVE TypeInv'
  <2>1. RegistersOK' /\ ThreadsOK'
    BY <1>8, ReturnTypes DEF Nudge
  <2>2. TypeOK'
    BY <1>8, <2>1 DEF TypeOK, RegistersOK, Nudge, store, disp, history, bounds
  <2> QED
    BY <2>1, <2>2
<1>9. ASSUME NEW t \in Threads, PutTombstone(t) PROVE TypeInv'
  <2>1. faults' \in 0..MaxFaults
    BY <1>9, ConstantsAssumption DEF TypeOK, PutTombstone, StoreOK, StoreFails
  <2>2. RegistersOK' /\ ThreadsOK'
    <3>1. CASE Return(t)
      BY <1>9, <3>1, ReturnTypes DEF PutTombstone
    <3>2. CASE ~Return(t)
      BY <1>9, <3>2 DEF TypeOK, ThreadsOK, RegistersOK, PutTombstone, Goto, PCs, PersistPC, AckPC
    <3> QED
      BY <3>1, <3>2
  <2>3. TypeOK'
    BY <1>9, <2>1, <2>2 DEF TypeOK, ThreadsOK, RegistersOK, PutTombstone, process, disp, history, Run
  <2> QED
    BY <2>2, <2>3
<1>10. ASSUME NEW t \in Threads, AckGet(t) PROVE TypeInv'
  <2>1. faults' \in 0..MaxFaults
    BY <1>10, ConstantsAssumption DEF TypeOK, AckGet, StoreOK, StoreFails
  <2>2. TypeOK'
    BY <1>10, <2>1 DEF TypeOK, ThreadsOK, PCs, Ops, AckPC, Run, AckGet, Goto, store, process, disp, history
  <2>3. ThreadsOK'
    BY <1>10 DEF TypeOK, ThreadsOK, PersistPC, AckPC, AckGet, Goto, store, process, disp, history
  <2> QED
    BY <2>2, <2>3
<1>11. ASSUME NEW t \in Threads, AckIndex(t) PROVE TypeInv'
  <2>1. faults' \in 0..MaxFaults
    BY <1>11, ConstantsAssumption DEF TypeOK, AckIndex, StoreOK, StoreFails
  <2>2. TypeOK'
    BY <1>11, <2>1 DEF TypeOK, ThreadsOK, PCs, Ops, AckPC, Run, AckIndex, Goto, process, disp, history
  <2>3. ThreadsOK'
    BY <1>11 DEF TypeOK, ThreadsOK, PersistPC, AckPC, AckIndex, Goto, process, disp, history
  <2> QED
    BY <2>2, <2>3
<1>12. ASSUME NEW t \in Threads, AckRun(t) PROVE TypeInv'
  <2>1. faults' \in 0..MaxFaults
    BY <1>12, ConstantsAssumption DEF TypeOK, AckRun, StoreOK, StoreFails
  <2>2. RegistersOK' /\ ThreadsOK'
    <3>1. CASE Return(t)
      BY <1>12, <3>1, ReturnTypes DEF AckRun
    <3>2. CASE ~Return(t)
      BY <1>12, <3>2 DEF TypeOK, ThreadsOK, RegistersOK, AckRun, Goto, PCs, PersistPC, AckPC
    <3> QED
      BY <3>1, <3>2
  <2>3. TypeOK'
    BY <1>12, <2>1, <2>2 DEF TypeOK, ThreadsOK, RegistersOK, AckRun, process, disp, history, Run, AckPC
  <2> QED
    BY <2>2, <2>3
<1>13. ASSUME NEW w \in Workers, FlowReturns(w) PROVE TypeInv'
  <2>1. TypeOK'
    BY <1>13 DEF TypeOK, PCs, Ops, AckPC, Run, FlowReturns, Running, Call, Threads, store, process, disp, bounds
  <2>2. ThreadsOK'
    BY <1>13 DEF TypeOK, ThreadsOK, PersistPC, AckPC, FlowReturns, Running, Call, Threads, store, process, disp, bounds
  <2> QED
    BY <2>1, <2>2
<1>14. ASSUME NEW w \in Workers, FlowInterrupted(w) PROVE TypeInv'
  <2>1. TypeOK'
    BY <1>14 DEF TypeOK, PCs, FlowInterrupted, Running, Threads, store, process, disp, history, bounds
  <2>2. ThreadsOK'
    BY <1>14 DEF TypeOK, ThreadsOK, PersistPC, AckPC, FlowInterrupted, Running, Threads, store, process, disp, history, bounds
  <2> QED
    BY <2>1, <2>2
<1>15. ASSUME NEW w \in Workers, UnknownFlow(w) PROVE TypeInv'
  <2>1. TypeOK'
    BY <1>15 DEF TypeOK, PCs, UnknownFlow, Threads, store, process, disp, history, bounds
  <2>2. ThreadsOK'
    BY <1>15 DEF TypeOK, ThreadsOK, PersistPC, AckPC, UnknownFlow, Threads, store, process, disp, history, bounds
  <2> QED
    BY <2>1, <2>2
<1>16. ASSUME NEW w \in Workers, HandOff(w) PROVE TypeInv'
  <2>1. TypeOK'
    BY <1>16 DEF TypeOK, PCs, HandOff, Dispatch, Goto, Threads, store, history, bounds
  <2>2. ThreadsOK'
    BY <1>16 DEF TypeOK, ThreadsOK, PersistPC, AckPC, HandOff, Dispatch, Goto, Threads, store, history, bounds
  <2> QED
    BY <2>1, <2>2
<1>17. ASSUME NEW w \in Workers, NEW when \in Time, FlowYields(w, when) PROVE TypeInv'
  <2> DEFINE r == [id |-> held[w].id, wake |-> when, attempt |-> held[w].attempt + 1]
  <2>1. held[w] \in Run
    BY <1>17 DEF FlowYields, Running, TypeOK, Threads
  <2>2. held[w].id \in Ids /\ held[w].attempt \in 0..MaxAttempt
    BY <2>1 DEF Run
  <2>3. held[w].attempt + 1 \in 0..MaxAttempt
    BY <1>17, <2>2, ConstantsAssumption DEF FlowYields
  <2>4. r \in Run /\ r.id = held[w].id
    BY <2>2, <2>3, RunIsARecord
  <2>5. Call(w, "getIndex", "requeue", r)
    BY <1>17 DEF FlowYields
  <2> HIDE DEF r
  <2>6. TypeOK'
    BY <1>17, <2>4, <2>5 DEF TypeOK, FlowYields, Call, Threads, PCs, Ops, PersistPC, store, process, disp, history, bounds
  <2>7. ThreadsOK'
    BY <1>17, <2>1, <2>4, <2>5 DEF TypeOK, ThreadsOK, FlowYields, Running, Call, Threads, PersistPC, AckPC, process, disp
  <2> QED
    BY <2>6, <2>7
<1>18. ASSUME Peek PROVE TypeInv'
  <2>1. TypeOK'
    BY <1>18 DEF TypeOK, Peek, Dispatch, Head, store, threads, history, bounds
  <2>2. ThreadsOK'
    BY <1>18 DEF TypeOK, ThreadsOK, PersistPC, AckPC, Peek, Dispatch, Head, store, threads, history, bounds
  <2> QED
    BY <2>1, <2>2
<1>19. ASSUME Woken PROVE TypeInv'
  <2>1. TypeOK'
    BY <1>19 DEF TypeOK, Woken, store, threads, history, bounds
  <2>2. ThreadsOK'
    BY <1>19 DEF TypeOK, ThreadsOK, PersistPC, AckPC, Woken, store, threads, history, bounds
  <2> QED
    BY <2>1, <2>2
<1>20. ASSUME TimerFires PROVE TypeInv'
  <2>1. TypeOK'
    BY <1>20 DEF TypeOK, TimerFires, Dispatch, store, threads, history, bounds
  <2>2. ThreadsOK'
    BY <1>20 DEF TypeOK, ThreadsOK, PersistPC, AckPC, TimerFires, Dispatch, store, threads, history, bounds
  <2> QED
    BY <2>1, <2>2
<1>21. ASSUME Claim PROVE TypeInv'
  <2>1. TypeOK'
    BY <1>21 DEF TypeOK, Claim, Dispatch, Head, store, threads, history, bounds
  <2>2. ThreadsOK'
    BY <1>21 DEF TypeOK, ThreadsOK, PersistPC, AckPC, Claim, Dispatch, Head, store, threads, history, bounds
  <2> QED
    BY <2>1, <2>2
<1>22. ASSUME DispatchDone PROVE TypeInv'
  <2>1. TypeOK'
    BY <1>22 DEF TypeOK, DispatchDone, store, threads, history, bounds
  <2>2. ThreadsOK'
    BY <1>22 DEF TypeOK, ThreadsOK, PersistPC, AckPC, DispatchDone, store, threads, history, bounds
  <2> QED
    BY <2>1, <2>2
<1>23. ASSUME Tick PROVE TypeInv'
  <2>1. now' \in Time
    BY <1>23, ConstantsAssumption DEF TypeOK, Tick, Time
  <2>2. TypeOK'
    BY <1>23, <2>1 DEF TypeOK, Tick, store, process, disp, threads, history, bounds
  <2>3. ThreadsOK'
    BY <1>23 DEF TypeOK, ThreadsOK, PersistPC, AckPC, Tick, store, process, disp, threads, history, bounds
  <2> QED
    BY <2>2, <2>3
<1>24. ASSUME Shutdown PROVE TypeInv'
  <2>1. restarts' \in 0..MaxRestarts
    BY <1>24, ConstantsAssumption DEF TypeOK, Shutdown
  <2>2. TypeOK'
    BY <1>24, <2>1 DEF TypeOK, Shutdown, store, disp, threads, history
  <2>3. ThreadsOK'
    BY <1>24 DEF TypeOK, ThreadsOK, PersistPC, AckPC, Shutdown, store, disp, threads, history
  <2> QED
    BY <2>2, <2>3
<1>25. ASSUME Exit PROVE TypeInv'
  <2>1. TypeOK'
    BY <1>25 DEF TypeOK, PCs, Ops, Exit, Gone, store, history
  <2>2. ThreadsOK'
    BY <1>25 DEF TypeOK, ThreadsOK, PersistPC, AckPC, Exit, Gone, store, history
  <2> QED
    BY <2>1, <2>2
<1>26. ASSUME Crash PROVE TypeInv'
  <2>1. restarts' \in 0..MaxRestarts
    BY <1>26, ConstantsAssumption DEF TypeOK, Crash
  <2>2. TypeOK'
    BY <1>26, <2>1 DEF TypeOK, PCs, Ops, Crash, Gone, store, history
  <2>3. ThreadsOK'
    BY <1>26 DEF TypeOK, ThreadsOK, PersistPC, AckPC, Crash, Gone, store, history
  <2> QED
    BY <2>2, <2>3
<1>27. ASSUME New PROVE TypeInv'
  <2>1. faults' \in 0..MaxFaults
    BY <1>27, ConstantsAssumption DEF TypeOK, New, StoreOK, StoreFails
  <2>2. missing' \subseteq Ids
    BY <1>27, ConstantsAssumption DEF New
  <2>3. pending' \in [Run -> Nat]
    BY <1>27 DEF New
  <2>4. TypeOK'
    BY <1>27, <2>1, <2>2, <2>3 DEF TypeOK, New, store, threads, history
  <2>5. ThreadsOK'
    BY <1>27 DEF TypeOK, ThreadsOK, New, threads
  <2> QED
    BY <2>4, <2>5
<1>28. ASSUME UNCHANGED vars PROVE TypeInv'
  <2>1. TypeOK'
    BY <1>28 DEF TypeOK, vars, store, process, disp, threads, history, bounds
  <2>2. ThreadsOK'
    BY <1>28 DEF TypeOK, ThreadsOK, PersistPC, AckPC, vars, store, process, disp, threads, history, bounds
  <2> QED
    BY <2>1, <2>2
<1> QED
  BY <1>1, <1>2, <1>3, <1>4, <1>5, <1>6, <1>7, <1>8, <1>9, <1>10, <1>11, <1>12, <1>13, <1>14, <1>15, <1>16, <1>17, <1>18, <1>19, <1>20, <1>21, <1>22, <1>23, <1>24, <1>25, <1>26, <1>27, <1>28
  DEF Next, CallStep, FlowEnds, DispatchStep

\* The typing, with the facts it is inductive over, always holds.
LEMMA TypeInvariant == Spec => []TypeInv
BY InitTypeInv, NextTypeInv, PTL DEF Spec

\* Every variable of the engine keeps its type, whatever the sets of runs,
\* clients and workers.
THEOREM TypeCorrect == Spec => []TypeOK
BY TypeInvariant, PTL DEF TypeInv

\* A process that is gone executes nothing.
DownInv == phase = "down" => dpc = "stopped" /\ \A t \in Threads : pc[t] = "idle"

\* No step starts anything in a process that is gone.
LEMMA NextDownInv == TypeInv /\ DownInv /\ [Next]_vars => DownInv'
<1> SUFFICES ASSUME TypeInv, DownInv, [Next]_vars PROVE DownInv'
  OBVIOUS
<1>1. CASE phase' # "down"
  BY <1>1 DEF DownInv
<1>2. CASE phase' = "down" /\ phase # "down"
  <2>1. Exit \/ Crash
    BY <1>2 DEF Next, CallStep, FlowEnds, DispatchStep, vars, process,
       EnqueueID, EnqueueNoop, Cancel, AddIndexGet, AddIndexPut, PersistRun, Insert, Nudge,
       PutTombstone, AckGet, AckIndex, AckRun, FlowReturns, FlowYields, FlowInterrupted,
       UnknownFlow, Peek, Woken, TimerFires, Claim, HandOff, DispatchDone, Tick, Shutdown, New
  <2> QED
    BY <2>1 DEF DownInv, Exit, Crash, Gone
<1>3. CASE phase' = "down" /\ phase = "down"
  <2>1. dpc = "stopped" /\ \A t \in Threads : pc[t] = "idle"
    BY <1>3 DEF DownInv
  <2>2. ASSUME NEW t \in Threads, CallStep(t) PROVE FALSE
    BY <2>1, <2>2 DEF CallStep, AddIndexGet, AddIndexPut, PersistRun, Insert, Nudge, PutTombstone,
       AckGet, AckIndex, AckRun, Goto
  <2>3. ASSUME NEW w \in Workers, FlowEnds(w) \/ FlowInterrupted(w) \/ UnknownFlow(w) PROVE FALSE
    BY <2>1, <2>3 DEF FlowEnds, FlowReturns, FlowYields, FlowInterrupted, UnknownFlow, Running, Threads
  <2>4. ASSUME DispatchStep \/ DispatchDone PROVE FALSE
    BY <2>1, <2>4 DEF DispatchStep, Peek, Woken, TimerFires, Claim, HandOff, DispatchDone, Dispatch
  <2>5. ASSUME NEW t \in Threads, NEW id \in Ids, NEW when \in Time,
               EnqueueID(t, id, when) \/ EnqueueNoop(t, id) \/ Cancel(t, id) PROVE FALSE
    BY <1>3, <2>5 DEF EnqueueID, EnqueueNoop, Cancel, MayCall
  <2>6. ~Shutdown /\ ~Exit /\ ~Crash /\ ~New
    BY <1>3 DEF Shutdown, Exit, Crash, New
  <2>7. 0 \in Time
    BY ConstantsAssumption DEF Time
  <2>8. Tick \/ UNCHANGED vars
    BY <2>2, <2>3, <2>4, <2>5, <2>6, <2>7 DEF Next
  <2>9. UNCHANGED <<dpc, pc>>
    BY <2>8 DEF Tick, vars, process, disp, threads
  <2> QED
    BY <2>1, <2>9 DEF DownInv
<1> QED
  BY <1>1, <1>2, <1>3

\* While the process is down, no thread, queue or dispatcher holds anything.
LEMMA DownInvariant == Spec => []DownInv
<1>1. Init => DownInv
  BY DEF Init, DownInv
<1> QED
  BY <1>1, NextDownInv, TypeInvariant, PTL DEF Spec

-----------------------------------------------------------------------------
(* Who holds a run: SingleHolder and SettledIsFinal are inductive together *)
(* with what is known of an ID before its first use and after a Cancel has *)
(* taken it out of the heap.                                               *)

NoHolder(id) == ~Queued(id) /\ ~Claimed(id) /\ \A t \in Threads : ~Carries(t, id)

\* A flow does not enqueue the run it is the flow of.
EnqueuesAnother ==
  \A t \in Threads :
    op[t] = "enqueue" /\ pc[t] \in PersistPC /\ arg[t].id \in Fresh /\ held[t] # NoRun =>
      held[t].id # arg[t].id

HolderInv ==
  /\ EnqueuesAnother
  /\ SingleHolder
  /\ SettledIsFinal
  /\ \A id \in Fresh : id \notin used => record[id] = NoRun /\ NoHolder(id) /\ id \notin settled
  /\ \A t \in Threads :
       op[t] = "evict" /\ arg[t].id \in Fresh => arg[t].id \in used /\ NoHolder(arg[t].id)

\* Most actions hand no run to anybody.
HoldersShrink ==
  /\ \A r \in Run : pending'[r] <= pending[r]
  /\ \A id \in Fresh : Claimed(id)' => Claimed(id)
  /\ \A id \in Fresh, t \in Threads : Carries(t, id)' => Carries(t, id)

\* ... and begin no call of EnqueueID.
SameEnqueues ==
  \A t \in Threads :
    op'[t] = "enqueue" /\ pc'[t] \in PersistPC =>
      /\ op[t] = "enqueue" /\ pc[t] \in PersistPC
      /\ arg'[t] = arg[t] /\ held'[t] = held[t]

\* Taking runs away keeps one holder to a run.
LEMMA ShrinkSingle ==
  ASSUME TypeOK, TypeOK', SingleHolder, HoldersShrink
  PROVE  /\ SingleHolder'
         /\ \A id \in Fresh : NoHolder(id) => NoHolder(id)'
<1>1. \A r \in Run : pending[r] \in Nat /\ pending'[r] \in Nat
  BY DEF TypeOK
<1>2. \A id \in Fresh : Queued(id)' => Queued(id)
  BY <1>1 DEF HoldersShrink, Queued, Pending
<1>3. \A id \in Fresh : NoHolder(id) => NoHolder(id)'
  BY <1>2 DEF HoldersShrink, NoHolder
<1>4. SingleHolder'
  BY <1>1, <1>2 DEF HoldersShrink, SingleHolder
<1> QED
  BY <1>3, <1>4

\* Taking runs away from any holder preserves HolderInv.
LEMMA Shrink ==
  ASSUME TypeOK, TypeOK', HolderInv, HoldersShrink,
         UNCHANGED <<used, settled>>,
         \A id \in Fresh : record'[id] # record[id] =>
           record'[id] = NoRun \/ (id \in used /\ id \notin settled),
         \A t \in Threads : op'[t] = "evict" => op[t] = "evict" /\ arg'[t] = arg[t],
         SameEnqueues
  PROVE  HolderInv'
<1>1. SingleHolder' /\ \A id \in Fresh : NoHolder(id) => NoHolder(id)'
  BY ShrinkSingle DEF HolderInv
<1>2. SettledIsFinal'
  BY <1>1 DEF HolderInv, SettledIsFinal, NoHolder
<1>3. EnqueuesAnother'
  BY DEF HolderInv, EnqueuesAnother, SameEnqueues
<1> QED
  BY <1>1, <1>2, <1>3 DEF HolderInv

\* No step gives a minted run a second holder.
LEMMA NextHolderInv == TypeInv /\ TypeInv' /\ DownInv /\ HolderInv /\ [Next]_vars => HolderInv'
<1> SUFFICES ASSUME TypeInv, TypeInv', DownInv, HolderInv, [Next]_vars PROVE HolderInv'
  OBVIOUS
<1> TypeOK /\ TypeOK' /\ ThreadsOK
  BY DEF TypeInv
<1> USE DEF HoldersShrink, SameEnqueues, Claimed, Carries
<1>1. ASSUME NEW t \in Threads, NEW id \in Ids, EnqueueNoop(t, id) PROVE HolderInv'
  <2>1. HoldersShrink /\ SameEnqueues
    BY <1>1 DEF TypeOK, EnqueueNoop, store, process, disp, threads, history
  <2> QED
    BY <1>1, <2>1, Shrink DEF TypeOK, EnqueueNoop, store, process, disp, threads, history
<1>2. ASSUME NEW t \in Threads, AddIndexGet(t) PROVE HolderInv'
  <2>1. HoldersShrink /\ SameEnqueues
    BY <1>2 DEF TypeOK, ThreadsOK, PersistPC, AddIndexGet, Return, Goto, store, process, disp, history
  <2> QED
    BY <1>2, <2>1, Shrink DEF TypeOK, ThreadsOK, PersistPC, AddIndexGet, Return, Goto, store, process, disp, history
<1>3. ASSUME NEW t \in Threads, AddIndexPut(t) PROVE HolderInv'
  <2>1. HoldersShrink /\ SameEnqueues
    BY <1>3 DEF TypeOK, ThreadsOK, PersistPC, AddIndexPut, Return, Goto, store, process, disp, history
  <2> QED
    BY <1>3, <2>1, Shrink DEF TypeOK, ThreadsOK, PersistPC, AddIndexPut, Return, Goto, store, process, disp, history
<1>4. ASSUME NEW t \in Threads, Nudge(t) PROVE HolderInv'
  <2>1. HoldersShrink /\ SameEnqueues
    BY <1>4 DEF TypeOK, ThreadsOK, PersistPC, Nudge, Return, store, disp, history
  <2> QED
    BY <1>4, <2>1, Shrink DEF TypeOK, ThreadsOK, PersistPC, Nudge, Return, store, disp, history
<1>5. ASSUME NEW t \in Threads, PutTombstone(t) PROVE HolderInv'
  <2>1. HoldersShrink /\ SameEnqueues
    BY <1>5 DEF TypeOK, ThreadsOK, PersistPC, PutTombstone, Return, Goto, store, process, disp, history
  <2> QED
    BY <1>5, <2>1, Shrink DEF TypeOK, ThreadsOK, PersistPC, PutTombstone, Return, Goto, store, process, disp, history
<1>6. ASSUME NEW t \in Threads, AckGet(t) PROVE HolderInv'
  <2>1. HoldersShrink /\ SameEnqueues
    BY <1>6 DEF TypeOK, ThreadsOK, PersistPC, AckGet, Goto, store, process, disp, history
  <2> QED
    BY <1>6, <2>1, Shrink DEF TypeOK, ThreadsOK, PersistPC, AckGet, Goto, store, process, disp, history
<1>7. ASSUME NEW t \in Threads, AckIndex(t) PROVE HolderInv'
  <2>1. HoldersShrink /\ SameEnqueues
    BY <1>7 DEF TypeOK, ThreadsOK, PersistPC, AckIndex, Goto, store, process, disp, history
  <2> QED
    BY <1>7, <2>1, Shrink DEF TypeOK, ThreadsOK, PersistPC, AckIndex, Goto, store, process, disp, history
<1>8. ASSUME NEW w \in Workers, FlowReturns(w) PROVE HolderInv'
  <2>1. HoldersShrink /\ SameEnqueues
    BY <1>8 DEF TypeOK, ThreadsOK, PersistPC, FlowReturns, Running, Call, store, process, disp, Threads
  <2> QED
    BY <1>8, <2>1, Shrink DEF TypeOK, ThreadsOK, PersistPC, FlowReturns, Running, Call, store, process, disp, Threads
<1>9. ASSUME NEW w \in Workers, NEW when \in Time, FlowYields(w, when) PROVE HolderInv'
  <2>1. HoldersShrink /\ SameEnqueues
    BY <1>9 DEF TypeOK, ThreadsOK, PersistPC, FlowYields, Running, Call, store, process, disp, history, Threads
  <2> QED
    BY <1>9, <2>1, Shrink DEF TypeOK, ThreadsOK, PersistPC, FlowYields, Running, Call, store, process, disp, history, Threads
<1>10. ASSUME NEW w \in Workers, FlowInterrupted(w) PROVE HolderInv'
  <2>1. HoldersShrink /\ SameEnqueues
    BY <1>10 DEF TypeOK, PersistPC, FlowInterrupted, Running, store, process, disp, history, Threads
  <2> QED
    BY <1>10, <2>1, Shrink DEF TypeOK, FlowInterrupted, Running, store, process, disp, history, Threads
<1>11. ASSUME NEW w \in Workers, UnknownFlow(w) PROVE HolderInv'
  <2>1. HoldersShrink /\ SameEnqueues
    BY <1>11 DEF TypeOK, PersistPC, UnknownFlow, store, process, disp, history, Threads
  <2> QED
    BY <1>11, <2>1, Shrink DEF TypeOK, UnknownFlow, store, process, disp, history, Threads
<1>12. ASSUME Peek PROVE HolderInv'
  <2>1. HoldersShrink /\ SameEnqueues
    BY <1>12 DEF TypeOK, Peek, Dispatch, Head, store, threads, history
  <2> QED
    BY <1>12, <2>1, Shrink DEF TypeOK, Peek, Dispatch, Head, store, threads, history
<1>13. ASSUME Woken PROVE HolderInv'
  <2>1. HoldersShrink /\ SameEnqueues
    BY <1>13 DEF TypeOK, Woken, store, threads, history
  <2> QED
    BY <1>13, <2>1, Shrink DEF TypeOK, Woken, store, threads, history
<1>14. ASSUME TimerFires PROVE HolderInv'
  <2>1. HoldersShrink /\ SameEnqueues
    BY <1>14 DEF TypeOK, TimerFires, Dispatch, store, threads, history
  <2> QED
    BY <1>14, <2>1, Shrink DEF TypeOK, TimerFires, Dispatch, store, threads, history
<1>15. ASSUME DispatchDone PROVE HolderInv'
  <2>1. HoldersShrink /\ SameEnqueues
    BY <1>15 DEF TypeOK, DispatchDone, store, threads, history
  <2> QED
    BY <1>15, <2>1, Shrink DEF TypeOK, DispatchDone, store, threads, history
<1>16. ASSUME Tick PROVE HolderInv'
  <2>1. HoldersShrink /\ SameEnqueues
    BY <1>16 DEF TypeOK, Tick, process, disp, store, threads, history
  <2> QED
    BY <1>16, <2>1, Shrink DEF TypeOK, Tick, process, disp, store, threads, history
<1>17. ASSUME Shutdown PROVE HolderInv'
  <2>1. HoldersShrink /\ SameEnqueues
    BY <1>17 DEF TypeOK, Shutdown, disp, store, threads, history
  <2> QED
    BY <1>17, <2>1, Shrink DEF TypeOK, Shutdown, disp, store, threads, history
<1>18. ASSUME Exit PROVE HolderInv'
  <2>1. HoldersShrink /\ SameEnqueues
    BY <1>18 DEF TypeOK, Exit, Gone, store, history
  <2> QED
    BY <1>18, <2>1, Shrink DEF TypeOK, Exit, Gone, store, history
<1>19. ASSUME Crash PROVE HolderInv'
  <2>1. HoldersShrink /\ SameEnqueues
    BY <1>19 DEF TypeOK, Crash, Gone, store, history
  <2> QED
    BY <1>19, <2>1, Shrink DEF TypeOK, Crash, Gone, store, history
<1>20. ASSUME UNCHANGED vars PROVE HolderInv'
  <2>1. HoldersShrink /\ SameEnqueues
    BY <1>20 DEF TypeOK, vars, store, process, disp, threads, history
  <2> QED
    BY <1>20, <2>1, Shrink DEF TypeOK, vars, store, process, disp, threads, history
<1>21. ASSUME NEW t \in Threads, NEW id \in Ids, NEW when \in Time, EnqueueID(t, id, when)
       PROVE  HolderInv'
  <2>1. pending' = pending /\ dpc' = dpc /\ next' = next /\ held' = held /\ record' = record
        /\ settled' = settled /\ used' = used \cup {id} /\ (id \in Fresh => id \notin used)
    BY <1>21 DEF EnqueueID, store, process, disp
  <2>2. op'[t] = "enqueue" /\ arg'[t].id = id /\ op[t] = "none"
    BY <1>21 DEF EnqueueID, Call, MayCall, Running, TypeOK, ThreadsOK
  <2>3. \A u \in Threads \ {t} : op'[u] = op[u] /\ pc'[u] = pc[u] /\ arg'[u] = arg[u]
    BY <1>21 DEF EnqueueID, Call, TypeOK
  <2>4. \A i \in Fresh : Queued(i)' = Queued(i) /\ Claimed(i)' = Claimed(i)
    BY <2>1 DEF Queued, Pending
  <2>5. \A i \in Fresh, u \in Threads : Carries(u, i)' => Carries(u, i) \/ (u = t /\ i = id)
    BY <2>1, <2>2, <2>3
  <2>6. id \in Fresh => NoHolder(id) /\ id \notin settled
    BY <2>1 DEF HolderInv
  <2>7. EnqueuesAnother'
    BY <2>1, <2>2, <2>3, <2>6 DEF HolderInv, EnqueuesAnother, NoHolder
  <2> HIDE DEF Claimed, Carries
  <2>8. SingleHolder'
    BY <2>1, <2>4, <2>5, <2>6 DEF HolderInv, SingleHolder, NoHolder
  <2>9. SettledIsFinal'
    BY <2>1, <2>4, <2>5, <2>6 DEF HolderInv, SettledIsFinal
  <2>10. \A i \in Fresh : i # id /\ NoHolder(i) => NoHolder(i)'
    BY <2>4, <2>5 DEF NoHolder
  <2> QED
    BY <2>1, <2>2, <2>3, <2>7, <2>8, <2>9, <2>10 DEF HolderInv
<1>22. ASSUME NEW t \in Threads, PersistRun(t) PROVE HolderInv'
  <2>1. HoldersShrink /\ SameEnqueues
    BY <1>22 DEF PersistRun, Return, Goto, process, disp, TypeOK, ThreadsOK, PersistPC
  <2>2. Carries(t, arg[t].id)
    BY <1>22, ConstantsAssumption DEF PersistRun, ThreadsOK, PersistPC
  <2>3. arg[t].id \in Fresh => arg[t].id \in used /\ arg[t].id \notin settled
    BY <2>2 DEF HolderInv, SettledIsFinal, NoHolder
  <2> QED
    BY <1>22, <2>1, <2>3, Shrink DEF PersistRun, Return, Goto, history, TypeOK, Ids
<1>23. ASSUME NEW t \in Threads, NEW id \in Ids, Cancel(t, id) PROVE HolderInv'
  <2>1. HoldersShrink /\ SameEnqueues
    BY <1>23 DEF Cancel, Call, MayCall, Running, disp, TypeOK, PersistPC
  <2>2. SingleHolder' /\ \A i \in Fresh : NoHolder(i) => NoHolder(i)'
    BY <2>1, ShrinkSingle DEF HolderInv
  <2>3. Queued(id) /\ id \in Fresh => NoHolder(id)' /\ id \in used
    <3>1. ~Queued(id)'
      BY <1>23 DEF Cancel, Queued, Pending
    <3>2. Queued(id) /\ id \in Fresh => ~Claimed(id) /\ (\A u \in Threads : ~Carries(u, id)) /\ id \in used
      BY DEF HolderInv, SingleHolder, NoHolder
    <3> QED
      BY <2>1, <3>1, <3>2 DEF NoHolder
  <2>4. SettledIsFinal'
    BY <1>23, <2>2 DEF HolderInv, SettledIsFinal, NoHolder, Cancel, store
  <2>5. \A u \in Threads : op'[u] = "evict" =>
          \/ op[u] = "evict" /\ arg'[u] = arg[u]
          \/ arg'[u].id = id /\ Queued(id)
    BY <1>23 DEF Cancel, Call, Queued, TypeOK
  <2> QED
    BY <1>23, <2>1, <2>2, <2>3, <2>4, <2>5 DEF HolderInv, EnqueuesAnother, Cancel, store
<1>24. ASSUME NEW t \in Threads, AckRun(t) PROVE HolderInv'
  <2>1. HoldersShrink /\ SameEnqueues
    BY <1>24 DEF AckRun, Return, Goto, process, disp, TypeOK, ThreadsOK, PersistPC
  <2>2. SingleHolder' /\ \A i \in Fresh : NoHolder(i) => NoHolder(i)'
    BY <2>1, ShrinkSingle DEF HolderInv
  <2>3. \A u \in Threads : op'[u] = "evict" => op[u] = "evict" /\ arg'[u] = arg[u]
    BY <1>24 DEF AckRun, Return, Goto, TypeOK
  <2>4. used' = used /\ \A i \in Fresh : record'[i] \in {record[i], NoRun}
    BY <1>24 DEF AckRun, TypeOK, Ids
  <2>5. CASE settled' = settled
    BY <2>1, <2>3, <2>4, <2>5, Shrink
  <2>6. CASE settled' # settled
    <3>1. PICK i \in Ids : i = arg[t].id
      BY <1>24 DEF AckRun, TypeOK, Run
    <3>2. /\ settled' = settled \cup {i} /\ op[t] \in {"settle", "evict"}
          /\ record' = [record EXCEPT ![i] = NoRun]
      BY <1>24, <2>6, <3>1 DEF AckRun
    <3>3. record'[i] = NoRun
      BY <3>2 DEF TypeOK
    <3>4. i \in Fresh => NoHolder(i)' /\ i \in used
      <4>1. CASE op[t] = "evict"
        BY <2>2, <3>1, <4>1 DEF HolderInv
      <4>2. CASE op[t] = "settle"
        <5>1. held[t] # NoRun /\ held[t].id = i /\ held'[t] = NoRun /\ op'[t] = "none"
          BY <1>24, <3>1, <4>2, ConstantsAssumption DEF AckRun, Return, ThreadsOK, TypeOK
        <5>2. i \in Fresh =>
                /\ ~Queued(i) /\ ~Claimed(i) /\ i \in used
                /\ \A u \in Threads \ {t} : ~Carries(u, i)
          BY <5>1 DEF HolderInv, SingleHolder, NoHolder
        <5>3. ~Carries(t, i)'
          BY <5>1
        <5>4. ~Queued(i) => ~Queued(i)'
          BY <1>24 DEF AckRun, process, Queued, Pending
        <5> QED
          BY <2>1, <5>2, <5>3, <5>4 DEF NoHolder
      <4> QED
        BY <3>2, <4>1, <4>2
    <3> HIDE DEF Claimed, Carries
    <3>5. SettledIsFinal'
      BY <2>2, <2>4, <3>2, <3>3, <3>4 DEF HolderInv, SettledIsFinal, NoHolder
    <3> QED
      BY <2>1, <2>2, <2>3, <2>4, <3>2, <3>4, <3>5 DEF HolderInv, EnqueuesAnother
  <2> QED
    BY <2>5, <2>6
<1>25. ASSUME NEW t \in Threads, Insert(t) PROVE HolderInv'
  <2>1. PICK i \in Ids : i = arg[t].id
    BY <1>25 DEF Insert, Goto, TypeOK, Run
  <2>2. /\ arg[t] \in Run /\ pending' = [pending EXCEPT ![arg[t]] = @ + 1]
        /\ UNCHANGED <<dpc, next, record, used, settled, op, arg>>
        /\ pc' = [pc EXCEPT ![t] = "nudge"]
        /\ held' = [held EXCEPT ![t] = IF op[t] = "requeue" THEN NoRun ELSE @]
    BY <1>25 DEF Insert, Goto, insert, TypeOK, store, disp, bounds
  <2>3. Carries(t, i)
    BY <1>25, <2>1, ConstantsAssumption DEF Insert, Goto, ThreadsOK, PersistPC
  <2>4. i \in Fresh =>
          /\ ~Queued(i) /\ ~Claimed(i) /\ i \in used /\ i \notin settled
          /\ \A u \in Threads \ {t} : ~Carries(u, i)
          /\ \A u \in Threads : op[u] = "evict" => arg[u].id # i
    BY <2>3 DEF HolderInv, SingleHolder, SettledIsFinal, NoHolder
  <2>5. \A u \in Threads, k \in Fresh : Carries(u, k)' => Carries(u, k)
    BY <2>2 DEF TypeOK, PersistPC
  <2>6. i \in Fresh => ~Carries(t, i)'
    <3>1. CASE op[t] = "requeue"
      BY <2>2, <3>1 DEF TypeOK
    <3>2. CASE op[t] = "enqueue"
      <4>1. op'[t] = "enqueue" /\ pc'[t] = "nudge" /\ held'[t] = held[t]
        BY <2>2, <3>2 DEF TypeOK
      <4>2. i \in Fresh /\ held[t] # NoRun => held[t].id # i
        BY <1>25, <2>1, <3>2 DEF Insert, Goto, PersistPC, HolderInv, EnqueuesAnother
      <4> QED
        BY <4>1, <4>2 DEF PersistPC
    <3> QED
      BY <1>25, <3>1, <3>2 DEF Insert, Goto, ThreadsOK, PersistPC
  <2>7. \A r \in Run : r.id # i => pending'[r] = pending[r]
    BY <2>1, <2>2 DEF TypeOK
  <2>8. \A k \in Fresh \ {i} : Queued(k)' = Queued(k)
    BY <2>7 DEF Queued, Pending
  <2>9. i \in Fresh => \A r \in Run : r.id = i => pending'[r] = IF r = arg[t] THEN 1 ELSE 0
    BY <2>1, <2>2, <2>4 DEF Queued, Pending, TypeOK
  <2>10. \A k \in Fresh : Claimed(k)' = Claimed(k)
    BY <2>2
  <2>11. EnqueuesAnother'
    BY <2>2 DEF HolderInv, EnqueuesAnother, PersistPC, TypeOK
  <2> HIDE DEF Claimed, Carries
  <2>12. \A u \in Threads : i \in Fresh => ~Carries(u, i)'
    BY <2>4, <2>5, <2>6
  <2>13. SingleHolder'
    <3> SUFFICES ASSUME NEW k \in Fresh
                 PROVE  SingleHolder!(k)'
      BY DEF SingleHolder
    <3> QED
      BY <2>4, <2>5, <2>7, <2>8, <2>9, <2>10, <2>12 DEF HolderInv, SingleHolder
  <2>14. \A k \in Fresh \ {i} : NoHolder(k) => NoHolder(k)'
    BY <2>5, <2>8, <2>10 DEF NoHolder
  <2>15. SettledIsFinal'
    BY <2>2, <2>4, <2>14 DEF HolderInv, SettledIsFinal, NoHolder
  <2> QED
    BY <2>2, <2>4, <2>11, <2>13, <2>14, <2>15 DEF HolderInv
<1>26. ASSUME Claim PROVE HolderInv'
  <2>1. UNCHANGED <<record, used, settled, pc, op, arg, held>> /\ dpc = "due"
    BY <1>26 DEF Claim, store, threads, history
  <2>2. EnqueuesAnother' /\ \A u \in Threads, k \in Fresh : Carries(u, k)' = Carries(u, k)
    BY <2>1 DEF HolderInv, EnqueuesAnother
  <2>3. CASE UNCHANGED <<next, pending>> /\ dpc' = "peek"
    <3>1. HoldersShrink /\ SameEnqueues
      BY <2>1, <2>2, <2>3 DEF TypeOK
    <3> QED
      BY <2>1, <3>1, Shrink
  <2>4. ASSUME NEW r \in Run, pending[r] > 0, next' = r, dpc' = "send",
               pending' = [pending EXCEPT ![r] = @ - 1]
        PROVE  HolderInv'
    <3>1. \A k \in Fresh : Claimed(k)' <=> k = r.id
      BY <2>4
    <3>2. \A k \in Fresh : ~Claimed(k)
      BY <2>1
    <3>3. \A s \in Run : pending'[s] = IF s = r THEN pending[s] - 1 ELSE pending[s]
      BY <2>4 DEF TypeOK
    <3>4. \A k \in Fresh : Queued(k)' => Queued(k)
      BY <3>3 DEF Queued, Pending, TypeOK
    <3>5. Queued(r.id)
      BY <2>4 DEF Queued, Pending
    <3>6. r.id \in Fresh =>
            /\ ~Queued(r.id)'
            /\ \A u \in Threads : ~Carries(u, r.id)
            /\ r.id \in used /\ r.id \notin settled
            /\ \A u \in Threads : op[u] = "evict" => arg[u].id # r.id
      <4>1. r.id \in Fresh => \A s \in Run : s.id = r.id => pending'[s] = 0
        BY <2>4, <3>3 DEF HolderInv, SingleHolder, TypeOK
      <4> QED
        BY <3>5, <4>1 DEF HolderInv, SingleHolder, SettledIsFinal, NoHolder, Queued, Pending, TypeOK
    <3> HIDE DEF Claimed, Carries
    <3>7. SingleHolder'
      <4> SUFFICES ASSUME NEW k \in Fresh PROVE SingleHolder!(k)'
        BY DEF SingleHolder
      <4> QED
        BY <2>2, <3>1, <3>3, <3>4, <3>6 DEF HolderInv, SingleHolder, TypeOK
    <3>8. \A k \in Fresh \ {r.id} : NoHolder(k) => NoHolder(k)'
      BY <2>2, <3>1, <3>4 DEF NoHolder
    <3>9. SettledIsFinal'
      BY <2>1, <3>6, <3>8 DEF HolderInv, SettledIsFinal, NoHolder
    <3> QED
      BY <2>1, <2>2, <3>6, <3>7, <3>8, <3>9 DEF HolderInv
  <2> QED
    BY <1>26, <2>3, <2>4 DEF Claim, Dispatch, Head
<1>27. ASSUME NEW w \in Workers, HandOff(w) PROVE HolderInv'
  <2>1. PICK r \in Run : r = next
    BY <1>27 DEF HandOff, Dispatch, TypeOK
  <2>2. /\ UNCHANGED <<pending, record, used, settled, op, arg>>
        /\ dpc = "send" /\ dpc' = "peek" /\ held' = [held EXCEPT ![w] = r]
        /\ pc[w] = "idle" /\ pc' = [pc EXCEPT ![w] = "flow"] /\ w \in Threads
    BY <1>27, <2>1 DEF HandOff, Dispatch, Goto, store, history, Threads
  <2>3. \A k \in Fresh : Queued(k)' = Queued(k) /\ ~Claimed(k)' /\ (Claimed(k) <=> k = r.id)
    BY <2>1, <2>2 DEF Queued, Pending
  <2>4. \A k \in Fresh, u \in Threads : Carries(u, k)' => Carries(u, k) \/ (u = w /\ k = r.id)
    BY <2>2 DEF TypeOK, PersistPC
  <2>5. r.id \in Fresh =>
          /\ ~Queued(r.id) /\ \A u \in Threads : ~Carries(u, r.id)
          /\ r.id \in used /\ r.id \notin settled
          /\ \A u \in Threads : op[u] = "evict" => arg[u].id # r.id
    BY <2>3 DEF HolderInv, SingleHolder, SettledIsFinal, NoHolder
  <2>6. EnqueuesAnother'
    BY <2>2 DEF HolderInv, EnqueuesAnother, PersistPC, TypeOK
  <2> HIDE DEF Claimed, Carries
  <2>7. SingleHolder'
    <3> SUFFICES ASSUME NEW k \in Fresh PROVE SingleHolder!(k)'
      BY DEF SingleHolder
    <3> QED
      BY <2>2, <2>3, <2>4, <2>5 DEF HolderInv, SingleHolder
  <2>8. \A k \in Fresh \ {r.id} : NoHolder(k) => NoHolder(k)'
    BY <2>3, <2>4 DEF NoHolder
  <2>9. SettledIsFinal'
    BY <2>2, <2>5, <2>8 DEF HolderInv, SettledIsFinal, NoHolder
  <2> QED
    BY <2>2, <2>5, <2>6, <2>7, <2>8, <2>9 DEF HolderInv
<1>28. ASSUME New PROVE HolderInv'
  <2>1. UNCHANGED <<record, used, settled, pc, op, arg, held>> /\ dpc' = "peek" /\ dpc = "stopped"
    BY <1>28 DEF New, store, threads, history, DownInv
  <2>2. \A t \in Threads : held[t] = NoRun /\ op[t] = "none"
    BY <1>28 DEF New, DownInv, ThreadsOK
  <2>3. \A r \in Run : pending'[r] \in {0, 1} /\ (pending'[r] = 1 => record[r.id] = r)
    BY <1>28 DEF New
  <2>4. \A k \in Fresh : ~Claimed(k)' /\ \A t \in Threads : ~Carries(t, k)'
    BY <2>1, <2>2
  <2>5. \A k \in Fresh : record[k] = NoRun => ~Queued(k)'
    BY <2>3, ConstantsAssumption DEF Queued, Pending
  <2>6. EnqueuesAnother'
    BY <2>1 DEF HolderInv, EnqueuesAnother
  <2> HIDE DEF Claimed, Carries
  <2>7. SingleHolder'
    BY <2>3, <2>4 DEF SingleHolder
  <2>8. SettledIsFinal'
    BY <2>1, <2>4, <2>5 DEF HolderInv, SettledIsFinal
  <2> QED
    BY <2>1, <2>2, <2>4, <2>5, <2>6, <2>7, <2>8 DEF HolderInv, NoHolder
<1> QED
  BY <1>1, <1>2, <1>3, <1>4, <1>5, <1>6, <1>7, <1>8, <1>9, <1>10, <1>11, <1>12, <1>13, <1>14, <1>15, <1>16, <1>17, <1>18, <1>19, <1>20, <1>21, <1>22, <1>23, <1>24, <1>25, <1>26, <1>27, <1>28
  DEF Next, CallStep, FlowEnds, DispatchStep

\* The strengthened one-holder invariant always holds.
LEMMA HolderInvariant == Spec => []HolderInv
<1>1. Init => HolderInv
  BY ConstantsAssumption DEF Init, HolderInv, EnqueuesAnother, SingleHolder, SettledIsFinal, NoHolder,
     Queued, Pending, Claimed, Carries, Ids
<1>2. QED
  BY <1>1, NextHolderInv, TypeInvariant, DownInvariant, PTL DEF Spec

\* A run minted by Enqueue is in one place at a time: it is never queued twice,
\* never queued while it executes, and never executed by two workers at once.
THEOREM RunHeldOnce == Spec => []SingleHolder
BY HolderInvariant, PTL DEF HolderInv

\* Once ack has deleted a run's record the run is finished for good: no later
\* step, crash, restart or racing index write makes it execute again.
THEOREM SettledStaysSettled == Spec => []SettledIsFinal
BY HolderInvariant, PTL DEF HolderInv

-----------------------------------------------------------------------------
(* The wakeup protocol: the nudge that follows every insert reaches the    *)
(* dispatcher, whichever select it is in.                                  *)

\* Most actions neither put the dispatcher to sleep nor add to the heap.
LEMMA NoNewSleep ==
  ASSUME TypeOK, TypeOK', NoLostWakeup, UNCHANGED <<dpc, next>>,
         wake => wake',
         \A t \in Threads : pc[t] = "nudge" => pc'[t] = "nudge" \/ wake',
         \A r \in Run : pending'[r] <= pending[r]
  PROVE  NoLostWakeup'
<1>1. \A r \in Run : pending'[r] > 0 => pending[r] > 0
  BY DEF TypeOK
<1> QED
  BY <1>1 DEF NoLostWakeup

\* No step leaves the dispatcher asleep past an earlier run.
LEMMA NextNoLostWakeup == TypeInv /\ TypeInv' /\ NoLostWakeup /\ [Next]_vars => NoLostWakeup'
<1> SUFFICES ASSUME TypeInv, TypeInv', NoLostWakeup, [Next]_vars PROVE NoLostWakeup'
  OBVIOUS
<1> TypeOK /\ TypeOK'
  BY DEF TypeInv
<1>1. ASSUME NEW t \in Threads, NEW id \in Ids, NEW when \in Time,
             EnqueueID(t, id, when) \/ EnqueueNoop(t, id) \/ Cancel(t, id)
      PROVE  NoLostWakeup'
  <2>1. pc[t] # "nudge"
    BY <1>1 DEF EnqueueID, EnqueueNoop, Cancel, MayCall, Running
  <2> QED
    BY <1>1, <2>1, NoNewSleep DEF EnqueueID, EnqueueNoop, Cancel, Call, process, disp, threads, TypeOK
<1>2. ASSUME NEW t \in Threads, Insert(t) PROVE NoLostWakeup'
  <2>1. pc'[t] = "nudge"
    BY <1>2 DEF Insert, Goto, TypeOK
  <2> QED
    BY <2>1 DEF NoLostWakeup
<1>3. ASSUME NEW t \in Threads, Nudge(t) PROVE NoLostWakeup'
  BY <1>3 DEF Nudge, NoLostWakeup
<1>4. ASSUME NEW t \in Threads,
             \/ AddIndexGet(t) \/ AddIndexPut(t) \/ PersistRun(t) \/ PutTombstone(t)
             \/ AckGet(t) \/ AckIndex(t) \/ AckRun(t)
      PROVE  NoLostWakeup'
  <2>1. UNCHANGED process
    BY <1>4 DEF AddIndexGet, AddIndexPut, PersistRun, PutTombstone, AckGet, AckIndex, AckRun
  <2>2. \A u \in Threads : pc[u] = "nudge" => pc'[u] = "nudge"
    BY <1>4 DEF AddIndexGet, AddIndexPut, PersistRun, PutTombstone, AckGet, AckIndex, AckRun,
       Goto, Return, TypeOK
  <2> QED
    BY <2>1, <2>2, NoNewSleep DEF process, disp, TypeOK
<1>5. ASSUME NEW w \in Workers, FlowEnds(w) \/ FlowInterrupted(w) \/ UnknownFlow(w)
      PROVE  NoLostWakeup'
  <2>1. UNCHANGED process
    BY <1>5 DEF FlowEnds, FlowReturns, FlowYields, FlowInterrupted, UnknownFlow
  <2>2. \A u \in Threads : pc[u] = "nudge" => pc'[u] = "nudge"
    BY <1>5 DEF FlowEnds, FlowReturns, FlowYields, FlowInterrupted, UnknownFlow, Running, Call, TypeOK
  <2> QED
    BY <2>1, <2>2, NoNewSleep DEF process, disp, TypeOK
<1>6. ASSUME Peek PROVE NoLostWakeup'
  <2>1. CASE dpc' = "empty"
    BY <1>6, <2>1 DEF Peek, Dispatch, NoLostWakeup
  <2>2. ASSUME dpc' # "empty", NEW r \in Run, Head(r), next' = r, UNCHANGED pending PROVE NoLostWakeup'
    <3>1. \A s \in Run : pending'[s] > 0 => ~(s.wake < next'.wake)
      BY <2>2 DEF Head, Run, Time
    <3> QED
      BY <2>2, <3>1 DEF NoLostWakeup
  <2> QED
    BY <1>6, <2>1, <2>2 DEF Peek, Dispatch
<1>7. ASSUME dpc' \in {"peek", "send", "stopped"} PROVE NoLostWakeup'
  BY <1>7 DEF NoLostWakeup
<1>8. ASSUME Tick \/ Shutdown \/ UNCHANGED vars PROVE NoLostWakeup'
  BY <1>8, NoNewSleep DEF Tick, Shutdown, vars, process, disp, threads, TypeOK
<1>9. Woken \/ TimerFires \/ Claim \/ (\E w \in Workers : HandOff(w)) \/ DispatchDone \/ Exit \/ Crash \/ New
        => dpc' \in {"peek", "send", "stopped"}
  BY DEF Woken, TimerFires, Claim, HandOff, DispatchDone, Dispatch, Exit, Crash, Gone, New
<1>10. 0 \in Time
  BY ConstantsAssumption DEF Time
<1> QED
  BY <1>1, <1>2, <1>3, <1>4, <1>5, <1>6, <1>7, <1>8, <1>9, <1>10 DEF Next, CallStep, DispatchStep

\* The dispatcher never sleeps through work: an entry it does not know of has
\* left it a token, or is about to.
THEOREM WakeupReaches == Spec => []NoLostWakeup
<1>1. Init => NoLostWakeup
  BY DEF Init, NoLostWakeup
<1> QED
  BY <1>1, NextNoLostWakeup, TypeInvariant, PTL DEF Spec

-----------------------------------------------------------------------------
(* NotEarly: between the dispatcher's two looks at the heap, a run with a  *)
(* minted ID can leave it, but no other run with that ID can enter it.     *)

DueInv ==
  /\ dpc = "due" /\ next.id \in Fresh =>
       /\ next.wake <= now
       /\ next.id \in used
       /\ \A t \in Threads : ~Carries(t, next.id)
       /\ \A r \in Run : r.id = next.id /\ pending[r] > 0 => r = next
  /\ dpc = "send" /\ next.id \in Fresh => next.wake <= now

\* No step lets a minted run be claimed before its Wake.
LEMMA NextDueInv ==
  TypeInv /\ TypeInv' /\ HolderInv /\ DueInv /\ [Next]_vars => DueInv'
<1> SUFFICES ASSUME TypeInv, TypeInv', HolderInv, DueInv, [Next]_vars PROVE DueInv'
  OBVIOUS
<1> TypeOK /\ TypeOK' /\ ThreadsOK
  BY DEF TypeInv
\* A step that leaves the dispatcher alone, enqueues no ID already used, and
\* inserts only what it carried.
<1>1. ASSUME UNCHANGED <<dpc, next, now>>, used \subseteq used',
             \A id \in Fresh, t \in Threads :
               Carries(t, id)' => Carries(t, id) \/ id \notin used,
             \A r \in Run : pending'[r] > 0 =>
               pending[r] > 0 \/ \E t \in Threads : Carries(t, r.id)
      PROVE  DueInv'
  <2> HIDE DEF Carries
  <2> QED
    BY <1>1 DEF DueInv
<1>2. ASSUME NEW t \in Threads, NEW id \in Ids, NEW when \in Time,
             EnqueueID(t, id, when) \/ EnqueueNoop(t, id)
      PROVE  DueInv'
  BY <1>1, <1>2 DEF EnqueueID, EnqueueNoop, Call, Carries, process, disp, threads, history, TypeOK
<1>3. ASSUME NEW t \in Threads, NEW id \in Ids, Cancel(t, id) PROVE DueInv'
  BY <1>1, <1>3 DEF Cancel, Call, Carries, disp, TypeOK, PersistPC
<1>4. ASSUME NEW t \in Threads, Insert(t) PROVE DueInv'
  <2>1. Carries(t, arg[t].id)
    BY <1>4, ConstantsAssumption DEF Insert, Goto, ThreadsOK, Carries, PersistPC
  <2>2. \A r \in Run : pending'[r] > 0 => pending[r] > 0 \/ Carries(t, r.id)
    BY <1>4, <2>1 DEF Insert, insert, TypeOK
  <2>3. \A id \in Fresh, u \in Threads : Carries(u, id)' => Carries(u, id)
    BY <1>4 DEF Insert, Goto, Carries, PersistPC, TypeOK
  <2> QED
    BY <1>1, <1>4, <2>2, <2>3 DEF Insert, disp
<1>5. ASSUME NEW t \in Threads, CallStep(t), ~Insert(t) PROVE DueInv'
  <2>1. UNCHANGED <<dpc, next, now, used, pending>>
    BY <1>5 DEF CallStep, AddIndexGet, AddIndexPut, PersistRun, Nudge, PutTombstone, AckGet,
       AckIndex, AckRun, process, disp, history
  <2>2. \A id \in Fresh, u \in Threads : Carries(u, id)' => Carries(u, id)
    BY <1>5 DEF CallStep, AddIndexGet, AddIndexPut, PersistRun, Nudge, PutTombstone, AckGet,
       AckIndex, AckRun, Return, Goto, Carries, PersistPC, ThreadsOK, TypeOK
  <2> QED
    BY <1>1, <2>1, <2>2
<1>6. ASSUME NEW w \in Workers, FlowEnds(w) \/ FlowInterrupted(w) \/ UnknownFlow(w) PROVE DueInv'
  <2>1. UNCHANGED <<dpc, next, now, used, pending>>
    BY <1>6 DEF FlowEnds, FlowReturns, FlowYields, FlowInterrupted, UnknownFlow, process, disp, history
  <2>2. \A id \in Fresh, u \in Threads : Carries(u, id)' => Carries(u, id)
    BY <1>6 DEF FlowEnds, FlowReturns, FlowYields, FlowInterrupted, UnknownFlow, Running, Call,
       Carries, PersistPC, TypeOK
  <2> QED
    BY <1>1, <2>1, <2>2
<1>7. ASSUME Peek PROVE DueInv'
  <2>1. CASE dpc' # "due"
    BY <1>7, <2>1 DEF Peek, Dispatch, DueInv
  <2>2. ASSUME NEW r \in Run, Head(r), next' = r, dpc' = "due", ~(now < r.wake),
               UNCHANGED <<store, phase, pending, wake, missing, threads, now, history, bounds>>
        PROVE  DueInv'
    <3>1. r.wake <= now
      BY <2>2 DEF Run, Time, TypeOK
    <3>2. Queued(r.id)
      BY <2>2 DEF Head, Queued, Pending
    <3>3. r.id \in Fresh => r.id \in used /\ \A t \in Threads : ~Carries(t, r.id)
      BY <3>2 DEF HolderInv, SingleHolder, NoHolder
    <3>4. \A s \in Run : r.id \in Fresh /\ s.id = r.id /\ pending[s] > 0 => s = r
      BY <2>2 DEF Head, HolderInv, SingleHolder
    <3>5. \A t \in Threads : Carries(t, r.id)' <=> Carries(t, r.id)
      BY <2>2 DEF threads, Carries
    <3> QED
      BY <2>2, <3>1, <3>3, <3>4, <3>5 DEF DueInv, history, Carries
  <2> QED
    BY <1>7, <2>1, <2>2 DEF Peek, Dispatch
<1>8. ASSUME Claim PROVE DueInv'
  BY <1>8 DEF Claim, Dispatch, Head, DueInv
<1>9. ASSUME dpc' \in {"peek", "stopped"} PROVE DueInv'
  BY <1>9 DEF DueInv
<1>10. ASSUME Tick PROVE DueInv'
  <2>1. \A x \in Time : x <= now => x <= now'
    BY <1>10 DEF Tick, Time, TypeOK
  <2>2. next \in Run => next.wake \in Time
    BY DEF Run
  <2> QED
    BY <1>10, <2>1, <2>2 DEF Tick, DueInv, process, disp, threads, history, Carries, TypeOK
<1>11. ASSUME Shutdown \/ UNCHANGED vars PROVE DueInv'
  BY <1>1, <1>11 DEF Shutdown, vars, process, disp, threads, history, Carries
<1>12. Woken \/ TimerFires \/ (\E w \in Workers : HandOff(w)) \/ DispatchDone \/ Exit \/ Crash \/ New
         => dpc' \in {"peek", "stopped"}
  BY DEF Woken, TimerFires, HandOff, DispatchDone, Dispatch, Exit, Crash, Gone, New
<1>13. 0 \in Time
  BY ConstantsAssumption DEF Time
<1> QED
  BY <1>2, <1>3, <1>4, <1>5, <1>6, <1>7, <1>8, <1>9, <1>10, <1>11, <1>12, <1>13 DEF Next, DispatchStep

\* No minted run is handed to a worker before its Wake.
THEOREM NeverEarly == Spec => NotEarly
<1>1. Init => DueInv
  BY DEF Init, DueInv
<1>2. Spec => []DueInv
  BY <1>1, NextDueInv, TypeInvariant, HolderInvariant, PTL DEF Spec
<1>3. TypeInv /\ DueInv /\ [Next]_vars =>
        [\A w \in Workers :
           held[w] = NoRun /\ held'[w] # NoRun /\ held'[w].id \in Fresh => held'[w].wake <= now]_vars
  <2> SUFFICES ASSUME TypeInv, DueInv, Next, NEW w \in Workers, held[w] = NoRun, held'[w] # NoRun
               PROVE  held'[w].id \in Fresh => held'[w].wake <= now
    OBVIOUS
  <2>1. w \in Threads /\ TypeOK
    BY DEF Threads, TypeInv
  <2>2. ASSUME NEW v \in Workers, HandOff(v) PROVE held'[w].id \in Fresh => held'[w].wake <= now
    <3>1. held'[w] = next /\ dpc = "send"
      BY <2>1, <2>2 DEF HandOff, Dispatch, TypeOK
    <3> QED
      BY <3>1 DEF DueInv
  <2>3. ASSUME \A v \in Workers : ~HandOff(v) PROVE held'[w] = held[w] \/ held'[w] = NoRun
    <3>1. ASSUME NEW t \in Threads, CallStep(t) PROVE held'[w] = held[w] \/ held'[w] = NoRun
      BY <2>1, <3>1 DEF CallStep, AddIndexGet, AddIndexPut, PersistRun, Insert, Nudge, Return,
         PutTombstone, AckGet, AckIndex, AckRun, TypeOK
    <3>2. ASSUME NEW v \in Workers, FlowEnds(v) \/ FlowInterrupted(v) \/ UnknownFlow(v)
          PROVE  held'[w] = held[w] \/ held'[w] = NoRun
      BY <2>1, <3>2 DEF FlowEnds, FlowReturns, FlowYields, FlowInterrupted, UnknownFlow, TypeOK
    <3>3. ASSUME NEW t \in Threads, NEW id \in Ids, NEW when \in Time,
                 EnqueueID(t, id, when) \/ EnqueueNoop(t, id) \/ Cancel(t, id)
          PROVE  held'[w] = held[w]
      BY <3>3 DEF EnqueueID, EnqueueNoop, Cancel, threads
    <3>4. ASSUME DispatchStep \/ DispatchDone \/ Tick \/ Shutdown \/ New PROVE held'[w] = held[w]
      BY <2>3, <3>4 DEF DispatchStep, Peek, Woken, TimerFires, Claim, DispatchDone, Tick, Shutdown,
         New, threads
    <3>5. ASSUME Exit \/ Crash PROVE held'[w] = NoRun
      BY <2>1, <3>5 DEF Exit, Crash, Gone
    <3>6. 0 \in Time
      BY ConstantsAssumption DEF Time
    <3> QED
      BY <3>1, <3>2, <3>3, <3>4, <3>5, <3>6 DEF Next
  <2> QED
    BY <2>2, <2>3
<1> QED
  BY <1>2, <1>3, TypeInvariant, PTL DEF Spec, NotEarly

-----------------------------------------------------------------------------
(* RecordBacksRun: a record is written only by whoever holds the run, and  *)
(* emptied only when the run is settled or cancelled.                      *)

RecordInv ==
  /\ RecordBacksRun
  /\ \A t \in Threads : op[t] \in {"cancel", "evict"} => arg[t].id \in cancelled
  /\ \A t \in Threads :
       pc[t] = "insert" /\ arg[t].id \in Fresh \ cancelled => record[arg[t].id] = arg[t]

\* Most actions neither write a record nor hand a run to anybody.
LEMMA NoNewClaim ==
  ASSUME TypeOK, TypeOK', RecordInv,
         UNCHANGED record, cancelled \subseteq cancelled',
         \A r \in Run : pending'[r] > 0 => pending[r] > 0,
         dpc' = "send" => dpc = "send" /\ next' = next,
         \A t \in Threads :
           /\ held'[t] # NoRun =>
                /\ held'[t] = held[t]
                /\ op[t] = "requeue" => op'[t] = "requeue" /\ arg'[t] = arg[t]
           /\ pc'[t] = "insert" => pc[t] = "insert" /\ arg'[t] = arg[t]
           /\ op'[t] \in {"cancel", "evict"} => arg'[t].id \in cancelled'
  PROVE  RecordInv'
<1>1. RecordBacksRun'
  BY DEF RecordInv, RecordBacksRun
<1> QED
  BY <1>1 DEF RecordInv

\* No step leaves a live run without the record of it.
LEMMA NextRecordInv ==
  TypeInv /\ TypeInv' /\ DownInv /\ HolderInv /\ RecordInv /\ [Next]_vars => RecordInv'
<1> SUFFICES ASSUME TypeInv, TypeInv', DownInv, HolderInv, RecordInv, [Next]_vars PROVE RecordInv'
  OBVIOUS
<1> TypeOK /\ TypeOK' /\ ThreadsOK
  BY DEF TypeInv
<1>1. ASSUME NEW t \in Threads, NEW id \in Ids, NEW when \in Time,
             EnqueueID(t, id, when) \/ EnqueueNoop(t, id)
      PROVE  RecordInv'
  BY <1>1, NoNewClaim DEF EnqueueID, EnqueueNoop, Call, MayCall, Running, store, process, disp,
     threads, history, TypeOK, ThreadsOK, RecordInv
<1>2. ASSUME NEW t \in Threads, NEW id \in Ids, Cancel(t, id) PROVE RecordInv'
  BY <1>2, NoNewClaim DEF Cancel, Call, MayCall, Running, store, disp, TypeOK, ThreadsOK, RecordInv
<1>3. ASSUME NEW t \in Threads,
             \/ AddIndexGet(t) \/ AddIndexPut(t) \/ Nudge(t)
             \/ PutTombstone(t) \/ AckGet(t) \/ AckIndex(t)
      PROVE  RecordInv'
  <2>1. UNCHANGED <<record, cancelled, pending, disp>>
    BY <1>3 DEF AddIndexGet, AddIndexPut, Nudge, PutTombstone, AckGet, AckIndex, store, process, history
  <2>2. \A u \in Threads :
          /\ held'[u] # NoRun =>
               /\ held'[u] = held[u]
               /\ op[u] = "requeue" => op'[u] = "requeue" /\ arg'[u] = arg[u]
          /\ pc'[u] # "insert" \/ (pc'[u] = pc[u] /\ arg'[u] = arg[u])
          /\ op'[u] = "none" \/ (op'[u] = op[u] /\ arg'[u] = arg[u])
    BY <1>3 DEF AddIndexGet, AddIndexPut, Nudge, PutTombstone, AckGet, AckIndex, Return, Goto,
       TypeOK, ThreadsOK
  <2> QED
    BY <2>1, <2>2, NoNewClaim DEF disp, RecordInv
<1>4. ASSUME NEW w \in Workers, FlowEnds(w) \/ FlowInterrupted(w) \/ UnknownFlow(w) PROVE RecordInv'
  <2>1. UNCHANGED <<record, cancelled, pending, disp>>
    BY <1>4 DEF FlowEnds, FlowReturns, FlowYields, FlowInterrupted, UnknownFlow, store, process, history
  <2>2. \A u \in Threads :
          /\ held'[u] # NoRun =>
               /\ held'[u] = held[u]
               /\ op[u] = "requeue" => op'[u] = "requeue" /\ arg'[u] = arg[u]
          /\ pc'[u] # "insert" \/ (pc'[u] = pc[u] /\ arg'[u] = arg[u])
          /\ op'[u] \in {"none", "settle", "requeue"} \/ (op'[u] = op[u] /\ arg'[u] = arg[u])
    BY <1>4 DEF FlowEnds, FlowReturns, FlowYields, FlowInterrupted, UnknownFlow, Running, Call,
       TypeOK, ThreadsOK
  <2> QED
    BY <2>1, <2>2, NoNewClaim DEF disp, RecordInv
<1>5. ASSUME Peek \/ Woken \/ TimerFires \/ DispatchDone \/ Tick \/ Shutdown \/ UNCHANGED vars
      PROVE  RecordInv'
  <2>1. UNCHANGED <<record, cancelled, pending, pc, op, arg, held>>
        /\ (dpc' = "send" => dpc = "send" /\ next' = next)
    BY <1>5 DEF Peek, Woken, TimerFires, DispatchDone, Tick, Shutdown, Dispatch, vars, store, process,
       disp, threads, history
  <2> QED
    BY <2>1, NoNewClaim DEF RecordInv
<1>6. ASSUME Exit \/ Crash PROVE RecordInv'
  BY <1>6, NoNewClaim DEF Exit, Crash, Gone, store, history, TypeOK
<1>7. ASSUME NEW t \in Threads, PersistRun(t) PROVE RecordInv'
  <2>1. UNCHANGED <<cancelled, pending, disp>>
    BY <1>7 DEF PersistRun, process, history
  <2>2. CASE Return(t)
    <3>1. record' = record
      BY <1>7, <2>2 DEF PersistRun, Return, Goto, ThreadsOK, TypeOK
    <3> QED
      BY <1>7, <2>1, <2>2, <3>1, NoNewClaim DEF PersistRun, Return, disp, TypeOK, ThreadsOK, RecordInv
  <2>3. CASE ~Return(t)
    <3>1. PICK i \in Ids : i = arg[t].id
      BY <1>7 DEF PersistRun, TypeOK, Run
    <3>2. /\ pc' = [pc EXCEPT ![t] = "insert"] /\ pc[t] = "putRun"
          /\ record' = [record EXCEPT ![i] = arg[t]]
          /\ UNCHANGED <<op, arg, held>>
      BY <1>7, <2>3, <3>1 DEF PersistRun, Goto
    <3>3. Carries(t, i)
      BY <3>1, <3>2, ConstantsAssumption DEF ThreadsOK, Carries, PersistPC
    <3>4. i \in Fresh =>
            /\ ~Queued(i) /\ ~Claimed(i)
            /\ \A u \in Threads \ {t} : ~Carries(u, i)
      BY <3>3 DEF HolderInv, SingleHolder
    <3>5. held[t] # NoRun /\ held[t].id = i /\ i \in Fresh => op[t] = "requeue"
      BY <3>1, <3>2 DEF HolderInv, EnqueuesAnother, ThreadsOK, PersistPC
    <3>6. RecordBacksRun'
      <4>1. ASSUME NEW r \in Run, r.id \in Fresh \ cancelled', pending'[r] > 0
            PROVE  record'[r.id] = r
        BY <2>1, <3>2, <3>4, <4>1 DEF RecordInv, RecordBacksRun, Queued, Pending, Run, TypeOK
      <4>2. ASSUME dpc' = "send", next'.id \in Fresh \ cancelled'
            PROVE  record'[next'.id] = next'
        BY <2>1, <3>2, <3>4, <4>2 DEF RecordInv, RecordBacksRun, Claimed, disp, Run, TypeOK
      <4>3. ASSUME NEW u \in Threads, held'[u] # NoRun, held'[u].id \in Fresh \ cancelled'
            PROVE  record'[held'[u].id] \in {held'[u]} \cup (IF op'[u] = "requeue" THEN {arg'[u]} ELSE {})
        <5>1. held'[u] = held[u] /\ op'[u] = op[u] /\ arg'[u] = arg[u]
          BY <3>2
        <5>2. CASE held[u].id = i
          <6>1. u = t
            BY <2>1, <3>4, <4>3, <5>1, <5>2 DEF Carries
          <6>2. op'[u] = "requeue" /\ record'[i] = arg[u]
            BY <2>1, <3>2, <3>5, <4>3, <5>1, <5>2, <6>1 DEF TypeOK
          <6> QED
            BY <5>1, <5>2, <6>2
        <5>3. CASE held[u].id # i
          <6>1. record'[held[u].id] = record[held[u].id]
            BY <3>2, <4>3, <5>1, <5>3 DEF TypeOK, Ids
          <6> QED
            BY <2>1, <4>3, <5>1, <6>1 DEF RecordInv, RecordBacksRun
        <5> QED
          BY <5>2, <5>3
      <4> QED
        BY <4>1, <4>2, <4>3 DEF RecordBacksRun
    <3>7. \A u \in Threads : pc'[u] = "insert" /\ arg'[u].id \in Fresh \ cancelled =>
            record'[arg'[u].id] = arg'[u]
      <4> SUFFICES ASSUME NEW u \in Threads, pc'[u] = "insert", arg'[u].id \in Fresh \ cancelled
                   PROVE  record'[arg'[u].id] = arg'[u]
        OBVIOUS
      <4>1. CASE u = t
        BY <3>1, <3>2, <4>1 DEF TypeOK
      <4>2. CASE u # t
        <5>1. pc[u] = "insert" /\ arg[u].id \in Fresh \ cancelled
          BY <3>2, <4>2 DEF TypeOK
        <5>2. Carries(u, arg[u].id)
          BY <5>1, ConstantsAssumption DEF ThreadsOK, Carries, PersistPC
        <5>3. arg[u].id # i
          BY <3>4, <4>2, <5>1, <5>2
        <5> QED
          BY <3>2, <5>1, <5>3 DEF RecordInv, TypeOK, Ids
      <4> QED
        BY <4>1, <4>2
    <3> QED
      BY <2>1, <3>2, <3>6, <3>7 DEF RecordInv
  <2> QED
    BY <2>2, <2>3
<1>8. ASSUME NEW t \in Threads, Insert(t) PROVE RecordInv'
  <2>1. /\ arg[t] \in Run /\ pc[t] = "insert"
        /\ UNCHANGED <<record, cancelled, dpc, next, op, arg>>
        /\ pc' = [pc EXCEPT ![t] = "nudge"]
        /\ held' = [held EXCEPT ![t] = IF op[t] = "requeue" THEN NoRun ELSE @]
    BY <1>8 DEF Insert, Goto, TypeOK, store, disp
  <2>2. \A r \in Run : pending'[r] > 0 => pending[r] > 0 \/ r = arg[t]
    BY <1>8 DEF Insert, insert, TypeOK
  <2>3. RecordBacksRun'
    <3>1. ASSUME NEW r \in Run, r.id \in Fresh \ cancelled', pending'[r] > 0
          PROVE  record'[r.id] = r
      BY <2>1, <2>2, <3>1 DEF RecordInv, RecordBacksRun
    <3>2. ASSUME dpc' = "send", next'.id \in Fresh \ cancelled'
          PROVE  record'[next'.id] = next'
      BY <2>1, <3>2 DEF RecordInv, RecordBacksRun
    <3>3. ASSUME NEW u \in Threads, held'[u] # NoRun, held'[u].id \in Fresh \ cancelled'
          PROVE  record'[held'[u].id] \in {held'[u]} \cup (IF op'[u] = "requeue" THEN {arg'[u]} ELSE {})
      BY <2>1, <3>3 DEF RecordInv, RecordBacksRun, TypeOK
    <3> QED
      BY <3>1, <3>2, <3>3 DEF RecordBacksRun
  <2> QED
    BY <2>1, <2>3 DEF RecordInv, TypeOK
<1>9. ASSUME NEW t \in Threads, AckRun(t) PROVE RecordInv'
  <2>1. PICK i \in Ids : i = arg[t].id
    BY <1>9 DEF AckRun, TypeOK, Run
  <2>2. /\ UNCHANGED <<cancelled, pending, dpc, next>>
        /\ \A k \in Ids : k # i => record'[k] = record[k]
    BY <1>9, <2>1 DEF AckRun, process, disp, TypeOK
  <2>3. \A u \in Threads :
          /\ held'[u] # NoRun => held'[u] = held[u] /\ op'[u] = op[u] /\ arg'[u] = arg[u]
          /\ pc'[u] = "insert" => pc[u] = "insert" /\ arg'[u] = arg[u] /\ u # t
          /\ op'[u] \in {"cancel", "evict"} => op'[u] = op[u] /\ arg'[u] = arg[u]
    BY <1>9 DEF AckRun, Return, Goto, ThreadsOK, TypeOK, AckPC
  <2>4. CASE op[t] \in {"cancel", "evict"}
    <3>1. i \in cancelled
      BY <2>1, <2>4 DEF RecordInv
    <3>2. RecordBacksRun'
      <4>1. ASSUME NEW r \in Run, r.id \in Fresh \ cancelled', pending'[r] > 0
            PROVE  record'[r.id] = r
        BY <2>2, <3>1, <4>1 DEF RecordInv, RecordBacksRun, Ids
      <4>2. ASSUME dpc' = "send", next'.id \in Fresh \ cancelled'
            PROVE  record'[next'.id] = next'
        BY <2>2, <3>1, <4>2 DEF RecordInv, RecordBacksRun, Ids
      <4>3. ASSUME NEW u \in Threads, held'[u] # NoRun, held'[u].id \in Fresh \ cancelled'
            PROVE  record'[held'[u].id] \in {held'[u]} \cup (IF op'[u] = "requeue" THEN {arg'[u]} ELSE {})
        BY <2>2, <2>3, <3>1, <4>3 DEF RecordInv, RecordBacksRun, Ids
      <4> QED
        BY <4>1, <4>2, <4>3 DEF RecordBacksRun
    <3> QED
      BY <2>2, <2>3, <3>1, <3>2 DEF RecordInv, Ids
  <2>5. CASE op[t] = "settle"
    <3>1. held[t] # NoRun /\ held[t].id = i /\ held'[t] = NoRun
      BY <1>9, <2>1, <2>5, ConstantsAssumption DEF AckRun, Return, ThreadsOK, TypeOK
    <3>2. i \in Fresh =>
            /\ ~Queued(i) /\ ~Claimed(i)
            /\ \A u \in Threads \ {t} : ~Carries(u, i)
      BY <3>1 DEF HolderInv, SingleHolder, Carries
    <3>3. RecordBacksRun'
      <4>1. ASSUME NEW r \in Run, r.id \in Fresh \ cancelled', pending'[r] > 0
            PROVE  record'[r.id] = r
        BY <2>2, <3>2, <4>1 DEF RecordInv, RecordBacksRun, Queued, Pending, Ids
      <4>2. ASSUME dpc' = "send", next'.id \in Fresh \ cancelled'
            PROVE  record'[next'.id] = next'
        BY <2>2, <3>2, <4>2 DEF RecordInv, RecordBacksRun, Claimed, Ids
      <4>3. ASSUME NEW u \in Threads, held'[u] # NoRun, held'[u].id \in Fresh \ cancelled'
            PROVE  record'[held'[u].id] \in {held'[u]} \cup (IF op'[u] = "requeue" THEN {arg'[u]} ELSE {})
        <5>1. u # t /\ held'[u] = held[u] /\ op'[u] = op[u] /\ arg'[u] = arg[u]
          BY <2>3, <3>1, <4>3
        <5>2. held[u].id # i
          BY <3>2, <4>3, <5>1 DEF Carries
        <5>3. record'[held[u].id] = record[held[u].id]
          BY <2>2, <4>3, <5>1, <5>2 DEF Ids
        <5> QED
          BY <2>2, <4>3, <5>1, <5>3 DEF RecordInv, RecordBacksRun
      <4> QED
        BY <4>1, <4>2, <4>3 DEF RecordBacksRun
    <3>4. \A u \in Threads : pc[u] = "insert" /\ u # t /\ i \in Fresh => arg[u].id # i
      BY <3>2, ConstantsAssumption DEF ThreadsOK, Carries, PersistPC
    <3> QED
      BY <2>2, <2>3, <3>3, <3>4 DEF RecordInv, Ids
  <2> QED
    BY <1>9, <2>4, <2>5 DEF AckRun, ThreadsOK, AckPC
<1>10. ASSUME Claim PROVE RecordInv'
  <2>1. UNCHANGED <<record, cancelled, pc, op, arg, held>>
    BY <1>10 DEF Claim, store, threads, history
  <2>2. \A r \in Run : pending'[r] > 0 => pending[r] > 0
    BY <1>10 DEF Claim, TypeOK
  <2>3. dpc' = "send" => \E r \in Run : next' = r /\ pending[r] > 0
    BY <1>10 DEF Claim, Dispatch, Head
  <2> QED
    BY <2>1, <2>2, <2>3 DEF RecordInv, RecordBacksRun
<1>11. ASSUME NEW w \in Workers, HandOff(w) PROVE RecordInv'
  <2>1. /\ UNCHANGED <<record, cancelled, pending, op, arg>>
        /\ dpc = "send" /\ dpc' = "peek" /\ held' = [held EXCEPT ![w] = next]
        /\ pc' = [pc EXCEPT ![w] = "flow"]
    BY <1>11 DEF HandOff, Dispatch, Goto, store, history
  <2> QED
    BY <2>1 DEF RecordInv, RecordBacksRun, TypeOK
<1>12. ASSUME New PROVE RecordInv'
  <2>1. UNCHANGED <<record, cancelled, pc, op, arg, held>> /\ dpc' = "peek"
    BY <1>12 DEF New, store, threads, history
  <2>2. \A r \in Run : pending'[r] > 0 => record[r.id] = r
    BY <1>12 DEF New
  <2> QED
    BY <2>1, <2>2 DEF RecordInv, RecordBacksRun
<1>13. 0 \in Time
  BY ConstantsAssumption DEF Time
<1> QED
  BY <1>1, <1>2, <1>3, <1>4, <1>5, <1>6, <1>7, <1>8, <1>9, <1>10, <1>11, <1>12, <1>13
  DEF Next, CallStep, DispatchStep

\* A run the engine holds, in the heap, in the dispatcher or in a worker, is the
\* run its record would bring back after a crash at that very moment.
THEOREM RecordsBackRuns == Spec => []RecordBacksRun
<1>1. Init => RecordInv
  BY DEF Init, RecordInv, RecordBacksRun
<1>2. Spec => []RecordInv
  BY <1>1, NextRecordInv, TypeInvariant, DownInvariant, HolderInvariant, PTL DEF Spec
<1> QED
  BY <1>2, PTL DEF RecordInv

-----------------------------------------------------------------------------
(* Durable: the index is read and written back with no lock held, so that  *)
(* two callers can lose an ID (the run EngineIndexRace).  A single worker  *)
(* with nobody outside its flows is one caller, and loses none.            *)

OneCaller == \A t, u \in Threads : t = u

DurableInv ==
  faults = 0 =>
    /\ \A t \in Threads :
         /\ pc[t] \in {"putIndex", "ackIndex"} => snap[t] = index
         /\ pc[t] = "putRun" => arg[t].id \in index
         /\ pc[t] = "insert" => Recoverable(arg[t].id)
         /\ op[t] = "settle" => arg[t].id \in returned
         /\ op[t] \in {"cancel", "evict"} => arg[t].id \in cancelled
    /\ Durable

\* A step that writes nothing to the index or the records, reads no index and
\* lists no run.
LEMMA StoreKept ==
  ASSUME TypeOK, DurableInv, UNCHANGED <<index, record, listed, snap, faults>>,
         returned \subseteq returned', cancelled \subseteq cancelled',
         \A t \in Threads :
           \/ pc'[t] \in {"idle", "flow"} /\ op'[t] = "none"
           \/ UNCHANGED <<pc[t], op[t], arg[t]>>
           \/ pc'[t] \notin {"putIndex", "ackIndex", "putRun", "insert"} /\ UNCHANGED <<op[t], arg[t]>>
           \/ pc'[t] = "getIndex" /\ op'[t] \in {"enqueue", "requeue"}
           \/ pc'[t] \in {"ackGet", "tombstone"} /\ op'[t] = "settle" /\ arg'[t].id \in returned'
           \/ pc'[t] \in {"ackGet", "tombstone"} /\ op'[t] \in {"cancel", "evict"} /\ arg'[t].id \in cancelled'
  PROVE  DurableInv'
BY DEF DurableInv, Durable, Recoverable

LEMMA NextDurableInv ==
  OneCaller /\ TypeInv /\ TypeInv' /\ DurableInv /\ [Next]_vars => DurableInv'
<1> SUFFICES ASSUME OneCaller, TypeInv, TypeInv', DurableInv, [Next]_vars PROVE DurableInv'
  OBVIOUS
<1> TypeOK /\ ThreadsOK /\ TypeOK' /\ ThreadsOK'
  BY DEF TypeInv
<1>0. faults \in Nat /\ faults' \in Nat /\ faults + 1 # 0
  BY ConstantsAssumption DEF TypeOK
<1> USE DEF store, process, disp, threads, history, bounds, StoreOK, StoreFails
<1>1. ASSUME NEW t \in Threads, NEW id \in Ids, NEW when \in Time,
             EnqueueID(t, id, when) \/ EnqueueNoop(t, id) \/ Cancel(t, id)
      PROVE  DurableInv'
  <2>1. CASE EnqueueID(t, id, when)
    BY <2>1, StoreKept DEF EnqueueID, Call, TypeOK
  <2>2. CASE EnqueueNoop(t, id)
    BY <2>2, StoreKept DEF EnqueueNoop
  <2>3. CASE Cancel(t, id)
    BY <2>3, StoreKept DEF Cancel, Call, TypeOK
  <2> QED
    BY <1>1, <2>1, <2>2, <2>3
<1>2. ASSUME faults' # 0 PROVE DurableInv'
  BY <1>2 DEF DurableInv
<1>3. ASSUME NEW t \in Threads, CallStep(t), faults' = 0 PROVE DurableInv'
  <2>1. /\ faults = 0 /\ faults' = faults
        /\ \A u \in Threads : u = t
        /\ pc[t] \in {"putIndex", "ackIndex"} => snap[t] = index
        /\ pc[t] = "putRun" => arg[t].id \in index
        /\ pc[t] = "insert" => Recoverable(arg[t].id)
        /\ op[t] = "settle" => arg[t].id \in returned
        /\ op[t] \in {"cancel", "evict"} => arg[t].id \in cancelled
        /\ Durable
    BY <1>0, <1>3 DEF CallStep, AddIndexGet, AddIndexPut, PersistRun, Insert, Nudge, PutTombstone,
       AckGet, AckIndex, AckRun, DurableInv, OneCaller
  <2>2. CASE AddIndexGet(t)
    BY <1>0, <2>1, <2>2 DEF AddIndexGet, Goto, TypeOK, DurableInv, Durable, Recoverable
  <2>3. CASE AddIndexPut(t)
    BY <1>0, <2>1, <2>3 DEF AddIndexPut, Goto, TypeOK, DurableInv, Durable, Recoverable
  <2>4. CASE PersistRun(t)
    <3>1. arg[t] \in Run /\ arg[t].id \in Ids /\ arg[t] # NoRun
      BY <2>4, ConstantsAssumption DEF PersistRun, TypeOK, Run
    <3> QED
      BY <1>0, <2>1, <2>4, <3>1 DEF PersistRun, Goto, TypeOK, DurableInv, Durable, Recoverable
  <2>5. CASE Insert(t)
    BY <2>1, <2>5 DEF Insert, Goto, TypeOK, DurableInv, Durable, Recoverable
  <2>6. CASE Nudge(t)
    BY <2>1, <2>6 DEF Nudge, Return, TypeOK, DurableInv, Durable, Recoverable
  <2>7. CASE PutTombstone(t)
    BY <1>0, <2>1, <2>7 DEF PutTombstone, Goto, TypeOK, DurableInv, Durable, Recoverable
  <2>8. CASE AckGet(t)
    BY <1>0, <2>1, <2>8 DEF AckGet, Goto, TypeOK, DurableInv, Durable, Recoverable
  <2>9. CASE AckIndex(t)
    <3>1. op[t] \in {"settle", "cancel", "evict"}
      BY <2>9 DEF AckIndex, Goto, ThreadsOK, AckPC
    <3> QED
      BY <1>0, <2>1, <2>9, <3>1 DEF AckIndex, Goto, TypeOK, DurableInv, Durable, Recoverable
  <2>10. CASE AckRun(t)
    <3>1. op[t] \in {"settle", "cancel", "evict"}
      BY <2>10 DEF AckRun, ThreadsOK, AckPC
    <3>2. record' = [record EXCEPT ![arg[t].id] = NoRun] /\ UNCHANGED <<index, listed, cancelled, returned>>
      BY <1>0, <2>1, <2>10 DEF AckRun
    <3>3. Durable'
      BY <2>1, <3>1, <3>2 DEF Durable, Recoverable, TypeOK
    <3>4. /\ pc'[t] \in {"nudge", "idle", "flow"} /\ (op'[t] = "none" \/ (op'[t] = op[t] /\ arg'[t] = arg[t]))
      BY <2>10 DEF AckRun, Return, Goto, TypeOK
    <3> QED
      BY <2>1, <3>2, <3>3, <3>4 DEF DurableInv
  <2> QED
    BY <1>3, <2>2, <2>3, <2>4, <2>5, <2>6, <2>7, <2>8, <2>9, <2>10 DEF CallStep
<1>4. ASSUME NEW w \in Workers, FlowEnds(w) \/ FlowInterrupted(w) \/ UnknownFlow(w) PROVE DurableInv'
  <2>1. CASE FlowReturns(w)
    BY <2>1, StoreKept DEF FlowReturns, Call, TypeOK, Threads
  <2>2. ASSUME NEW when \in Time, FlowYields(w, when) PROVE DurableInv'
    BY <2>2, StoreKept DEF FlowYields, Call, TypeOK, Threads
  <2>3. CASE FlowInterrupted(w) \/ UnknownFlow(w)
    BY <2>3, StoreKept DEF FlowInterrupted, UnknownFlow, Running, TypeOK, ThreadsOK, Threads
  <2> QED
    BY <1>4, <2>1, <2>2, <2>3 DEF FlowEnds
<1>5. CASE DispatchStep \/ DispatchDone
  <2>1. CASE Peek \/ Woken \/ TimerFires \/ Claim \/ DispatchDone
    BY <2>1, StoreKept DEF Peek, Woken, TimerFires, Claim, DispatchDone
  <2>2. ASSUME NEW w \in Workers, HandOff(w) PROVE DurableInv'
    BY <2>2, StoreKept DEF HandOff, Goto, TypeOK, ThreadsOK, Threads
  <2> QED
    BY <1>5, <2>1, <2>2 DEF DispatchStep
<1>6. CASE Exit \/ Crash
  BY <1>6 DEF Exit, Crash, Gone, DurableInv, Durable, Recoverable
<1>7. CASE Tick \/ Shutdown \/ UNCHANGED vars
  BY <1>7, StoreKept DEF Tick, Shutdown, vars
<1>8. CASE New
  <2>1. CASE faults' = 0
    <3>1. UNCHANGED faults
      BY <1>0, <1>8, <2>1 DEF New
    <3> QED
      BY <1>8, <3>1, StoreKept DEF New
  <2> QED
    BY <1>2, <2>1
<1>9. 0 \in Time
  BY ConstantsAssumption DEF Time
<1> QED
  BY <1>1, <1>2, <1>3, <1>4, <1>5, <1>6, <1>7, <1>8, <1>9 DEF Next

\* With one caller of the engine, the default single worker, every run that was
\* enqueued and neither returned nor cancelled can be found by the next boot,
\* through any crash, for as long as no Store call fails.
THEOREM OneCallerLosesNothing == OneCaller => (Spec => [](faults = 0 => Durable))
<1> SUFFICES ASSUME OneCaller PROVE Spec => [](faults = 0 => Durable)
  OBVIOUS
<1>1. Init => DurableInv
  BY ConstantsAssumption DEF Init, DurableInv, Durable, Recoverable, Run, Time
<1>2. TypeInv /\ TypeInv' /\ DurableInv /\ [Next]_vars => DurableInv'
  BY NextDurableInv
<1>3. DurableInv => (faults = 0 => Durable)
  BY DEF DurableInv
<1> QED
  BY <1>1, <1>2, <1>3, TypeInvariant, PTL DEF Spec

-----------------------------------------------------------------------------
(* The ticker.                                                             *)

\* A set of numbers has a least one.
LEMMA LeastMinute ==
  ASSUME NEW S \in SUBSET Nat, S # {}
  PROVE  \E k \in S : \A j \in S : k <= j
<1>1. PICK k \in S : \A j \in S : ~(<<j, k>> \in OpToRel(<, Nat))
  BY NatLessThanWellFounded, WFMin, Zenon
<1>2. ASSUME NEW j \in S PROVE k <= j
  <2>1. <<j, k>> \notin OpToRel(<, Nat)
    BY <1>1, Zenon
  <2>2. j \in Nat /\ k \in Nat
    OBVIOUS
  <2>3. ~(j < k)
    BY <2>1, <2>2, Zenon DEF OpToRel
  <2> QED
    BY <2>2, <2>3
<1> QED
  BY <1>2

\* schedule.next answers with one of the Ticks, strictly later than t and before
\* every later match, or with none at all; then there is no later match.
LEMMA NextTickIs ==
  ASSUME NEW t \in 0..Never
  PROVE  /\ NextTick(t) \in 0..Never
         /\ NextTick(t) \in Time =>
              /\ NextTick(t) \in Ticks /\ t < NextTick(t)
              /\ \A n \in Minutes : t < n => NextTick(t) <= n
         /\ NextTick(t) \notin Time => \A n \in Minutes : n <= t
<1> DEFINE limit == t + 1 + Year
           later == {m \in Minutes : t < m /\ m < limit}
<1>1. /\ Horizon \in Nat /\ Year \in Nat /\ Year > 0 /\ t \in Nat
      /\ \A n \in Minutes : n \in Time /\ n \in Nat /\ n <= Horizon
  BY ConstantsAssumption, TickerAssumption DEF Time, Never
<1>4. later \in SUBSET Nat
  BY <1>1
<1>2. CASE later = {}
  <2>1. \A n \in Minutes : n <= t \/ limit <= n
    BY <1>1, <1>2
  <2>2. CASE limit \in Time
    <3>1. NextTick(t) = limit
      BY <1>2, <2>2 DEF NextTick
    <3>2. Year < limit /\ limit - Year = t + 1 /\ t < limit /\ limit \in 0..Never
      BY <1>1, <2>2 DEF Time, Never
    <3>3. \A m \in Minutes : m < limit - Year \/ limit <= m
      BY <1>1, <2>1, <3>2
    <3>4. limit \in Ticks
      <4> HIDE DEF limit
      <4> QED
        BY <2>2, <3>2, <3>3 DEF Ticks
    <3> QED
      BY <1>1, <2>1, <2>2, <3>1, <3>2, <3>4
  <2>3. CASE limit \notin Time
    <3>1. NextTick(t) = Never
      BY <1>2, <2>3 DEF NextTick
    <3>2. \A n \in Minutes : n <= t
      BY <1>1, <2>1, <2>3 DEF Time
    <3>3. Never \in 0..Never /\ Never \notin Time
      BY <1>1 DEF Never, Time
    <3> QED
      BY <3>1, <3>2, <3>3
  <2> QED
    BY <2>2, <2>3
<1>3. CASE later # {}
  <2>1. \E m \in later : \A n \in later : m <= n
    <3> HIDE DEF later
    <3> QED
      BY <1>3, <1>4, LeastMinute
  <2>2. NextTick(t) = CHOOSE m \in later : \A n \in later : m <= n
    BY <1>3 DEF NextTick
  <2>3. NextTick(t) \in later /\ \A n \in later : NextTick(t) <= n
    <3> HIDE DEF later
    <3> QED
      BY <2>1, <2>2
  <2>4. NextTick(t) \in Minutes /\ t < NextTick(t) /\ NextTick(t) < limit
    BY <2>3
  <2>5. ASSUME NEW n \in Minutes, t < n PROVE NextTick(t) <= n
    <3>1. CASE n < limit
      BY <2>3, <2>5, <3>1
    <3>2. CASE ~(n < limit)
      BY <1>1, <2>4, <3>2
    <3> QED
      BY <3>1, <3>2
  <2>6. NextTick(t) \in Time /\ NextTick(t) \in 0..Never /\ NextTick(t) \in Ticks
    BY <1>1, <2>4 DEF Never, Ticks
  <2> QED
    BY <2>4, <2>5, <2>6
<1> QED
  BY <1>2, <1>3

\* Who is who.
LEMMA MainIsAClient ==
  /\ main \in Threads /\ main \in Clients /\ main \notin Workers
  /\ \A c \in Clients : c \in Threads /\ c \notin Workers
  /\ \A w \in Workers : w \in Threads /\ w \notin Clients
  /\ tick \in Ids /\ tick \in Named /\ tick \notin Fresh
BY ConstantsAssumption, TickerAssumption DEF Threads, Ids

-----------------------------------------------------------------------------
(* Below the ticker runs the engine: all its steps but one are the         *)
(* engine's, and that one, a Get of the tombstone that fails, is only      *)
(* counted as a fault.                                                     *)

FaultOnly ==
  /\ StoreFails
  /\ UNCHANGED <<store, process, threads, now, history, calls, restarts>>

LEMMA EngineBelow ==
  ASSUME TypeInv, [TickerNext]_tvars
  PROVE  [Next]_vars \/ FaultOnly
<1> TypeOK
  BY DEF TypeInv
<1>0. 0 \in Time
  BY ConstantsAssumption DEF Time
<1>1. CASE Every
  BY <1>1, MainIsAClient DEF Every, Next
<1>2. CASE Dispatching
  BY <1>2 DEF Dispatching, Next, DispatchStep
<1>3. CASE Restart
  BY <1>3 DEF Restart, Next
<1>4. CASE Environment
  BY <1>4 DEF Environment, Next
<1>5. ASSUME NEW t \in Threads, EngineStep(t) PROVE Next
  BY <1>5 DEF EngineStep, Next, CallStep
<1>6. ASSUME NEW w \in Workers, FlowStep(w) PROVE [Next]_vars \/ FaultOnly
  <2>1. CASE Check(w)
    <3>1. CASE FlowReturns(w)
      BY <3>1 DEF Next, FlowEnds
    <3>2. CASE UNCHANGED <<store, process, threads, now, history, calls, restarts>> /\ (StoreOK \/ StoreFails)
      BY <3>2 DEF StoreOK, FaultOnly, vars, bounds
    <3> QED
      BY <2>1, <3>1, <3>2 DEF Check
  <2>2. CASE Fire(w)
    BY <1>0, <2>2, MainIsAClient DEF Fire, Next, Ids
  <2>3. CASE CaughtUp(w)
    BY <2>3 DEF CaughtUp
  <2>4. CASE Rearm(w)
    BY <2>4, MainIsAClient DEF Rearm, Next
  <2>5. CASE TickerEnds(w) \/ TargetEnds(w)
    BY <2>5 DEF TickerEnds, TargetEnds, Next, FlowEnds
  <2> QED
    BY <1>6, <2>1, <2>2, <2>3, <2>4, <2>5 DEF FlowStep
<1>7. ASSUME NEW c \in Clients, CancelTicker(c) PROVE Next
  BY <1>7, MainIsAClient DEF CancelTicker, Next
<1>8. CASE UNCHANGED tvars
  BY <1>8 DEF tvars
<1> QED
  BY <1>1, <1>2, <1>3, <1>4, <1>5, <1>6, <1>7, <1>8 DEF TickerNext

\* So the engine stays well typed under the ticker.
LEMMA BelowTypeInv == TypeInv /\ [TickerNext]_tvars => TypeInv'
<1> SUFFICES ASSUME TypeInv, [TickerNext]_tvars PROVE TypeInv'
  OBVIOUS
<1>1. CASE [Next]_vars
  BY <1>1, NextTypeInv
<1>2. CASE FaultOnly
  <2>1. faults' \in 0..MaxFaults
    BY <1>2, ConstantsAssumption DEF TypeInv, TypeOK, FaultOnly, StoreFails
  <2> QED
    BY <1>2, <2>1 DEF TypeInv, TypeOK, ThreadsOK, FaultOnly, store, process, disp, threads, history
<1> QED
  BY <1>1, <1>2, EngineBelow

\* A fault that is only counted disturbs none of the engine's invariants.
LEMMA FaultsAreHarmless ==
  ASSUME FaultOnly, DownInv, HolderInv, RecordInv, NoLostWakeup
  PROVE  DownInv' /\ HolderInv' /\ RecordInv' /\ NoLostWakeup'
<1> USE DEF FaultOnly, store, process, disp, threads, history
<1>1. DownInv' /\ NoLostWakeup'
  BY DEF DownInv, NoLostWakeup
<1>2. HolderInv'
  BY DEF HolderInv, EnqueuesAnother, SingleHolder, SettledIsFinal, NoHolder, Queued, Pending, Claimed, Carries
<1>3. RecordInv'
  BY DEF RecordInv, RecordBacksRun
<1> QED
  BY <1>1, <1>2, <1>3

\* What holds of the engine by itself holds under the schedules as well: the
\* ticker's order of calls, its fixed ID included, is one the engine allows.
THEOREM EngineUnderTicker ==
  TickerSpec => [](TypeOK /\ SingleHolder /\ SettledIsFinal /\ RecordBacksRun /\ NoLostWakeup)
<1> DEFINE EngineInv == TypeInv /\ DownInv /\ HolderInv /\ RecordInv /\ NoLostWakeup
<1>1. TickerInit => EngineInv
  <2> SUFFICES ASSUME Init PROVE EngineInv
    BY DEF TickerInit
  <2>1. TypeInv /\ DownInv /\ NoLostWakeup
    BY InitTypeInv DEF Init, DownInv, NoLostWakeup
  <2>2. HolderInv
    BY ConstantsAssumption DEF Init, HolderInv, EnqueuesAnother, SingleHolder, SettledIsFinal, NoHolder,
       Queued, Pending, Claimed, Carries, Ids
  <2>3. RecordInv
    BY DEF Init, RecordInv, RecordBacksRun
  <2> QED
    BY <2>1, <2>2, <2>3
<1>2. EngineInv /\ [TickerNext]_tvars => EngineInv'
  <2> SUFFICES ASSUME EngineInv, [TickerNext]_tvars PROVE EngineInv'
    OBVIOUS
  <2>1. TypeInv'
    BY BelowTypeInv
  <2>2. CASE [Next]_vars
    BY <2>1, <2>2, NextDownInv, NextHolderInv, NextRecordInv, NextNoLostWakeup
  <2>3. CASE FaultOnly
    BY <2>1, <2>3, FaultsAreHarmless
  <2> QED
    BY <2>2, <2>3, EngineBelow
<1>3. EngineInv => TypeOK /\ SingleHolder /\ SettledIsFinal /\ RecordBacksRun /\ NoLostWakeup
  BY DEF TypeInv, HolderInv, RecordInv
<1> QED
  BY <1>1, <1>2, <1>3, PTL DEF TickerSpec

-----------------------------------------------------------------------------
(* What one step of a call does to its thread: the call goes on, or it is  *)
(* over.  Insert and the first steps of the calls are looked at by name.   *)

InCall(t) ==
  \/ AddIndexGet(t) \/ AddIndexPut(t) \/ PersistRun(t) \/ Nudge(t)
  \/ PutTombstone(t) \/ AckGet(t) \/ AckIndex(t) \/ AckRun(t)

Elsewhere == <<phase, pending, missing, dpc, next, now, used, listed, cancelled, returned, calls, restarts>>

GoesOn(t) ==
  /\ pc[t] \notin {"idle", "flow", "nudge"} /\ pc'[t] \notin {"idle", "flow", "tombstone"}
  /\ pc[t] \in PersistPC <=> pc'[t] \in PersistPC
  /\ pc' = [pc EXCEPT ![t] = pc'[t]]
  /\ UNCHANGED <<op, arg, held>>

IsOver(t) ==
  /\ pc[t] \notin {"idle", "flow"} /\ Return(t)
  /\ op[t] = "enqueue" => IF faults' = faults THEN pc[t] = "nudge" ELSE pc[t] \in PersistPC

LEMMA CallMoves ==
  ASSUME TypeInv, NEW t \in Threads, InCall(t)
  PROVE  /\ GoesOn(t) \/ IsOver(t)
         /\ UNCHANGED Elsewhere
         /\ faults' = faults \/ faults' = faults + 1
<1> TypeInv /\ TypeOK /\ ThreadsOK
  BY DEF TypeInv
<1>0. faults \in Nat /\ faults + 1 # faults
  BY ConstantsAssumption DEF TypeOK
<1> USE DEF Elsewhere, StoreOK, StoreFails, store, process, disp, history, bounds, GoesOn, IsOver, Goto, PersistPC, AckPC
<1>1. CASE AddIndexGet(t)
  BY <1>0, <1>1 DEF AddIndexGet, TypeOK, ThreadsOK, PCs
<1>2. CASE AddIndexPut(t)
  BY <1>0, <1>2 DEF AddIndexPut, TypeOK, ThreadsOK, PCs
<1>3. CASE PersistRun(t)
  BY <1>0, <1>3 DEF PersistRun, TypeOK, ThreadsOK, PCs
<1>4. CASE Nudge(t)
  BY <1>0, <1>4 DEF Nudge
<1>5. CASE PutTombstone(t)
  BY <1>0, <1>5 DEF PutTombstone, TypeOK, ThreadsOK, PCs
<1>6. CASE AckGet(t) \/ AckIndex(t)
  BY <1>0, <1>6 DEF AckGet, AckIndex, TypeOK, ThreadsOK, PCs
<1>7. CASE AckRun(t)
  <2>1. op[t] # "enqueue"
    BY <1>7 DEF AckRun, ThreadsOK
  <2> QED
    BY <1>0, <1>7, <2>1 DEF AckRun, TypeOK, PCs
<1> QED
  BY <1>1, <1>2, <1>3, <1>4, <1>5, <1>6, <1>7 DEF InCall

-----------------------------------------------------------------------------
(* Who is where: the boot, the clients, and the workers in the flow.       *)

\* main is in a call exactly while Every enqueues, and it enqueues the ticker;
\* the other clients only ever cancel it.
MainInv ==
  /\ op[main] \in {"none", "enqueue"}
  /\ op[main] = "enqueue" <=> boot = "arming"
  /\ boot = "arming" => arg[main].id = tick
  /\ \A c \in Clients \ {main} : op[c] \in {"none", "cancel", "evict"}
  /\ \A t \in Threads : op[t] \in {"cancel", "evict"} => t \in Clients /\ arg[t].id = tick

\* Run starts after Every: until then the dispatcher and the workers stand by.
BootInv ==
  /\ boot \in {"new", "arming", "running"}
  /\ phase = "down" => boot = "new"
  /\ phase = "stopping" => restarts > 0
  /\ boot # "running" => dpc \in {"peek", "stopped"} /\ \A w \in Workers : held[w] = NoRun

\* A stage of the flow goes with the place its worker is in.
StageInv ==
  /\ stage \in [Workers -> Stages] /\ cursor \in [Workers -> 0..Never]
  /\ \A w \in Workers :
       /\ op[w] \in {"none", "enqueue", "settle"}
       /\ stage[w] # "none" => held[w] # NoRun /\ held[w].id = tick
       /\ stage[w] \in {"check", "fire", "rearm", "return", "failed"} => pc[w] = "flow"
       /\ stage[w] = "firing" <=> op[w] = "enqueue" /\ arg[w].id \in Fresh
       /\ stage[w] = "rearming" <=> op[w] = "enqueue" /\ arg[w].id = tick
       /\ op[w] = "enqueue" => stage[w] \in {"firing", "rearming"}
       /\ held[w] # NoRun /\ held[w].id = tick /\ stage[w] = "none" => op[w] = "settle"

ThreadInv == MainInv /\ BootInv /\ StageInv

LEMMA NextThreadInv ==
  ASSUME TypeInv, TypeInv', ThreadInv, [TickerNext]_tvars
  PROVE  ThreadInv'
<1> TypeInv /\ TypeOK /\ ThreadsOK /\ TypeOK' /\ ThreadsOK' /\ MainInv /\ BootInv /\ StageInv
  BY DEF TypeInv, ThreadInv
<1>0. /\ main \in Threads /\ main \in Clients /\ main \notin Workers
      /\ \A c \in Clients : c \in Threads /\ c \notin Workers
      /\ \A w \in Workers : w \in Threads /\ w \notin Clients
      /\ tick \in Ids /\ tick \in Named /\ tick \notin Fresh
  BY MainIsAClient
<1> USE DEF ThreadInv, MainInv, BootInv, StageInv, store, process, disp, threads, history, bounds, cron, past, vars, tvars
<1>1. CASE Every
  <2>1. CASE EnqueueID(main, tick, NextTick(now)) /\ boot' = "arming"
    BY <1>0, <1>1, <2>1 DEF Every, EnqueueID, MayCall, Call, TypeOK, ThreadsOK
  <2>2. CASE UNCHANGED vars /\ boot' = "running"
    BY <1>0, <1>1, <2>2 DEF Every
  <2> QED
    BY <1>1, <2>1, <2>2 DEF Every
<1>2. ASSUME NEW w \in Workers, FlowStep(w) PROVE ThreadInv'
  <2>1. CASE Check(w) /\ FlowReturns(w)
    BY <1>0, <2>1 DEF Check, Enter, Ticking, Running, FlowReturns, Call, TypeOK, ThreadsOK, AckPC, Stages
  <2>2. CASE Check(w) /\ UNCHANGED <<store, process, threads>>
    <3>1. held[w].wake \in 0..Never
      BY <2>2, ConstantsAssumption DEF Check, Ticking, Running, TypeOK, Run, Time, Never, Threads
    <3> QED
      BY <1>0, <2>2, <3>1 DEF Check, Enter, Ticking, Running, FlowReturns, Call, TypeOK, ThreadsOK, Stages
  <2>3. CASE Fire(w)
    BY <1>0, <2>3 DEF Fire, Enter, Ticking, Running, EnqueueID, MayCall, Call, TypeOK, ThreadsOK, PersistPC, Stages
  <2>4. CASE CaughtUp(w)
    BY <1>0, <2>4 DEF CaughtUp, Enter, Ticking, Running, TypeOK, ThreadsOK, Stages
  <2>5. CASE Rearm(w) /\ EnqueueID(w, tick, NextTick(now)) /\ Enter(w, "rearming")
    <3>1. stage[w] = "rearm" /\ held[w].id = tick /\ UNCHANGED <<process, held, boot, cursor>>
      BY <2>5 DEF Rearm, Ticking, EnqueueID
    <3>2. /\ pc'[w] = "getIndex" /\ op'[w] = "enqueue" /\ arg'[w].id = tick /\ stage'[w] = "rearming"
          /\ stage' \in [Workers -> Stages]
          /\ \A t \in Threads : t # w => op'[t] = op[t] /\ arg'[t] = arg[t] /\ pc'[t] = pc[t]
          /\ \A v \in Workers : v # w => stage'[v] = stage[v]
      BY <1>0, <2>5 DEF EnqueueID, Call, Enter, TypeOK, Stages
    <3>3. MainInv' /\ BootInv'
      BY <1>0, <2>5, <3>1, <3>2 DEF EnqueueID
    <3>4. StageInv'
      BY <1>0, <3>1, <3>2
    <3> QED
      BY <3>3, <3>4
  <2>6. CASE Rearm(w) /\ EnqueueNoop(w, tick) /\ Enter(w, "return")
    BY <1>0, <2>6 DEF Rearm, Enter, Ticking, Running, EnqueueNoop, MayCall, TypeOK, ThreadsOK, Stages
  <2>7. CASE TickerEnds(w)
    <3>1. CASE FlowReturns(w)
      BY <1>0, <2>7, <3>1 DEF TickerEnds, Enter, Ticking, Running, FlowReturns, Call, TypeOK, ThreadsOK, AckPC, Stages
    <3>2. CASE FlowInterrupted(w)
      BY <1>0, <2>7, <3>2 DEF TickerEnds, Enter, Ticking, Running, FlowInterrupted, TypeOK, ThreadsOK, Stages
    <3> QED
      BY <2>7, <3>1, <3>2 DEF TickerEnds
  <2>8. CASE TargetEnds(w)
    BY <1>0, <2>8 DEF TargetEnds, Running, FlowReturns, Call, TypeOK, ThreadsOK, AckPC, Stages
  <2> QED
    BY <1>2, <2>1, <2>2, <2>3, <2>4, <2>5, <2>6, <2>7, <2>8 DEF FlowStep, Check, Rearm
<1>3. ASSUME NEW t \in Threads, EngineStep(t) PROVE ThreadInv'
  <2>1. CASE Insert(t) /\ UNCHANGED cron
    <3>1. held' = held
      BY <1>0, <2>1 DEF Insert, Goto, TypeOK, Threads
    <3> QED
      BY <1>0, <2>1, <3>1 DEF Insert, Goto, TypeOK, ThreadsOK, PersistPC
  <2>2. CASE InCall(t) /\ GoesOn(t) /\ UNCHANGED Elsewhere /\ Resume(t) /\ Booted(t)
    BY <1>0, <2>2 DEF GoesOn, Elsewhere, Resume, Booted, TypeOK, ThreadsOK, PersistPC
  <2>3. CASE InCall(t) /\ IsOver(t) /\ UNCHANGED Elsewhere /\ Resume(t) /\ Booted(t)
    <3>1. MainInv' /\ BootInv'
      BY <1>0, <2>3 DEF IsOver, Return, Elsewhere, Booted, Failed, TypeOK, ThreadsOK
    <3>2. CASE t \notin Workers
      BY <1>0, <2>3, <3>1, <3>2 DEF IsOver, Return, Resume, TypeOK
    <3>3. CASE t \in Workers /\ op[t] = "settle"
      <4>1. stage[t] = "none" /\ pc'[t] = "idle"
        BY <1>0, <2>3, <3>3 DEF IsOver, Return, TypeOK, ThreadsOK, AckPC, Stages
      <4>2. UNCHANGED <<stage, cursor>>
        BY <2>3, <4>1 DEF Resume
      <4> QED
        BY <1>0, <2>3, <3>1, <3>3, <4>1, <4>2 DEF IsOver, Return, TypeOK
    <3>4. CASE t \in Workers /\ op[t] = "enqueue"
      <4>1. stage[t] \in {"firing", "rearming"} /\ pc'[t] = "flow" /\ op'[t] = "none" /\ held' = held
        BY <1>0, <2>3, <3>4 DEF IsOver, Return, TypeOK
      <4>2. PICK s \in {"failed", "return", "fire", "rearm"} : stage' = [stage EXCEPT ![t] = s]
        BY <2>3, <3>4, <4>1 DEF Resume, Enter
      <4>3. cursor' \in [Workers -> 0..Never]
        BY <2>3, <3>4, <4>1, NextTickIs DEF Resume
      <4>4. \A w \in Workers : w # t => /\ op'[w] = op[w] /\ arg'[w] = arg[w] /\ pc'[w] = pc[w]
                                       /\ stage'[w] = stage[w]
        BY <1>0, <2>3, <4>2 DEF IsOver, Return, TypeOK
      <4>5. stage' \in [Workers -> Stages] /\ stage'[t] = s
        BY <3>4, <4>2 DEF Stages
      <4>6. StageInv'
        BY <1>0, <3>4, <4>1, <4>2, <4>3, <4>4, <4>5
      <4> QED
        BY <3>1, <4>6
    <3> QED
      BY <3>2, <3>3, <3>4, <2>3 DEF IsOver, ThreadsOK
  <2> QED
    BY <1>3, <2>1, <2>2, <2>3, CallMoves DEF EngineStep, InCall
<1>4. CASE Dispatching
  <2>1. CASE Peek \/ Woken \/ TimerFires \/ Claim
    BY <1>0, <1>4, <2>1 DEF Dispatching, Peek, Woken, TimerFires, Claim, HandOff, Dispatch
  <2>2. ASSUME NEW w \in Workers, HandOff(w), Enter(w, IF next.id = tick THEN "check" ELSE "none") PROVE ThreadInv'
    <3>1. boot = "running" /\ UNCHANGED <<boot, cursor>>
      BY <1>4 DEF Dispatching
    <3>2. MainInv' /\ BootInv'
      BY <1>0, <2>2, <3>1 DEF HandOff, Dispatch
    <3>3. /\ stage[w] = "none" /\ op[w] = "none" /\ UNCHANGED op /\ UNCHANGED arg /\ next \in Run
          /\ pc'[w] = "flow" /\ held'[w] = next /\ next # NoRun
      BY <1>0, <2>2, ConstantsAssumption DEF HandOff, Dispatch, Goto, TypeOK, ThreadsOK
    <3>4. /\ stage' \in [Workers -> Stages]
          /\ stage'[w] = IF next.id = tick THEN "check" ELSE "none"
          /\ \A v \in Workers : v # w => stage'[v] = stage[v] /\ pc'[v] = pc[v] /\ held'[v] = held[v]
      BY <1>0, <2>2 DEF HandOff, Goto, Enter, TypeOK, Stages
    <3> QED
      BY <1>0, <3>1, <3>2, <3>3, <3>4
  <2> QED
    BY <1>4, <2>1, <2>2 DEF Dispatching
<1>5. ASSUME NEW c \in Clients, CancelTicker(c) PROVE ThreadInv'
  BY <1>0, <1>5 DEF CancelTicker, Cancel, MayCall, Call, TypeOK, ThreadsOK
<1>6. CASE Restart
  <2>1. 0 \in 0..Never
    BY ConstantsAssumption DEF Never
  <2> QED
    BY <1>0, <1>6, <2>1 DEF Restart, Crash, Exit, Gone, Stages
<1>7. CASE Environment
  <2>1. restarts \in Nat
    BY ConstantsAssumption DEF TypeOK
  <2>2. UNCHANGED <<threads, cron>>
    BY <1>7 DEF Environment, Tick, Shutdown, New, DispatchDone
  <2>3. BootInv'
    BY <1>7, <2>1, <2>2 DEF Environment, Tick, Shutdown, New, DispatchDone
  <2> QED
    BY <2>2, <2>3
<1>8. CASE UNCHANGED tvars
  BY <1>0, <1>8
<1> QED
  BY <1>1, <1>2, <1>3, <1>4, <1>5, <1>6, <1>7, <1>8 DEF TickerNext

-----------------------------------------------------------------------------
(* The token.  A thread that is enqueueing the ticker has it until it has  *)
(* inserted the ticker into the heap; a worker has it from the moment it   *)
(* receives the ticker to the moment it begins to enqueue it again.        *)

Early == {"check", "fire", "firing", "rearm"}

Persists(t) == op[t] = "enqueue" /\ pc[t] \in PersistPC /\ arg[t].id = tick
Holds(w)    == w \in Workers /\ stage[w] \in Early
Token(t)    == Persists(t) \/ Holds(t)

\* No ID of a caller's own choice is in the heap twice, and the ticker is in one
\* of the heap, the dispatcher's hand and a thread's.
TokenInv ==
  /\ \A r \in Run : pending[r] > 0 /\ r.id \in Named =>
       pending[r] = 1 /\ \A s \in Run : s.id = r.id /\ pending[s] > 0 => r = s
  /\ Pending(tick) => ~Claimed(tick)
  /\ \A t \in Threads : Token(t) => ~Pending(tick) /\ ~Claimed(tick)
  /\ \A t, u \in Threads : Token(t) /\ Token(u) => t = u

\* A thread that persists the ticker is main, arming, or a worker, re-arming.
LEMMA WhoPersists ==
  ASSUME TypeInv, ThreadInv, NEW t \in Threads, op[t] = "enqueue"
  PROVE  \/ t = main /\ boot = "arming" /\ arg[t].id = tick
         \/ t \in Workers /\ boot = "running" /\ stage[t] = "firing" /\ arg[t].id \in Fresh
         \/ t \in Workers /\ boot = "running" /\ stage[t] = "rearming" /\ arg[t].id = tick
BY MainIsAClient DEF ThreadInv, MainInv, BootInv, StageInv, Threads

\* Before Run has started, nobody but main has the token.
LEMMA NoneBeforeRun ==
  ASSUME TypeInv, ThreadInv, boot # "running"
  PROVE  /\ ~Claimed(tick) /\ \A w \in Workers : held[w] = NoRun /\ stage[w] = "none"
         /\ \A t \in Threads : Token(t) => t = main /\ boot = "arming"
<1>1. ~Claimed(tick) /\ \A w \in Workers : held[w] = NoRun /\ stage[w] = "none"
  BY DEF ThreadInv, BootInv, StageInv, Claimed
<1>2. ASSUME NEW t \in Threads, Token(t) PROVE t = main /\ boot = "arming"
  BY <1>1, <1>2, WhoPersists DEF Token, Persists, Holds, Early
<1> QED
  BY <1>1, <1>2

\* Dropping the token does no harm.
LEMMA TokensShrink ==
  ASSUME TypeOK, TypeOK', TokenInv,
         \A r \in Run : pending'[r] <= pending[r],
         Claimed(tick)' => Claimed(tick),
         \A t \in Threads : Token(t)' => Token(t)
  PROVE  TokenInv'
<1>1. \A r \in Run : pending[r] \in Nat /\ pending'[r] \in Nat
  BY DEF TypeOK
<1>2. Pending(tick)' => Pending(tick)
  BY <1>1 DEF Pending
<1>3. \A r \in Run : pending'[r] > 0 => pending[r] > 0 /\ (pending[r] = 1 => pending'[r] = 1)
  BY <1>1
<1> QED
  BY <1>2, <1>3 DEF TokenInv

LEMMA NextTokenInv ==
  ASSUME TypeInv, TypeInv', ThreadInv, ThreadInv', TokenInv, [TickerNext]_tvars
  PROVE  TokenInv'
<1> TypeInv /\ TypeOK /\ ThreadsOK /\ TypeOK' /\ ThreadsOK'
  BY DEF TypeInv
<1>0. /\ main \in Threads /\ main \in Clients /\ main \notin Workers
      /\ \A c \in Clients : c \in Threads /\ c \notin Workers
      /\ \A w \in Workers : w \in Threads /\ w \notin Clients
      /\ tick \in Ids /\ tick \in Named /\ tick \notin Fresh
  BY MainIsAClient
<1>a. \A r \in Run : pending[r] \in Nat /\ pending'[r] \in Nat
  BY DEF TypeOK
<1> USE DEF store, process, disp, threads, history, bounds, cron, past, vars, tvars
<1>1. CASE Every
  <2>1. CASE EnqueueID(main, tick, NextTick(now)) /\ boot = "new"
    <3>1. \A t \in Threads : ~Token(t)
      BY <2>1, NoneBeforeRun
    <3>2. ~Pending(tick) /\ ~Claimed(tick) /\ UNCHANGED process /\ UNCHANGED stage
      BY <1>1, <2>1, NoneBeforeRun DEF EnqueueID, Every
    <3>3. \A t \in Threads : Token(t)' => t = main
      BY <1>0, <2>1, <3>1, <3>2 DEF EnqueueID, Call, Token, Persists, Holds, TypeOK
    <3> QED
      BY <3>2, <3>3 DEF TokenInv, Pending, Claimed
  <2>2. CASE UNCHANGED vars
    BY <1>a, <1>1, <2>2, TokensShrink DEF Every, Claimed, Token, Persists, Holds
  <2> QED
    BY <1>1, <2>1, <2>2 DEF Every
<1>2. ASSUME NEW w \in Workers, FlowStep(w) PROVE TokenInv'
  <2>1. UNCHANGED pending /\ UNCHANGED disp
    BY <1>2 DEF FlowStep, Check, Fire, CaughtUp, Rearm, TickerEnds, TargetEnds,
       EnqueueID, EnqueueNoop, FlowReturns, FlowInterrupted
  <2>2. \A t \in Threads : t # w => (Token(t)' => Token(t))
    <3>1. \A t \in Threads : t # w => pc'[t] = pc[t] /\ op'[t] = op[t] /\ arg'[t] = arg[t]
      BY <1>0, <1>2 DEF FlowStep, Check, Fire, CaughtUp, Rearm, TickerEnds, TargetEnds,
         EnqueueID, EnqueueNoop, FlowReturns, FlowInterrupted, Call, TypeOK
    <3>2. \A t \in Workers : t # w => stage'[t] = stage[t]
      BY <1>2 DEF FlowStep, Check, Fire, CaughtUp, Rearm, TickerEnds, TargetEnds, Enter, ThreadInv, StageInv
    <3> QED
      BY <3>1, <3>2 DEF Token, Persists, Holds
  <2>3. Token(w)' => Token(w)
    <3>1. CASE Check(w) \/ Fire(w) \/ CaughtUp(w) \/ Rearm(w)
      BY <3>1 DEF Check, Fire, CaughtUp, Rearm, Token, Holds, Early
    <3>2. CASE TickerEnds(w)
      <4>1. stage'[w] = "none" /\ op'[w] # "enqueue"
        BY <1>0, <3>2 DEF TickerEnds, Enter, FlowReturns, FlowInterrupted, Call, Ticking, Running,
           TypeOK, ThreadsOK, ThreadInv, StageInv
      <4> QED
        BY <4>1 DEF Token, Persists, Holds, Early
    <3>3. CASE TargetEnds(w)
      <4>1. stage'[w] = "none" /\ op'[w] # "enqueue"
        BY <1>0, <3>3 DEF TargetEnds, FlowReturns, Call, TypeOK, ThreadInv, StageInv
      <4> QED
        BY <4>1 DEF Token, Persists, Holds, Early
    <3> QED
      BY <1>2, <3>1, <3>2, <3>3 DEF FlowStep
  <2> QED
    BY <1>a, <2>1, <2>2, <2>3, TokensShrink DEF Claimed
<1>3. ASSUME NEW t \in Threads, EngineStep(t) PROVE TokenInv'
  <2>1. CASE Insert(t) /\ UNCHANGED cron
    <3>1. op[t] = "enqueue" /\ pc[t] = "insert" /\ arg[t] \in Run
      BY <2>1 DEF Insert, Goto, TypeOK, ThreadsOK, PersistPC, ThreadInv, StageInv
    <3>2. /\ \A u \in Threads : Token(u)' => Token(u)
          /\ ~Persists(t)'
          /\ UNCHANGED <<dpc, next>>
      BY <2>1 DEF Insert, Goto, Token, Persists, Holds, PersistPC, TypeOK
    <3>3. \A r \in Run : pending'[r] = IF r = arg[t] THEN pending[r] + 1 ELSE pending[r]
      BY <2>1 DEF Insert, insert, TypeOK
    <3>4. CASE arg[t].id = tick
      <4>1. Token(t) /\ ~Holds(t)'
        <5>1. Token(t)
          BY <3>1, <3>4 DEF Token, Persists, PersistPC
        <5>2. t \in Workers => stage'[t] = "rearming"
          BY <1>0, <2>1, <3>1, <3>4, WhoPersists
        <5> QED
          BY <5>1, <5>2 DEF Holds, Early
      <4>2. ~Pending(tick) /\ ~Claimed(tick) /\ \A u \in Threads : Token(u) => u = t
        BY <4>1 DEF TokenInv
      <4>3. \A u \in Threads : ~Token(u)'
        BY <3>2, <4>1, <4>2 DEF Token
      <4>4. \A r \in Run : r.id = tick /\ pending'[r] > 0 => r = arg[t] /\ pending'[r] = 1
        BY <1>a, <3>3, <4>2 DEF Pending
      <4>5. \A r \in Run : r.id # tick => pending'[r] = pending[r]
        BY <3>3, <3>4
      <4> QED
        BY <3>2, <4>2, <4>3, <4>4, <4>5 DEF TokenInv, Claimed
    <3>5. CASE arg[t].id # tick
      <4>1. arg[t].id \in Fresh
        BY <3>1, <3>5, WhoPersists
      <4>2. \A r \in Run : r.id \in Named => pending'[r] = pending[r]
        BY <3>3, <4>1, ConstantsAssumption
      <4>3. Pending(tick)' = Pending(tick) /\ Claimed(tick)' = Claimed(tick)
        BY <1>0, <3>2, <4>2 DEF Pending, Claimed
      <4> QED
        BY <3>2, <4>2, <4>3 DEF TokenInv
    <3> QED
      BY <3>4, <3>5
  <2>2. CASE InCall(t) /\ Resume(t)
    <3>1. UNCHANGED Elsewhere
      BY <2>2, CallMoves
    <3>2. \A u \in Threads : u # t => pc'[u] = pc[u] /\ op'[u] = op[u] /\ arg'[u] = arg[u]
      BY <2>2, CallMoves DEF GoesOn, IsOver, Return, TypeOK
    <3>3. \A u \in Workers : u # t => stage'[u] = stage[u]
      BY <2>2 DEF Resume, Enter, ThreadInv, StageInv
    <3>4. Persists(t)' => Persists(t)
      BY <2>2, CallMoves DEF GoesOn, IsOver, Return, TypeOK, Persists
    <3>5. Holds(t)' => Holds(t)
      BY <2>2 DEF Resume, Enter, Holds, Early, ThreadInv, StageInv
    <3>6. \A u \in Threads : Token(u)' => Token(u)
      BY <3>2, <3>3, <3>4, <3>5 DEF Token, Persists, Holds
    <3> QED
      BY <1>a, <3>1, <3>6, TokensShrink DEF Claimed, Elsewhere
  <2> QED
    BY <1>3, <2>1, <2>2 DEF EngineStep, InCall
<1>4. CASE Dispatching
  <2>1. CASE (Peek \/ Woken \/ TimerFires) /\ UNCHANGED stage
    BY <1>a, <2>1, TokensShrink DEF Peek, Woken, TimerFires, Dispatch, Claimed, Token, Persists, Holds
  <2>2. CASE Claim /\ UNCHANGED stage
    <3>1. \A u \in Threads : Token(u)' = Token(u)
      BY <2>2 DEF Claim, Token, Persists, Holds
    <3>2. CASE UNCHANGED pending /\ dpc' = "peek"
      BY <1>a, <3>1, <3>2, TokensShrink DEF Claimed
    <3>3. ASSUME NEW r \in Run, pending[r] > 0, next' = r, pending' = [pending EXCEPT ![r] = @ - 1]
          PROVE  TokenInv'
      <4>1. CASE r.id # tick
        <5>1. ~Claimed(tick)'
          BY <3>3, <4>1 DEF Claimed
        <5>2. \A s \in Run : pending'[s] <= pending[s]
          BY <1>a, <3>3 DEF TypeOK
        <5> QED
          BY <3>1, <5>1, <5>2, TokensShrink
      <4>2. CASE r.id = tick
        <5>1. Pending(tick) /\ pending[r] = 1
          BY <1>0, <3>3, <4>2 DEF Pending, TokenInv
        <5>2. /\ \A u \in Threads : ~Token(u)'
              /\ \A s \in Run : s.id = tick => pending'[s] = 0
          <6>1. \A u \in Threads : ~Token(u)'
            BY <3>1, <5>1 DEF TokenInv
          <6>2. ASSUME NEW s \in Run, s.id = tick PROVE pending'[s] = 0
            BY <1>0, <1>a, <3>3, <4>2, <5>1, <6>2 DEF TokenInv, TypeOK
          <6> QED
            BY <6>1, <6>2
        <5>3. \A s \in Run : s.id # tick => pending'[s] = pending[s]
          BY <3>3, <4>2 DEF TypeOK
        <5>4. ~Pending(tick)'
          BY <5>2 DEF Pending
        <5> QED
          BY <5>2, <5>3, <5>4 DEF TokenInv
      <4> QED
        BY <4>1, <4>2
    <3> QED
      BY <2>2, <3>2, <3>3 DEF Claim, Dispatch, Head
  <2>3. ASSUME NEW w \in Workers, HandOff(w), Enter(w, IF next.id = tick THEN "check" ELSE "none")
        PROVE  TokenInv'
    <3>1. UNCHANGED <<pending, op, arg>> /\ ~Claimed(tick)'
      BY <2>3 DEF HandOff, Dispatch, Claimed
    <3>2. \A u \in Threads : u # w => (Token(u)' => Token(u))
      BY <1>0, <2>3, <3>1 DEF HandOff, Goto, Enter, Token, Persists, Holds, TypeOK, ThreadInv, StageInv
    <3>3. Token(w)' => Claimed(tick)
      <4>1. ~Persists(w)' /\ (stage'[w] = IF next.id = tick THEN "check" ELSE "none")
        BY <1>0, <2>3 DEF HandOff, Goto, Enter, Persists, PersistPC, TypeOK, ThreadInv, StageInv
      <4> QED
        BY <2>3, <4>1 DEF HandOff, Dispatch, Token, Holds, Early, Claimed
    <3> QED
      BY <1>0, <3>1, <3>2, <3>3 DEF TokenInv, Pending
  <2> QED
    BY <1>4, <2>1, <2>2, <2>3 DEF Dispatching
<1>5. ASSUME NEW c \in Clients, CancelTicker(c) PROVE TokenInv'
  <2>1. \A u \in Threads : Token(u)' => Token(u)
    BY <1>5 DEF CancelTicker, Cancel, Call, Token, Persists, Holds, TypeOK
  <2>2. \A r \in Run : pending'[r] <= pending[r]
    BY <1>a, <1>5 DEF CancelTicker, Cancel
  <2> QED
    BY <1>5, <2>1, <2>2, TokensShrink DEF CancelTicker, Cancel, Claimed
<1>6. CASE Restart
  BY <1>6, <1>a, TokensShrink DEF Restart, Crash, Exit, Gone, Token, Persists, Holds, Early, Claimed
<1>7. CASE Environment
  <2>1. CASE New
    <3>1. boot = "new" /\ UNCHANGED <<threads, next, cron>> /\ dpc' = "peek"
      BY <1>7, <2>1 DEF Environment, New, ThreadInv, BootInv
    <3>2. \A t \in Threads : ~Token(t)'
      BY <3>1, NoneBeforeRun DEF Token, Persists, Holds
    <3>3. \A r \in Run : pending'[r] > 0 => pending'[r] = 1 /\ record[r.id] = r
      BY <2>1 DEF New
    <3> QED
      BY <3>1, <3>2, <3>3 DEF TokenInv, Claimed
  <2>2. CASE Tick \/ Shutdown \/ DispatchDone
    BY <1>7, <1>a, <2>2, TokensShrink DEF Environment, Tick, Shutdown, DispatchDone, Claimed, Token, Persists, Holds
  <2> QED
    BY <1>7, <2>1, <2>2 DEF Environment
<1>8. CASE UNCHANGED tvars
  BY <1>8, <1>a, TokensShrink DEF Claimed, Token, Persists, Holds
<1> QED
  BY <1>1, <1>2, <1>3, <1>4, <1>5, <1>6, <1>7, <1>8 DEF TickerNext

-----------------------------------------------------------------------------
(* How each part of the state moves in one step.  The invariants below are *)
(* proved from these, not from the actions.                                *)

\* The clocks and counters only go up.
LEMMA ClockMoves ==
  ASSUME TypeInv, [TickerNext]_tvars
  PROVE  /\ now <= now' /\ restarts <= restarts' /\ faults <= faults'
         /\ cancelled \subseteq cancelled'
<1> TypeOK
  BY DEF TypeInv
<1>0. now \in Nat /\ restarts \in Nat /\ faults \in Nat
  BY ConstantsAssumption DEF TypeOK, Time
<1>1. CASE FaultOnly
  BY <1>0, <1>1 DEF FaultOnly, StoreFails, history
<1>2. CASE [Next]_vars
  <2> USE DEF StoreOK, StoreFails, store, process, disp, threads, history, bounds
  <2>1. ASSUME NEW t \in Threads, NEW id \in Ids, NEW when \in Time,
               EnqueueID(t, id, when) \/ EnqueueNoop(t, id) \/ Cancel(t, id)
        PROVE  now <= now' /\ restarts <= restarts' /\ faults <= faults' /\ cancelled \subseteq cancelled'
    BY <1>0, <2>1 DEF EnqueueID, EnqueueNoop, Cancel
  <2>2. ASSUME NEW t \in Threads, CallStep(t)
        PROVE  now <= now' /\ restarts <= restarts' /\ faults <= faults' /\ cancelled \subseteq cancelled'
    BY <1>0, <2>2 DEF CallStep, AddIndexGet, AddIndexPut, PersistRun, Insert, Nudge,
       PutTombstone, AckGet, AckIndex, AckRun
  <2>3. ASSUME NEW w \in Workers, FlowEnds(w) \/ FlowInterrupted(w) \/ UnknownFlow(w)
        PROVE  now <= now' /\ restarts <= restarts' /\ faults <= faults' /\ cancelled \subseteq cancelled'
    <3>1. UNCHANGED <<now, restarts, faults, cancelled>>
      BY <2>3 DEF FlowEnds, FlowReturns, FlowYields, FlowInterrupted, UnknownFlow
    <3> QED
      BY <1>0, <3>1
  <2>4. CASE DispatchStep \/ DispatchDone
    BY <1>0, <2>4 DEF DispatchStep, Peek, Woken, TimerFires, Claim, HandOff, DispatchDone
  <2>5. CASE Tick \/ Shutdown \/ Exit \/ Crash \/ New
    BY <1>0, <2>5 DEF Tick, Shutdown, Exit, Crash, Gone, New
  <2>6. CASE UNCHANGED vars
    BY <1>0, <2>6 DEF vars
  <2>7. 0 \in Time
    BY ConstantsAssumption DEF Time
  <2> QED
    BY <1>2, <2>1, <2>2, <2>3, <2>4, <2>5, <2>6, <2>7 DEF Next
<1> QED
  BY <1>1, <1>2, EngineBelow

\* The dispatcher looks at another run only in Peek and in Claim.
LEMMA DispatcherMoves ==
  ASSUME [TickerNext]_tvars
  PROVE  \/ UNCHANGED <<dpc, next>>
         \/ dpc' \notin {"due", "send"}
         \/ Peek /\ UNCHANGED <<cron, past>>
         \/ Claim /\ UNCHANGED <<cron, past>>
<1> USE DEF store, process, disp, threads, history, bounds, cron, past
<1>1. CASE Every \/ Restart \/ Environment
  BY <1>1 DEF Every, Restart, Environment, EnqueueID, Crash, Exit, Gone, Tick, Shutdown, New, DispatchDone, vars
<1>2. CASE Dispatching
  BY <1>2 DEF Dispatching, Woken, TimerFires, HandOff, Dispatch
<1>3. ASSUME NEW t \in Threads, EngineStep(t) PROVE UNCHANGED <<dpc, next>>
  BY <1>3 DEF EngineStep, Insert, AddIndexGet, AddIndexPut, PersistRun, Nudge, PutTombstone, AckGet, AckIndex, AckRun
<1>4. ASSUME NEW w \in Workers, FlowStep(w) PROVE UNCHANGED <<dpc, next>>
  BY <1>4 DEF FlowStep, Check, Fire, CaughtUp, Rearm, TickerEnds, TargetEnds, EnqueueID, EnqueueNoop,
     FlowReturns, FlowInterrupted, vars
<1>5. ASSUME NEW c \in Clients, CancelTicker(c) PROVE UNCHANGED <<dpc, next>>
  BY <1>5 DEF CancelTicker, Cancel
<1>6. CASE UNCHANGED tvars
  BY <1>6 DEF tvars, vars
<1> QED
  BY <1>1, <1>2, <1>3, <1>4, <1>5, <1>6 DEF TickerNext

\* The ticker comes into the heap by the hand of a thread that has persisted it,
\* or when a process boots.
LEMMA HeapMoves ==
  ASSUME TypeInv, TypeInv', ThreadInv, [TickerNext]_tvars, NEW r \in Run, r.id = tick, pending'[r] > 0
  PROVE  \/ pending[r] > 0
         \/ \E t \in Threads : Persists(t) /\ arg[t] = r /\ UNCHANGED <<cron, fired, dpc, next, restarts>>
         \/ phase = "down" /\ phase' = "up" /\ record[tick] = r /\ UNCHANGED <<cron, past, restarts>>
<1> TypeInv /\ TypeOK /\ ThreadsOK /\ TypeOK'
  BY DEF TypeInv
<1>0. \A s \in Run : pending[s] \in Nat /\ pending'[s] \in Nat
  BY DEF TypeOK
<1> USE DEF store, process, disp, threads, history, bounds, cron, past
<1>1. CASE Every
  BY <1>1 DEF Every, EnqueueID, vars
<1>2. CASE Restart
  BY <1>2 DEF Restart, Crash, Exit, Gone
<1>3. CASE Environment
  BY <1>3 DEF Environment, Tick, Shutdown, New, DispatchDone
<1>4. CASE Dispatching
  BY <1>0, <1>4 DEF Dispatching, Peek, Woken, TimerFires, Claim, HandOff, TypeOK
<1>5. ASSUME NEW t \in Threads, EngineStep(t) PROVE pending[r] > 0 \/ (Persists(t) /\ arg[t] = r /\ UNCHANGED <<cron, fired, dpc, next, restarts>>)
  <2>1. CASE Insert(t) /\ UNCHANGED <<cron, fired>>
    <3>1. op[t] = "enqueue" /\ pc[t] = "insert" /\ arg[t] \in Run
      BY <2>1 DEF Insert, Goto, TypeOK, ThreadsOK, PersistPC, ThreadInv, StageInv
    <3> QED
      BY <1>0, <2>1, <3>1 DEF Insert, insert, Persists, PersistPC, TypeOK
  <2>2. CASE UNCHANGED pending
    BY <2>2
  <2> QED
    BY <1>5, <2>1, <2>2 DEF EngineStep, AddIndexGet, AddIndexPut, PersistRun, Nudge, PutTombstone, AckGet, AckIndex, AckRun
<1>6. ASSUME NEW w \in Workers, FlowStep(w) PROVE UNCHANGED pending
  BY <1>6 DEF FlowStep, Check, Fire, CaughtUp, Rearm, TickerEnds, TargetEnds, EnqueueID, EnqueueNoop,
     FlowReturns, FlowInterrupted, vars
<1>7. ASSUME NEW c \in Clients, CancelTicker(c) PROVE pending[r] > 0
  BY <1>0, <1>7 DEF CancelTicker, Cancel
<1>8. CASE UNCHANGED tvars
  BY <1>8 DEF tvars, vars
<1> QED
  BY <1>1, <1>2, <1>3, <1>4, <1>5, <1>6, <1>7, <1>8 DEF TickerNext

\* One step of the flow of worker w, seen from the ticker: stage by stage.
FlowMove(w) ==
  \/ UNCHANGED <<stage[w], cursor[w]>> /\ (stage[w] # "none" => UNCHANGED held[w])
  \/ stage'[w] = "none"
  \/ /\ stage[w] = "none" /\ stage'[w] = "check" /\ Claimed(tick) /\ held'[w] = next
     /\ dpc' = "peek" /\ late' = IF stopped THEN late \cup {w} ELSE late \ {w}
  \/ /\ stage'[w] # "none" /\ UNCHANGED held[w]
     /\ \/ /\ stage[w] = "check" /\ stage'[w] = "fire" /\ cursor'[w] = held[w].wake
           /\ tick \notin tomb \/ faults' = faults + 1
        \/ stage[w] = "fire" /\ stage'[w] = "firing" /\ cursor'[w] = cursor[w] /\ (CatchUp => cursor[w] <= now)
        \/ stage[w] = "fire" /\ stage'[w] = "rearm"
        \/ /\ stage[w] = "firing" /\ stage'[w] = "fire" /\ CatchUp
           /\ cursor'[w] = NextTick(cursor[w]) /\ NextTick(cursor[w]) \in Time
           /\ UNCHANGED <<now, restarts>>
        \/ stage[w] = "firing" /\ stage'[w] \in {"rearm", "failed"}
        \/ stage[w] = "rearm" /\ stage'[w] \in {"rearming", "return"}
        \/ stage[w] = "rearming" /\ stage'[w] \in {"return", "failed"}

LEMMA FlowMoves ==
  ASSUME TypeInv, TypeInv', ThreadInv, [TickerNext]_tvars, NEW w \in Workers
  PROVE  FlowMove(w)
<1> TypeInv /\ TypeOK /\ ThreadsOK /\ TypeOK' /\ StageInv
  BY DEF TypeInv, ThreadInv
<1>0. w \in Threads /\ stage[w] \in Stages /\ faults \in Nat /\ faults + 1 # faults
  BY MainIsAClient, ConstantsAssumption DEF TypeOK, StageInv
<1> USE DEF store, process, disp, threads, history, bounds, cron, past
<1>1. CASE UNCHANGED <<held, stage, cursor>>
  BY <1>1 DEF FlowMove
<1>2. CASE Every \/ Environment
  <2>1. UNCHANGED <<held, stage, cursor>>
    BY <1>2 DEF Every, Environment, EnqueueID, Tick, Shutdown, New, DispatchDone, vars
  <2> QED
    BY <1>1, <2>1
<1>3. CASE Restart
  BY <1>3 DEF Restart, FlowMove
<1>4. CASE Dispatching
  <2>1. CASE UNCHANGED stage /\ (Peek \/ Woken \/ TimerFires \/ Claim)
    <3>1. UNCHANGED <<held, stage, cursor>>
      BY <1>4, <2>1 DEF Dispatching, Peek, Woken, TimerFires, Claim
    <3> QED
      BY <1>1, <3>1
  <2>2. ASSUME NEW v \in Workers, HandOff(v), Enter(v, IF next.id = tick THEN "check" ELSE "none"),
               late' = IF stopped /\ next.id = tick THEN late \cup {v} ELSE late \ {v}
        PROVE  FlowMove(w)
    <3>1. v # w => UNCHANGED <<stage[w], held[w], cursor[w]>>
      BY <1>0, <1>4, <2>2 DEF Dispatching, HandOff, Enter, TypeOK, StageInv, Threads
    <3>2. v = w => /\ stage[w] = "none" /\ held'[w] = next
                   /\ stage'[w] = IF next.id = tick THEN "check" ELSE "none"
      BY <1>0, <2>2 DEF HandOff, Goto, Enter, TypeOK, ThreadsOK, StageInv, Stages
    <3> QED
      BY <2>2, <3>1, <3>2 DEF FlowMove, HandOff, Dispatch, Claimed
  <2> QED
    BY <1>4, <2>1, <2>2 DEF Dispatching
<1>5. ASSUME NEW t \in Threads, EngineStep(t) PROVE FlowMove(w)
  <2>1. CASE Insert(t) /\ UNCHANGED cron
    <3>1. op[t] # "requeue"
      BY <2>1, MainIsAClient DEF Insert, Goto, ThreadsOK, StageInv, Threads
    <3>2. UNCHANGED held
      BY <2>1, <3>1 DEF Insert, TypeOK
    <3> QED
      BY <1>1, <2>1, <3>2
  <2>2. CASE InCall(t) /\ Resume(t)
    <3>1. UNCHANGED <<now, restarts>> /\ (GoesOn(t) \/ IsOver(t))
      BY <2>2, CallMoves DEF Elsewhere
    <3>2. CASE t # w
      BY <1>0, <2>2, <3>1, <3>2 DEF Resume, Enter, GoesOn, IsOver, Return, FlowMove, TypeOK, StageInv
    <3>3. CASE t = w /\ stage[w] \notin {"firing", "rearming"}
      <4>1. stage[w] = "none"
        BY <1>0, <3>1, <3>3 DEF GoesOn, IsOver, StageInv, Stages
      <4> QED
        BY <2>2, <4>1, <3>3 DEF Resume, FlowMove
    <3>4. CASE t = w /\ stage[w] \in {"firing", "rearming"}
      <4>1. op[w] = "enqueue"
        BY <3>4 DEF StageInv
      <4>2. UNCHANGED held
        BY <3>1, <3>4, <4>1 DEF GoesOn, IsOver, Return, TypeOK
      <4> QED
        BY <1>0, <2>2, <3>1, <3>4, <4>2 DEF Resume, Enter, FlowMove, StageInv
    <3> QED
      BY <3>2, <3>3, <3>4
  <2> QED
    BY <1>5, <2>1, <2>2 DEF EngineStep, InCall
<1>6. ASSUME NEW v \in Workers, FlowStep(v) PROVE FlowMove(w)
  <2>1. CASE v # w
    <3>1. UNCHANGED <<stage[w], cursor[w], held[w]>>
      BY <1>0, <1>6, <2>1 DEF FlowStep, Check, Fire, CaughtUp, Rearm, TickerEnds, TargetEnds, Enter,
         EnqueueID, EnqueueNoop, FlowReturns, FlowInterrupted, vars, TypeOK, StageInv
    <3> QED
      BY <3>1 DEF FlowMove
  <2>2. CASE v = w /\ Check(w)
    BY <1>0, <2>2 DEF Check, Enter, FlowReturns, StageInv, FlowMove, StoreOK, StoreFails
  <2>3. CASE v = w /\ (Fire(w) \/ CaughtUp(w) \/ Rearm(w))
    BY <1>0, <2>3 DEF Fire, CaughtUp, Rearm, Enter, EnqueueID, EnqueueNoop, vars, StageInv, FlowMove
  <2>4. CASE v = w /\ TickerEnds(w)
    BY <1>0, <2>4 DEF TickerEnds, Enter, StageInv, FlowMove
  <2>5. CASE v = w /\ TargetEnds(w)
    BY <1>0, <2>5 DEF TargetEnds, FlowReturns, FlowMove
  <2> QED
    BY <1>6, <2>1, <2>2, <2>3, <2>4, <2>5 DEF FlowStep
<1>7. ASSUME NEW c \in Clients, CancelTicker(c) PROVE UNCHANGED <<held, stage, cursor>>
  BY <1>7 DEF CancelTicker, Cancel
<1>8. CASE UNCHANGED tvars
  BY <1>1, <1>8 DEF tvars, vars
<1> QED
  BY <1>1, <1>2, <1>3, <1>4, <1>5, <1>6, <1>7, <1>8 DEF TickerNext

\* The ticker is persisted only for the match after now: by main at boot, or by
\* the worker that has the token.
LEMMA PersistMoves ==
  ASSUME TypeInv, TypeInv', ThreadInv, [TickerNext]_tvars, NEW t \in Threads, Persists(t)'
  PROVE  \/ Persists(t) /\ UNCHANGED arg[t]
         \/ /\ arg'[t].wake = NextTick(now) /\ NextTick(now) \in Time /\ ~Pending(tick)
            /\ UNCHANGED <<now, pending, dpc, next, fired, restarts>>
            /\ \/ t = main /\ boot = "new" /\ phase = "up"
               \/ t \in Workers /\ stage[t] = "rearm"
<1> TypeInv /\ TypeOK /\ ThreadsOK /\ TypeOK' /\ MainInv /\ StageInv
  BY DEF TypeInv, ThreadInv
<1>0. main \in Threads /\ tick \notin Fresh /\ \A w \in Workers : w \in Threads
  BY MainIsAClient
<1> USE DEF store, process, disp, threads, history, bounds, cron, past
<1>1. CASE UNCHANGED <<pc, op, arg>>
  BY <1>1 DEF Persists
<1>2. CASE Every
  BY <1>0, <1>1, <1>2 DEF Every, EnqueueID, Call, Persists, vars, TypeOK
<1>3. CASE Restart
  BY <1>3 DEF Restart, Crash, Exit, Gone, Persists
<1>4. CASE Environment
  BY <1>1, <1>4 DEF Environment, Tick, Shutdown, New, DispatchDone
<1>5. CASE Dispatching
  BY <1>5 DEF Dispatching, Peek, Woken, TimerFires, Claim, HandOff, Goto, Persists, PersistPC, TypeOK
<1>6. ASSUME NEW u \in Threads, EngineStep(u) PROVE Persists(t) /\ UNCHANGED arg[t]
  <2>1. CASE Insert(u)
    BY <2>1 DEF Insert, Goto, Persists, PersistPC, TypeOK
  <2>2. CASE InCall(u)
    BY <2>2, CallMoves DEF GoesOn, IsOver, Return, Persists, TypeOK
  <2> QED
    BY <1>6, <2>1, <2>2 DEF EngineStep, InCall
<1>7. ASSUME NEW w \in Workers, FlowStep(w)
      PROVE  \/ Persists(t) /\ UNCHANGED arg[t]
             \/ /\ arg'[t].wake = NextTick(now) /\ NextTick(now) \in Time /\ ~Pending(tick)
                /\ UNCHANGED <<now, pending, dpc, next, fired, restarts>>
                /\ t \in Workers /\ stage[t] = "rearm"
  <2>1. CASE Rearm(w)
    BY <1>0, <2>1 DEF Rearm, EnqueueID, EnqueueNoop, Call, Persists, TypeOK
  <2>2. CASE Fire(w)
    BY <1>0, <2>2 DEF Fire, EnqueueID, Call, Persists, TypeOK
  <2>3. CASE Check(w) \/ CaughtUp(w) \/ TickerEnds(w) \/ TargetEnds(w)
    BY <1>0, <2>3 DEF Check, CaughtUp, TickerEnds, TargetEnds, FlowReturns, FlowInterrupted, Call,
       Persists, PersistPC, vars, TypeOK
  <2> QED
    BY <1>7, <2>1, <2>2, <2>3 DEF FlowStep
<1>8. ASSUME NEW c \in Clients, CancelTicker(c) PROVE Persists(t) /\ UNCHANGED arg[t]
  BY <1>8 DEF CancelTicker, Cancel, Call, Persists, PersistPC, TypeOK
<1>9. CASE UNCHANGED tvars
  BY <1>1, <1>9 DEF tvars, vars
<1> QED
  BY <1>2, <1>3, <1>4, <1>5, <1>6, <1>7, <1>8, <1>9 DEF TickerNext

\* What a worker holds, the dispatcher has handed to it.
LEMMA HeldMoves ==
  ASSUME TypeInv, ThreadInv, [TickerNext]_tvars, NEW w \in Workers
  PROVE  \/ held'[w] \in {held[w], NoRun}
         \/ dpc = "send" /\ held'[w] = next
<1> TypeInv /\ TypeOK /\ ThreadsOK /\ StageInv
  BY DEF TypeInv, ThreadInv
<1>0. w \in Threads
  BY MainIsAClient
<1> USE DEF store, process, disp, threads, history, bounds, cron, past
<1>1. CASE Every \/ Environment \/ Restart
  BY <1>0, <1>1 DEF Every, Environment, Restart, EnqueueID, Tick, Shutdown, New, DispatchDone, Crash, Exit, Gone, vars
<1>2. CASE Dispatching
  BY <1>0, <1>2 DEF Dispatching, Peek, Woken, TimerFires, Claim, HandOff, Dispatch, TypeOK
<1>3. ASSUME NEW t \in Threads, EngineStep(t) PROVE held'[w] \in {held[w], NoRun}
  <2>1. CASE Insert(t)
    BY <1>0, <2>1 DEF Insert, TypeOK
  <2>2. CASE InCall(t)
    BY <1>0, <2>2, CallMoves DEF GoesOn, IsOver, Return, TypeOK
  <2> QED
    BY <1>3, <2>1, <2>2 DEF EngineStep, InCall
<1>4. ASSUME NEW v \in Workers, FlowStep(v) PROVE held'[w] \in {held[w], NoRun}
  BY <1>0, <1>4 DEF FlowStep, Check, Fire, CaughtUp, Rearm, TickerEnds, TargetEnds, EnqueueID, EnqueueNoop,
     FlowReturns, FlowInterrupted, vars, TypeOK
<1>5. ASSUME NEW c \in Clients, CancelTicker(c) PROVE UNCHANGED held
  BY <1>5 DEF CancelTicker, Cancel
<1>6. CASE UNCHANGED tvars
  BY <1>6 DEF tvars, vars
<1> QED
  BY <1>1, <1>2, <1>3, <1>4, <1>5, <1>6 DEF TickerNext

\* A tick is fired by the worker that was enqueueing the target for it.
LEMMA FiredMoves ==
  ASSUME TypeInv, ThreadInv, [TickerNext]_tvars
  PROVE  \/ UNCHANGED fired
         \/ \E w \in Workers : /\ stage[w] = "firing" /\ stage'[w] \in {"rearm", "fire"}
                               /\ fired' = fired \cup {cursor[w]}
                               /\ UNCHANGED <<now, pending, dpc, next, restarts, boot>>
<1> TypeInv /\ TypeOK /\ ThreadsOK /\ StageInv /\ MainInv
  BY DEF TypeInv, ThreadInv
<1> USE DEF cron, past
<1>1. CASE Every \/ Environment \/ Restart \/ Dispatching \/ UNCHANGED tvars
  BY <1>1 DEF Every, Environment, Restart, Dispatching, tvars
<1>2. ASSUME NEW t \in Threads, EngineStep(t)
      PROVE  \/ UNCHANGED fired
             \/ /\ t \in Workers /\ stage[t] = "firing" /\ stage'[t] \in {"rearm", "fire"}
                /\ fired' = fired \cup {cursor[t]}
                /\ UNCHANGED <<now, pending, dpc, next, restarts, boot>>
  <2>1. CASE InCall(t) /\ Resume(t) /\ Booted(t) /\ ~UNCHANGED fired
    <3>1. t \in Workers /\ stage[t] = "firing" /\ ~Failed(t) /\ fired' = fired \cup {cursor[t]}
      BY <2>1 DEF Resume
    <3>2. stage'[t] \in {"rearm", "fire"}
      BY <2>1, <3>1 DEF Resume, Enter, StageInv
    <3>3. UNCHANGED Elsewhere /\ UNCHANGED boot
      BY <2>1, <3>1, CallMoves, MainIsAClient DEF Booted
    <3> QED
      BY <3>1, <3>2, <3>3 DEF Elsewhere
  <2> QED
    BY <1>2, <2>1 DEF EngineStep, InCall
<1>3. ASSUME NEW w \in Workers, FlowStep(w) PROVE UNCHANGED fired
  BY <1>3 DEF FlowStep, Check, Fire, CaughtUp, Rearm, TickerEnds, TargetEnds
<1>4. ASSUME NEW c \in Clients, CancelTicker(c) PROVE UNCHANGED fired
  BY <1>4 DEF CancelTicker
<1> QED
  BY <1>1, <1>2, <1>3, <1>4 DEF TickerNext

-----------------------------------------------------------------------------
(* The ticker is handed on when it is due, and due when it is handed on.   *)

ReadyInv ==
  /\ dpc = "due" /\ next.id = tick =>
       /\ next.wake <= now
       /\ \A t \in Threads : ~Token(t)
       /\ \A r \in Run : r.id = tick /\ pending[r] > 0 => r = next
  /\ Claimed(tick) => next.wake <= now
  /\ \A w \in Workers :
       /\ held[w] # NoRun /\ held[w].id = tick => held[w].wake <= now
       /\ stage[w] = "firing" => cursor[w] <= now
       /\ ~CatchUp /\ stage[w] \in {"fire", "firing"} => cursor[w] = held[w].wake

\* The token comes from the dispatcher's hand, or from nowhere at boot.
LEMMA TokenMoves ==
  ASSUME TypeInv, TypeInv', ThreadInv, [TickerNext]_tvars, NEW t \in Threads, Token(t)'
  PROVE  Token(t) \/ Claimed(tick) \/ boot = "new"
<1>1. CASE Persists(t)'
  BY <1>1, PersistMoves DEF Token, Holds, Early
<1>2. CASE Holds(t)'
  BY <1>2, FlowMoves DEF FlowMove, Token, Holds, Early
<1> QED
  BY <1>1, <1>2 DEF Token

LEMMA NextReadyInv ==
  ASSUME TypeInv, TypeInv', ThreadInv, ThreadInv', TokenInv, ReadyInv, [TickerNext]_tvars
  PROVE  ReadyInv'
<1> TypeInv /\ TypeOK /\ TypeOK' /\ StageInv /\ BootInv
  BY DEF TypeInv, ThreadInv
<1>0. /\ \A w \in Workers : w \in Threads
      /\ now \in Nat /\ now' \in Nat /\ now <= now'
      /\ \A r \in Run : r.wake \in Nat /\ pending[r] \in Nat /\ pending'[r] \in Nat
      /\ \A w \in Workers : cursor[w] \in Nat
  <2>1. \A n \in Time : n \in Nat
    BY ConstantsAssumption DEF Time
  <2>2. \A r \in Run : r.wake \in Nat
    BY <2>1 DEF Run
  <2>3. \A n \in 0..Never : n \in Nat
    BY ConstantsAssumption DEF Never
  <2> QED
    BY <2>1, <2>2, <2>3, ClockMoves, MainIsAClient DEF TypeOK, StageInv
<1>1. ASSUME dpc' = "due", next'.id = tick
      PROVE  /\ next'.wake <= now'
             /\ \A t \in Threads : ~Token(t)'
             /\ \A r \in Run : r.id = tick /\ pending'[r] > 0 => r = next'
  <2>1. CASE UNCHANGED <<dpc, next>>
    <3>1. dpc = "due" /\ next.id = tick /\ next \in Run /\ boot = "running" /\ ~Claimed(tick) /\ phase # "down"
      BY <1>1, <2>1 DEF TypeOK, BootInv, Claimed
    <3>2. \A t \in Threads : ~Token(t)'
      BY <3>1, TokenMoves DEF ReadyInv
    <3>3. \A r \in Run : r.id = tick /\ pending'[r] > 0 => r = next'
      BY <2>1, <3>1, HeapMoves DEF ReadyInv, Token
    <3> QED
      BY <1>0, <2>1, <3>1, <3>2, <3>3 DEF ReadyInv
  <2>2. CASE Peek /\ UNCHANGED <<cron, past>>
    <3>1. PICK r \in Run : Head(r) /\ next' = r /\ ~(now < r.wake)
      BY <1>1, <2>2 DEF Peek, Dispatch
    <3>2. pending[r] > 0 /\ Pending(tick) /\ tick \in Named
      BY <1>1, <3>1, MainIsAClient DEF Head, Pending
    <3>3. UNCHANGED <<pending, op, pc, arg, now, stage>>
      BY <2>2 DEF Peek, threads, cron
    <3>4. \A t \in Threads : ~Token(t)'
      BY <3>2, <3>3 DEF TokenInv, Token, Persists, Holds
    <3>5. \A s \in Run : s.id = tick /\ pending'[s] > 0 => s = r
      BY <1>1, <3>1, <3>2, <3>3 DEF TokenInv
    <3> QED
      BY <1>0, <3>1, <3>3, <3>4, <3>5
  <2>3. CASE Claim
    BY <1>1, <2>3 DEF Claim, Dispatch
  <2> QED
    BY <1>1, <2>1, <2>2, <2>3, DispatcherMoves
<1>2. ASSUME Claimed(tick)' PROVE next'.wake <= now'
  <2>1. CASE UNCHANGED <<dpc, next>>
    <3>1. Claimed(tick) /\ next \in Run
      BY <1>2, <2>1 DEF Claimed, TypeOK
    <3> QED
      BY <1>0, <2>1, <3>1 DEF ReadyInv
  <2>2. CASE Claim
    <3>1. PICK r \in Run : Head(r) /\ r.id = next.id /\ next' = r
      BY <1>2, <2>2 DEF Claim, Dispatch, Claimed
    <3>2. dpc = "due" /\ next.id = tick /\ r = next
      BY <1>2, <2>2, <3>1 DEF Claim, Claimed, Head, ReadyInv
    <3> QED
      BY <1>0, <3>1, <3>2 DEF ReadyInv
  <2> QED
    BY <1>2, <2>1, <2>2, DispatcherMoves DEF Claimed, Peek, Dispatch
<1>3. ASSUME NEW w \in Workers, held'[w] # NoRun, held'[w].id = tick PROVE held'[w].wake <= now'
  <2>1. CASE held'[w] = held[w]
    <3>1. held[w] \in Run
      BY <1>0, <1>3, <2>1 DEF TypeOK
    <3> QED
      BY <1>0, <1>3, <2>1, <3>1 DEF ReadyInv
  <2>2. CASE dpc = "send" /\ held'[w] = next
    <3>1. Claimed(tick) /\ next \in Run
      BY <1>3, <2>2 DEF Claimed, TypeOK
    <3> QED
      BY <1>0, <2>2, <3>1 DEF ReadyInv
  <2> QED
    BY <1>3, <2>1, <2>2, HeldMoves
<1>4. ASSUME NEW w \in Workers, stage'[w] = "firing" PROVE cursor'[w] <= now'
  <2>1. CASE stage[w] = "firing" /\ cursor'[w] = cursor[w]
    BY <1>0, <2>1 DEF ReadyInv
  <2>2. CASE stage[w] = "fire" /\ cursor'[w] = cursor[w] /\ (CatchUp => cursor[w] <= now)
    <3>1. CASE CatchUp
      BY <1>0, <2>2, <3>1
    <3>2. CASE ~CatchUp
      <4>1. cursor[w] = held[w].wake /\ held[w].wake <= now
        BY <2>2, <3>2 DEF ReadyInv, StageInv
      <4> QED
        BY <1>0, <2>2, <4>1
    <3> QED
      BY <3>1, <3>2
  <2> QED
    BY <1>4, <2>1, <2>2, FlowMoves DEF FlowMove
<1>5. ASSUME NEW w \in Workers, ~CatchUp, stage'[w] \in {"fire", "firing"} PROVE cursor'[w] = held'[w].wake
  BY <1>5, FlowMoves DEF FlowMove, ReadyInv
<1> QED
  BY <1>1, <1>2, <1>3, <1>4, <1>5 DEF ReadyInv

-----------------------------------------------------------------------------
(* No tick is fired twice: wherever the token is, it is for a later tick   *)
(* than all that were fired, as long as the process has not been booted    *)
(* again: a restart may fire a tick anew.                                  *)

FiredInv ==
  /\ fired \subseteq Nat
  /\ restarts = 0 =>
       /\ boot # "running" => fired = {}
       /\ \A m \in fired :
            /\ m <= now
            /\ \A r \in Run : r.id = tick /\ pending[r] > 0 => m < r.wake
            /\ Claimed(tick) => m < next.wake
            /\ \A t \in Threads : Persists(t) => m < arg[t].wake
            /\ \A w \in Workers : /\ stage[w] = "check" => m < held[w].wake
                                  /\ stage[w] \in {"fire", "firing"} => m < cursor[w]

\* Without a restart, Run is not undone.
LEMMA BootMoves ==
  ASSUME TypeInv, ThreadInv, [TickerNext]_tvars, restarts' = 0, boot' # "running"
  PROVE  boot # "running"
<1> TypeInv /\ TypeOK /\ MainInv /\ BootInv
  BY DEF TypeInv, ThreadInv
<1>1. restarts \in Nat /\ restarts <= restarts'
  BY ClockMoves, ConstantsAssumption DEF TypeOK
<1>2. ~Restart
  BY <1>1, ConstantsAssumption DEF Restart, Crash, Exit, BootInv, TypeOK
<1> QED
  BY <1>2 DEF TickerNext, Every, Dispatching, Environment, EngineStep, Booted, FlowStep, Check, Fire, CaughtUp,
     Rearm, TickerEnds, TargetEnds, CancelTicker, cron, tvars

LEMMA NextFiredInv ==
  ASSUME TypeInv, TypeInv', ThreadInv, TokenInv, ReadyInv, FiredInv, [TickerNext]_tvars
  PROVE  FiredInv'
<1> TypeInv /\ TypeOK /\ TypeOK' /\ StageInv /\ BootInv
  BY DEF TypeInv, ThreadInv
<1>0. /\ \A w \in Workers : w \in Threads
      /\ now \in 0..Never /\ now \in Nat /\ now' \in Nat /\ now <= now'
      /\ restarts \in Nat /\ restarts' \in Nat /\ restarts <= restarts'
      /\ \A r \in Run : r.wake \in Nat /\ pending[r] \in Nat
      /\ \A w \in Workers : cursor[w] \in 0..Never /\ cursor[w] \in Nat
      /\ \A n \in Time : n \in Nat
      /\ fired \subseteq Nat
  <2>1. \A n \in Time : n \in Nat /\ n \in 0..Never
    BY ConstantsAssumption DEF Time, Never
  <2>2. \A r \in Run : r.wake \in Nat
    BY <2>1 DEF Run
  <2>3. \A n \in 0..Never : n \in Nat
    BY ConstantsAssumption DEF Never
  <2>4. restarts \in Nat /\ restarts' \in Nat
    BY ConstantsAssumption DEF TypeOK
  <2> QED
    BY <2>1, <2>2, <2>3, <2>4, ClockMoves, MainIsAClient DEF TypeOK, StageInv, FiredInv
<1>1. \A w \in Workers : stage[w] \in Early =>
        /\ Token(w) /\ ~Pending(tick) /\ ~Claimed(tick) /\ boot = "running"
        /\ \A t \in Threads : Token(t) => t = w
  BY <1>0 DEF TokenInv, Token, Holds, Early, BootInv, StageInv
\* A step that fires a tick is a step of the one that has the token.
<1>2. ASSUME ~UNCHANGED fired
      PROVE  \E w \in Workers :
               /\ stage[w] = "firing" /\ stage'[w] \in {"rearm", "fire"} /\ fired' = fired \cup {cursor[w]}
               /\ UNCHANGED <<now, pending, dpc, next, restarts, boot>>
               /\ cursor[w] <= now /\ ~Pending(tick) /\ ~Claimed(tick) /\ boot = "running"
               /\ \A t \in Threads : Token(t) => t = w
  BY <1>1, <1>2, FiredMoves DEF Early, ReadyInv
<1>3. fired' \subseteq Nat
  BY <1>0, <1>2
<1>3a. ASSUME NEW w \in Workers, stage[w] \in Early, ~UNCHANGED fired
       PROVE  stage[w] = "firing" /\ stage'[w] \in {"rearm", "fire"} /\ fired' = fired \cup {cursor[w]}
  <2>1. PICK v \in Workers : /\ stage[v] = "firing" /\ stage'[v] \in {"rearm", "fire"}
                             /\ fired' = fired \cup {cursor[v]}
                             /\ \A t \in Threads : Token(t) => t = v
    BY <1>2, <1>3a
  <2>2. w = v
    BY <1>0, <1>1, <1>3a, <2>1
  <2> QED
    BY <2>1, <2>2
<1> SUFFICES ASSUME restarts' = 0
             PROVE  /\ boot' # "running" => fired' = {}
                    /\ \A m \in fired' :
                         /\ m <= now'
                         /\ \A r \in Run : r.id = tick /\ pending'[r] > 0 => m < r.wake
                         /\ Claimed(tick)' => m < next'.wake
                         /\ \A t \in Threads : Persists(t)' => m < arg'[t].wake
                         /\ \A w \in Workers : /\ stage'[w] = "check" => m < held'[w].wake
                                               /\ stage'[w] \in {"fire", "firing"} => m < cursor'[w]
  BY <1>3 DEF FiredInv
<1>4. /\ restarts = 0
      /\ boot # "running" => fired = {}
      /\ \A m \in fired :
           /\ m \in Nat /\ m <= now
           /\ \A r \in Run : r.id = tick /\ pending[r] > 0 => m < r.wake
           /\ Claimed(tick) => m < next.wake
           /\ \A t \in Threads : Persists(t) => m < arg[t].wake
           /\ \A w \in Workers : /\ stage[w] = "check" => m < held[w].wake
                                 /\ stage[w] \in {"fire", "firing"} => m < cursor[w]
  BY <1>0 DEF FiredInv
<1>5. boot' # "running" => fired' = {}
  BY <1>2, <1>4, BootMoves
<1>6. ASSUME NEW m \in fired' PROVE m <= now'
  <2>1. CASE UNCHANGED fired
    BY <1>0, <1>4, <1>6, <2>1
  <2>2. CASE ~UNCHANGED fired
    <3>1. PICK w \in Workers : fired' = fired \cup {cursor[w]} /\ cursor[w] <= now
      BY <1>2, <2>2
    <3> QED
      BY <1>0, <1>4, <1>6, <3>1
  <2> QED
    BY <2>1, <2>2
<1>7. ASSUME NEW m \in fired', NEW r \in Run, r.id = tick, pending'[r] > 0 PROVE m < r.wake
  <2>1. CASE ~UNCHANGED fired
    BY <1>2, <1>7, <2>1 DEF Pending
  <2>2. CASE UNCHANGED fired
    BY <1>4, <1>7, <2>2, HeapMoves DEF BootInv
  <2> QED
    BY <2>1, <2>2
<1>8. ASSUME NEW m \in fired', Claimed(tick)' PROVE m < next'.wake
  <2>1. CASE UNCHANGED <<dpc, next>>
    BY <1>2, <1>4, <1>8, <2>1 DEF Claimed
  <2>2. CASE Claim /\ UNCHANGED <<cron, past>>
    <3>1. PICK r \in Run : pending[r] > 0 /\ next' = r
      BY <1>8, <2>2 DEF Claim, Dispatch, Claimed, Head
    <3> QED
      BY <1>4, <1>8, <2>2, <3>1 DEF Claimed, past
  <2> QED
    BY <1>8, <2>1, <2>2, DispatcherMoves DEF Claimed, Peek, Dispatch
<1>9. ASSUME NEW m \in fired', NEW t \in Threads, Persists(t)' PROVE m < arg'[t].wake
  <2>1. CASE Persists(t) /\ UNCHANGED arg[t]
    <3>1. UNCHANGED fired
      <4>1. Token(t)
        BY <2>1 DEF Token
      <4>2. \A w \in Workers : stage[w] = "firing" => t # w
        BY <2>1, MainIsAClient DEF StageInv, Persists
      <4> QED
        BY <1>2, <4>1, <4>2
    <3> QED
      BY <1>4, <1>9, <2>1, <3>1
  <2>2. CASE arg'[t].wake = NextTick(now) /\ NextTick(now) \in Time /\ UNCHANGED fired
    <3>1. now < NextTick(now) /\ NextTick(now) \in Nat
      BY <1>0, <2>2, NextTickIs
    <3> QED
      BY <1>0, <1>4, <1>9, <2>2, <3>1
  <2> QED
    BY <1>9, <2>1, <2>2, PersistMoves
<1>10. ASSUME NEW m \in fired', NEW w \in Workers, stage'[w] = "check" PROVE m < held'[w].wake
  <2>1. CASE stage[w] = "check" /\ UNCHANGED held[w]
    <3>1. UNCHANGED fired
      BY <1>3a, <2>1 DEF Early
    <3> QED
      BY <1>4, <1>10, <2>1, <3>1
  <2>2. CASE Claimed(tick) /\ held'[w] = next
    <3>1. UNCHANGED fired
      BY <1>2, <2>2
    <3> QED
      BY <1>4, <1>10, <2>2, <3>1
  <2> QED
    BY <1>10, <2>1, <2>2, FlowMoves DEF FlowMove
<1>11. ASSUME NEW m \in fired', NEW w \in Workers, stage'[w] \in {"fire", "firing"} PROVE m < cursor'[w]
  <2>1. CASE stage[w] \in {"fire", "firing"} /\ cursor'[w] = cursor[w]
    <3>1. UNCHANGED fired
      <4>1. ASSUME ~UNCHANGED fired PROVE FALSE
        <5>1. stage[w] = "firing" /\ stage'[w] = "fire"
          BY <1>11, <1>3a, <2>1, <4>1 DEF Early
        <5>2. cursor'[w] = NextTick(cursor[w]) /\ NextTick(cursor[w]) \in Time
          BY <5>1, FlowMoves DEF FlowMove
        <5> QED
          BY <1>0, <2>1, <5>2, NextTickIs
      <4> QED
        BY <4>1
    <3> QED
      BY <1>4, <1>11, <2>1, <3>1
  <2>2. CASE stage[w] = "check" /\ cursor'[w] = held[w].wake
    <3>1. UNCHANGED fired
      BY <1>3a, <2>2 DEF Early
    <3> QED
      BY <1>4, <1>11, <2>2, <3>1
  <2>3. CASE stage[w] = "firing" /\ cursor'[w] = NextTick(cursor[w]) /\ NextTick(cursor[w]) \in Time
    <3>1. cursor[w] < cursor'[w] /\ cursor'[w] \in Nat /\ cursor[w] \in Nat
      BY <1>0, <2>3, NextTickIs
    <3>2. m \in fired \/ m = cursor[w]
      BY <1>11, <1>3a, <2>3 DEF Early
    <3>3. CASE m \in fired
      BY <1>4, <2>3, <3>1, <3>3
    <3> QED
      BY <3>1, <3>2, <3>3
  <2> QED
    BY <1>11, <2>1, <2>2, <2>3, FlowMoves DEF FlowMove
<1> QED
  BY <1>5, <1>6, <1>7, <1>8, <1>9, <1>10, <1>11

TickInv == TypeInv /\ ThreadInv /\ TokenInv /\ ReadyInv /\ FiredInv

\* At first the process is down, and at most a record of the ticker is stored.
LEMMA TickerInitInv == TickerInit => TickInv
<1> SUFFICES ASSUME TickerInit PROVE TickInv
  OBVIOUS
<1>1. TypeInv
  BY InitTypeInv DEF TickerInit
<1>2. ThreadInv
  <2>1. 0 \in 0..Never
    BY ConstantsAssumption DEF Never
  <2> QED
    BY <2>1, MainIsAClient DEF TickerInit, Init, ThreadInv, MainInv, BootInv, StageInv, Stages
<1>3. /\ \A r \in Run : pending[r] = 0
      /\ dpc = "stopped" /\ fired = {} /\ \A t \in Threads : ~Token(t)
      /\ \A w \in Workers : held[w] = NoRun /\ stage[w] = "none"
  BY MainIsAClient DEF TickerInit, Init, Token, Persists, Holds, Early
<1> QED
  BY <1>1, <1>2, <1>3 DEF TickInv, TokenInv, ReadyInv, FiredInv, Pending, Claimed

LEMMA TickerInvariant == TickerSpec => []TickInv
<1>1. TickInv /\ [TickerNext]_tvars => TickInv'
  BY BelowTypeInv, NextThreadInv, NextTokenInv, NextReadyInv, NextFiredInv DEF TickInv
<1> QED
  BY <1>1, TickerInitInv, PTL DEF TickerSpec

\* The boot's Every and the flow's own re-arm never queue the ticker side by
\* side, and without a restart no tick is ever queued again that was fired.
THEOREM TicksFireOnce == TickerSpec => []TickOnce
<1>1. TickInv => TickOnce
  <2> SUFFICES ASSUME TickInv PROVE TickOnce
    OBVIOUS
  <2>1. NamedOnce
    BY DEF TickInv, TokenInv, NamedOnce
  <2>2. TicksAdvance
    <3> SUFFICES ASSUME restarts = 0, NEW r \in Run, pending[r] > 0, r.id = tick, r.wake \in fired PROVE FALSE
      BY DEF TicksAdvance
    <3>1. r.wake < r.wake /\ r.wake \in Nat
      BY DEF TickInv, FiredInv
    <3> QED
      BY <3>1
  <2> QED
    BY <2>1, <2>2 DEF TickOnce
<1> QED
  BY <1>1, TickerInvariant, PTL

-----------------------------------------------------------------------------
(* The token is not lost: while the Store answers and nobody cancels the   *)
(* ticker, whoever has the token passes it on.                             *)

AliveInv ==
  /\ tomb \subseteq cancelled
  /\ \A t \in Threads : op[t] \in {"cancel", "evict"} => tick \in cancelled
  /\ tick \notin cancelled /\ faults = 0 =>
       /\ boot = "arming" /\ pc[main] = "nudge" => Pending(tick)
       /\ boot = "running" /\ phase = "up" =>
            Pending(tick) \/ Claimed(tick) \/ \E w \in Workers : Token(w)

\* A tombstone is put for a cancelled ticker, and only for one.
LEMMA TombstoneMoves ==
  ASSUME TypeInv, TypeInv', ThreadInv, ThreadInv', AliveInv, [TickerNext]_tvars
  PROVE  /\ (tomb \subseteq cancelled)'
         /\ \A t \in Threads : op'[t] \in {"cancel", "evict"} => tick \in cancelled'
<1> TypeInv /\ TypeOK /\ ThreadsOK /\ MainInv /\ TypeOK'
  BY DEF TypeInv, ThreadInv
<1> USE DEF store, process, disp, threads, history, bounds, cron, past
<1>0. cancelled \subseteq cancelled'
  BY ClockMoves
<1>1. CASE Every \/ Environment \/ Dispatching
  BY <1>1 DEF Every, EnqueueID, Call, Environment, Tick, Shutdown, New, DispatchDone, vars,
     Dispatching, Peek, Woken, TimerFires, Claim, HandOff, AliveInv, TypeOK
<1>2. CASE Restart
  BY <1>2 DEF Restart, Crash, Exit, Gone, AliveInv
<1>3. ASSUME NEW t \in Threads, EngineStep(t)
      PROVE  (tomb \subseteq cancelled)' /\ \A u \in Threads : op'[u] \in {"cancel", "evict"} => tick \in cancelled'
  <2>1. \A u \in Threads : op'[u] \in {"cancel", "evict"} => op[u] \in {"cancel", "evict"}
    <3>1. CASE Insert(t)
      BY <3>1 DEF Insert
    <3>2. CASE InCall(t)
      BY <3>2, CallMoves DEF GoesOn, IsOver, Return, TypeOK
    <3> QED
      BY <1>3, <3>1, <3>2 DEF EngineStep, InCall
  <2>2. tomb' = tomb \/ (tomb' = tomb \cup {arg[t].id} /\ pc[t] = "tombstone")
    BY <1>3 DEF EngineStep, Insert, AddIndexGet, AddIndexPut, PersistRun, Nudge, PutTombstone, AckGet, AckIndex, AckRun
  <2>3. pc[t] = "tombstone" => tick \in cancelled /\ arg[t].id = tick
    BY DEF AliveInv, ThreadsOK, MainInv
  <2> QED
    BY <1>0, <2>1, <2>2, <2>3 DEF AliveInv
<1>4. ASSUME NEW w \in Workers, FlowStep(w)
      PROVE  (tomb \subseteq cancelled)' /\ \A u \in Threads : op'[u] \in {"cancel", "evict"} => tick \in cancelled'
  <2>1. UNCHANGED tomb
    BY <1>4 DEF FlowStep, Check, Fire, CaughtUp, Rearm, TickerEnds, TargetEnds, EnqueueID, EnqueueNoop,
       FlowReturns, FlowInterrupted, vars
  <2>2. \A u \in Threads : op'[u] \in {"cancel", "evict"} => op[u] \in {"cancel", "evict"}
    BY <1>4 DEF FlowStep, Check, Fire, CaughtUp, Rearm, TickerEnds, TargetEnds, EnqueueID, EnqueueNoop, Call,
       FlowReturns, FlowInterrupted, vars, TypeOK
  <2> QED
    BY <1>0, <2>1, <2>2 DEF AliveInv
<1>5. ASSUME NEW c \in Clients, CancelTicker(c)
      PROVE  (tomb \subseteq cancelled)' /\ \A u \in Threads : op'[u] \in {"cancel", "evict"} => tick \in cancelled'
  BY <1>5 DEF CancelTicker, Cancel, AliveInv
<1>6. CASE UNCHANGED tvars
  BY <1>6 DEF tvars, vars, AliveInv
<1> QED
  BY <1>1, <1>2, <1>3, <1>4, <1>5, <1>6 DEF TickerNext

\* The ticker leaves the heap by the dispatcher's hand only.
LEMMA HeapKept ==
  ASSUME TypeInv, TypeInv', [TickerNext]_tvars, phase # "down", phase' # "down", tick \notin cancelled',
         Pending(tick)
  PROVE  \/ Pending(tick)'
         \/ Claimed(tick)' /\ boot = "running"
<1> TypeInv /\ TypeOK /\ TypeOK'
  BY DEF TypeInv
<1> USE DEF store, process, disp, threads, history, bounds
<1>1. PICK r \in Run : r.id = tick /\ pending[r] > 0
  BY DEF Pending
<1>a. \A s \in Run : pending[s] \in Nat
  BY DEF TypeOK
<1>2. ~Restart
  BY DEF Restart, Crash, Exit, Gone
<1>3. CASE Environment
  <2>1. UNCHANGED pending
    BY <1>3 DEF Environment, Tick, Shutdown, DispatchDone, New
  <2> QED
    BY <1>1, <2>1 DEF Pending
<1>4. CASE Dispatching
  <2>1. CASE Claim
    <3>1. CASE UNCHANGED pending
      BY <1>1, <3>1 DEF Pending
    <3>2. ASSUME NEW s \in Run, next' = s, pending' = [pending EXCEPT ![s] = @ - 1], dpc' = "send"
          PROVE  Pending(tick)' \/ (Claimed(tick)' /\ boot = "running")
      <4>1. CASE s = r
        BY <1>1, <1>4, <3>2, <4>1 DEF Dispatching, Claimed
      <4>2. CASE s # r
        <5>1. pending'[r] = pending[r]
          BY <1>1, <3>2, <4>2 DEF TypeOK
        <5> QED
          BY <1>1, <5>1 DEF Pending
      <4> QED
        BY <4>1, <4>2
    <3> QED
      BY <2>1, <3>1, <3>2 DEF Claim, Dispatch
  <2>2. CASE Peek \/ Woken \/ TimerFires \/ \E w \in Workers : HandOff(w)
    BY <1>1, <2>2 DEF Peek, Woken, TimerFires, HandOff, Pending
  <2> QED
    BY <1>4, <2>1, <2>2 DEF Dispatching
<1>5. CASE \E t \in Threads : EngineStep(t)
  <2>1. PICK t \in Threads : EngineStep(t)
    BY <1>5
  <2>2. pending'[r] > 0
    <3>1. CASE Insert(t)
      <4>1. arg[t] \in Run /\ pending' = [pending EXCEPT ![arg[t]] = @ + 1]
        BY <3>1 DEF Insert, insert, Goto, TypeOK
      <4> QED
        BY <1>1, <1>a, <4>1 DEF TypeOK
    <3>2. CASE UNCHANGED pending
      BY <1>1, <3>2
    <3> QED
      BY <2>1, <3>1, <3>2 DEF EngineStep, AddIndexGet, AddIndexPut, PersistRun, Nudge, PutTombstone, AckGet, AckIndex, AckRun
  <2> QED
    BY <1>1, <2>2 DEF Pending
<1>6. CASE (\E w \in Workers : FlowStep(w)) \/ Every \/ UNCHANGED tvars
  <2>1. UNCHANGED pending
    BY <1>6 DEF FlowStep, Check, Fire, CaughtUp, Rearm, TickerEnds, TargetEnds, EnqueueID, EnqueueNoop,
       FlowReturns, FlowInterrupted, Every, tvars, vars
  <2> QED
    BY <1>1, <2>1 DEF Pending
<1>7. ASSUME NEW c \in Clients, CancelTicker(c) PROVE FALSE
  BY <1>7 DEF CancelTicker, Cancel
<1> QED
  BY <1>2, <1>3, <1>4, <1>5, <1>6, <1>7 DEF TickerNext

\* The flow keeps the token until the ticker is in the heap again.
LEMMA TokenKept ==
  ASSUME TickInv, TypeInv', ThreadInv', AliveInv, [TickerNext]_tvars, phase' = "up", boot = "running",
         tick \notin cancelled', faults' = 0, NEW w \in Workers, Token(w)
  PROVE  Token(w)' \/ Pending(tick)'
<1> TypeInv /\ TypeOK /\ ThreadsOK /\ TypeOK' /\ StageInv
  BY DEF TickInv, TypeInv, ThreadInv
<1>0. /\ w \in Threads /\ tick \notin tomb /\ ~Pending(tick) /\ faults = 0 /\ faults' = faults
      /\ tick \notin Fresh
  BY ClockMoves, MainIsAClient, ConstantsAssumption DEF AliveInv, TickInv, TokenInv, TypeOK
<1> USE DEF store, process, disp, threads, history, bounds, cron, past
<1>1. CASE UNCHANGED <<stage, pc, op, arg>>
  BY <1>1 DEF Token, Persists, Holds
<1>2. CASE Every \/ Environment \/ UNCHANGED tvars
  <2>1. CASE EnqueueID(main, tick, NextTick(now)) /\ UNCHANGED stage
    BY <1>0, <2>1, MainIsAClient DEF EnqueueID, Call, Token, Persists, Holds, TypeOK
  <2>2. CASE UNCHANGED <<stage, pc, op, arg>>
    BY <1>1, <2>2
  <2> QED
    BY <1>2, <2>1, <2>2 DEF Every, Environment, tvars, vars, Tick, Shutdown, New, DispatchDone
<1>3. CASE Restart
  BY <1>3 DEF Restart, Crash, Exit, Gone
<1>4. CASE Dispatching
  <2>1. CASE UNCHANGED stage /\ (Peek \/ Woken \/ TimerFires \/ Claim)
    BY <1>1, <2>1 DEF Peek, Woken, TimerFires, Claim
  <2>2. ASSUME NEW v \in Workers, HandOff(v), Enter(v, IF next.id = tick THEN "check" ELSE "none")
        PROVE  Token(w)'
    <3>1. v # w
      BY <1>0, <2>2 DEF HandOff, Goto, Token, Persists, PersistPC, Holds, Early, ThreadsOK, StageInv
    <3> QED
      BY <1>0, <2>2, <3>1 DEF HandOff, Goto, Enter, Token, Persists, Holds, TypeOK, StageInv
  <2> QED
    BY <1>4, <2>1, <2>2 DEF Dispatching
<1>5. ASSUME NEW t \in Threads, EngineStep(t) PROVE Token(w)' \/ Pending(tick)'
  <2>1. CASE Insert(t) /\ UNCHANGED cron
    <3>1. CASE t = w /\ arg[w].id = tick
      <4>1. arg[w] \in Run /\ pending' = [pending EXCEPT ![arg[w]] = @ + 1]
        BY <2>1, <3>1 DEF Insert, insert, Goto, TypeOK
      <4>2. pending'[arg[w]] > 0
        BY <4>1 DEF TypeOK
      <4> QED
        BY <3>1, <4>1, <4>2 DEF Pending
    <3>2. CASE ~(t = w /\ arg[w].id = tick)
      BY <1>0, <2>1, <3>2 DEF Insert, Goto, Token, Persists, Holds, TypeOK
    <3> QED
      BY <3>1, <3>2
  <2>2. CASE InCall(t) /\ Resume(t)
    <3>1. CASE t # w
      BY <1>0, <2>2, <3>1, CallMoves DEF Resume, Enter, GoesOn, IsOver, Return, Token, Persists, Holds, TypeOK, StageInv
    <3>2. CASE t = w /\ GoesOn(w)
      BY <1>0, <2>2, <3>2 DEF Resume, GoesOn, Token, Persists, Holds, PersistPC, AckPC, PCs, TypeOK
    <3>3. CASE t = w /\ IsOver(w)
      <4>1. stage[w] = "firing"
        <5>1. op[w] = "enqueue" => pc[w] = "nudge"
          BY <1>0, <3>3 DEF IsOver
        <5>2. pc[w] \notin {"flow", "idle"}
          BY <3>3 DEF IsOver
        <5> QED
          BY <1>0, <5>1, <5>2 DEF Token, Persists, PersistPC, Holds, Early, StageInv
      <4>2. stage'[w] \in {"fire", "rearm"}
        BY <1>0, <2>2, <3>3, <4>1 DEF IsOver, Return, Resume, Failed, Enter, TypeOK, StageInv
      <4> QED
        BY <4>2 DEF Token, Holds, Early
    <3> QED
      BY <2>2, <3>1, <3>2, <3>3, CallMoves
  <2> QED
    BY <1>5, <2>1, <2>2 DEF EngineStep, InCall
<1>6. ASSUME NEW v \in Workers, FlowStep(v) PROVE Token(w)'
  <2>1. CASE v # w
    <3>1. UNCHANGED <<stage[w], pc[w], op[w], arg[w]>>
      BY <1>0, <1>6, <2>1 DEF FlowStep, Check, Fire, CaughtUp, Rearm, TickerEnds, TargetEnds, Enter,
         EnqueueID, EnqueueNoop, Call, FlowReturns, FlowInterrupted, vars, TypeOK, StageInv
    <3> QED
      BY <3>1 DEF Token, Persists, Holds
  <2>2. CASE v = w
    <3>1. stage[w] \in Early /\ pc[w] = "flow"
      BY <1>0, <1>6, <2>2 DEF FlowStep, Check, Fire, CaughtUp, Rearm, TickerEnds, TargetEnds, Ticking, Running,
         FlowReturns, Token, Persists, PersistPC, Holds
    <3>2. CASE Check(w)
      BY <1>0, <3>2 DEF Check, Enter, Token, Holds, Early, StageInv
    <3>3. CASE Fire(w) \/ CaughtUp(w)
      BY <1>0, <3>3 DEF Fire, CaughtUp, Enter, Token, Holds, Early, StageInv
    <3>4. CASE Rearm(w)
      BY <1>0, <3>4 DEF Rearm, EnqueueNoop, EnqueueID, Call, Token, Persists, PersistPC, TypeOK
    <3>5. ~TickerEnds(w)
      BY <3>1 DEF TickerEnds, Early
    <3>6. ~TargetEnds(w)
      BY <3>1 DEF TargetEnds, StageInv, Early
    <3> QED
      BY <1>6, <2>2, <3>2, <3>3, <3>4, <3>5, <3>6 DEF FlowStep
  <2> QED
    BY <2>1, <2>2
<1>7. ASSUME NEW c \in Clients, CancelTicker(c) PROVE FALSE
  BY <1>7 DEF CancelTicker, Cancel
<1> QED
  BY <1>2, <1>3, <1>4, <1>5, <1>6, <1>7 DEF TickerNext

LEMMA NextAliveInv ==
  ASSUME TickInv, TickInv', AliveInv, [TickerNext]_tvars
  PROVE  AliveInv'
<1> TypeInv /\ TypeOK /\ ThreadsOK /\ TypeInv' /\ TypeOK' /\ ThreadsOK' /\ ThreadInv /\ ThreadInv'
    /\ MainInv /\ BootInv /\ StageInv /\ MainInv' /\ BootInv'
  BY DEF TickInv, TypeInv, ThreadInv
<1>1. (tomb \subseteq cancelled)' /\ \A t \in Threads : op'[t] \in {"cancel", "evict"} => tick \in cancelled'
  BY TombstoneMoves
<1> SUFFICES ASSUME tick \notin cancelled', faults' = 0
             PROVE  /\ boot' = "arming" /\ pc'[main] = "nudge" => Pending(tick)'
                    /\ boot' = "running" /\ phase' = "up" =>
                         Pending(tick)' \/ Claimed(tick)' \/ \E w \in Workers : Token(w)'
  BY <1>1 DEF AliveInv
<1>2. tick \notin cancelled /\ faults = 0
  BY ClockMoves, ConstantsAssumption DEF TypeOK
<1>3. ASSUME boot' = "arming", pc'[main] = "nudge" PROVE Pending(tick)'
  <2>1. ~Restart
    BY <1>3 DEF Restart
  <2>2. phase' # "down" /\ main \in Threads /\ main \notin Workers
    BY <1>3, MainIsAClient DEF BootInv
  <2>3. CASE pc[main] = "nudge"
    <3>1. boot = "arming" /\ phase # "down"
      BY <2>2, <2>3, MainIsAClient DEF MainInv, ThreadsOK, BootInv
    <3> QED
      BY <1>2, <2>2, <2>3, <3>1, HeapKept DEF AliveInv
  <2>4. CASE Insert(main)
    <3>1. op[main] = "enqueue" /\ pc[main] = "insert" /\ arg[main] \in Run
      BY <2>2, <2>4, MainIsAClient DEF Insert, Goto, ThreadsOK, TypeOK, PersistPC, MainInv
    <3>2. arg[main].id = tick /\ pending'[arg[main]] > 0
      BY <2>4, <3>1 DEF MainInv, Insert, insert, TypeOK
    <3> QED
      BY <3>1, <3>2 DEF Pending
  <2>5. CASE pc[main] # "nudge" /\ ~Insert(main)
    <3>1. CASE Every
      BY <1>3, <2>2, <2>5, <3>1 DEF Every, EnqueueID, Call, vars, threads, TypeOK
    <3>2. CASE Environment
      BY <1>3, <2>5, <3>2 DEF Environment, Tick, Shutdown, New, DispatchDone, threads
    <3>3. CASE Dispatching
      BY <1>3, <3>3 DEF Dispatching
    <3>4. ASSUME NEW t \in Threads, EngineStep(t) PROVE FALSE
      <4>1. CASE Insert(t)
        BY <1>3, <2>2, <2>5, <4>1 DEF Insert, Goto, TypeOK
      <4>2. CASE InCall(t)
        <5>1. GoesOn(t) \/ IsOver(t)
          BY <4>2, CallMoves
        <5>2. t = main
          BY <1>3, <2>2, <2>5, <5>1 DEF GoesOn, IsOver, Return, TypeOK
        <5>3. pc'[main] \notin PersistPC /\ op'[main] = "enqueue"
          BY <1>3 DEF MainInv, PersistPC
        <5>4. GoesOn(main) /\ op[main] = "enqueue" /\ pc[main] \notin PersistPC
          BY <2>2, <5>1, <5>2, <5>3 DEF GoesOn, IsOver, Return, TypeOK
        <5> QED
          BY <2>2, <2>5, <5>4 DEF GoesOn, ThreadsOK, TypeOK, PCs, PersistPC, AckPC
      <4> QED
        BY <3>4, <4>1, <4>2 DEF EngineStep, InCall
    <3>5. ASSUME NEW w \in Workers, FlowStep(w) PROVE FALSE
      BY <1>3, <2>2, <2>5, <3>5 DEF FlowStep, Check, Fire, CaughtUp, Rearm, TickerEnds, TargetEnds, EnqueueID,
         EnqueueNoop, Call, FlowReturns, FlowInterrupted, vars, threads, TypeOK
    <3>6. ASSUME NEW c \in Clients, CancelTicker(c) PROVE FALSE
      BY <3>6 DEF CancelTicker, Cancel
    <3>7. ~UNCHANGED tvars
      BY <1>3, <2>5 DEF tvars, vars, threads
    <3> QED
      BY <2>1, <3>1, <3>2, <3>3, <3>4, <3>5, <3>6, <3>7 DEF TickerNext
  <2> QED
    BY <2>3, <2>4, <2>5
<1>4. ASSUME boot' = "running", phase' = "up", boot # "running" PROVE Pending(tick)'
  <2>1. CASE Every
    <3>1. Pending(tick) /\ UNCHANGED vars
      BY <1>4, <2>1 DEF Every
    <3> QED
      BY <3>1 DEF Pending, vars, process
  <2>2. ASSUME NEW t \in Threads, EngineStep(t) PROVE Pending(tick)'
    <3>1. InCall(t) /\ t = main /\ boot = "arming" /\ pc'[main] = "idle"
      BY <1>4, <2>2 DEF EngineStep, InCall, Booted, cron
    <3>2. IsOver(main) /\ UNCHANGED Elsewhere /\ op[main] = "enqueue"
      BY <3>1, CallMoves, MainIsAClient DEF GoesOn, MainInv
    <3>3. pc[main] = "nudge"
      BY <1>2, <3>2 DEF IsOver
    <3> QED
      BY <1>2, <3>1, <3>2, <3>3 DEF AliveInv, Elsewhere, Pending
  <2> QED
    BY <1>4, <2>1, <2>2 DEF TickerNext, Dispatching, Restart, Environment, FlowStep, Check, Fire, CaughtUp, Rearm,
       TickerEnds, TargetEnds, CancelTicker, cron, tvars
<1>5. ASSUME boot' = "running", phase' = "up", boot = "running"
      PROVE  Pending(tick)' \/ Claimed(tick)' \/ \E w \in Workers : Token(w)'
  <2>1. phase = "up"
    <3>1. phase # "down"
      BY <1>5 DEF BootInv
    <3>2. CASE [Next]_vars /\ phase = "stopping"
      BY <1>5, <3>2 DEF Next, CallStep, FlowEnds, DispatchStep, vars, process,
         EnqueueID, EnqueueNoop, Cancel, AddIndexGet, AddIndexPut, PersistRun, Insert, Nudge,
         PutTombstone, AckGet, AckIndex, AckRun, FlowReturns, FlowYields, FlowInterrupted,
         UnknownFlow, Peek, Woken, TimerFires, Claim, HandOff, DispatchDone, Tick, Shutdown, Exit, Crash, Gone, New
    <3>3. CASE FaultOnly
      BY <1>5, <3>3 DEF FaultOnly, process
    <3> QED
      BY <3>1, <3>2, <3>3, EngineBelow DEF TypeOK
  <2>2. CASE Pending(tick)
    BY <1>5, <2>1, <2>2, HeapKept
  <2>3. CASE Claimed(tick)
    <3>1. CASE UNCHANGED <<dpc, next>>
      BY <2>3, <3>1 DEF Claimed
    <3>2. CASE \E w \in Workers : HandOff(w) /\ Enter(w, IF next.id = tick THEN "check" ELSE "none")
      <4>1. PICK w \in Workers : HandOff(w) /\ Enter(w, IF next.id = tick THEN "check" ELSE "none")
        BY <3>2
      <4>2. stage'[w] = "check"
        BY <2>3, <4>1 DEF Claimed, Enter, StageInv
      <4> QED
        BY <4>1, <4>2 DEF Token, Holds, Early
    <3>3. CASE Every \/ Environment \/ Restart
      BY <1>5, <2>1, <2>3, <3>3 DEF Every, Environment, Restart, EnqueueID, Tick, Shutdown, New, DispatchDone,
         Crash, Exit, Gone, Claimed, process, disp, vars
    <3>4. CASE Peek \/ Woken \/ TimerFires \/ Claim
      BY <2>3, <3>4 DEF Peek, Woken, TimerFires, Claim, Dispatch, Claimed
    <3>5. ASSUME NEW t \in Threads, EngineStep(t) PROVE UNCHANGED <<dpc, next>>
      BY <3>5 DEF EngineStep, Insert, AddIndexGet, AddIndexPut, PersistRun, Nudge, PutTombstone, AckGet, AckIndex,
         AckRun, process, disp
    <3>7. ASSUME NEW w \in Workers, FlowStep(w) PROVE UNCHANGED <<dpc, next>>
      BY <3>7 DEF FlowStep, Check, Fire, CaughtUp, Rearm, TickerEnds, TargetEnds, EnqueueID, EnqueueNoop,
         FlowReturns, FlowInterrupted, vars, process, disp
    <3>8. ASSUME NEW c \in Clients, CancelTicker(c) PROVE UNCHANGED <<dpc, next>>
      BY <3>8 DEF CancelTicker, Cancel, disp
    <3>6. CASE UNCHANGED tvars
      BY <3>1, <3>6 DEF tvars, vars, process, disp
    <3> QED
      BY <3>1, <3>2, <3>3, <3>4, <3>5, <3>6, <3>7, <3>8 DEF TickerNext, Dispatching
  <2>4. ASSUME NEW w \in Workers, Token(w) PROVE Pending(tick)' \/ \E u \in Workers : Token(u)'
    BY <1>5, <2>4, TokenKept
  <2> QED
    BY <1>2, <1>5, <2>1, <2>2, <2>3, <2>4 DEF AliveInv
<1> QED
  BY <1>3, <1>4, <1>5

LEMMA AliveInvariant == TickerSpec => []AliveInv
<1>1. TickerInit => AliveInv
  BY DEF TickerInit, Init, AliveInv
<1>2. TickInv /\ TickInv' /\ AliveInv /\ [TickerNext]_tvars => AliveInv'
  BY NextAliveInv
<1> QED
  BY <1>1, <1>2, TickerInvariant, PTL DEF TickerSpec

\* While the process runs and the Store answers, a schedule nobody cancelled is
\* always queued, on its way to a worker, or executing and yet to re-arm itself.
THEOREM SchedulesLiveOn == TickerSpec => []TickerAlive
<1>1. TickInv /\ AliveInv => TickerAlive
  <2> SUFFICES ASSUME TickInv, AliveInv, phase = "up", boot = "running", tick \notin cancelled, faults = 0
               PROVE  \/ Queued(tick) \/ Claimed(tick)
                      \/ \E w \in Workers : Carries(w, tick) /\ op[w] # "settle" /\ stage[w] \notin {"none", "return"}
    BY DEF TickerAlive
  <2> ThreadsOK /\ StageInv
    BY DEF TickInv, TypeInv, ThreadInv
  <2>1. ASSUME NEW w \in Workers, Token(w)
        PROVE  Carries(w, tick) /\ op[w] # "settle" /\ stage[w] \notin {"none", "return"}
    <3>1. w \in Threads
      BY MainIsAClient
    <3>2. CASE Persists(w)
      BY <3>1, <3>2 DEF Persists, Carries, StageInv
    <3>3. CASE Holds(w)
      BY <3>1, <3>3 DEF Holds, Early, Carries, StageInv, ThreadsOK, AckPC
    <3> QED
      BY <2>1, <3>2, <3>3 DEF Token
  <2> QED
    BY <2>1 DEF AliveInv, Queued
<1> QED
  BY <1>1, TickerInvariant, AliveInvariant, PTL

-----------------------------------------------------------------------------
(* A Cancel that has returned has left a tombstone, and an execution that  *)
(* begins after it finds the tombstone.                                    *)

TombInv ==
  /\ late \subseteq Workers
  /\ faults = 0 =>
       /\ \A t \in Threads : op[t] \in {"cancel", "evict"} /\ pc[t] # "tombstone" => tick \in tomb
       /\ stopped => tick \in tomb
       /\ \A w \in late : stopped /\ stage[w] \in {"none", "check"}

\* Nobody is late who was not, but a worker that receives the cancelled ticker.
LEMMA LateMoves ==
  ASSUME TypeInv, TypeInv', ThreadInv, [TickerNext]_tvars
  PROVE  /\ stopped => stopped'
         /\ \A w \in late' : w \in late \/ (w \in Workers /\ stopped /\ stage'[w] = "check")
<1> USE DEF cron, past, ThreadInv, StageInv
<1>1. CASE Every \/ Environment \/ Restart \/ UNCHANGED tvars
  BY <1>1 DEF Every, Environment, Restart, tvars
<1>2. CASE Dispatching
  BY <1>2 DEF Dispatching, Enter
<1>3. ASSUME NEW t \in Threads, EngineStep(t) PROVE (stopped => stopped') /\ UNCHANGED late
  <2>1. UNCHANGED late
    BY <1>3 DEF EngineStep
  <2>2. stopped => stopped'
    BY <1>3, Zenon DEF EngineStep
  <2> QED
    BY <2>1, <2>2
<1>4. ASSUME NEW w \in Workers, FlowStep(w) PROVE UNCHANGED <<stopped, late>>
  BY <1>4 DEF FlowStep, Check, Fire, CaughtUp, Rearm, TickerEnds, TargetEnds
<1>5. ASSUME NEW c \in Clients, CancelTicker(c) PROVE UNCHANGED <<stopped, late>>
  BY <1>5 DEF CancelTicker
<1> QED
  BY <1>1, <1>2, <1>3, <1>4, <1>5 DEF TickerNext

LEMMA NextTombInv ==
  ASSUME TypeInv, TypeInv', ThreadInv, ThreadInv', TombInv, [TickerNext]_tvars
  PROVE  TombInv'
<1> TypeInv /\ TypeOK /\ ThreadsOK /\ TypeOK' /\ MainInv
  BY DEF TypeInv, ThreadInv
<1>a. late' \subseteq Workers
  BY LateMoves DEF TombInv
<1> SUFFICES ASSUME faults' = 0
             PROVE  /\ \A t \in Threads : op'[t] \in {"cancel", "evict"} /\ pc'[t] # "tombstone" => tick \in tomb'
                    /\ stopped' => tick \in tomb'
                    /\ \A w \in late' : stopped' /\ stage'[w] \in {"none", "check"}
  BY <1>a DEF TombInv
<1>0. faults = 0 /\ faults' = faults /\ faults + 1 # faults
  BY ClockMoves, ConstantsAssumption DEF TypeOK
<1>1. /\ \A t \in Threads : op[t] \in {"cancel", "evict"} /\ pc[t] # "tombstone" => tick \in tomb
      /\ stopped => tick \in tomb
      /\ \A w \in late : stopped /\ stage[w] \in {"none", "check"}
  BY <1>0 DEF TombInv
<1>2. /\ \A t \in Threads : op'[t] \in {"cancel", "evict"} /\ pc'[t] # "tombstone" => tick \in tomb'
      /\ stopped' => tick \in tomb'
  <2> USE DEF store, process, disp, threads, history, bounds, cron, past
  <2>1. CASE Every \/ Environment \/ Dispatching
    BY <1>1, <2>1 DEF Every, EnqueueID, Call, Environment, Tick, Shutdown, New, DispatchDone, vars,
       Dispatching, Peek, Woken, TimerFires, Claim, HandOff, Goto, TypeOK
  <2>2. CASE Restart
    BY <1>1, <2>2 DEF Restart, Crash, Exit, Gone
  <2>3. ASSUME NEW t \in Threads, EngineStep(t)
        PROVE  /\ \A u \in Threads : op'[u] \in {"cancel", "evict"} /\ pc'[u] # "tombstone" => tick \in tomb'
               /\ stopped' => tick \in tomb'
    <3>1. CASE Insert(t) /\ UNCHANGED stopped
      BY <1>1, <3>1 DEF Insert, Goto, TypeOK
    <3>2. CASE InCall(t) /\ stopped' = (stopped \/ (pc[t] = "nudge" /\ op[t] \in {"cancel", "evict"}))
      <4>1. tomb \subseteq tomb'
        BY <3>2 DEF InCall, AddIndexGet, AddIndexPut, PersistRun, Nudge, PutTombstone, AckGet, AckIndex, AckRun
      <4>2. stopped' => tick \in tomb'
        BY <1>1, <3>2, <4>1
      <4>3. ASSUME NEW u \in Threads, op'[u] \in {"cancel", "evict"}, pc'[u] # "tombstone" PROVE tick \in tomb'
        <5>1. op[u] \in {"cancel", "evict"} /\ (u # t => pc'[u] = pc[u])
          BY <3>2, <4>3, CallMoves DEF GoesOn, IsOver, Return, TypeOK
        <5>2. CASE pc[u] # "tombstone"
          BY <1>1, <4>1, <5>1, <5>2
        <5>3. CASE u = t /\ pc[t] = "tombstone"
          <6>1. PutTombstone(t) /\ arg[t].id = tick
            BY <3>2, <5>1, <5>3 DEF InCall, AddIndexGet, AddIndexPut, PersistRun, Nudge, AckGet, AckIndex, AckRun,
               Goto, MainInv
          <6> QED
            BY <1>0, <6>1 DEF PutTombstone, StoreFails
        <5> QED
          BY <4>3, <5>1, <5>2, <5>3
      <4> QED
        BY <4>2, <4>3
    <3> QED
      BY <2>3, <3>1, <3>2 DEF EngineStep, InCall
  <2>4. ASSUME NEW w \in Workers, FlowStep(w)
        PROVE  /\ \A u \in Threads : op'[u] \in {"cancel", "evict"} /\ pc'[u] # "tombstone" => tick \in tomb'
               /\ stopped' => tick \in tomb'
    <3>1. UNCHANGED <<tomb, stopped>>
      BY <2>4 DEF FlowStep, Check, Fire, CaughtUp, Rearm, TickerEnds, TargetEnds, EnqueueID, EnqueueNoop,
         FlowReturns, FlowInterrupted, vars
    <3>2. \A u \in Threads : op'[u] \in {"cancel", "evict"} => op[u] \in {"cancel", "evict"} /\ pc'[u] = pc[u]
      BY <2>4, MainIsAClient DEF FlowStep, Check, Fire, CaughtUp, Rearm, TickerEnds, TargetEnds, Ticking, Running,
         EnqueueID, EnqueueNoop, MayCall, Call, FlowReturns, FlowInterrupted, vars, TypeOK, ThreadsOK
    <3> QED
      BY <1>1, <3>1, <3>2
  <2>5. ASSUME NEW c \in Clients, CancelTicker(c)
        PROVE  /\ \A u \in Threads : op'[u] \in {"cancel", "evict"} /\ pc'[u] # "tombstone" => tick \in tomb'
               /\ stopped' => tick \in tomb'
    BY <1>1, <2>5, TickerAssumption DEF CancelTicker, Cancel, Call, TypeOK
  <2>6. CASE UNCHANGED tvars
    BY <1>1, <2>6 DEF tvars, vars
  <2> QED
    BY <2>1, <2>2, <2>3, <2>4, <2>5, <2>6 DEF TickerNext
<1>3. ASSUME NEW w \in late' PROVE stopped' /\ stage'[w] \in {"none", "check"}
  <2>1. CASE stopped /\ stage'[w] = "check"
    BY <2>1, LateMoves
  <2>2. CASE w \in late
    BY <1>0, <1>1, <1>a, <2>2, LateMoves, FlowMoves DEF FlowMove
  <2> QED
    BY <1>3, <2>1, <2>2, LateMoves
<1> QED
  BY <1>2, <1>3

\* While the Store answers, an execution that begins after a Cancel has returned
\* enqueues neither the target nor the ticker.
THEOREM CancelledSchedulesStop == TickerSpec => CancelledStops
<1>1. TickerInit => TombInv
  BY DEF TickerInit, Init, TombInv
<1>2. TickInv /\ TickInv' /\ TombInv /\ [TickerNext]_tvars => TombInv'
  BY NextTombInv DEF TickInv
<1>3. TickInv /\ TickInv' /\ TombInv /\ [TickerNext]_tvars
        => [faults' = 0 => \A w \in late : stage'[w] \notin {"firing", "rearming"}]_tvars
  <2> SUFFICES ASSUME TickInv, TickInv', TombInv, [TickerNext]_tvars, faults' = 0, NEW w \in late
               PROVE  UNCHANGED tvars \/ stage'[w] \notin {"firing", "rearming"}
    OBVIOUS
  <2>1. faults = 0
    BY ClockMoves, ConstantsAssumption DEF TickInv, TypeInv, TypeOK
  <2> QED
    BY <2>1, FlowMoves DEF FlowMove, TombInv, TickInv
<1> QED
  BY <1>1, <1>2, <1>3, TickerInvariant, PTL DEF TickerSpec, CancelledStops

-----------------------------------------------------------------------------
(* Every tick is one schedule.next answers with, wherever it is.           *)

TicksInv ==
  /\ record[tick] # NoRun => record[tick].wake \in Ticks
  /\ \A r \in Run : r.id = tick /\ pending[r] > 0 => r.wake \in Ticks
  /\ Claimed(tick) => next.wake \in Ticks
  /\ \A t \in Threads : Persists(t) => arg[t].wake \in Ticks
  /\ \A w \in Workers :
       /\ held[w] # NoRun /\ held[w].id = tick => held[w].wake \in Ticks
       /\ stage[w] \in {"fire", "firing"} => cursor[w] \in Ticks
  /\ fired \subseteq Ticks /\ armed \in 0..Never /\ stopped \in BOOLEAN

\* The record of the ticker is written by the thread that persists it.
LEMMA RecordMoves ==
  ASSUME TypeInv, ThreadInv, [TickerNext]_tvars
  PROVE  \/ record'[tick] \in {record[tick], NoRun}
         \/ \E t \in Threads : Persists(t) /\ record'[tick] = arg[t]
<1> TypeInv /\ TypeOK /\ ThreadsOK /\ StageInv
  BY DEF TypeInv, ThreadInv
<1>0. tick \in Ids
  BY MainIsAClient
<1> USE DEF store, process, disp, threads, history, bounds, cron, past
<1>1. CASE Every \/ Environment \/ Dispatching \/ Restart \/ UNCHANGED tvars
  BY <1>1 DEF Every, EnqueueID, Environment, Tick, Shutdown, New, DispatchDone, vars, tvars,
     Dispatching, Peek, Woken, TimerFires, Claim, HandOff, Restart, Crash, Exit, Gone
<1>2. ASSUME NEW t \in Threads, EngineStep(t)
      PROVE  record'[tick] \in {record[tick], NoRun} \/ (Persists(t) /\ record'[tick] = arg[t])
  <2>1. CASE PersistRun(t)
    <3>1. op[t] = "enqueue" /\ pc[t] = "putRun"
      BY <2>1, MainIsAClient DEF PersistRun, ThreadsOK, PersistPC, StageInv, Threads
    <3> QED
      BY <1>0, <2>1, <3>1 DEF PersistRun, Persists, PersistPC, TypeOK
  <2>2. CASE AckRun(t)
    BY <1>0, <2>2 DEF AckRun, TypeOK
  <2>3. CASE ~PersistRun(t) /\ ~AckRun(t)
    BY <1>2, <2>3 DEF EngineStep, Insert, AddIndexGet, AddIndexPut, Nudge, PutTombstone, AckGet, AckIndex
  <2> QED
    BY <2>1, <2>2, <2>3
<1>3. ASSUME NEW w \in Workers, FlowStep(w) PROVE UNCHANGED record
  BY <1>3 DEF FlowStep, Check, Fire, CaughtUp, Rearm, TickerEnds, TargetEnds, EnqueueID, EnqueueNoop,
     FlowReturns, FlowInterrupted, vars
<1>4. ASSUME NEW c \in Clients, CancelTicker(c) PROVE UNCHANGED record
  BY <1>4 DEF CancelTicker, Cancel
<1> QED
  BY <1>1, <1>2, <1>3, <1>4 DEF TickerNext

\* armed follows the ticks that are inserted.
LEMMA ArmedMoves ==
  ASSUME TypeInv, ThreadInv, TicksInv, [TickerNext]_tvars
  PROVE  armed' \in 0..Never /\ stopped' \in BOOLEAN
<1> TypeInv /\ TypeOK
  BY DEF TypeInv
<1>0. Never \in 0..Never /\ \A r \in Run : r.wake \in 0..Never
  BY ConstantsAssumption DEF Never, Run, Time
<1> USE DEF cron, past, TicksInv
<1>1. CASE Every \/ Environment \/ Dispatching \/ Restart \/ UNCHANGED tvars
  BY <1>1 DEF Every, Environment, Dispatching, Restart, tvars
<1>2. ASSUME NEW t \in Threads, EngineStep(t) PROVE armed' \in 0..Never /\ stopped' \in BOOLEAN
  <2>1. CASE Insert(t) /\ armed' = IF arg[t].id = tick /\ arg[t].wake < armed THEN arg[t].wake ELSE armed
    <3>1. arg[t] \in Run
      BY <2>1 DEF Insert, Goto, TypeOK
    <3>2. armed' \in 0..Never
      BY <1>0, <2>1, <3>1
    <3>3. stopped' \in BOOLEAN
      BY <1>2 DEF EngineStep
    <3> QED
      BY <3>2, <3>3
  <2>2. CASE Resume(t) /\ stopped' = (stopped \/ (pc[t] = "nudge" /\ op[t] \in {"cancel", "evict"}))
    BY <1>0, <2>2 DEF Resume
  <2> QED
    BY <1>2, <2>1, <2>2 DEF EngineStep
<1>3. ASSUME NEW w \in Workers, FlowStep(w) PROVE UNCHANGED <<armed, stopped>>
  BY <1>3 DEF FlowStep, Check, Fire, CaughtUp, Rearm, TickerEnds, TargetEnds
<1>4. ASSUME NEW c \in Clients, CancelTicker(c) PROVE armed' \in 0..Never /\ UNCHANGED stopped
  BY <1>0, <1>4 DEF CancelTicker
<1> QED
  BY <1>1, <1>2, <1>3, <1>4 DEF TickerNext

LEMMA NextTicksInv ==
  ASSUME TypeInv, TypeInv', ThreadInv, TicksInv, [TickerNext]_tvars
  PROVE  TicksInv'
<1> TypeInv /\ TypeOK /\ TypeOK' /\ StageInv
  BY DEF TypeInv, ThreadInv
<1>0. /\ tick \in Ids /\ now \in 0..Never /\ \A w \in Workers : w \in Threads /\ cursor[w] \in 0..Never
      /\ \A t \in Threads : Persists(t) => arg[t] \in Run
  BY MainIsAClient, ConstantsAssumption DEF TypeOK, Time, Never, StageInv, Persists, PersistPC
<1>1. record'[tick] # NoRun => record'[tick].wake \in Ticks
  BY RecordMoves DEF TicksInv
<1>2. ASSUME NEW r \in Run, r.id = tick, pending'[r] > 0 PROVE r.wake \in Ticks
  BY <1>2, HeapMoves, ConstantsAssumption DEF TicksInv
<1>3. ASSUME Claimed(tick)' PROVE next'.wake \in Ticks
  <2>1. CASE UNCHANGED <<dpc, next>>
    BY <1>3, <2>1 DEF TicksInv, Claimed
  <2>2. CASE Claim
    <3>1. PICK r \in Run : pending[r] > 0 /\ next' = r
      BY <1>3, <2>2 DEF Claim, Dispatch, Claimed, Head
    <3> QED
      BY <1>3, <3>1 DEF TicksInv, Claimed
  <2> QED
    BY <1>3, <2>1, <2>2, DispatcherMoves DEF Claimed, Peek, Dispatch
<1>4. ASSUME NEW t \in Threads, Persists(t)' PROVE arg'[t].wake \in Ticks
  <2>1. NextTick(now) \in Time => NextTick(now) \in Ticks
    BY <1>0, NextTickIs
  <2> QED
    BY <1>4, <2>1, PersistMoves DEF TicksInv
<1>5. ASSUME NEW w \in Workers, held'[w] # NoRun, held'[w].id = tick PROVE held'[w].wake \in Ticks
  BY <1>5, HeldMoves DEF TicksInv, Claimed
<1>6. ASSUME NEW w \in Workers, stage'[w] \in {"fire", "firing"} PROVE cursor'[w] \in Ticks
  <2>1. NextTick(cursor[w]) \in Time => NextTick(cursor[w]) \in Ticks
    BY <1>0, NextTickIs
  <2> QED
    BY <1>6, <2>1, FlowMoves DEF FlowMove, TicksInv, StageInv
<1>7. fired' \subseteq Ticks
  BY FiredMoves DEF TicksInv
<1> QED
  BY <1>1, <1>2, <1>3, <1>4, <1>5, <1>6, <1>7, ArmedMoves DEF TicksInv

\* The ticker's own variables keep their types: above all, the target is only
\* ever enqueued for a match of the crontab, or for the instant parked a year out
\* when no match precedes it by a year.
THEOREM TicksAreMatches == TickerSpec => []TickerTypeOK
<1>1. TickerInit => TicksInv /\ TombInv
  <2> SUFFICES ASSUME TickerInit PROVE TicksInv /\ TombInv
    OBVIOUS
  <2>1. record[tick] # NoRun => record[tick].wake \in Ticks
    <3>1. record[tick] # NoRun => record[tick].wake = 0 /\ tick \in Seeded
      BY MainIsAClient DEF TickerInit, Init
    <3> QED
      BY <3>1, TickerAssumption DEF Ticks
  <2>2. Never \in 0..Never
    BY ConstantsAssumption DEF Never
  <2>3. /\ \A r \in Run : pending[r] = 0
        /\ dpc = "stopped" /\ fired = {} /\ \A t \in Threads : ~Persists(t)
        /\ \A w \in Workers : held[w] = NoRun /\ stage[w] = "none"
    BY MainIsAClient DEF TickerInit, Init, Persists
  <2>4. armed \in 0..Never /\ stopped \in BOOLEAN
    BY <2>2 DEF TickerInit
  <2>5. TicksInv
    BY <2>1, <2>3, <2>4 DEF TicksInv, Claimed
  <2>6. TombInv
    BY DEF TickerInit, Init, TombInv
  <2> QED
    BY <2>5, <2>6
<1>2. TickInv /\ TickInv' /\ TicksInv /\ TombInv /\ [TickerNext]_tvars => TicksInv' /\ TombInv'
  BY NextTicksInv, NextTombInv DEF TickInv
<1>3. TickInv /\ TicksInv /\ TombInv => TickerTypeOK
  BY DEF TickInv, ThreadInv, BootInv, StageInv, TicksInv, TombInv, TickerTypeOK
<1> QED
  BY <1>1, <1>2, <1>3, TickerInvariant, PTL DEF TickerSpec
=============================================================================
