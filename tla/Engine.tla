------------------------------- MODULE Engine -------------------------------
(***************************************************************************)
(* The durable job engine of pkg/engine: the pending heap, the persisted   *)
(* index and run records, the dispatcher, the worker pool, and the public  *)
(* calls EnqueueID and Cancel.                                             *)
(*                                                                         *)
(* A step is one critical section under e.mu, one Store call, or one       *)
(* channel operation, so that every interleaving the goroutines can        *)
(* produce is a behaviour of this specification.  A flow is left open: it  *)
(* may enqueue, cancel, return, or yield (durable Sleep, long backoff).    *)
(*                                                                         *)
(* An operator marked FAULT is a plausible mistake in the action after it  *)
(* and no part of the specification: the property it names rejects it.     *)
(***************************************************************************)
EXTENDS Naturals

CONSTANTS
  Fresh,        \* run IDs minted by Enqueue (uuid.NewString): used once
  Named,        \* run IDs chosen by the caller of EnqueueID: may recur
  Tickers,      \* the Named IDs carrying tickPrefix
  Renamed,      \* IDs whose flow a later binary may not register
  Seeded,       \* IDs an earlier life of the process left enqueued
  Clients,      \* goroutines calling the API from outside any flow
  Workers,      \* the n goroutines of Run
  Horizon,      \* bound: the last instant of the clock
  MaxAttempt,   \* bound: how often one run may yield
  MaxCalls,     \* bound: EnqueueID and Cancel calls
  MaxRestarts,  \* bound: crashes and graceful shutdowns
  MaxFaults,    \* bound: Store calls that return an error
  NoRun         \* the zero Run, and a record that is absent or "null"

Ids     == Fresh \cup Named
Threads == Clients \cup Workers
Time    == 0..Horizon
Run     == [id : Ids, wake : Time, attempt : 0..MaxAttempt]

ASSUME ConstantsAssumption ==
  /\ Fresh \cap Named = {} /\ Tickers \subseteq Named /\ Renamed \cup Seeded \subseteq Ids
  /\ Clients \cap Workers = {}
  /\ {Horizon, MaxAttempt, MaxCalls, MaxRestarts, MaxFaults} \subseteq Nat
  /\ NoRun \notin Run

VARIABLES
  (* the Store, which survives the process *)
  index,     \* runs/index
  record,    \* run/<id>
  tomb,      \* the IDs with a cancelled/<id> key
  (* the process *)
  phase,     \* "up", "stopping" (ctx cancelled) or "down"
  pending,   \* e.pending, the heap as a bag: how many entries equal each Run
  wake,      \* e.wake, the channel of capacity one, holds its token
  missing,   \* IDs whose flow name is not in e.flows
  dpc, next, \* the dispatcher: where it stands and the run it looks at
  (* each thread *)
  pc,        \* where it stands
  op,        \* the engine call it is in
  arg,       \* the Run that call is about
  snap,      \* the index as that call read it
  held,      \* the run a worker has taken from the ready channel
  now,       \* e.now
  (* history: what has happened to an ID, for the properties only *)
  used, listed, cancelled, returned, settled,
  (* the bounds' counters *)
  calls, restarts, faults

store   == <<index, record, tomb>>
disp    == <<dpc, next>>
process == <<phase, pending, wake, missing, disp>>
threads == <<pc, op, arg, snap, held>>
history == <<used, listed, cancelled, returned, settled>>
bounds  == <<calls, restarts, faults>>
vars    == <<store, process, threads, now, history, bounds>>

PersistPC == {"getIndex", "putIndex", "putRun", "insert"}
AckPC     == {"ackGet", "ackIndex", "ackRun"}
PCs       == {"idle", "flow", "nudge", "tombstone"} \cup PersistPC \cup AckPC
Ops       == {"none", "enqueue", "requeue", "settle", "cancel", "evict"}

TypeOK ==
  /\ index \subseteq Ids /\ tomb \subseteq Ids /\ missing \subseteq Ids
  /\ record \in [Ids -> Run \cup {NoRun}]
  /\ phase \in {"up", "stopping", "down"}
  /\ pending \in [Run -> Nat]
  /\ wake \in BOOLEAN
  /\ dpc \in {"peek", "empty", "timed", "due", "send", "stopped"}
  /\ next \in Run \cup {NoRun} /\ (dpc \in {"timed", "due", "send"} => next \in Run)
  /\ pc \in [Threads -> PCs] /\ op \in [Threads -> Ops]
  /\ arg \in [Threads -> Run \cup {NoRun}] /\ held \in [Threads -> Run \cup {NoRun}]
  /\ snap \in [Threads -> SUBSET Ids]
  /\ \A t \in Threads : pc[t] \notin {"idle", "flow"} => arg[t] \in Run
  /\ \A t \in Threads : pc[t] = "flow" => held[t] \in Run
  /\ now \in Time
  /\ {used, listed, cancelled, returned, settled} \subseteq SUBSET Ids
  /\ calls \in 0..MaxCalls /\ restarts \in 0..MaxRestarts /\ faults \in 0..MaxFaults

-----------------------------------------------------------------------------
(* The pending heap. *)

Pending(id) == \E r \in Run : r.id = id /\ pending[r] > 0

\* FAULT (TypeOK): the heap is popped without a look at its length.
HeadUnchecked(r) == \A s \in Run : pending[s] > 0 => r.wake <= s.wake

\* r is at the top of the heap; among equal Wakes the heap's order is open.
Head(r) == /\ pending[r] > 0
           /\ \A s \in Run : pending[s] > 0 => r.wake <= s.wake

insert(r) == pending' = [pending EXCEPT ![r] = @ + 1]

(* Threads. *)

Goto(t, from, to) == pc[t] = from /\ pc' = [pc EXCEPT ![t] = to]

\* The thread's engine call returns, to the flow that made it or to its caller;
\* a worker whose call settles or requeues its run is then free.
Return(t) ==
  /\ pc' = [pc EXCEPT ![t] = IF t \in Workers /\ op[t] \in {"enqueue", "cancel", "evict"}
                               THEN "flow" ELSE "idle"]
  /\ op' = [op EXCEPT ![t] = "none"]
  /\ arg' = [arg EXCEPT ![t] = NoRun]
  /\ snap' = [snap EXCEPT ![t] = {}]
  /\ held' = [held EXCEPT ![t] = IF op[t] \in {"requeue", "settle"} THEN NoRun ELSE @]

\* The worker is inside the flow of the run it holds.
Running(w) == w \in Workers /\ pc[w] = "flow" /\ held[w].id \notin missing

\* A thread that may make an engine call: a client, or a flow.
MayCall(t) ==
  /\ phase # "down"
  /\ IF t \in Workers THEN Running(t) ELSE pc[t] = "idle"
  /\ calls < MaxCalls
  /\ calls' = calls + 1

\* The thread enters one of the calls below.
Call(t, step, kind, r) ==
  /\ pc' = [pc EXCEPT ![t] = step]
  /\ op' = [op EXCEPT ![t] = kind]
  /\ arg' = [arg EXCEPT ![t] = r]

StoreOK    == UNCHANGED faults
StoreFails == faults < MaxFaults /\ faults' = faults + 1

-----------------------------------------------------------------------------
(* EnqueueID: look for the ID in the heap, unlock, persist, insert, nudge. *)

EnqueueID(t, id, when) ==
  /\ MayCall(t)
  /\ id \in Fresh => id \notin used
  /\ ~Pending(id)
  /\ Call(t, "getIndex", "enqueue", [id |-> id, wake |-> when, attempt |-> 0])
  /\ used' = used \cup {id}
  /\ UNCHANGED <<store, process, snap, held, now, listed, cancelled, returned,
                 settled, restarts, faults>>

\* The ID is already pending: the call is a no-op.
EnqueueNoop(t, id) ==
  /\ MayCall(t)
  /\ id \in Named /\ Pending(id)
  /\ UNCHANGED <<store, process, threads, now, history, restarts, faults>>

\* addIndex reads the index; an ID already in it is not written again.
AddIndexGet(t) ==
  /\ pc[t] = "getIndex"
  /\ \/ /\ StoreOK
        /\ Goto(t, "getIndex", IF arg[t].id \in index THEN "putRun" ELSE "putIndex")
        /\ snap' = [snap EXCEPT ![t] = index]
        /\ UNCHANGED <<op, arg, held>>
     \/ StoreFails /\ Return(t)
  /\ UNCHANGED <<store, process, now, history, calls, restarts>>

\* FAULT (Durable): the index written back is the new ID alone.
AddIndexPutAlone(t) ==
  /\ Goto(t, "putIndex", "putRun")
  /\ index' = {arg[t].id}
  /\ UNCHANGED <<record, tomb, process, op, arg, snap, held, now, history, bounds>>

AddIndexPut(t) ==
  /\ pc[t] = "putIndex"
  /\ \/ /\ StoreOK
        /\ Goto(t, "putIndex", "putRun")
        /\ index' = snap[t] \cup {arg[t].id}
        /\ UNCHANGED <<op, arg, snap, held>>
     \/ StoreFails /\ Return(t) /\ UNCHANGED index
  /\ UNCHANGED <<record, tomb, process, now, history, calls, restarts>>

\* FAULT (RecordBacksRun): a record that is already there is not rewritten.
PersistRunOnce(t) ==
  /\ Goto(t, "putRun", "insert")
  /\ record' = [record EXCEPT ![arg[t].id] = IF @ = NoRun THEN arg[t] ELSE @]
  /\ UNCHANGED <<index, tomb, process, op, arg, snap, held, now, history, bounds>>

PersistRun(t) ==
  /\ pc[t] = "putRun"
  /\ \/ /\ StoreOK
        /\ Goto(t, "putRun", "insert")
        /\ record' = [record EXCEPT ![arg[t].id] = arg[t]]
        /\ UNCHANGED <<op, arg, snap, held>>
     \/ StoreFails /\ Return(t) /\ UNCHANGED record
  /\ UNCHANGED <<index, tomb, process, now, history, calls, restarts>>

\* The run enters the heap; a requeueing worker has let go of it.
Insert(t) ==
  /\ Goto(t, "insert", "nudge")
  /\ insert(arg[t])
  /\ held' = [held EXCEPT ![t] = IF op[t] = "requeue" THEN NoRun ELSE @]
  /\ listed' = listed \cup {arg[t].id}
  /\ UNCHANGED <<store, phase, wake, missing, disp, op, arg, snap, now, used,
                 cancelled, returned, settled, bounds>>

\* FAULT (NoLostWakeup, EventuallyReturns): only the first run of a heap wakes
\* the dispatcher.
NudgeFirst(t) ==
  /\ pc[t] = "nudge"
  /\ wake' = (wake \/ \A r, s \in Run : pending[r] > 0 /\ pending[s] > 0 => r = s)
  /\ Return(t)
  /\ UNCHANGED <<store, phase, pending, missing, disp, now, history, bounds>>

\* A non-blocking send on a channel of capacity one.
Nudge(t) ==
  /\ pc[t] = "nudge"
  /\ wake' = TRUE
  /\ Return(t)
  /\ UNCHANGED <<store, phase, pending, missing, disp, now, history, bounds>>

-----------------------------------------------------------------------------
(* Cancel: drop the ID from the heap, tombstone a ticker, ack, nudge. *)

\* FAULT (SettledIsFinal): the run is acknowledged but left in the heap.
CancelOutsideHeap(t, id) ==
  /\ MayCall(t)
  /\ id \in listed \cup Named
  /\ Call(t, "ackGet", IF Pending(id) THEN "evict" ELSE "cancel",
          [id |-> id, wake |-> 0, attempt |-> 0])
  /\ cancelled' = cancelled \cup {id}
  /\ UNCHANGED <<store, process, snap, held, now, used, listed, returned, settled,
                 restarts, faults>>

\* The call is an "evict" when it did take the run out of the heap.
Cancel(t, id) ==
  /\ MayCall(t)
  /\ id \in listed \cup Named
  /\ pending' = [r \in Run |-> IF r.id = id THEN 0 ELSE pending[r]]
  /\ Call(t, IF id \in Tickers THEN "tombstone" ELSE "ackGet",
          IF Pending(id) THEN "evict" ELSE "cancel", [id |-> id, wake |-> 0, attempt |-> 0])
  /\ cancelled' = cancelled \cup {id}
  /\ UNCHANGED <<store, phase, wake, missing, disp, snap, held, now, used, listed,
                 returned, settled, restarts, faults>>

PutTombstone(t) ==
  /\ pc[t] = "tombstone"
  /\ \/ /\ StoreOK
        /\ Goto(t, "tombstone", "ackGet")
        /\ tomb' = tomb \cup {arg[t].id}
        /\ UNCHANGED <<op, arg, snap, held>>
     \/ StoreFails /\ Return(t) /\ UNCHANGED tomb
  /\ UNCHANGED <<index, record, process, now, history, calls, restarts>>

(* ack ignores the error of every one of its Store calls: a failed Get    *)
(* leaves it with no IDs, which is what it then writes back.              *)

AckGet(t) ==
  /\ Goto(t, "ackGet", "ackIndex")
  /\ \/ StoreOK /\ snap' = [snap EXCEPT ![t] = index]
     \/ StoreFails /\ snap' = [snap EXCEPT ![t] = {}]
  /\ UNCHANGED <<store, process, op, arg, held, now, history, calls, restarts>>

AckIndex(t) ==
  /\ Goto(t, "ackIndex", "ackRun")
  /\ \/ StoreOK /\ index' = snap[t] \ {arg[t].id}
     \/ StoreFails /\ UNCHANGED index
  /\ UNCHANGED <<record, tomb, process, op, arg, snap, held, now, history, calls, restarts>>

\* The end of ack: Cancel goes on to nudge, exec is done with the run.
AckRun(t) ==
  /\ pc[t] = "ackRun"
  /\ \/ /\ StoreOK
        /\ record' = [record EXCEPT ![arg[t].id] = NoRun]
        /\ settled' = IF op[t] \in {"settle", "evict"} THEN settled \cup {arg[t].id} ELSE settled
     \/ StoreFails /\ UNCHANGED <<record, settled>>
  /\ IF op[t] = "settle" THEN Return(t)
                         ELSE Goto(t, "ackRun", "nudge") /\ UNCHANGED <<op, arg, snap, held>>
  /\ UNCHANGED <<index, tomb, process, now, used, listed, cancelled, returned, calls, restarts>>

-----------------------------------------------------------------------------
(* exec: what a worker does with the run it was handed. *)

\* The flow returns, or fails for good, and the run is acknowledged.
FlowReturns(w) ==
  /\ Running(w)
  /\ Call(w, "ackGet", "settle", held[w])
  /\ returned' = returned \cup {held[w].id}
  /\ UNCHANGED <<store, process, snap, held, now, used, listed, cancelled, settled, bounds>>

\* A durable Sleep or a long backoff unwinds the flow; the run is requeued.
FlowYields(w, when) ==
  /\ Running(w)
  /\ now < when
  /\ held[w].attempt < MaxAttempt
  /\ Call(w, "getIndex", "requeue",
          [id |-> held[w].id, wake |-> when, attempt |-> held[w].attempt + 1])
  /\ UNCHANGED <<store, process, snap, held, now, history, bounds>>

\* The flow fails because the engine's own context is gone: nothing is acked.
FlowInterrupted(w) ==
  /\ Running(w) /\ phase = "stopping"
  /\ pc' = [pc EXCEPT ![w] = "idle"]
  /\ held' = [held EXCEPT ![w] = NoRun]
  /\ UNCHANGED <<store, process, op, arg, snap, now, history, bounds>>

\* No such flow in this binary: the run is dropped but stays persisted.
UnknownFlow(w) ==
  /\ pc[w] = "flow" /\ held[w].id \in missing
  /\ pc' = [pc EXCEPT ![w] = "idle"]
  /\ held' = [held EXCEPT ![w] = NoRun]
  /\ UNCHANGED <<store, process, op, arg, snap, now, history, bounds>>

-----------------------------------------------------------------------------
(* dispatch. *)

Dispatch(from, to) == dpc = from /\ dpc' = to

\* Under the lock: read the top of the heap and how long it has to wait.
Peek ==
  /\ \/ Dispatch("peek", "empty") /\ (\A r \in Run : pending[r] = 0) /\ UNCHANGED next
     \/ \E r \in Run : Head(r) /\ next' = r /\ Dispatch("peek", IF now < r.wake THEN "timed" ELSE "due")
  /\ UNCHANGED <<store, phase, pending, wake, missing, threads, now, history, bounds>>

\* FAULT (NotEarly): a token that arrives during the wait ends it.
WokenDue ==
  /\ dpc \in {"empty", "timed"} /\ wake
  /\ wake' = FALSE
  /\ dpc' = IF dpc = "timed" THEN "due" ELSE "peek"
  /\ UNCHANGED <<store, phase, pending, missing, next, threads, now, history, bounds>>

\* The token of e.wake arrives.
Woken ==
  /\ dpc \in {"empty", "timed"} /\ wake
  /\ wake' = FALSE
  /\ dpc' = "peek"
  /\ UNCHANGED <<store, phase, pending, missing, next, threads, now, history, bounds>>

TimerFires ==
  /\ Dispatch("timed", "peek") /\ next.wake <= now
  /\ UNCHANGED <<store, phase, pending, wake, missing, next, threads, now, history, bounds>>

\* FAULT (SingleHolder): the due run is sent but not popped.
ClaimUnpopped ==
  /\ Dispatch("due", "send")
  /\ \E r \in Run : Head(r) /\ r.id = next.id /\ next' = r
  /\ UNCHANGED <<store, phase, pending, wake, missing, threads, now, history, bounds>>

\* Locked again: pop the top if it still has the ID that was due, else look anew.
Claim ==
  /\ dpc = "due"
  /\ \/ \E r \in Run :
          /\ Head(r) /\ r.id = next.id
          /\ Dispatch("due", "send") /\ next' = r
          /\ pending' = [pending EXCEPT ![r] = @ - 1]
     \/ /\ \A r \in Run : Head(r) => r.id # next.id
        /\ Dispatch("due", "peek")
        /\ UNCHANGED <<next, pending>>
  /\ UNCHANGED <<store, phase, wake, missing, threads, now, history, bounds>>

\* The unbuffered ready channel: an idle worker receives the claimed run.
HandOff(w) ==
  /\ Dispatch("send", "peek")
  /\ Goto(w, "idle", "flow")
  /\ held' = [held EXCEPT ![w] = next]
  /\ UNCHANGED <<store, phase, pending, wake, missing, next, op, arg, snap, now, history, bounds>>

\* ctx.Done wins the select the dispatcher is in; a claimed run is dropped.
DispatchDone ==
  /\ phase = "stopping" /\ dpc \in {"empty", "timed", "send"}
  /\ dpc' = "stopped"
  /\ UNCHANGED <<store, phase, pending, wake, missing, next, threads, now, history, bounds>>

-----------------------------------------------------------------------------
(* The process and its clock. *)

Tick ==
  /\ now < Horizon
  /\ now' = now + 1
  /\ UNCHANGED <<store, process, threads, history, bounds>>

\* Run's context is cancelled.
Shutdown ==
  /\ phase = "up" /\ restarts < MaxRestarts
  /\ phase' = "stopping"
  /\ restarts' = restarts + 1
  /\ UNCHANGED <<store, pending, wake, missing, disp, threads, now, history, calls, faults>>

\* The process is gone, and with it all that is not in the Store.
Gone ==
  /\ phase' = "down"
  /\ pending' = [r \in Run |-> 0] /\ wake' = FALSE /\ missing' = {}
  /\ dpc' = "stopped" /\ next' = NoRun
  /\ pc' = [t \in Threads |-> "idle"] /\ op' = [t \in Threads |-> "none"]
  /\ arg' = [t \in Threads |-> NoRun] /\ held' = [t \in Threads |-> NoRun]
  /\ snap' = [t \in Threads |-> {}]
  /\ UNCHANGED <<store, now, history, calls, faults>>

\* Run has waited for its workers; a client may still be in a call.
Exit ==
  /\ phase = "stopping" /\ dpc = "stopped" /\ \A w \in Workers : pc[w] = "idle"
  /\ Gone
  /\ UNCHANGED restarts

\* A kill, or a real panic in a flow, which invoke lets surface.
Crash ==
  /\ phase # "down" /\ restarts < MaxRestarts
  /\ restarts' = restarts + 1
  /\ Gone

\* FAULT (EventuallyReturns): nothing is loaded at boot.
NewEmpty ==
  /\ phase = "down"
  /\ phase' = "up" /\ dpc' = "peek"
  /\ UNCHANGED <<store, pending, wake, missing, next, threads, now, history, bounds>>

\* New: load what the index names and a record backs.  A record whose read
\* fails is skipped; a failed read of the index fails New.
New ==
  /\ phase = "down"
  /\ phase' = "up" /\ dpc' = "peek"
  /\ missing' \in {{}, Renamed}
  /\ \E unread \in {{}} \cup {{id} : id \in index} :
       /\ IF unread = {} THEN StoreOK ELSE StoreFails
       /\ pending' = [r \in Run |-> IF r.id \in index \ unread /\ record[r.id] = r THEN 1 ELSE 0]
  /\ UNCHANGED <<store, wake, next, threads, now, history, calls, restarts>>

-----------------------------------------------------------------------------
Init ==
  /\ index = Seeded /\ tomb = {}
  /\ record = [id \in Ids |-> IF id \in Seeded THEN [id |-> id, wake |-> 0, attempt |-> 0]
                                               ELSE NoRun]
  /\ phase = "down" /\ pending = [r \in Run |-> 0] /\ wake = FALSE /\ missing = {}
  /\ dpc = "stopped" /\ next = NoRun
  /\ pc = [t \in Threads |-> "idle"] /\ op = [t \in Threads |-> "none"]
  /\ arg = [t \in Threads |-> NoRun] /\ held = [t \in Threads |-> NoRun]
  /\ snap = [t \in Threads |-> {}]
  /\ now = 0
  /\ used = Seeded /\ listed = Seeded /\ cancelled = {} /\ returned = {} /\ settled = {}
  /\ calls = 0 /\ restarts = 0 /\ faults = 0

\* The rest of an engine call that a thread has begun.
CallStep(t) ==
  \/ AddIndexGet(t) \/ AddIndexPut(t) \/ PersistRun(t) \/ Insert(t) \/ Nudge(t)
  \/ PutTombstone(t) \/ AckGet(t) \/ AckIndex(t) \/ AckRun(t)

FlowEnds(w) == FlowReturns(w) \/ (\E when \in Time : FlowYields(w, when))

DispatchStep == Peek \/ Woken \/ TimerFires \/ Claim \/ \E w \in Workers : HandOff(w)

Next ==
  \/ \E t \in Threads : \/ \E id \in Ids : \/ \E when \in Time : EnqueueID(t, id, when)
                                           \/ EnqueueNoop(t, id)
                                           \/ Cancel(t, id)
                        \/ CallStep(t)
  \/ \E w \in Workers : FlowEnds(w) \/ FlowInterrupted(w) \/ UnknownFlow(w)
  \/ DispatchStep \/ DispatchDone
  \/ Tick \/ Shutdown \/ Exit \/ Crash \/ New

Spec == Init /\ [][Next]_vars

\* Every goroutine that can run does, a flow ends, time passes, and a process
\* that is gone is started again.  Clients and failures owe nothing.
Fairness ==
  /\ \A t \in Threads : WF_vars(CallStep(t))
  /\ \A w \in Workers : WF_vars(FlowEnds(w)) /\ WF_vars(UnknownFlow(w))
  /\ WF_vars(DispatchStep) /\ WF_vars(DispatchDone)
  /\ WF_vars(Tick) /\ WF_vars(Exit) /\ WF_vars(New)

FairSpec == Spec /\ Fairness

-----------------------------------------------------------------------------
(* Safety. *)

\* Who has the run id, so that it can come to be executed or executed again:
\* the heap, the dispatcher that popped it, the worker inside its flow, or a
\* thread persisting it that has yet to insert it.
Queued(id)   == Pending(id)
Claimed(id)  == dpc = "send" /\ next.id = id
Carries(t, id) ==
  \/ held[t] # NoRun /\ held[t].id = id
  \/ op[t] = "enqueue" /\ pc[t] \in PersistPC /\ arg[t].id = id

\* At most one of them at a time, for a run with a minted ID: two workers
\* never execute it at once and it is never queued while it executes.
SingleHolder ==
  \A id \in Fresh :
    /\ \A r, s \in Run : r.id = id /\ s.id = id /\ pending[r] > 0 /\ pending[s] > 0 => r = s
    /\ \A r \in Run : r.id = id => pending[r] <= 1
    /\ Queued(id) => ~Claimed(id)
    /\ \A t \in Threads : Carries(t, id) => ~Queued(id) /\ ~Claimed(id)
    /\ \A t, u \in Threads : Carries(t, id) /\ Carries(u, id) => t = u

\* A run whose ack is complete is never executed again, not even when a racing
\* index write puts its ID back into runs/index and the process then restarts:
\* "run/<id>" stays null, and nobody is left to write it.
SettledIsFinal ==
  \A id \in Fresh \cap settled :
    /\ record[id] = NoRun
    /\ ~Queued(id) /\ ~Claimed(id)
    /\ \A t \in Threads : ~Carries(t, id)

\* A run the engine works on is the run its record holds, so that a crash at
\* any point resumes it with the Wake and Attempt it had, unless a Cancel has
\* been at it.  While a requeue is persisting, either version may be stored.
RecordBacksRun ==
  /\ \A r \in Run : r.id \in Fresh \ cancelled /\ pending[r] > 0 => record[r.id] = r
  /\ dpc = "send" /\ next.id \in Fresh \ cancelled => record[next.id] = next
  /\ \A t \in Threads :
       held[t] # NoRun /\ held[t].id \in Fresh \ cancelled =>
         record[held[t].id] \in {held[t]} \cup (IF op[t] = "requeue" THEN {arg[t]} ELSE {})

\* No lost wakeup: a dispatcher asleep on an empty heap, or on a timer later
\* than the earliest Wake, has a token to wake it or a thread about to send one.
NoLostWakeup ==
  (\E r \in Run : pending[r] > 0 /\ (dpc = "empty" \/ (dpc = "timed" /\ r.wake < next.wake)))
    => wake \/ \E t \in Threads : pc[t] = "nudge"

\* A minted run never starts before its Wake, although the dispatcher decides
\* that it is due under one lock and pops it under another.
NotEarly ==
  [][\A w \in Workers :
       held[w] = NoRun /\ held'[w] # NoRun /\ held'[w].id \in Fresh => held'[w].wake <= now]_vars

\* Between engine calls, every run enqueued and not yet executed to its end can
\* be found by the next boot: the index names it and a record backs it.
Recoverable(id) == id \in index /\ record[id] # NoRun
Durable == \A id \in listed \ (returned \cup cancelled) : Recoverable(id)

-----------------------------------------------------------------------------
(* Named IDs. *)

\* EnqueueID of an ID that is already pending is a no-op (engine.go:123-125):
\* one ID is never in the heap twice.
NamedOnce ==
  \A r, s \in Run :
    r.id \in Named /\ s.id = r.id /\ pending[r] > 0 /\ pending[s] > 0 => r = s /\ pending[r] = 1

-----------------------------------------------------------------------------
(* Liveness. *)

\* Every run that was enqueued is executed to its end, unless cancelled.
EventuallyReturns ==
  \A id \in Ids : id \in listed ~> id \in returned \cup cancelled
=============================================================================
