------------------------------- MODULE Ticker -------------------------------
(***************************************************************************)
(* A cron schedule (pkg/engine/cron.go) over the engine.  Every arms a run *)
(* with a fixed ID, before the engine's Run starts, at every boot; the     *)
(* run's flow looks for its tombstone, enqueues the target, and re-arms    *)
(* itself under the same ID before the engine acknowledges it.             *)
(*                                                                         *)
(* Every engine step is an action of Engine; this module adds the order in *)
(* which the ticker's flow makes its calls.                                *)
(***************************************************************************)
EXTENDS Engine

CONSTANTS
  tick,      \* the ticker's run ID
  main,      \* the client that boots the process
  Minutes,   \* the instants the crontab spec matches
  Year,      \* how far schedule.next looks for one
  CatchUp    \* Every was given Catchup()

Never == Horizon + 1   \* no tick within the bound

ASSUME TickerAssumption ==
  /\ tick \in Tickers /\ main \in Clients /\ Minutes \subseteq Time /\ CatchUp \in BOOLEAN
  /\ Year \in Nat \ {0}
  /\ tick \in Seeded => 0 \in Minutes   \* an earlier life armed a match, too

VARIABLES
  boot,      \* "new", "arming" (Every is enqueueing) or "running"
  stage,     \* where each worker is in the ticker's flow
  cursor,    \* fire's loop variable t
  (* history *)
  armed,     \* the earliest tick inserted and not yet fired
  fired,     \* the ticks the target was enqueued for
  stopped,   \* a Cancel of the ticker has returned
  late       \* the workers whose execution of the ticker began after that

cron  == <<boot, stage, cursor>>
past  == <<armed, fired, stopped, late>>
tvars == <<vars, cron, past>>

Stages == {"none", "check", "fire", "firing", "rearm", "rearming", "return", "failed"}

\* The instants schedule.next can answer with: the matches, and an instant parked
\* a year after the one it began to look from, having found no match before it.
Ticks ==
  Minutes \cup {t \in Time : Year < t /\ \A m \in Minutes : m < t - Year \/ t <= m}

\* Types, and: the target is enqueued for such an instant only.
TickerTypeOK ==
  /\ boot \in {"new", "arming", "running"}
  /\ stage \in [Workers -> Stages] /\ cursor \in [Workers -> 0..Never]
  /\ armed \in 0..Never /\ fired \subseteq Ticks
  /\ stopped \in BOOLEAN /\ late \subseteq Workers

-----------------------------------------------------------------------------
\* FAULT (TickerTypeOK): the next minute, whether it matches or not.
NextMinute(t) == t + 1

\* schedule.next: the first match strictly after t, looked for up to a year out;
\* with none, the instant a year out, which is armed and fires like a match.
NextTick(t) ==
  LET limit == t + 1 + Year
      later == {m \in Minutes : t < m /\ m < limit}
  IN IF later # {} THEN CHOOSE m \in later : \A n \in later : m <= n
     ELSE IF limit \in Time THEN limit ELSE Never

Ticking(w) == Running(w) /\ held[w].id = tick

\* A thread's engine call failed: the only way these calls return an error.
Failed(t) == op[t] = "enqueue" /\ faults' # faults

Enter(w, s) == stage' = [stage EXCEPT ![w] = s]

\* FAULT (TickOnce): the first tick is armed without a look at the heap.
EveryAnew ==
  /\ boot = "new" /\ NextTick(now) \in Time
  /\ MayCall(main)
  /\ Call(main, "getIndex", "enqueue", [id |-> tick, wake |-> NextTick(now), attempt |-> 0])
  /\ used' = used \cup {tick} /\ boot' = "arming"
  /\ UNCHANGED <<store, process, snap, held, now, listed, cancelled, returned, settled,
                 restarts, faults, stage, cursor, past>>

\* Every: arm the next tick, unless New has loaded the ticker.
Every ==
  /\ phase = "up" /\ boot = "new"
  /\ \/ NextTick(now) \in Time /\ EnqueueID(main, tick, NextTick(now)) /\ boot' = "arming"
     \/ Pending(tick) /\ UNCHANGED vars /\ boot' = "running"
  /\ UNCHANGED <<stage, cursor, past>>

\* FAULT (CancelledStops): the flow does not look for its tombstone.
CheckNothing(w) ==
  /\ Ticking(w) /\ stage[w] = "check"
  /\ Enter(w, "fire") /\ cursor' = [cursor EXCEPT ![w] = held[w].wake]
  /\ UNCHANGED <<vars, boot, past>>

\* The flow begins: a tombstone ends it; a failed Get counts as none.
Check(w) ==
  /\ Ticking(w) /\ stage[w] = "check"
  /\ \/ /\ tick \in tomb /\ FlowReturns(w)
        /\ Enter(w, "none") /\ UNCHANGED cursor
     \/ /\ (tick \notin tomb /\ StoreOK) \/ StoreFails
        /\ UNCHANGED <<store, process, threads, now, history, calls, restarts>>
        /\ Enter(w, "fire") /\ cursor' = [cursor EXCEPT ![w] = held[w].wake]
  /\ UNCHANGED <<boot, past>>

\* fire: enqueue the target, with Catchup once for each tick up to e.now().
Fire(w) ==
  /\ Ticking(w) /\ stage[w] = "fire" /\ (CatchUp => cursor[w] <= now)
  /\ \E id \in Fresh : EnqueueID(w, id, 0)
  /\ Enter(w, "firing")
  /\ UNCHANGED <<boot, cursor, past>>

CaughtUp(w) ==
  /\ Ticking(w) /\ stage[w] = "fire" /\ CatchUp /\ now < cursor[w]
  /\ Enter(w, "rearm")
  /\ UNCHANGED <<vars, boot, cursor, past>>

\* FAULT (TickerAlive): the flow returns and leaves the re-arming to Every.
RearmNever(w) ==
  /\ Ticking(w) /\ stage[w] = "rearm"
  /\ Enter(w, "return")
  /\ UNCHANGED <<vars, boot, cursor, past>>

\* FAULT (TickOnce): the ticker is armed again for the tick it just fired.
RearmSame(w) ==
  /\ Ticking(w) /\ stage[w] = "rearm"
  /\ EnqueueID(w, tick, held[w].wake) /\ Enter(w, "rearming")
  /\ UNCHANGED <<boot, cursor, past>>

\* The flow re-arms itself under its own ID, for the tick after e.now().
Rearm(w) ==
  /\ Ticking(w) /\ stage[w] = "rearm" /\ NextTick(now) \in Time
  /\ \/ EnqueueID(w, tick, NextTick(now)) /\ Enter(w, "rearming")
     \/ EnqueueNoop(w, tick) /\ Enter(w, "return")
  /\ UNCHANGED <<boot, cursor, past>>

\* The flow returns; with an error under a dying context it is not acked.
TickerEnds(w) ==
  /\ Ticking(w)
  /\ \/ stage[w] \in {"return", "failed"} /\ FlowReturns(w)
     \/ stage[w] = "failed" /\ FlowInterrupted(w)
  /\ Enter(w, "none")
  /\ UNCHANGED <<boot, cursor, past>>

\* The target's flow just returns.
TargetEnds(w) == held[w] # NoRun /\ held[w].id # tick /\ FlowReturns(w) /\ UNCHANGED <<cron, past>>

-----------------------------------------------------------------------------
(* Engine steps, and what they mean to the ticker. *)

\* Back from an engine call, the ticker's flow goes on.
Resume(w) ==
  IF w \in Workers /\ pc'[w] = "flow" /\ stage[w] \in {"firing", "rearming"}
    THEN /\ Enter(w, IF Failed(w) THEN "failed"
                     ELSE IF stage[w] = "rearming" THEN "return"
                     ELSE IF CatchUp /\ NextTick(cursor[w]) \in Time THEN "fire" ELSE "rearm")
         /\ IF stage[w] = "firing" /\ ~Failed(w)
              THEN /\ fired' = fired \cup {cursor[w]}
                   /\ armed' = IF armed = cursor[w] THEN Never ELSE armed
                   /\ cursor' = [cursor EXCEPT ![w] = NextTick(@)]
              ELSE UNCHANGED <<fired, armed, cursor>>
    ELSE UNCHANGED <<stage, cursor, fired, armed>>

\* A failed Every ends the process, which is then booted again.
Booted(t) ==
  boot' = IF t = main /\ boot = "arming" /\ pc'[t] = "idle"
            THEN (IF Failed(t) THEN "new" ELSE "running") ELSE boot

EngineStep(t) ==
  \/ /\ Insert(t)
     /\ armed' = IF arg[t].id = tick /\ arg[t].wake < armed THEN arg[t].wake ELSE armed
     /\ UNCHANGED <<cron, fired, stopped, late>>
  \/ /\ \/ AddIndexGet(t) \/ AddIndexPut(t) \/ PersistRun(t) \/ Nudge(t)
        \/ PutTombstone(t) \/ AckGet(t) \/ AckIndex(t) \/ AckRun(t)
     /\ Resume(t) /\ Booted(t)
     /\ stopped' = (stopped \/ (pc[t] = "nudge" /\ op[t] \in {"cancel", "evict"}))
     /\ UNCHANGED late

\* Run has started: the dispatcher works, and hands the ticker to a worker.
Dispatching ==
  /\ boot = "running"
  /\ \/ Peek /\ UNCHANGED <<stage, late>>
     \/ Woken /\ UNCHANGED <<stage, late>>
     \/ TimerFires /\ UNCHANGED <<stage, late>>
     \/ Claim /\ UNCHANGED <<stage, late>>
     \/ \E w \in Workers :
          /\ HandOff(w) /\ Enter(w, IF next.id = tick THEN "check" ELSE "none")
          /\ late' = IF stopped /\ next.id = tick THEN late \cup {w} ELSE late \ {w}
  /\ UNCHANGED <<boot, cursor, armed, fired, stopped>>

\* A client cancels the schedule.
CancelTicker(c) ==
  /\ c # main /\ c \in Clients
  /\ Cancel(c, tick)
  /\ armed' = Never
  /\ UNCHANGED <<cron, fired, stopped, late>>

Restart ==
  /\ (Crash \/ Exit)
  /\ boot' = "new" /\ stage' = [w \in Workers |-> "none"] /\ cursor' = [w \in Workers |-> 0]
  /\ UNCHANGED past

Environment == (Tick \/ Shutdown \/ New \/ DispatchDone) /\ UNCHANGED <<cron, past>>

TickerInit ==
  /\ Init
  /\ boot = "new" /\ stage = [w \in Workers |-> "none"] /\ cursor = [w \in Workers |-> 0]
  /\ armed = Never /\ fired = {}
  /\ stopped = FALSE /\ late = {}

FlowStep(w) ==
  Check(w) \/ Fire(w) \/ CaughtUp(w) \/ Rearm(w) \/ TickerEnds(w) \/ TargetEnds(w)

TickerNext ==
  \/ Every \/ Dispatching \/ Restart \/ Environment
  \/ \E t \in Threads : EngineStep(t)
  \/ \E w \in Workers : FlowStep(w)
  \/ \E c \in Clients : CancelTicker(c)

TickerSpec == TickerInit /\ [][TickerNext]_tvars

-----------------------------------------------------------------------------
(* Somebody will execute the ticker at tick m or has begun to. *)
Will(m) ==
  \/ \E r \in Run : pending[r] > 0 /\ r.id = tick /\ r.wake <= m
  \/ dpc = "send" /\ next.id = tick /\ next.wake <= m
  \/ \E w \in Workers : held[w] # NoRun /\ held[w].id = tick /\ held[w].wake <= m

\* While the process runs and the Store answers, a schedule nobody cancelled is
\* always queued, on its way to a worker, or executing and yet to re-arm itself:
\* the ack that follows the re-arm never takes the schedule with it.
TickerAlive ==
  phase = "up" /\ boot = "running" /\ tick \notin cancelled /\ faults = 0 =>
    \/ Queued(tick) \/ Claimed(tick)
    \/ \E w \in Workers : Carries(w, tick) /\ op[w] # "settle" /\ stage[w] \notin {"none", "return"}

TicksAdvance ==
  restarts = 0 => \A r \in Run : pending[r] > 0 /\ r.id = tick => r.wake \notin fired

\* No tick is fired twice.  The boot's Every and the flow's own re-arm never queue
\* the ticker side by side, and without a restart, whenever the ticker is queued,
\* it is for a tick it has not fired.
TickOnce == NamedOnce /\ TicksAdvance

\* While the Store answers, an execution of the ticker that begins after a Cancel
\* has returned enqueues neither the target nor the ticker; the execution that
\* the Cancel overtakes may, and Every may arm the ticker again at the next boot.
CancelledStops ==
  [][faults' = 0 => \A w \in late : stage'[w] \notin {"firing", "rearming"}]_tvars

(* What a comment says. *)

\* A tick missed while the process was down fires once late (cron.go:38-39): an
\* armed tick is not given up for a later one.
MissedTickFires ==
  phase = "up" /\ boot = "running" /\ armed # Never /\ tick \notin cancelled => Will(armed)
=============================================================================
