------------------------------- MODULE Stream -------------------------------
(***************************************************************************)
(* One agent's turn, from the model's tokens to the client's.  A token     *)
(* passes six goroutines: the model's own, the one that monitors it, the   *)
(* pump that fills the record-and-replay buffer of the Reply, the one that *)
(* replays the buffer, the agent's handler, and the tee that writes to the *)
(* client and records the reply.  Channels are unbuffered: a send and its  *)
(* receive are one step.  The client may go away at any time, and the      *)
(* handler may stop early or fail.                                         *)
(*                                                                         *)
(* An answer is the number of its tokens and how it ends.  Tokens are      *)
(* numbered, so that order and loss can be told.                           *)
(***************************************************************************)
EXTENDS Integers, Sequences

CONSTANTS MaxTokens   \* bound on the tokens of an answer

ASSUME StreamAssumption == MaxTokens \in Nat

Endings == {"clean", "call", "error"}
Answers == [tokens : 0..MaxTokens, end : Endings]

\* A chunk is a token's number, a tool call, or an error; None is no chunk.
None  == 0
Call  == -1
Error == -2
Chunk == -2..MaxTokens

\* What the handler is at: asking; draining a buffered answer (CollectAll);
\* calling Turn.Stream; ranging over the replay; writing a token; asking for
\* Err and ToolCalls; replying whole;
\* returned; awaited; answered by the server.
AgentSteps == {"ask", "collect", "claim", "range", "put", "err", "reply", "returned", "done", "served"}

VARIABLES
  answer,                 \* what the model will say
  sink,                   \* whether the context holds the client's sink
  schema,                 \* whether the agent validates its answer whole
  custom,                 \* whether the handler is an OnMessage of the author's
  model, pos, offer,      \* the model's goroutine: chunks read, the chunk it is sending
  monitor, relay,         \* the monitoring goroutine and the chunk it holds
  pump, taken,            \* the pump and the chunk it holds
  chunks, calls, closed, err, waiters,   \* streamBuf
  blocked,                \* the readers blocked in <-w
  replay, at,             \* the replaying goroutine and its i
  agent, tok, outcome,    \* the handler: step, token in hand, what it returned
  tee, text, shut,        \* the tee, its strings.Builder, and whether out is closed
  replies, called,        \* Turn.replies and Turn.calls
  gone, own,              \* the request's context, and the turn's own, are cancelled
  seen                    \* what has been written to the client

upstream == <<model, pos, offer, monitor, relay>>
buffer   == <<chunks, calls, closed, err, waiters>>
handler  == <<agent, tok, outcome>>
record   == <<text, replies, called>>
vars == <<answer, sink, schema, custom, upstream, pump, taken, buffer, blocked, replay, at,
          handler, tee, shut, record, gone, own, seen>>

\* The readers of the buffer, and the frame that tells the client of an error.
Readers    == {"replay", "agent"}
ErrorFrame == 0

StreamTypeOK ==
  /\ answer \in Answers /\ sink \in BOOLEAN /\ schema \in BOOLEAN /\ custom \in BOOLEAN
  /\ model \in {"off", "reading", "sending", "ended"} /\ pos \in 0..MaxTokens + 2
  /\ monitor \in {"off", "reading", "sending", "ended"} /\ pump \in {"off", "reading", "pushing", "ended"}
  /\ offer \in Chunk /\ relay \in Chunk /\ taken \in Chunk
  /\ chunks \in Seq(1..MaxTokens) /\ calls \in 0..1 /\ closed \in BOOLEAN /\ err \in BOOLEAN
  /\ waiters \subseteq Readers /\ waiters \subseteq blocked /\ blocked \subseteq Readers
  /\ replay \in {"off", "reading", "sending", "ended"} /\ at \in 0..MaxTokens
  /\ agent \in AgentSteps /\ tok \in 0..MaxTokens /\ outcome \in {"none", "ok", "failed"}
  /\ tee \in {"off", "reading", "writing", "ended"} /\ text \in Seq(1..MaxTokens) /\ shut \in BOOLEAN
  /\ replies \in Seq(Seq(1..MaxTokens)) /\ called \in 0..1
  /\ gone \in BOOLEAN /\ own \in BOOLEAN /\ seen \in Seq(0..MaxTokens)

Init ==
  /\ answer \in Answers /\ sink \in BOOLEAN /\ schema \in BOOLEAN /\ custom \in BOOLEAN
  /\ model = "off" /\ pos = 0 /\ offer = None /\ monitor = "off" /\ relay = None
  /\ pump = "off" /\ taken = None
  /\ chunks = <<>> /\ calls = 0 /\ closed = FALSE /\ err = FALSE /\ waiters = {} /\ blocked = {}
  /\ replay = "off" /\ at = 0
  /\ agent = "ask" /\ tok = 0 /\ outcome = "none"
  /\ tee = "off" /\ shut = FALSE /\ text = <<>> /\ replies = <<>> /\ called = 0
  /\ gone = FALSE /\ own = FALSE /\ seen = <<>>

Cancelled == gone \/ own
Claimed   == tee # "off"

-----------------------------------------------------------------------------
(* The model (openai.go, anthropic.go) reads the provider's stream and     *)
(* sends each chunk unless the turn is cancelled.                          *)

Length      == answer.tokens + (IF answer.end = "clean" THEN 0 ELSE 1)
ChunkAt(p)  == IF p <= answer.tokens THEN p ELSE IF answer.end = "call" THEN Call ELSE Error

ModelReads ==
  /\ model = "reading" /\ pos < Length
  /\ model' = "sending" /\ pos' = pos + 1 /\ offer' = ChunkAt(pos + 1)
  /\ UNCHANGED <<monitor, relay>>

\* Cancelled, the provider's stream ends with an error in place of its rest.
ModelCut ==
  /\ model = "reading" /\ Cancelled /\ pos <= answer.tokens
  /\ model' = "sending" /\ pos' = Length + 1 /\ offer' = Error
  /\ UNCHANGED <<monitor, relay>>

ModelSends ==
  /\ model = "sending" /\ monitor = "reading"
  /\ model' = "reading" /\ offer' = None /\ monitor' = "sending" /\ relay' = offer
  /\ UNCHANGED pos

\* case <-ctx.Done(): return
ModelGivesUp ==
  /\ model = "sending" /\ Cancelled
  /\ model' = "ended" /\ offer' = None
  /\ UNCHANGED <<pos, monitor, relay>>

ModelEnds ==
  /\ model = "reading" /\ pos >= Length
  /\ model' = "ended"
  /\ UNCHANGED <<pos, offer, monitor, relay>>

MonitorEnds ==
  /\ monitor = "reading" /\ model = "ended"
  /\ monitor' = "ended"
  /\ UNCHANGED <<model, pos, offer, relay>>

Model ==
  /\ ModelReads \/ ModelCut \/ ModelSends \/ ModelGivesUp \/ ModelEnds \/ MonitorEnds
  /\ UNCHANGED <<answer, sink, schema, custom, pump, taken, buffer, blocked, replay, at,
                 handler, tee, shut, record, gone, own, seen>>

-----------------------------------------------------------------------------
(* The pump fills the buffer (streamBuf.pump).  With no sink, or a schema, *)
(* CollectAll drains the stream alike, in the handler's goroutine.  (The   *)
(* replay of such a reply is one piece; here it is token by token.)        *)

PumpTakes ==
  /\ pump = "reading" /\ monitor = "sending"
  /\ pump' = "pushing" /\ taken' = relay /\ monitor' = "reading" /\ relay' = None
  /\ UNCHANGED <<model, pos, offer, buffer>>

\* FAULT (NoMissedWake): the append without its wake.
PushQuietly ==
  /\ pump = "pushing" /\ taken # Error
  /\ chunks' = IF taken > 0 THEN Append(chunks, taken) ELSE chunks
  /\ calls' = IF taken = Call THEN calls + 1 ELSE calls
  /\ pump' = "reading" /\ taken' = None
  /\ UNCHANGED <<upstream, closed, err, waiters>>

\* FAULT (StreamDrains): a buffer that holds one chunk until it is replayed.
PushOnce ==
  /\ pump = "pushing" /\ taken # Error /\ at = Len(chunks)
  /\ chunks' = IF taken > 0 THEN Append(chunks, taken) ELSE chunks
  /\ calls' = IF taken = Call THEN calls + 1 ELSE calls
  /\ waiters' = {}
  /\ pump' = "reading" /\ taken' = None
  /\ UNCHANGED <<upstream, closed, err>>

\* push and pushCall append and wake every waiter, in one critical section.
Push ==
  /\ pump = "pushing" /\ taken # Error
  /\ chunks' = IF taken > 0 THEN Append(chunks, taken) ELSE chunks
  /\ calls' = IF taken = Call THEN calls + 1 ELSE calls
  /\ waiters' = {}
  /\ pump' = "reading" /\ taken' = None
  /\ UNCHANGED <<upstream, closed, err>>

\* FAULT (WholeAnswer): the error is dropped.
CloseAnyway ==
  /\ \/ pump = "pushing" /\ taken = Error
     \/ pump = "reading" /\ monitor = "ended"
  /\ closed' = TRUE /\ waiters' = {}
  /\ pump' = "ended" /\ taken' = None
  /\ UNCHANGED <<upstream, chunks, calls, err>>

\* close, after an error or at the stream's end.
Close ==
  /\ \/ pump = "pushing" /\ taken = Error /\ err' = TRUE
     \/ pump = "reading" /\ monitor = "ended" /\ UNCHANGED err
  /\ closed' = TRUE /\ waiters' = {}
  /\ pump' = "ended" /\ taken' = None
  /\ UNCHANGED <<upstream, chunks, calls>>

Pump ==
  /\ PumpTakes \/ Push \/ Close
  /\ UNCHANGED <<answer, sink, schema, custom, blocked, replay, at, handler, tee, shut, record, gone, own, seen>>

-----------------------------------------------------------------------------
(* Readers of the buffer register, under the buffer's lock, for the next   *)
(* signal, and block until it comes (streamBuf.wait).                      *)

Register(r) == waiters' = waiters \cup {r} /\ blocked' = blocked \cup {r}

\* FAULT (StreamTypeOK): a reader goes on without the signal, still registered.
GoesOn(r) ==
  /\ r \in blocked
  /\ blocked' = blocked \ {r}
  /\ UNCHANGED <<answer, sink, schema, custom, upstream, pump, taken, buffer, replay, at,
                 handler, tee, shut, record, gone, own, seen>>

Signalled(r) ==
  /\ r \in blocked \ waiters
  /\ blocked' = blocked \ {r}
  /\ UNCHANGED <<answer, sink, schema, custom, upstream, pump, taken, buffer, replay, at,
                 handler, tee, shut, record, gone, own, seen>>

\* streamBuf.stream: the next chunk, or wait for it, or the end.
ReplayLooks ==
  /\ replay = "reading" /\ "replay" \notin blocked
  /\ IF at < Len(chunks)
     THEN replay' = "sending" /\ at' = at + 1 /\ UNCHANGED <<waiters, blocked>>
     ELSE /\ UNCHANGED at
          /\ IF closed THEN replay' = "ended" /\ UNCHANGED <<waiters, blocked>>
                       ELSE Register("replay") /\ UNCHANGED replay
  /\ UNCHANGED <<answer, sink, schema, custom, upstream, pump, taken, chunks, calls, closed, err,
                 handler, tee, shut, record, gone, own, seen>>

-----------------------------------------------------------------------------
(* The handler, inside runOneAgent.  Each of these steps touches some of   *)
(* the variables that Handler does not list.                               *)

\* FAULT (RequestEnds): a failing handler's context is not cancelled.
ReturnsOnly(how) == agent' = "returned" /\ outcome' = how /\ UNCHANGED own

\* The handler returns; runOneAgent cancels the turn's context on an error.
Returns(how) == agent' = "returned" /\ outcome' = how /\ own' = (own \/ how = "failed")

AskFails ==
  /\ agent = "ask" /\ Returns("failed")
  /\ UNCHANGED <<model, monitor, pump, waiters, blocked, replay, tok, tee, shut, record>>

\* With a sink and no schema Ask returns at once; else it first drains the
\* stream, and a schema may then refuse the answer.
Asks ==
  /\ agent = "ask"
  /\ model' = "reading" /\ monitor' = "reading" /\ pump' = "reading"
  /\ agent' = IF sink /\ ~schema THEN "claim" ELSE "collect"
  /\ UNCHANGED <<waiters, blocked, replay, tok, outcome, tee, shut, record, own>>

Collected ==
  /\ agent = "collect" /\ closed
  /\ \/ (err \/ schema) /\ Returns("failed")
     \/ ~err /\ agent' = "claim" /\ UNCHANGED <<outcome, own>>
  /\ UNCHANGED <<model, monitor, pump, waiters, blocked, replay, tok, tee, shut, record>>

\* Turn.Stream claims the sink and starts the tee; Reply.Stream the replay.
ClaimStream ==
  /\ agent = "claim"
  /\ IF sink THEN agent' = "range" /\ tee' = "reading" /\ replay' = "reading"
             ELSE agent' = "reply" /\ UNCHANGED <<tee, replay>>
  /\ UNCHANGED <<model, monitor, pump, waiters, blocked, tok, outcome, shut, record, own>>

\* for tok := range reply.Stream()
RangeNext ==
  /\ agent = "range" /\ replay = "sending"
  /\ agent' = "put" /\ tok' = chunks[at] /\ replay' = "reading"
  /\ UNCHANGED <<model, monitor, pump, waiters, blocked, outcome, tee, shut, record, own>>

\* out <- tok; the tee appends it to its builder.
Put ==
  /\ agent = "put" /\ tee = "reading"
  /\ agent' = "range" /\ tok' = 0 /\ tee' = "writing" /\ text' = Append(text, tok)
  /\ UNCHANGED <<model, monitor, pump, waiters, blocked, outcome, replay, shut, replies, called, own>>

\* close(out)
RangeEnds ==
  /\ agent = "range" /\ replay = "ended"
  /\ agent' = "err" /\ shut' = TRUE
  /\ UNCHANGED <<model, monitor, pump, waiters, blocked, replay, tok, outcome, tee, record, own>>

\* reply.Err, which waits for the end, then turn.Call(reply.ToolCalls()...).
ChecksErr ==
  /\ agent = "err" /\ "agent" \notin blocked
  /\ CASE ~closed        -> Register("agent") /\ UNCHANGED <<agent, outcome, called, own>>
       [] closed /\ err  -> Returns("failed") /\ UNCHANGED <<waiters, blocked, called>>
       [] closed /\ ~err -> Returns("ok") /\ called' = calls /\ UNCHANGED <<waiters, blocked>>
  /\ UNCHANGED <<model, monitor, pump, replay, tok, tee, shut, text, replies>>

\* turn.Reply(text) and turn.Call, where the stream was not for this turn.
ReplyWhole ==
  /\ agent = "reply" /\ Returns("ok")
  /\ replies' = Append(replies, chunks) /\ called' = calls
  /\ UNCHANGED <<model, monitor, pump, waiters, blocked, replay, tok, tee, shut, text>>

\* An OnMessage handler may return an error without closing the channel, or
\* close it before the answer is complete.
Abandons ==
  /\ custom /\ agent = "range" /\ Returns("failed")
  /\ UNCHANGED <<model, monitor, pump, waiters, blocked, replay, tok, tee, shut, record>>

StopsEarly ==
  /\ custom /\ agent = "range" /\ Returns("ok") /\ shut' = TRUE
  /\ UNCHANGED <<model, monitor, pump, waiters, blocked, replay, tok, tee, record>>

\* FAULT (SeenIsReply): a failing handler's tee is not awaited.
AwaitReplies ==
  /\ agent = "returned" /\ (outcome = "failed" \/ tee \in {"off", "ended"})
  /\ agent' = "done" /\ own' = TRUE
  /\ UNCHANGED <<model, monitor, pump, waiters, blocked, replay, tok, outcome, tee, shut, record>>

\* turn.AwaitStream; leaving, runOneAgent cancels the turn's context.
AwaitStream ==
  /\ agent = "returned" /\ tee \in {"off", "ended"}
  /\ agent' = "done" /\ own' = TRUE
  /\ UNCHANGED <<model, monitor, pump, waiters, blocked, replay, tok, outcome, tee, shut, record>>

Handler ==
  /\ \/ AskFails \/ Asks \/ Collected \/ ClaimStream \/ RangeNext \/ Put \/ RangeEnds
     \/ ChecksErr \/ ReplyWhole \/ Abandons \/ StopsEarly \/ AwaitStream
  /\ UNCHANGED <<answer, sink, schema, custom, pos, offer, relay, taken, chunks, calls, closed, err,
                 at, gone, seen>>

-----------------------------------------------------------------------------
(* The tee (Turn.Stream), the server's own writes, and the client.         *)

\* A write is best-effort: it is lost, silently, once the client has gone.
Write(frames) == seen' = seen \o frames \/ (gone /\ UNCHANGED seen)

TeeWrites ==
  /\ tee = "writing"
  /\ Write(<<text[Len(text)]>>) /\ tee' = "reading"
  /\ UNCHANGED replies

\* out is closed, or the turn cancelled: what was written becomes one reply.
TeeEnds ==
  /\ tee = "reading" /\ (shut \/ Cancelled)
  /\ replies' = Append(replies, text) /\ tee' = "ended"
  /\ UNCHANGED seen

Tee ==
  /\ TeeWrites \/ TeeEnds
  /\ UNCHANGED <<answer, sink, schema, custom, upstream, pump, taken, buffer, blocked, replay, at,
                 handler, shut, text, called, gone, own>>

\* The end of the request: an error frame, or the reply nobody streamed.
Serve ==
  /\ agent = "done" /\ agent' = "served"
  /\ CASE outcome = "failed"         -> Write(<<ErrorFrame>>)
       [] outcome = "ok" /\ ~Claimed -> Write(replies[1])
       [] outcome = "ok" /\ Claimed  -> UNCHANGED seen
  /\ UNCHANGED <<answer, sink, schema, custom, upstream, pump, taken, buffer, blocked, replay, at,
                 tok, outcome, tee, shut, record, gone, own>>

ClientLeaves ==
  /\ ~gone /\ agent # "served" /\ gone' = TRUE
  /\ UNCHANGED <<answer, sink, schema, custom, upstream, pump, taken, buffer, blocked, replay, at,
                 handler, tee, shut, record, own, seen>>

Next ==
  \/ Model \/ Pump \/ ReplayLooks \/ Handler \/ Tee \/ Serve \/ ClientLeaves
  \/ \E r \in Readers : Signalled(r)

Spec == Init /\ [][Next]_vars

\* Goroutines that can run do; the provider's stream yields or ends; a handler
\* goes on.  The client owes nothing.
FairSpec ==
  /\ Spec
  /\ WF_vars(Model) /\ WF_vars(Pump) /\ WF_vars(ReplayLooks) /\ WF_vars(Handler)
  /\ WF_vars(Tee) /\ WF_vars(Serve) /\ \A r \in Readers : WF_vars(Signalled(r))

-----------------------------------------------------------------------------

Upto(n) == [i \in 1..n |-> i]

\* No wakeup is lost: a reader still registered has nothing to read and the
\* answer is not complete (wait registers under the lock that push, pushCall and
\* close take before they wake).
NoMissedWake ==
  \A r \in waiters : ~closed /\ (r = "replay" => at = Len(chunks))

\* At the end of the request the client has been shown exactly what the turn
\* recorded, in order, whether it was streamed or emitted whole; or a prefix of
\* the answer and, last, the error (AwaitStream, and the server's fallback).
SeenIsReply ==
  agent = "served" /\ ~gone =>
    IF outcome = "ok" THEN Len(replies) = 1 /\ seen = replies[1]
    ELSE \E k \in 0..answer.tokens : seen = Append(Upto(k), ErrorFrame)

\* A default agent's success is the model's whole answer, its calls included,
\* and an answer that ended in an error is never taken for a success.
WholeAnswer ==
  outcome = "ok" /\ ~custom /\ ~gone /\ agent \in {"done", "served"} =>
    /\ answer.end # "error" /\ replies = <<Upto(answer.tokens)>>
    /\ called = (IF answer.end = "call" THEN 1 ELSE 0)

\* The same, whether or not the client left: what a checkpoint then holds.
RecordedWhole ==
  outcome = "ok" /\ ~custom /\ agent \in {"done", "served"} =>
    /\ answer.end # "error" /\ replies = <<Upto(answer.tokens)>>

\* The request ends, whatever the handler does, unless the client left.
RequestEnds == <>(gone \/ agent = "served")

\* Whoever stops reading, the model's goroutine, its monitor and the pump end.
StreamDrains == model = "reading" ~> model = "ended" /\ monitor = "ended" /\ pump = "ended"
=============================================================================
