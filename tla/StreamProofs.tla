---------------------------- MODULE StreamProofs ----------------------------
(***************************************************************************)
(* Theorems of Stream, for answers of any length: no reader of the buffer  *)
(* misses a wakeup, and a client that stayed was shown what the turn       *)
(* recorded.                                                               *)
(***************************************************************************)
EXTENDS Stream, SequenceTheorems, TLAPS

Flag(b) == IF b THEN 1 ELSE 0

\* The chunks on their way to a buffer of n tokens follow each other, and it.
Order(n) ==
  /\ pos \in Nat /\ offer \in Int /\ relay \in Int /\ taken \in Int
  /\ n + Flag(taken > 0) + Flag(relay > 0) + Flag(offer > 0) <= answer.tokens
  /\ taken > 0 => taken = n + 1
  /\ relay > 0 => relay = n + Flag(taken > 0) + 1
  /\ offer > 0 => offer = n + Flag(taken > 0) + Flag(relay > 0) + 1
  /\ model \in {"reading", "sending"} /\ pos <= answer.tokens =>
       pos = n + Flag(taken > 0) + Flag(relay > 0) + Flag(offer > 0)
  /\ model \in {"off", "reading", "ended"} => offer = None
  /\ model = "off" => pos = 0
  /\ monitor \in {"off", "reading", "ended"} => relay = None
  /\ pump \in {"off", "reading", "ended"} => taken = None
  /\ pump = "off" => n = 0 /\ model = "off" /\ monitor = "off"

\* The buffer holds the first tokens of the answer.
FlowInv ==
  /\ answer \in Answers /\ chunks \in Seq(Nat)
  /\ chunks = Upto(Len(chunks)) /\ Order(Len(chunks))

\* The tokens on their way from the buffer to the client follow each other.
ReplayInv ==
  /\ at \in Nat /\ at <= Len(chunks)
  /\ text \in Seq(Nat) /\ text = Upto(Len(text))
  /\ at = Len(text) + Flag(agent = "put") + Flag(replay = "sending")
  /\ agent = "put" => tok = Len(text) + 1

\* How far the handler is, what the tee has done, and what was recorded.
TeeInv ==
  /\ agent \in AgentSteps
  /\ agent = "ask" => pump = "off"
  /\ agent \in {"ask", "collect", "claim", "reply"} => tee = "off" /\ replies = <<>>
  /\ agent \in {"range", "put", "err"} => tee # "off"
  /\ agent \in {"done", "served"} => tee \in {"off", "ended"}
  /\ outcome = "ok" /\ tee = "off" => replies = <<chunks>> /\ closed
  /\ outcome = "ok" => agent \in {"returned", "done", "served"}
  /\ agent \in {"returned", "done", "served"} => outcome \in {"ok", "failed"}
  /\ agent = "reply" \/ (agent = "claim" /\ ~sink) => closed
  /\ closed => pump = "ended"
  /\ tee \in {"off", "reading", "writing", "ended"}
  /\ tee = "off" => text = <<>> /\ replay = "off"
  /\ tee \in {"reading", "writing"} => replies = <<>>
  /\ tee = "ended" => replies = <<text>>

\* What the client has been shown.
SeenInv ==
  ~gone /\ agent # "served" =>
    CASE tee = "off"                  -> seen = <<>>
      [] tee \in {"reading", "ended"} -> seen = text
      [] tee = "writing"              -> Len(text) > 0 /\ seen = Upto(Len(text) - 1)

\* A reader that is registered is blocked, and has nothing to read.
WaitInv == waiters \subseteq blocked /\ NoMissedWake

StreamInv == FlowInv /\ ReplayInv /\ TeeInv /\ WaitInv /\ SeenInv /\ SeenIsReply

-----------------------------------------------------------------------------

\* The first n + 1 tokens are the first n and the next.
LEMMA UptoAppend ==
  ASSUME NEW n \in Nat
  PROVE  Append(Upto(n), n + 1) = Upto(n + 1) /\ Upto(n) \in Seq(Nat) /\ Len(Upto(n)) = n
<1>a. Upto(n) \in [1..n -> Nat]  BY DEF Upto
<1>b. Upto(n) \in Seq(Nat)  BY <1>a, SeqDef, Zenon
<1>c. Len(Upto(n)) \in Nat /\ DOMAIN Upto(n) = 1..Len(Upto(n))  BY <1>b, LenProperties
<1>d. DOMAIN Upto(n) = 1..n  BY DEF Upto
<1>e. \A a, b \in Nat : 1..a = 1..b => a = b
  <2> SUFFICES ASSUME NEW a \in Nat, NEW b \in Nat, 1..a = 1..b PROVE a = b  OBVIOUS
  <2>1. \A i \in Int : 1 <= i /\ i <= a <=> 1 <= i /\ i <= b  OBVIOUS
  <2> QED  BY <2>1
<1>1. Upto(n) \in Seq(Nat) /\ Len(Upto(n)) = n  BY <1>b, <1>c, <1>d, <1>e
<1> DEFINE s == Append(Upto(n), n + 1)
<1>2. /\ s \in Seq(Nat) /\ Len(s) = n + 1
      /\ \A i \in 1..n : s[i] = Upto(n)[i]
      /\ s[n + 1] = n + 1
  BY <1>1, AppendProperties
<1>3. DOMAIN s = 1..n + 1 /\ s = [i \in DOMAIN s |-> s[i]]  BY <1>2, LenProperties
<1>4. \A i \in 1..n + 1 : s[i] = i  BY <1>2 DEF Upto
<1>5. s = Upto(n + 1)
  <2> HIDE DEF s
  <2> QED  BY <1>3, <1>4 DEF Upto
<1> QED  BY <1>1, <1>5

\* No tokens are the empty sequence.
LEMMA UptoZero == Upto(0) = <<>>
<1>1. Upto(0) \in Seq(Nat) /\ Len(Upto(0)) = 0  BY UptoAppend
<1> QED  BY <1>1, EmptySeq


\* At the start every stage is empty.
LEMMA StreamInit == Init => StreamInv
<1> SUFFICES ASSUME Init PROVE StreamInv  OBVIOUS
<1> USE StreamAssumption DEF Init
<1>1. Upto(0) = <<>> /\ Len(<<>>) = 0 /\ <<>> \in Seq(Nat)  BY UptoZero, EmptySeq
<1>2. FlowInv
  <2>1. Order(0)  BY DEF Order, Flag, None, Answers
  <2> QED  BY <1>1, <2>1 DEF FlowInv
<1>3. ReplayInv  BY <1>1 DEF ReplayInv, Flag
<1>4. TeeInv /\ WaitInv /\ SeenInv /\ SeenIsReply
  BY DEF TeeInv, WaitInv, NoMissedWake, SeenInv, SeenIsReply, AgentSteps
<1> QED  BY <1>2, <1>3, <1>4 DEF StreamInv

\* The model and the monitor keep the order of the chunks.
LEMMA ModelOrder ==
  ASSUME NEW n \in Nat, answer \in Answers, Order(n), Model
  PROVE  Order(n)'
<1> USE DEF Order, Flag, None, Call, Error
<1>a. answer.tokens \in Nat /\ UNCHANGED <<answer, pump, taken>>  BY StreamAssumption DEF Answers, Model
<1>1. CASE ModelReads  BY <1>a, <1>1 DEF ModelReads, Length, ChunkAt
<1>2. CASE ModelCut  BY <1>a, <1>2 DEF ModelCut, Length
<1>3. CASE ModelSends  BY <1>a, <1>3 DEF ModelSends
<1>4. CASE ModelGivesUp  BY <1>a, <1>4 DEF ModelGivesUp
<1>5. CASE ModelEnds  BY <1>a, <1>5 DEF ModelEnds
<1>6. CASE MonitorEnds  BY <1>a, <1>6 DEF MonitorEnds
<1> QED  BY <1>1, <1>2, <1>3, <1>4, <1>5, <1>6 DEF Model

\* The pump keeps the order of the chunks: it appends the next token.
LEMMA PumpOrder ==
  ASSUME NEW n \in Nat, answer \in Answers, Order(n), Pump
  PROVE  IF Push /\ taken > 0 THEN Order(n + 1)' ELSE Order(n)'
<1> USE DEF Order, Flag, None, Call, Error
<1>a. answer.tokens \in Nat /\ UNCHANGED answer  BY StreamAssumption DEF Answers, Pump
<1>1. CASE PumpTakes
  <2>1. ~Push  BY <1>1 DEF PumpTakes, Push
  <2> QED  BY <1>a, <1>1, <2>1 DEF PumpTakes
<1>2. CASE Push  BY <1>a, <1>2 DEF Push, upstream
<1>3. CASE Close
  <2>1. ~Push  BY <1>3 DEF Close, Push
  <2> QED  BY <1>a, <1>3, <2>1 DEF Close, upstream
<1> QED  BY <1>1, <1>2, <1>3 DEF Pump

\* Every step keeps the order of the chunks before the buffer.
LEMMA FlowNext == FlowInv /\ TeeInv /\ [Next]_vars => FlowInv'
<1> SUFFICES ASSUME FlowInv, TeeInv, [Next]_vars PROVE FlowInv'  OBVIOUS
<1> DEFINE n == Len(chunks)
<1>a. n \in Nat /\ Order(n) /\ answer \in Answers /\ chunks \in Seq(Nat) /\ chunks = Upto(n)  BY DEF FlowInv
<1>b. ASSUME UNCHANGED <<answer, chunks>>, Order(n)' PROVE FlowInv'  BY <1>a, <1>b DEF FlowInv
<1>c. ASSUME UNCHANGED <<answer, chunks>>, \A m \in Nat : Order(m) => Order(m)' PROVE FlowInv'
  <2> HIDE DEF n
  <2>1. n' = n  BY <1>c DEF n
  <2>2. Order(n)'  BY <1>a, <1>c, <2>1 DEF Order
  <2> QED  BY <1>b, <1>c, <2>2
<1>d. ASSUME UNCHANGED <<answer, chunks, pos, offer, relay, taken, model, monitor, pump>> PROVE FlowInv'
  BY <1>c, <1>d DEF Order
<1>1. CASE Model
  <2>1. UNCHANGED <<answer, chunks>>  BY <1>1 DEF Model, buffer
  <2> QED  BY <1>1, <1>a, <1>c, <2>1, ModelOrder
<1>2. CASE Pump
  <2>1. CASE Push /\ taken > 0
    <3>1. taken = n + 1 /\ UNCHANGED answer  BY <1>2, <1>a, <2>1 DEF Order, Pump
    <3>2. chunks' = Upto(n + 1) /\ Len(chunks') = n + 1 /\ chunks' \in Seq(Nat)
      <4>1. chunks' = Append(chunks, taken)  BY <2>1 DEF Push
      <4> HIDE DEF n
      <4>2. chunks' = Append(Upto(n), n + 1)  BY <1>a, <3>1, <4>1
      <4>3. Append(Upto(n), n + 1) = Upto(n + 1)  BY <1>a, UptoAppend
      <4>4. Upto(n + 1) \in Seq(Nat) /\ Len(Upto(n + 1)) = n + 1  BY <1>a, UptoAppend
      <4> QED  BY <4>2, <4>3, <4>4
    <3>3. \A m \in Nat : Order(m) => Order(m + 1)'  BY <1>2, <1>a, <2>1, PumpOrder
    <3> HIDE DEF n
    <3>4. n' = n + 1  BY <3>2 DEF n
    <3>5. Order(n)'  BY <1>a, <3>3, <3>4 DEF Order
    <3> QED  BY <1>a, <3>1, <3>2, <3>5 DEF FlowInv, n
  <2>2. CASE ~(Push /\ taken > 0)
    <3>1. UNCHANGED <<answer, chunks>>  BY <1>2, <2>2 DEF Pump, PumpTakes, Push, Close, buffer
    <3> QED  BY <1>2, <1>a, <1>c, <2>2, <3>1, PumpOrder
  <2> QED  BY <2>1, <2>2
<1>3. CASE Handler
  <2>a. UNCHANGED <<answer, chunks, pos, offer, relay, taken>>  BY <1>3 DEF Handler
  <2>1. CASE Asks
    <3>1. pump = "off" /\ n = 0 /\ pos = 0 /\ offer = None /\ relay = None /\ taken = None
      BY <1>a, <2>1 DEF Asks, TeeInv, Order
    <3>2. model' = "reading" /\ monitor' = "reading" /\ pump' = "reading"  BY <2>1 DEF Asks
    <3>3. n' = n /\ answer.tokens \in Nat  BY <1>a, <2>a, StreamAssumption DEF Answers
    <3> HIDE DEF n
    <3>4. Order(n)'  BY <2>a, <3>1, <3>2, <3>3 DEF Order, Flag, None
    <3> QED  BY <1>b, <2>a, <3>4
  <2>2. CASE ~Asks
    <3>1. UNCHANGED <<model, monitor, pump>>
      BY <1>3, <2>2 DEF Handler, AskFails, Collected, ClaimStream, RangeNext, Put, RangeEnds,
         ChecksErr, ReplyWhole, Abandons, StopsEarly, AwaitStream
    <3> QED  BY <1>d, <2>a, <3>1
  <2> QED  BY <2>1, <2>2
<1>4. CASE ReplayLooks \/ Tee \/ Serve \/ ClientLeaves \/ (\E r \in Readers : Signalled(r)) \/ UNCHANGED vars
  <2>1. UNCHANGED <<answer, chunks, pos, offer, relay, taken, model, monitor, pump>>
    BY <1>4 DEF ReplayLooks, Tee, Serve, ClientLeaves, Signalled, vars, upstream, buffer
  <2> QED  BY <1>d, <2>1
<1> QED  BY <1>1, <1>2, <1>3, <1>4 DEF Next

\* Every step keeps what the handler and the tee have recorded.
LEMMA TeeNext == FlowInv /\ ReplayInv /\ TeeInv /\ [Next]_vars => TeeInv'
<1> SUFFICES ASSUME FlowInv, ReplayInv, TeeInv, [Next]_vars PROVE TeeInv'  OBVIOUS
<1> USE DEF TeeInv, AgentSteps
<1>1. CASE Model  BY <1>1 DEF Model, handler, record, buffer
<1>2. CASE Pump
  <2>1. UNCHANGED <<handler, tee, record>>  BY <1>2 DEF Pump
  <2>2. closed => UNCHANGED chunks /\ closed' /\ pump' = "ended"
    BY <1>2 DEF Pump, PumpTakes, Push, Close, buffer, FlowInv
  <2>3. closed' => pump' = "ended"  BY <1>2, <2>2 DEF Pump, PumpTakes, Push, Close, buffer
  <2>4. outcome = "ok" /\ tee = "off" => replies' = <<chunks'>>
    BY <2>1, <2>2 DEF handler, record
  <2> QED  BY <1>2, <2>1, <2>2, <2>3, <2>4 DEF handler, record, Pump, PumpTakes, Push, Close
<1>3. CASE Handler
  <2>a. UNCHANGED <<chunks, closed, sink>>  BY <1>3 DEF Handler
  <2>1. CASE AskFails  BY <2>a, <2>1 DEF AskFails, Returns, record
  <2>2. CASE Asks  BY <2>a, <2>2 DEF Asks, record
  <2>3. CASE Collected  BY <2>a, <2>3 DEF Collected, Returns, record
  <2>4. CASE ClaimStream  BY <2>a, <2>4 DEF ClaimStream, record
  <2>5. CASE RangeNext  BY <2>a, <2>5 DEF RangeNext, record
  <2>6. CASE Put  BY <2>a, <2>6 DEF Put, record
  <2>7. CASE RangeEnds  BY <2>a, <2>7 DEF RangeEnds, record
  <2>8. CASE ChecksErr  BY <2>a, <2>8 DEF ChecksErr, Returns, record
  <2>9. CASE ReplyWhole  BY <2>a, <2>9 DEF ReplyWhole, Returns
  <2>10. CASE Abandons \/ StopsEarly  BY <2>a, <2>10 DEF Abandons, StopsEarly, Returns, record
  <2>11. CASE AwaitStream  BY <2>a, <2>11 DEF AwaitStream, record
  <2> QED  BY <1>3, <2>1, <2>2, <2>3, <2>4, <2>5, <2>6, <2>7, <2>8, <2>9, <2>10, <2>11 DEF Handler
<1>4. CASE Tee  BY <1>4 DEF Tee, TeeWrites, TeeEnds, handler, buffer
<1>5. CASE Serve  BY <1>5 DEF Serve, record, buffer
<1>6. CASE ReplayLooks \/ ClientLeaves \/ (\E r \in Readers : Signalled(r)) \/ UNCHANGED vars
  BY <1>6 DEF ReplayLooks, ClientLeaves, Signalled, vars, handler, record, buffer
<1> QED  BY <1>1, <1>2, <1>3, <1>4, <1>5, <1>6 DEF Next

\* Every step keeps the order of the tokens behind the buffer.
LEMMA ReplayNext == FlowInv /\ FlowInv' /\ ReplayInv /\ TeeInv /\ [Next]_vars => ReplayInv'
<1> SUFFICES ASSUME FlowInv, FlowInv', ReplayInv, TeeInv, [Next]_vars PROVE ReplayInv'  OBVIOUS
<1> USE DEF ReplayInv, Flag
<1>a. Len(chunks) \in Nat /\ Len(chunks') \in Nat /\ Len(text) \in Nat  BY DEF FlowInv
<1>b. ASSUME UNCHANGED <<at, text, tok, replay>>, agent' = "put" <=> agent = "put", at <= Len(chunks')
      PROVE  ReplayInv'
  <2>1. Len(text') = Len(text)  BY <1>b
  <2>2. at' \in Nat /\ at' <= Len(chunks')  BY <1>b
  <2> QED  BY <1>a, <1>b, <2>1, <2>2
<1>1. CASE Model  BY <1>a, <1>b, <1>1 DEF Model, handler, record, buffer
<1>2. CASE Pump
  <2>1. at <= Len(chunks')
    <3>1. CASE Push /\ taken > 0
      <4>1. taken \in Nat  BY <3>1 DEF FlowInv, Order
      <4>2. chunks' = Append(chunks, taken) /\ chunks \in Seq(Nat)  BY <3>1 DEF Push, FlowInv
      <4>3. Len(chunks') = Len(chunks) + 1  BY <4>1, <4>2, AppendProperties
      <4>4. at \in Nat /\ at <= Len(chunks)  OBVIOUS
      <4>5. \A i, k, l \in Nat : i <= k /\ l = k + 1 => i <= l  OBVIOUS
      <4> HIDE DEF ReplayInv
      <4> QED  BY <1>a, <4>3, <4>4, <4>5
    <3>2. CASE ~(Push /\ taken > 0)
      <4>1. UNCHANGED chunks  BY <1>2, <3>2 DEF Pump, PumpTakes, Push, Close, buffer
      <4> QED  BY <1>a, <4>1
    <3> QED  BY <3>1, <3>2
  <2> QED  BY <1>2, <1>b, <2>1 DEF Pump, handler, record
<1>3. CASE ReplayLooks
  <2>1. UNCHANGED <<text, tok, agent, chunks>>  BY <1>3 DEF ReplayLooks, handler, record
  <2>2. Len(text') = Len(text) /\ Len(chunks') = Len(chunks)  BY <2>1
  <2>3. CASE at < Len(chunks)
    <3>1. replay = "reading" /\ replay' = "sending" /\ at' = at + 1  BY <1>3, <2>3 DEF ReplayLooks
    <3> QED  BY <1>a, <2>1, <2>2, <2>3, <3>1
  <2>4. CASE ~(at < Len(chunks))
    <3>1. replay = "reading" /\ replay' # "sending" /\ at' = at  BY <1>3, <2>4 DEF ReplayLooks
    <3> QED  BY <1>a, <2>1, <2>2, <3>1
  <2> QED  BY <2>3, <2>4
<1>4. CASE Handler
  <2>a. UNCHANGED <<chunks, at>>  BY <1>4 DEF Handler
  <2>1. CASE AskFails \/ Asks \/ Collected \/ RangeEnds \/ ReplyWhole \/ Abandons \/ StopsEarly \/ AwaitStream
    BY <1>a, <1>b, <2>a, <2>1 DEF AskFails, Asks, Collected, RangeEnds, ReplyWhole, Abandons, StopsEarly,
       AwaitStream, Returns, record
  <2>2. CASE ChecksErr  BY <1>a, <1>b, <2>a, <2>2 DEF ChecksErr, Returns
  <2>3. CASE ClaimStream
    <3>1. replay # "sending"  BY <1>a, <2>3 DEF ClaimStream, TeeInv
    <3> QED  BY <1>a, <2>a, <2>3, <3>1 DEF ClaimStream, record
  <2>4. CASE RangeNext
    <3>1. at \in 1..Len(chunks) /\ chunks[at] = at  BY <1>a, <2>4 DEF RangeNext, FlowInv, Upto
    <3> QED  BY <1>a, <2>a, <2>4, <3>1 DEF RangeNext, record
  <2>5. CASE Put
    <3>1. text' = Append(Upto(Len(text)), Len(text) + 1)  BY <2>5 DEF Put
    <3>2. text' = Upto(Len(text) + 1)  BY <1>a, <3>1, UptoAppend
    <3>3. text' \in Seq(Nat) /\ Len(text') = Len(text) + 1  BY <1>a, <3>2, UptoAppend
    <3> QED  BY <1>a, <2>a, <2>5, <3>2, <3>3 DEF Put
  <2> QED  BY <1>4, <2>1, <2>2, <2>3, <2>4, <2>5 DEF Handler
<1>5. CASE Tee \/ Serve \/ ClientLeaves \/ (\E r \in Readers : Signalled(r)) \/ UNCHANGED vars
  <2>1. UNCHANGED <<at, text, tok, replay, chunks>>
    BY <1>5 DEF Tee, Serve, ClientLeaves, Signalled, vars, handler, record, buffer
  <2>2. agent' = "put" <=> agent = "put"
    BY <1>5 DEF Tee, Serve, ClientLeaves, Signalled, vars, handler
  <2> QED  BY <1>a, <1>b, <2>1, <2>2
<1> QED  BY <1>1, <1>2, <1>3, <1>4, <1>5 DEF Next

\* Every step keeps a registered reader blocked with nothing to read.
LEMMA WaitNext == FlowInv /\ ReplayInv /\ WaitInv /\ [Next]_vars => WaitInv'
<1> SUFFICES ASSUME FlowInv, ReplayInv, WaitInv, [Next]_vars PROVE WaitInv'  OBVIOUS
<1> USE DEF WaitInv, NoMissedWake
<1>1. CASE UNCHANGED vars  BY <1>1 DEF vars, buffer
<1>2. CASE Model  BY <1>2 DEF Model, buffer
<1>3. CASE Pump
  <2>1. CASE PumpTakes  BY <1>3, <2>1 DEF Pump, PumpTakes, buffer
  <2>2. CASE Push \/ Close
    <3>1. waiters' = {}  BY <2>2 DEF Push, Close
    <3> QED  BY <3>1
  <2> QED  BY <1>3, <2>1, <2>2 DEF Pump
<1>4. CASE ReplayLooks
  <2>1. Len(chunks) \in Nat /\ at \in Nat /\ at <= Len(chunks)  BY DEF FlowInv, ReplayInv
  <2> QED  BY <1>4, <2>1 DEF ReplayLooks, Register
<1>5. CASE Handler
  <2>1. CASE ChecksErr  BY <1>5, <2>1 DEF Handler, ChecksErr, Register, Returns
  <2>2. CASE ~ChecksErr
    <3>1. UNCHANGED <<waiters, blocked, closed, at, chunks>>
      BY <1>5, <2>2 DEF Handler, AskFails, Asks, Collected, ClaimStream, RangeNext, Put,
         RangeEnds, ReplyWhole, Abandons, StopsEarly, AwaitStream
    <3> QED  BY <3>1
  <2> QED  BY <2>1, <2>2
<1>6. CASE Tee \/ Serve \/ ClientLeaves
  <2>1. UNCHANGED <<waiters, blocked, closed, at, chunks>>  BY <1>6 DEF Tee, Serve, ClientLeaves, buffer
  <2> QED  BY <2>1
<1>7. CASE \E r \in Readers : Signalled(r)  BY <1>7 DEF Signalled, buffer
<1> QED  BY <1>1, <1>2, <1>3, <1>4, <1>5, <1>6, <1>7 DEF Next

\* Every step keeps the client's view in step with the tee.
LEMMA SeenNext == ReplayInv /\ TeeInv /\ SeenInv /\ [Next]_vars => SeenInv'
<1> SUFFICES ASSUME ReplayInv, TeeInv, SeenInv, [Next]_vars PROVE SeenInv'  OBVIOUS
<1> USE DEF SeenInv
<1>a. Len(text) \in Nat  BY DEF ReplayInv
<1>1. CASE Model \/ Pump \/ ReplayLooks \/ (\E r \in Readers : Signalled(r)) \/ UNCHANGED vars
  BY <1>1 DEF Model, Pump, ReplayLooks, Signalled, vars, handler, record
<1>2. CASE Handler
  <2>1. UNCHANGED <<gone, seen>>  BY <1>2 DEF Handler
  <2>2. CASE ClaimStream  BY <2>1, <2>2 DEF ClaimStream, record, TeeInv
  <2>3. CASE Put
    <3>1. Len(text') = Len(text) + 1 /\ (seen = text \/ gone)  BY <1>a, <2>3, AppendProperties DEF Put, ReplayInv
    <3> QED  BY <1>a, <2>1, <2>3, <3>1, AppendProperties DEF Put, ReplayInv
  <2>4. CASE ~ClaimStream /\ ~Put
    <3>1. UNCHANGED <<tee, text>> /\ agent # "served"
      BY <1>2, <2>4 DEF Handler, AskFails, Asks, Collected, RangeNext, RangeEnds,
         ChecksErr, ReplyWhole, Abandons, StopsEarly, AwaitStream, record
    <3> QED  BY <2>1, <3>1
  <2> QED  BY <2>2, <2>3, <2>4
<1>3. CASE Tee
  <2>1. UNCHANGED <<text, agent, gone>>  BY <1>3 DEF Tee, handler
  <2>2. CASE TeeWrites
    <3>1. CASE ~gone /\ agent # "served"
      <4> DEFINE m == Len(text) - 1
      <4>0. Len(text) > 0 /\ m \in Nat /\ seen = Upto(m)  BY <1>a, <2>2, <3>1 DEF TeeWrites
      <4>1. m \in Nat /\ seen = Upto(m) /\ text = Upto(m + 1) /\ Len(text) = m + 1
        <5>1. m + 1 = Len(text)  BY <1>a
        <5> QED  BY <4>0, <5>1 DEF ReplayInv
      <4>2. text[Len(text)] = m + 1
        <5> HIDE DEF m
        <5>1. m + 1 \in 1..m + 1  BY <4>1
        <5>2. Upto(m + 1)[m + 1] = m + 1  BY <5>1 DEF Upto
        <5> QED  BY <4>1, <5>2
      <4>3. seen' = seen \o <<m + 1>>  BY <2>2, <3>1, <4>2 DEF TeeWrites, Write
      <4>4. seen' = Append(Upto(m), m + 1)  BY <4>1, <4>3, UptoAppend, AppendIsConcat
      <4>5. seen' = text
        <5> HIDE DEF m
        <5> QED  BY <4>1, <4>4, UptoAppend
      <4> QED  BY <2>1, <2>2, <4>5 DEF TeeWrites
    <3> QED  BY <2>1, <3>1
  <2>3. CASE TeeEnds  BY <2>1, <2>3 DEF TeeEnds
  <2> QED  BY <1>3, <2>2, <2>3 DEF Tee
<1>4. CASE Serve \/ ClientLeaves  BY <1>4 DEF Serve, ClientLeaves
<1> QED  BY <1>1, <1>2, <1>3, <1>4 DEF Next

\* Every step keeps what a served client has been shown.
LEMMA ServedNext == StreamInv /\ TeeInv' /\ [Next]_vars => SeenIsReply'
<1> SUFFICES ASSUME StreamInv, TeeInv', [Next]_vars PROVE SeenIsReply'  OBVIOUS
<1>a. FlowInv /\ ReplayInv /\ TeeInv /\ SeenInv /\ SeenIsReply  BY DEF StreamInv
<1>1. CASE Serve
  <2>a. UNCHANGED <<answer, gone, tee, replies, text, outcome, chunks>> /\ agent = "done"
    BY <1>1 DEF Serve, record, buffer
  <2> SUFFICES ASSUME ~gone
               PROVE IF outcome = "ok" THEN Len(replies) = 1 /\ seen' = replies[1]
                     ELSE \E k \in 0..answer.tokens : seen' = Append(Upto(k), ErrorFrame)
    BY <2>a DEF SeenIsReply
  <2>1. CASE outcome = "ok" /\ tee = "off"
    <3>1. replies = <<chunks>> /\ seen = <<>>  BY <1>a, <2>a, <2>1 DEF TeeInv, SeenInv
    <3>2. seen' = seen \o chunks  BY <1>1, <2>1, <3>1 DEF Serve, Write, Claimed
    <3> QED  BY <1>a, <2>1, <3>1, <3>2, ConcatEmptySeq DEF FlowInv
  <2>2. CASE outcome = "ok" /\ tee # "off"
    <3>1. tee = "ended" /\ replies = <<text>> /\ seen = text  BY <1>a, <2>a, <2>2 DEF TeeInv, SeenInv
    <3> QED  BY <1>1, <2>2, <3>1 DEF Serve, Claimed
  <2>3. CASE outcome = "failed"
    <3> DEFINE k == Len(text)
    <3>1. k \in 0..answer.tokens
      <4> DEFINE n == Len(chunks)
      <4>1. k \in Nat /\ n \in Nat /\ answer.tokens \in Nat
        BY <1>a, StreamAssumption DEF FlowInv, ReplayInv, Answers
      <4>2. Order(n) /\ at \in Nat /\ at <= n /\ at = k + Flag(agent = "put") + Flag(replay = "sending")
        BY <1>a DEF FlowInv, ReplayInv
      <4> HIDE DEF n, k
      <4>3. n <= answer.tokens  BY <4>1, <4>2 DEF Order, Flag
      <4> QED  BY <4>1, <4>2, <4>3 DEF Flag
    <3>2. seen = text  BY <1>a, <2>a DEF TeeInv, SeenInv
    <3>3. seen' = Upto(k) \o <<ErrorFrame>>  BY <1>1, <1>a, <2>3, <3>2 DEF Serve, Write, ReplayInv
    <3>4. Upto(k) \in Seq(Nat) /\ ErrorFrame \in Nat  BY <3>1, UptoAppend DEF ErrorFrame
    <3>5. seen' = Append(Upto(k), ErrorFrame)  BY <3>3, <3>4, AppendIsConcat
    <3> HIDE DEF k
    <3> QED  BY <2>3, <3>1, <3>5
  <2> QED  BY <1>a, <2>a, <2>1, <2>2, <2>3 DEF TeeInv
<1>2. CASE ~Serve
  <2>1. agent' = "served" /\ ~gone' => agent = "served" /\ ~gone /\ UNCHANGED <<answer, replies, outcome, seen>>
    BY <1>2, <1>a DEF Next, Model, Pump, ReplayLooks, Tee, TeeWrites, TeeEnds, ClientLeaves, Signalled, vars, handler, record,
       TeeInv, Handler, AskFails, Asks, Collected, ClaimStream, RangeNext, Put, RangeEnds, ChecksErr,
       ReplyWhole, Abandons, StopsEarly, AwaitStream, Returns
  <2> QED  BY <1>a, <2>1 DEF SeenIsReply
<1> QED  BY <1>1, <1>2

\* StreamInv holds throughout.
THEOREM StreamHolds == Spec => []StreamInv
<1>1. StreamInv /\ [Next]_vars => StreamInv'
  BY FlowNext, TeeNext, ReplayNext, WaitNext, SeenNext, ServedNext DEF StreamInv
<1> QED  BY <1>1, StreamInit, PTL DEF Spec

\* No wakeup is lost: a reader that is still registered has nothing to read.
THEOREM NoWakeIsMissed == Spec => []NoMissedWake
BY StreamHolds, PTL DEF StreamInv, WaitInv

\* A client that stayed was shown exactly the reply that was recorded, or the
\* first tokens of the answer and then the error.
THEOREM ClientSawTheReply == Spec => []SeenIsReply
BY StreamHolds, PTL DEF StreamInv

-----------------------------------------------------------------------------
(* WholeAnswer. *)

\* While nothing is cancelled, each chunk the model has read is in one place: in
\* the buffer, or in the hands of one goroutine.
Source(n) ==
  /\ calls \in Nat /\ err \in BOOLEAN /\ pos <= Length
  /\ model = "sending" => pos > 0 /\ offer = ChunkAt(pos)
  /\ n + Flag(taken > 0) + Flag(relay > 0) + Flag(offer > 0) =
       (IF pos <= answer.tokens THEN pos ELSE answer.tokens)
  /\ calls + Flag(taken = Call) + Flag(relay = Call) + Flag(offer = Call) =
       Flag(pos > answer.tokens /\ answer.end = "call")
  /\ Flag(err) + Flag(taken = Error) + Flag(relay = Error) + Flag(offer = Error) =
       Flag(pos > answer.tokens /\ answer.end = "error")
  /\ model = "ended" => pos = Length
  /\ monitor = "ended" => model = "ended"
  /\ closed /\ ~err => pos = Length /\ offer = None /\ relay = None /\ taken = None

\* The buffer holds the whole answer.
Complete ==
  /\ answer.end # "error" /\ Len(chunks) = answer.tokens
  /\ calls = (IF answer.end = "call" THEN 1 ELSE 0)

\* The turn is cancelled by its handler's end alone; the replay ends with the buffer;
\* and a default handler that succeeds has found the answer complete.
WholeInv ==
  /\ own => agent \in {"returned", "done", "served"}
  /\ ~gone /\ ~own => Source(Len(chunks))
  /\ agent = "reply" \/ (agent = "claim" /\ ~sink) => ~err
  /\ replay = "ended" => closed /\ at = Len(chunks)
  /\ agent = "err" => replay = "ended"
  /\ outcome = "ok" /\ ~custom /\ tee # "off" => replay = "ended"
  /\ outcome = "ok" /\ ~custom /\ ~gone => closed /\ Complete /\ called = calls

\* At the start nothing has been read.
LEMMA WholeInit == Init => WholeInv
<1> SUFFICES ASSUME Init PROVE WholeInv  OBVIOUS
<1>1. chunks = <<>> /\ Len(<<>>) = 0 /\ answer \in Answers /\ answer.tokens \in Nat
  BY StreamAssumption, EmptySeq DEF Init, Answers
<1>2. Length \in Nat
  BY <1>1 DEF Length
<1>3. Source(0)
  <2>1. /\ pos = 0 /\ offer = 0 /\ relay = 0 /\ taken = 0 /\ calls = 0 /\ err = FALSE
        /\ closed = FALSE /\ model = "off" /\ monitor = "off"
    BY DEF Init, None
  <2>2. ~(pos > answer.tokens) /\ pos <= answer.tokens
    BY <1>1, <2>1
  <2>3. Flag(err) = 0 /\ Flag(pos > answer.tokens /\ answer.end = "call") = 0
        /\ Flag(pos > answer.tokens /\ answer.end = "error") = 0
    BY <2>1, <2>2 DEF Flag
  <2>4. /\ Flag(taken > 0) = 0 /\ Flag(relay > 0) = 0 /\ Flag(offer > 0) = 0
        /\ Flag(taken = Call) = 0 /\ Flag(relay = Call) = 0 /\ Flag(offer = Call) = 0
        /\ Flag(taken = Error) = 0 /\ Flag(relay = Error) = 0 /\ Flag(offer = Error) = 0
    BY <2>1 DEF Flag, Call, Error
  <2>5. 0 + Flag(taken > 0) + Flag(relay > 0) + Flag(offer > 0) =
          (IF pos <= answer.tokens THEN pos ELSE answer.tokens)
    BY <2>1, <2>2, <2>4
  <2>6. /\ calls + Flag(taken = Call) + Flag(relay = Call) + Flag(offer = Call) =
             Flag(pos > answer.tokens /\ answer.end = "call")
    BY <2>1, <2>3, <2>4
  <2>7. /\ Flag(err) + Flag(taken = Error) + Flag(relay = Error) + Flag(offer = Error) =
             Flag(pos > answer.tokens /\ answer.end = "error")
    BY <2>3, <2>4
  <2>8. calls \in Nat /\ pos <= Length
    BY <1>1, <2>1 DEF Length
  <2>9. err \in BOOLEAN
    BY Zenon DEF Init
  <2> QED
    BY <2>1, <2>5, <2>6, <2>7, <2>8, <2>9 DEF Source
<1> QED
  BY <1>1, <1>3 DEF Init, WholeInv

\* The model and the monitor pass on what was read, unless they are cancelled.
LEMMA ModelSource ==
  ASSUME NEW n \in Nat, answer \in Answers, Order(n), Source(n), Model, ~Cancelled
  PROVE  Source(n)'
<1> USE DEF Order, Source, Flag, None, Call, Error, Length, ChunkAt
<1>a. /\ answer.tokens \in Nat /\ answer.end \in Endings
      /\ UNCHANGED <<answer, pump, taken, calls, closed, err>>
  BY StreamAssumption DEF Answers, Model, buffer
<1>1. CASE ModelReads
  <2>1. CASE pos < answer.tokens
    BY <1>a, <1>1, <2>1 DEF ModelReads
  <2>2. CASE ~(pos < answer.tokens)
    <3>1. pos = answer.tokens /\ answer.end \in {"call", "error"} /\ pos' = pos + 1
      BY <1>a, <1>1, <2>2 DEF ModelReads, Endings
    <3>2. offer' = (IF answer.end = "call" THEN -1 ELSE -2)
      BY <1>a, <1>1, <3>1 DEF ModelReads
    <3>3. model = "reading" /\ model' = "sending" /\ UNCHANGED <<monitor, relay>>
      BY <1>1 DEF ModelReads
    <3>4. CASE answer.end = "call"
      BY <1>a, <3>1, <3>2, <3>3, <3>4
    <3>5. CASE answer.end = "error"
      BY <1>a, <3>1, <3>2, <3>3, <3>5
    <3> QED
      BY <3>1, <3>4, <3>5
  <2> QED
    BY <2>1, <2>2
<1>2. CASE ModelSends
  BY <1>a, <1>2 DEF ModelSends
<1>3. CASE ModelEnds
  BY <1>a, <1>3 DEF ModelEnds
<1>4. CASE MonitorEnds
  BY <1>a, <1>4 DEF MonitorEnds
<1>5. ~ModelCut /\ ~ModelGivesUp
  BY DEF ModelCut, ModelGivesUp
<1> QED
  BY <1>1, <1>2, <1>3, <1>4, <1>5 DEF Model

\* The pump puts what it is passed into the buffer.
LEMMA PumpSource ==
  ASSUME NEW n \in Nat, answer \in Answers, Order(n), Source(n), Pump
  PROVE  IF Push /\ taken > 0 THEN Source(n + 1)' ELSE Source(n)'
<1> USE DEF Order, Source, Flag, None, Call, Error, Length, ChunkAt
<1>a. answer.tokens \in Nat /\ answer.end \in Endings /\ UNCHANGED answer
  BY StreamAssumption DEF Answers, Pump
<1>1. CASE PumpTakes
  <2>1. ~Push
    BY <1>1 DEF PumpTakes, Push
  <2> QED
    BY <1>a, <1>1, <2>1 DEF PumpTakes, buffer
<1>2. CASE Push
  BY <1>a, <1>2 DEF Push, upstream
<1>3. CASE Close
  <2>1. ~Push
    BY <1>3 DEF Close, Push
  <2>2. UNCHANGED <<model, pos, offer, monitor, relay, calls>> /\ taken' = 0
    BY <1>3 DEF Close, upstream
  <2>3. CASE pump = "pushing" /\ taken = Error /\ err' = TRUE
    BY <1>a, <2>1, <2>2, <2>3
  <2>4. CASE pump = "reading" /\ monitor = "ended" /\ UNCHANGED err
    BY <1>a, <2>1, <2>2, <2>4
  <2> QED
    BY <1>3, <2>3, <2>4 DEF Close
<1> QED
  BY <1>1, <1>2, <1>3 DEF Pump

\* A closed buffer whose stream did not fail holds the whole answer.
LEMMA ClosedIsComplete ==
  ASSUME FlowInv, Source(Len(chunks)), closed, ~err
  PROVE  Complete
<1> DEFINE n == Len(chunks)
<1>1. n \in Nat /\ answer.tokens \in Nat /\ answer.end \in Endings
  BY StreamAssumption DEF FlowInv, Answers
<1>2. Source(n)
  OBVIOUS
<1> HIDE DEF n
<1>3. /\ pos = Length /\ n = (IF pos <= answer.tokens THEN pos ELSE answer.tokens)
      /\ calls = Flag(pos > answer.tokens /\ answer.end = "call")
      /\ 0 = Flag(pos > answer.tokens /\ answer.end = "error")
  BY <1>1, <1>2 DEF Source, Flag, None, Call, Error
<1>4. n = answer.tokens /\ answer.end # "error" /\ calls = Flag(answer.end = "call")
  BY <1>1, <1>3 DEF Flag, Length
<1> QED
  BY <1>4 DEF Complete, Flag, n

\* A client that has left does not come back.
LEMMA GoneStays == [Next]_vars /\ gone => gone'
<1> SUFFICES ASSUME [Next]_vars, gone PROVE gone'
  OBVIOUS
<1>1. CASE ClientLeaves
  BY <1>1 DEF ClientLeaves
<1>2. CASE ~ClientLeaves
  <2>1. UNCHANGED gone
    BY <1>2 DEF Next, Model, Pump, ReplayLooks, Handler, Tee, Serve, Signalled, vars
  <2> QED
    BY <2>1
<1> QED
  BY <1>1, <1>2

\* Every step keeps each chunk in one place.
LEMMA SourceNext ==
  ASSUME FlowInv, TeeInv, WholeInv, [Next]_vars, ~gone', ~own'
  PROVE  Source(Len(chunks))'
<1>0. PICK n \in Nat : n = Len(chunks)
  BY DEF FlowInv
<1>a. answer \in Answers /\ Order(n)
  BY <1>0 DEF FlowInv
<1>b. ~gone /\ ~own
  <2>1. CASE Model \/ Pump \/ ReplayLooks \/ (\E r \in Readers : Signalled(r)) \/ UNCHANGED vars
    BY <2>1 DEF Model, Pump, ReplayLooks, Signalled, vars
  <2>0. ~gone
    BY GoneStays
  <2>2. CASE Tee \/ Serve \/ ClientLeaves
    <3>1. UNCHANGED own
      BY <2>2 DEF Tee, Serve, ClientLeaves
    <3> QED
      BY <2>0, <3>1
  <2>3. CASE Handler
    <3>2. own => own'
      BY <2>3 DEF Handler, AskFails, Asks, Collected, ClaimStream, RangeNext, Put, RangeEnds,
         ChecksErr, ReplyWhole, Abandons, StopsEarly, AwaitStream, Returns
    <3> QED
      BY <2>0, <3>2
  <2> QED
    BY <2>0, <2>1, <2>2, <2>3 DEF Next
<1>c. Source(n) /\ ~Cancelled
  BY <1>0, <1>b DEF WholeInv, Cancelled
<1>d. ASSUME UNCHANGED <<answer, chunks, pos, offer, relay, taken, calls, closed, err>>,
             UNCHANGED <<model, monitor>>
      PROVE  Source(Len(chunks))'
  BY <1>0, <1>c, <1>d DEF Source, Length, ChunkAt
<1>1. CASE Model
  <2>1. UNCHANGED chunks
    BY <1>1 DEF Model, buffer
  <2>2. Source(n)'
    BY <1>1, <1>a, <1>c, ModelSource
  <2> QED
    BY <1>0, <2>1, <2>2
<1>2. CASE Pump
  <2>1. CASE Push /\ taken > 0
    <3>1. chunks' = Append(chunks, taken) /\ chunks \in Seq(Nat) /\ taken \in Nat
      BY <2>1 DEF Push, FlowInv, Order
    <3>2. Len(chunks') = n + 1
      BY <1>0, <3>1, AppendProperties
    <3>3. Source(n + 1)'
      BY <1>2, <1>a, <1>c, <2>1, PumpSource
    <3> QED
      BY <3>2, <3>3
  <2>2. CASE ~(Push /\ taken > 0)
    <3>1. UNCHANGED chunks
      BY <1>2, <2>2 DEF Pump, PumpTakes, Push, Close, buffer
    <3>2. Source(n)'
      BY <1>2, <1>a, <1>c, <2>2, PumpSource
    <3> QED
      BY <1>0, <3>1, <3>2
  <2> QED
    BY <2>1, <2>2
<1>3. CASE Handler
  <2>a. UNCHANGED <<answer, chunks, pos, offer, relay, taken, calls, closed, err>>
    BY <1>3 DEF Handler
  <2>1. CASE Asks
    <3>1. /\ model = "off" /\ monitor = "off" /\ ~closed
          /\ model' = "reading" /\ monitor' = "reading"
      BY <1>a, <2>1 DEF Asks, TeeInv, Order
    <3> QED
      BY <1>0, <1>c, <2>a, <3>1 DEF Source, Length, ChunkAt
  <2>2. CASE ~Asks
    <3>1. UNCHANGED <<model, monitor>>
      BY <1>3, <2>2 DEF Handler, AskFails, Collected, ClaimStream, RangeNext, Put, RangeEnds,
         ChecksErr, ReplyWhole, Abandons, StopsEarly, AwaitStream
    <3> QED
      BY <1>d, <2>a, <3>1
  <2> QED
    BY <2>1, <2>2
<1>4. CASE ReplayLooks \/ Tee \/ Serve \/ ClientLeaves \/ (\E r \in Readers : Signalled(r)) \/ UNCHANGED vars
  <2>1. UNCHANGED <<answer, chunks, pos, offer, relay, taken, calls, closed, err, model, monitor>>
    BY <1>4 DEF ReplayLooks, Tee, Serve, ClientLeaves, Signalled, vars, upstream, buffer
  <2> QED
    BY <1>d, <2>1
<1> QED
  BY <1>1, <1>2, <1>3, <1>4 DEF Next

\* What is closed stays as it is.
LEMMA ClosedStays ==
  ASSUME TeeInv, [Next]_vars, closed
  PROVE  UNCHANGED <<answer, sink, custom, chunks, calls, closed, err>>
<1>1. ~Push /\ ~Close
  BY DEF TeeInv, Push, Close
<1> QED
  BY <1>1 DEF Next, Model, Pump, PumpTakes, ReplayLooks, Handler, Tee, Serve, ClientLeaves, Signalled,
     vars, buffer

\* Every step keeps the answer of a successful turn whole.
LEMMA WholeNext == StreamInv /\ TeeInv' /\ WholeInv /\ [Next]_vars => WholeInv'
<1> SUFFICES ASSUME StreamInv, TeeInv', WholeInv, [Next]_vars PROVE WholeInv'
  OBVIOUS
<1>a. FlowInv /\ ReplayInv /\ TeeInv
  BY DEF StreamInv
<1>b. closed => UNCHANGED <<answer, sink, custom, chunks, calls, closed, err>>
  BY <1>a, ClosedStays
<1>c. UNCHANGED <<sink, custom>>
  BY DEF Next, Model, Pump, ReplayLooks, Handler, Tee, Serve, ClientLeaves, Signalled, vars
<1>d. ASSUME ~Handler
      PROVE  /\ UNCHANGED <<outcome, called, own>>
             /\ agent' = agent \/ (agent' = "served" /\ agent = "done")
             /\ tee' = tee \/ (tee # "off" /\ tee' # "off")
  <2>1. CASE Model \/ Pump \/ ReplayLooks \/ (\E r \in Readers : Signalled(r)) \/ UNCHANGED vars
    BY <2>1 DEF Model, Pump, ReplayLooks, Signalled, vars, handler, record
  <2>2. CASE Tee
    BY <2>2 DEF Tee, TeeWrites, TeeEnds, handler
  <2>3. CASE Serve \/ ClientLeaves
    BY <2>3 DEF Serve, ClientLeaves, handler, record
  <2> QED
    BY <1>d, <2>1, <2>2, <2>3 DEF Next
<1>1. own' => agent' \in {"returned", "done", "served"}
  <2>1. CASE Handler
    BY <2>1 DEF WholeInv, Handler, AskFails, Asks, Collected, ClaimStream, RangeNext, Put, RangeEnds,
       ChecksErr, ReplyWhole, Abandons, StopsEarly, AwaitStream, Returns
  <2> QED
    BY <1>d, <2>1 DEF WholeInv
<1>2. ~gone' /\ ~own' => Source(Len(chunks))'
  BY <1>a, SourceNext
<1>3. agent' = "reply" \/ (agent' = "claim" /\ ~sink') => ~err'
  <2>1. CASE Handler
    <3>1. UNCHANGED <<err, closed>>
      BY <2>1 DEF Handler
    <3>2. agent' = "reply" \/ (agent' = "claim" /\ ~sink) =>
            agent = "reply" \/ (agent = "claim" /\ ~sink) \/ ~err
      <4>1. CASE AskFails \/ ChecksErr \/ ReplyWhole \/ Abandons \/ StopsEarly \/ AwaitStream
        BY <1>a, <4>1 DEF TeeInv, AskFails, ChecksErr, ReplyWhole, Abandons, StopsEarly, AwaitStream, Returns
      <4>2. CASE Asks \/ RangeNext \/ Put \/ RangeEnds
        BY <4>2 DEF Asks, RangeNext, Put, RangeEnds
      <4>3. CASE Collected
        BY <4>3 DEF Collected, Returns
      <4>4. CASE ClaimStream
        BY <4>4 DEF ClaimStream
      <4> QED
        BY <2>1, <4>1, <4>2, <4>3, <4>4 DEF Handler
    <3> QED
      BY <1>c, <3>1, <3>2 DEF WholeInv
  <2>2. CASE ~Handler
    BY <1>a, <1>b, <1>c, <1>d, <2>2 DEF WholeInv, TeeInv
  <2> QED
    BY <2>1, <2>2
<1>4. replay' = "ended" => closed' /\ at' = Len(chunks')
  <2>1. CASE ReplayLooks
    <3>1. UNCHANGED <<closed, chunks>>
      BY <2>1 DEF ReplayLooks
    <3>2. Len(chunks) \in Nat /\ at \in Nat /\ at <= Len(chunks)
      BY <1>a DEF FlowInv, ReplayInv
    <3> QED
      BY <2>1, <3>1, <3>2 DEF ReplayLooks, WholeInv
  <2>2. CASE ~ReplayLooks
    <3>1. UNCHANGED at /\ (replay' = "ended" => replay = "ended")
      BY <2>2 DEF Next, Model, Pump, Handler, AskFails, Asks, Collected, ClaimStream, RangeNext, Put,
         RangeEnds, ChecksErr, ReplyWhole, Abandons, StopsEarly, AwaitStream, Tee, Serve, ClientLeaves,
         Signalled, vars
    <3> QED
      BY <1>b, <3>1 DEF WholeInv
  <2> QED
    BY <2>1, <2>2
<1>e. replay = "ended" => tee # "off" /\ agent \notin {"ask", "collect", "claim", "reply"}
  BY <1>a DEF TeeInv
<1>f. replay = "ended" => replay' = "ended"
  BY <1>e DEF Next, Model, Pump, ReplayLooks, Handler, AskFails, Asks, Collected, ClaimStream, RangeNext,
     Put, RangeEnds, ChecksErr, ReplyWhole, Abandons, StopsEarly, AwaitStream, Tee, Serve, ClientLeaves,
     Signalled, vars
<1>5. agent' = "err" => replay' = "ended"
  <2>1. CASE Handler
    BY <1>f, <2>1 DEF WholeInv, Handler, AskFails, Asks, Collected, ClaimStream, RangeNext, Put, RangeEnds,
       ChecksErr, ReplyWhole, Abandons, StopsEarly, AwaitStream, Returns
  <2> QED
    BY <1>d, <1>f, <2>1 DEF WholeInv
<1>6. outcome' = "ok" /\ ~custom' /\ tee' # "off" => replay' = "ended"
  <2>1. CASE Handler
    <3>1. CASE AskFails \/ Asks \/ Collected \/ ClaimStream \/ RangeNext \/ Put \/ RangeEnds \/ AwaitStream
      <4>1. outcome' = "ok" => outcome = "ok" /\ UNCHANGED tee
        BY <1>a, <3>1 DEF TeeInv, AskFails, Asks, Collected, ClaimStream, RangeNext, Put, RangeEnds, AwaitStream, Returns
      <4> QED
        BY <1>c, <1>f, <4>1 DEF WholeInv
    <3>2. CASE ChecksErr
      BY <1>f, <3>2 DEF WholeInv, ChecksErr
    <3>3. CASE ReplyWhole
      BY <1>a, <3>3 DEF TeeInv, ReplyWhole
    <3>4. CASE Abandons \/ StopsEarly
      BY <1>c, <3>4 DEF Abandons, StopsEarly
    <3> QED
      BY <2>1, <3>1, <3>2, <3>3, <3>4 DEF Handler
  <2> QED
    BY <1>c, <1>d, <1>f, <2>1 DEF WholeInv
<1>7. outcome' = "ok" /\ ~custom' /\ ~gone' => closed' /\ Complete' /\ called' = calls'
  <2>a. ASSUME outcome = "ok", ~custom, ~gone, UNCHANGED called
        PROVE  closed' /\ Complete' /\ called' = calls'
    BY <1>b, <2>a DEF WholeInv, Complete
  <2>b. ASSUME closed, ~err, ~gone, ~own, called' = calls
        PROVE  closed' /\ Complete' /\ called' = calls'
    <3>1. Complete
      BY <1>a, <2>b, ClosedIsComplete DEF WholeInv
    <3> QED
      BY <1>b, <2>b, <3>1 DEF Complete
  <2>1. CASE Handler
    <3>1. UNCHANGED gone
      BY <2>1 DEF Handler
    <3>2. CASE outcome = "ok"
      <4>1. UNCHANGED called
        BY <1>a, <2>1, <3>2 DEF TeeInv, Handler, AskFails, Asks, Collected, ClaimStream, RangeNext, Put, RangeEnds,
           ChecksErr, ReplyWhole, Abandons, StopsEarly, AwaitStream, record
      <4> QED
        BY <1>c, <2>a, <3>1, <3>2, <4>1
    <3>3. CASE outcome # "ok" /\ outcome' = "ok" /\ ~custom' /\ ~gone'
      <4>1. ChecksErr \/ ReplyWhole
        BY <1>c, <2>1, <3>3 DEF Handler, AskFails, Asks, Collected, ClaimStream, RangeNext, Put, RangeEnds,
           Abandons, StopsEarly, AwaitStream, Returns
      <4>2. closed /\ ~err /\ called' = calls /\ agent \in {"err", "reply"}
        BY <1>a, <3>3, <4>1 DEF TeeInv, WholeInv, ChecksErr, ReplyWhole, Returns
      <4>3. ~own
        BY <4>2 DEF WholeInv
      <4> QED
        BY <2>b, <3>1, <3>3, <4>2, <4>3
    <3> QED
      BY <3>2, <3>3
  <2>2. CASE ~Handler
    BY <1>c, <1>d, <2>a, <2>2, GoneStays
  <2> QED
    BY <2>1, <2>2
<1> QED
  BY <1>1, <1>2, <1>3, <1>4, <1>5, <1>6, <1>7 DEF WholeInv

\* WholeInv holds throughout, and gives WholeAnswer.
LEMMA WholeImplies == StreamInv /\ WholeInv => WholeAnswer
<1> SUFFICES ASSUME StreamInv, WholeInv, outcome = "ok", ~custom, ~gone, agent \in {"done", "served"}
             PROVE  /\ answer.end # "error" /\ replies = <<Upto(answer.tokens)>>
                    /\ called = (IF answer.end = "call" THEN 1 ELSE 0)
  BY DEF WholeAnswer
<1>1. FlowInv /\ ReplayInv /\ TeeInv
  BY DEF StreamInv
<1>2. Complete /\ called = calls
  BY DEF WholeInv
<1>3. replies = <<Upto(answer.tokens)>>
  <2>1. CASE tee = "off"
    BY <1>1, <1>2, <2>1 DEF TeeInv, FlowInv, Complete
  <2>2. CASE tee # "off"
    <3>1. tee = "ended" /\ replies = <<text>> /\ replay = "ended" /\ agent # "put"
      BY <1>1, <2>2 DEF TeeInv, WholeInv
    <3>2. at = Len(chunks) /\ Len(text) \in Nat
      BY <1>1, <3>1 DEF WholeInv, ReplayInv
    <3>3. at = Len(text) + 0 + 0
      BY <1>1, <3>1 DEF ReplayInv, Flag
    <3>4. Len(text) = answer.tokens
      BY <1>2, <3>2, <3>3 DEF Complete
    <3> QED
      BY <1>1, <3>1, <3>4 DEF ReplayInv
  <2> QED
    BY <2>1, <2>2
<1> QED
  BY <1>2, <1>3 DEF Complete

\* A default agent succeeds with the model's whole answer and its calls, of
\* whatever length, and never with an answer that ended in an error.
THEOREM SuccessIsWhole == Spec => []WholeAnswer
<1>1. StreamInv /\ [Next]_vars => TeeInv'
  BY TeeNext DEF StreamInv
<1>2. StreamInv /\ WholeInv /\ [Next]_vars => WholeInv'
  BY <1>1, WholeNext
<1>3. StreamInv /\ WholeInv => WholeAnswer
  BY WholeImplies
<1> QED
  BY <1>2, <1>3, WholeInit, StreamHolds, PTL DEF Spec

-----------------------------------------------------------------------------
(* Types. *)

\* An answer makes at most one call, and only after its tokens: it is in one
\* place on its way.  The tee writes a token it has recorded.
CallInv ==
  /\ calls + Flag(taken = Call) + Flag(relay = Call) + Flag(offer = Call) <= (IF pos <= answer.tokens THEN 0 ELSE 1)
  /\ tee = "writing" => Len(text) > 0

StreamTypeInv == StreamTypeOK /\ CallInv

\* What the model and the monitor hold are chunks, and the model stops in time.
LEMMA ModelTypes ==
  ASSUME StreamTypeInv, Model
  PROVE  StreamTypeInv'
<1> USE StreamAssumption DEF Model, buffer, handler, record, StreamTypeInv, StreamTypeOK, CallInv, Flag, Answers, Chunk, None, Call, Error
<1>1. CASE ModelReads
  <2>1. answer.tokens \in 0..MaxTokens /\ pos < answer.tokens + 1 /\ pos \in Nat
    BY <1>1 DEF ModelReads, Length
  <2>2. ChunkAt(pos + 1) \in Chunk /\ (ChunkAt(pos + 1) = Call => pos = answer.tokens)
    BY <2>1 DEF ChunkAt
  <2> QED
    BY <1>1, <2>1, <2>2 DEF ModelReads
<1>2. CASE ModelCut
  <2>1. pos' \in 0..MaxTokens + 2
    BY <1>2 DEF ModelCut, Length
  <2>2. calls + Flag(taken = Call) + Flag(relay = Call) = 0
    BY <1>2 DEF ModelCut
  <2>3. CallInv'
    BY <1>2, <2>2 DEF ModelCut
  <2> QED
    BY <1>2, <2>1, <2>3 DEF ModelCut
<1>3. CASE ModelSends
  BY <1>3 DEF ModelSends
<1>4. CASE ModelGivesUp
  BY <1>4 DEF ModelGivesUp
<1>5. CASE ModelEnds
  BY <1>5 DEF ModelEnds
<1>6. CASE MonitorEnds
  BY <1>6 DEF MonitorEnds
<1> QED
  BY <1>1, <1>2, <1>3, <1>4, <1>5, <1>6

\* The pump passes tokens and at most one call on.
LEMMA PumpTypes ==
  ASSUME StreamTypeInv, Pump
  PROVE  StreamTypeInv'
<1> USE StreamAssumption DEF Pump, upstream, handler, record, StreamTypeInv, StreamTypeOK, CallInv, Flag, Answers, Chunk, None, Call, Error
<1>1. CASE PumpTakes
  BY <1>1 DEF PumpTakes, buffer
<1>2. CASE Push
  <2>1. chunks' \in Seq(1..MaxTokens)
    <3>1. taken > 0 => Append(chunks, taken) \in Seq(1..MaxTokens)
      BY AppendProperties
    <3> QED
      BY <1>2, <3>1 DEF Push
  <2>2. calls' = IF taken = Call THEN calls + 1 ELSE calls
    BY <1>2 DEF Push
  <2> QED
    BY <1>2, <2>1, <2>2 DEF Push
<1>3. CASE Close
  <2>1. closed' \in BOOLEAN /\ err' \in BOOLEAN /\ taken' = None /\ waiters' = {}
    BY <1>3, Zenon DEF Close
  <2> QED
    BY <1>3, <2>1 DEF Close
<1> QED
  BY <1>1, <1>2, <1>3

\* The handler's token is one of the buffer's.
LEMMA HandlerTypes ==
  ASSUME StreamTypeInv, StreamInv, Handler
  PROVE  StreamTypeInv'
<1> USE StreamAssumption DEF Handler, StreamTypeInv, StreamTypeOK, CallInv, AgentSteps, Readers, Returns
<1>0. ASSUME NEW how \in {"ok", "failed"}, Returns(how) PROVE own' \in BOOLEAN /\ outcome' = how /\ agent' = "returned"
  BY <1>0
<1>1. CASE AskFails \/ Collected \/ Abandons
  <2>1. /\ own' \in BOOLEAN /\ outcome' \in {"none", "ok", "failed"} /\ agent' \in AgentSteps
        /\ UNCHANGED <<model, monitor, pump, waiters, blocked, replay, tok, tee, shut, record>>
    <3> HIDE DEF Returns
    <3> QED
      BY <1>0, <1>1 DEF AskFails, Collected, Abandons
  <2> QED
    BY <2>1 DEF record
<1>7. CASE Asks \/ RangeEnds \/ AwaitStream
  <2>1. CASE Asks
    BY <2>1 DEF Asks, record
  <2>2. CASE RangeEnds
    BY <2>2 DEF RangeEnds, record
  <2>3. CASE AwaitStream
    BY <2>3 DEF AwaitStream, record
  <2> QED
    BY <1>7, <2>1, <2>2, <2>3
<1>8. CASE StopsEarly
  <2>1. own' \in BOOLEAN /\ outcome' = "ok" /\ agent' = "returned"
    <3> HIDE DEF Returns
    <3> QED
      BY <1>0, <1>8 DEF StopsEarly
  <2> QED
    BY <1>8, <2>1 DEF StopsEarly, record
<1>2. CASE ClaimStream
  BY <1>2 DEF ClaimStream, record
<1>3. CASE RangeNext
  <2>1. at \in 1..Len(chunks)
    BY <1>3 DEF RangeNext, StreamInv, FlowInv, ReplayInv, Flag
  <2>2. chunks[at] \in 1..MaxTokens
    BY <2>1, ElementOfSeq
  <2> QED
    BY <1>3, <2>2 DEF RangeNext, record
<1>4. CASE Put
  <2>1. tok = Len(text) + 1 /\ Len(text) \in Nat
    BY <1>4 DEF Put, StreamInv, ReplayInv
  <2>2. tok \in 1..MaxTokens
    BY <2>1
  <2>3. Append(text, tok) \in Seq(1..MaxTokens) /\ Len(Append(text, tok)) > 0
    BY <2>1, <2>2, AppendProperties
  <2> QED
    BY <1>4, <2>3 DEF Put
<1>5. CASE ChecksErr
  <2>1. CASE ~closed
    <3>1. /\ waiters' = waiters \cup {"agent"} /\ blocked' = blocked \cup {"agent"}
          /\ UNCHANGED <<agent, outcome, called, own>>
      BY <1>5, <2>1, Zenon DEF ChecksErr, Register
    <3> QED
      BY <1>5, <3>1 DEF ChecksErr
  <2>2. CASE closed
    <3>1. /\ own' \in BOOLEAN /\ outcome' \in {"ok", "failed"} /\ agent' = "returned"
          /\ called' \in {called, calls} /\ UNCHANGED <<waiters, blocked>>
      <4> HIDE DEF Returns
      <4> QED
        BY <1>0, <1>5, <2>2 DEF ChecksErr
    <3> QED
      BY <1>5, <3>1 DEF ChecksErr
  <2> QED
    BY <2>1, <2>2
<1>6. CASE ReplyWhole
  <2>1. Append(replies, chunks) \in Seq(Seq(1..MaxTokens))
    BY AppendProperties
  <2> QED
    BY <1>6, <2>1 DEF ReplyWhole
<1> QED
  BY <1>1, <1>2, <1>3, <1>4, <1>5, <1>6, <1>7, <1>8

\* What is written to the client is tokens, or the one error frame.
LEMMA WriteTypes ==
  ASSUME StreamTypeInv, NEW frames \in Seq(0..MaxTokens), Write(frames)
  PROVE  seen' \in Seq(0..MaxTokens)
BY ConcatProperties DEF Write, StreamTypeInv, StreamTypeOK

\* Every variable keeps its type.
LEMMA TypesNext == StreamTypeInv /\ StreamInv /\ [Next]_vars => StreamTypeInv'
<1> SUFFICES ASSUME StreamTypeInv, StreamInv, [Next]_vars PROVE StreamTypeInv'
  OBVIOUS
<1>1. CASE Model
  BY <1>1, ModelTypes
<1>2. CASE Pump
  BY <1>2, PumpTypes
<1>3. CASE ReplayLooks
  <2>1. at <= Len(chunks) /\ Len(chunks) <= answer.tokens /\ Len(chunks) \in Nat /\ at \in Nat
    <3>1. Order(Len(chunks)) /\ chunks \in Seq(Nat)
      BY DEF StreamInv, FlowInv
    <3>2. Len(chunks) \in Nat
      BY <3>1, LenProperties
    <3>3. answer.tokens \in Int
      BY StreamAssumption DEF StreamTypeInv, StreamTypeOK, Answers
    <3>6. Flag(taken > 0) \in {0, 1} /\ Flag(relay > 0) \in {0, 1} /\ Flag(offer > 0) \in {0, 1}
      BY DEF Flag
    <3>4. Len(chunks) <= answer.tokens
      BY <3>1, <3>2, <3>3, <3>6 DEF Order
    <3> QED
      BY <3>2, <3>4 DEF StreamInv, ReplayInv
  <2>2. answer.tokens <= MaxTokens /\ answer.tokens \in Nat
    BY StreamAssumption DEF StreamTypeInv, StreamTypeOK, Answers
  <2>3. /\ at' \in 0..MaxTokens /\ replay' \in {"off", "reading", "sending", "ended"}
        /\ waiters' \subseteq Readers /\ waiters' \subseteq blocked' /\ blocked' \subseteq Readers
    <3>1. CASE at < Len(chunks)
      BY <1>3, <2>1, <2>2, <3>1, StreamAssumption DEF ReplayLooks, StreamTypeInv, StreamTypeOK
    <3>2. CASE ~(at < Len(chunks))
      BY <1>3, <3>2 DEF ReplayLooks, Register, Readers, StreamTypeInv, StreamTypeOK
    <3> QED
      BY <3>1, <3>2
  <2> QED
    BY <1>3, <2>3
    DEF ReplayLooks, Register, Readers, StreamTypeInv, StreamTypeOK, CallInv, upstream, handler, record
<1>4. CASE Handler
  BY <1>4, HandlerTypes
<1>5. CASE Tee
  <2>1. CASE TeeWrites
    <3>0. text \in Seq(1..MaxTokens) /\ Len(text) > 0
      BY <2>1 DEF TeeWrites, StreamTypeInv, StreamTypeOK, CallInv
    <3>1. text[Len(text)] \in 1..MaxTokens
      <4> DEFINE S == 1..MaxTokens
      <4>1. text \in Seq(S) /\ Len(text) \in 1..Len(text)
        BY <3>0, LenProperties
      <4> HIDE DEF S
      <4>2. text[Len(text)] \in S
        BY <4>1, ElementOfSeq
      <4> QED
        BY <4>2 DEF S
    <3>2. <<text[Len(text)]>> \in Seq(0..MaxTokens)
      BY <3>1, StreamAssumption
    <3>3. seen' \in Seq(0..MaxTokens)
      BY <2>1, <3>2, WriteTypes DEF TeeWrites
    <3> QED
      BY <1>5, <2>1, <3>3 DEF Tee, TeeWrites, StreamTypeInv, StreamTypeOK, CallInv, upstream, buffer, handler
  <2>2. CASE TeeEnds
    <3>1. Append(replies, text) \in Seq(Seq(1..MaxTokens))
      BY AppendProperties DEF StreamTypeInv, StreamTypeOK
    <3> QED
      BY <1>5, <2>2, <3>1 DEF Tee, TeeEnds, StreamTypeInv, StreamTypeOK, CallInv, upstream, buffer, handler
  <2> QED
    BY <1>5, <2>1, <2>2 DEF Tee
<1>6. CASE Serve
  <2>1. <<ErrorFrame>> \in Seq(0..MaxTokens)
    BY StreamAssumption DEF ErrorFrame
  <2>2. outcome = "ok" /\ ~Claimed => replies[1] \in Seq(0..MaxTokens)
    <3>1. outcome = "ok" /\ ~Claimed => replies[1] = chunks
      BY DEF StreamInv, TeeInv, Claimed
    <3>2. chunks \in Seq(0..MaxTokens)
      BY StreamAssumption DEF StreamTypeInv, StreamTypeOK
    <3> QED
      BY <3>1, <3>2
  <2>3. outcome \in {"ok", "failed"}
    BY <1>6 DEF Serve, StreamInv, TeeInv
  <2>4. seen' \in Seq(0..MaxTokens)
    BY <1>6, <2>1, <2>2, <2>3, WriteTypes DEF Serve, StreamTypeInv, StreamTypeOK
  <2> QED
    BY <1>6, <2>4 DEF Serve, StreamTypeInv, StreamTypeOK, CallInv, AgentSteps, upstream, buffer, record
<1>7. CASE ClientLeaves
  BY <1>7 DEF ClientLeaves, StreamTypeInv, StreamTypeOK, CallInv, upstream, buffer, handler, record
<1>9. ASSUME NEW r \in Readers, Signalled(r) PROVE StreamTypeInv'
  BY <1>9 DEF Signalled, StreamTypeInv, StreamTypeOK, CallInv, upstream, buffer, handler, record
<1>8. CASE UNCHANGED vars
  BY <1>8 DEF vars, StreamTypeInv, StreamTypeOK, CallInv, upstream, buffer, handler, record
<1> QED
  BY <1>1, <1>2, <1>3, <1>4, <1>5, <1>6, <1>7, <1>8, <1>9 DEF Next

\* The type invariant: above all, that one answer makes one call at most, and that
\* a reader registered for a signal is blocked in it.
THEOREM StreamTypes == Spec => []StreamTypeOK
<1>1. Init => StreamTypeInv
  <2> SUFFICES ASSUME Init PROVE StreamTypeInv
    OBVIOUS
  <2>1. <<>> \in Seq(1..MaxTokens) /\ <<>> \in Seq(0..MaxTokens) /\ <<>> \in Seq(Seq(1..MaxTokens))
    BY EmptySeq
  <2>2. answer \in Answers /\ 0 \in 0..MaxTokens /\ 0 \in 0..MaxTokens + 2 /\ 0 \in Chunk /\ 0 <= answer.tokens
    BY StreamAssumption DEF Init, Answers, Chunk
  <2>3. CallInv
    BY <2>2 DEF Init, CallInv, Flag, None, Call
  <2>4. StreamTypeOK
    <3>1. /\ offer \in Chunk /\ relay \in Chunk /\ taken \in Chunk /\ calls \in 0..1 /\ called \in 0..1
          /\ pos \in 0..MaxTokens + 2 /\ at \in 0..MaxTokens /\ tok \in 0..MaxTokens
      BY <2>2 DEF Init, None
    <3>2. /\ chunks \in Seq(1..MaxTokens) /\ text \in Seq(1..MaxTokens) /\ replies \in Seq(Seq(1..MaxTokens))
          /\ seen \in Seq(0..MaxTokens)
      BY <2>1 DEF Init
    <3> QED
      BY <2>2, <3>1, <3>2 DEF Init, StreamTypeOK, AgentSteps, Readers
  <2> QED
    BY <2>3, <2>4 DEF StreamTypeInv
<1>2. StreamTypeInv => StreamTypeOK
  BY DEF StreamTypeInv
<1> QED
  BY <1>1, <1>2, TypesNext, StreamHolds, PTL DEF Spec
=============================================================================
