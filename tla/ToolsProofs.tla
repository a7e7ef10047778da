------------------------------ MODULE ToolsProofs ------------------------------
(***************************************************************************)
(* Theorems about Tools, for any tools, answers, formats and bounds, where *)
(* only a model of OpenAI's format may leave a call without an id.         *)
(***************************************************************************)
EXTENDS Tools, WireProofs, FiniteSetTheorems, FunctionTheorems

\* The tools there are.
Names == Own \cup Forwarded

\* The state's plain variables.
Shape ==
  /\ {front, back} \subseteq Formats /\ stream \in BOOLEAN /\ failed \in BOOLEAN /\ gone \in BOOLEAN
  /\ stage \in {"client", "ask", "answer", "reply", "run", "sent"}
  /\ round \in 0..Rounds /\ said \in Said /\ given \in Seq(Nat)
  /\ asks \in 0..MaxAsks /\ requests \in 0..MaxRequests /\ faults \in 0..MaxFaults
  /\ minted \in Nat /\ Len(said.calls) <= minted

\* It holds at first,
LEMMA ShapeInit == Init => Shape
<1> SUFFICES ASSUME Init PROVE Shape
  OBVIOUS
<1>1. NoReply \in Said /\ Len(NoReply.calls) = 0 /\ <<>> \in Seq(Nat)
  BY EmptySeq DEF NoReply, Said
<1>2. 0 \in 0..Rounds /\ 0 \in 0..MaxAsks /\ 0 \in 0..MaxRequests /\ 0 \in 0..MaxFaults
  BY ToolsAssumption
<1>3. {front, back} \subseteq Formats /\ stream \in BOOLEAN /\ failed \in BOOLEAN /\ gone \in BOOLEAN /\ stage = "client"
  BY DEF Init
<1>4. said = NoReply /\ given = <<>> /\ minted = 0 /\ round = 0 /\ asks = 0 /\ requests = 0 /\ faults = 0
  BY DEF Init
<1> QED
  BY <1>1, <1>2, <1>3, <1>4 DEF Shape

\* and in every step.
LEMMA ShapeStep == Shape /\ [Next]_vars => Shape'
<1> SUFFICES ASSUME Shape, [Next]_vars PROVE Shape'
  OBVIOUS
<1> USE DEF Shape
<1>b. {Rounds, MaxAsks, MaxRequests, MaxFaults} \subseteq Nat
  BY ToolsAssumption
<1>1. ASSUME NEW live \in BOOLEAN, Send(live) PROVE Shape'
  <2>1. requests' \in 0..MaxRequests /\ round' \in 0..Rounds
    BY <1>1, <1>b DEF Send
  <2> QED
    BY <1>1, <2>1 DEF Send, history
<1>2. CASE Disconnect
  BY <1>2, <1>b DEF Disconnect, client, request, answer, history
<1>3. CASE Receive
  BY <1>3 DEF Receive, request, answer, bounds
<1>4. CASE Ask
  <2>1. PICK s \in Says : said' = s /\ given' = [i \in DOMAIN s.calls |-> 0] /\ minted' = minted + Len(s.calls)
    BY <1>4 DEF Ask
  <2>2. s \in Said
    BY ToolsAssumption
  <2>3. s.calls \in Seq(Piece)
    BY <2>2 DEF Said
  <2>4. Len(s.calls) \in Nat /\ DOMAIN s.calls = 1..Len(s.calls)
    BY <2>3, LenProperties
  <2>5. given' \in [1..Len(s.calls) -> Nat]
    BY <2>1, <2>4
  <2>6. given' \in Seq(Nat)
    BY <2>4, <2>5, FunSeq
  <2>7. said' \in Said /\ minted' \in Nat /\ Len(said'.calls) <= minted'
    BY <2>1, <2>2, <2>4
  <2>8. asks' \in 0..MaxAsks
    BY <1>4, <1>b DEF Ask
  <2> QED
    BY <1>4, <2>6, <2>7, <2>8 DEF Ask, client, answer
<1>5. CASE Collected
  BY <1>5 DEF Collected, client, answer, history, bounds
<1>6. CASE Breaks
  BY <1>6, <1>b DEF Breaks, Fail, client, request, history
<1>7. CASE CutShort
  BY <1>7 DEF CutShort, Fail, client, answer, history, bounds
<1>8. ASSUME NEW i \in DOMAIN given, Delta(i) PROVE Shape'
  <2>1. given[i] \in Nat
    BY LenProperties, ElementOfSeq
  <2>2. given' \in Seq(Nat)
    <3>1. given' = [given EXCEPT ![i] = given[i] + 1] /\ given[i] + 1 \in Nat
      BY <1>8, <2>1 DEF Delta
    <3>2. given \in Seq(Nat) /\ i \in 1..Len(given)
      BY <1>8, LenProperties
    <3> QED
      BY <3>1, <3>2, ExceptSeq
  <2> QED
    BY <1>8, <2>2 DEF Delta, client, answer, history, bounds
<1>9. CASE HandBack
  BY <1>9 DEF HandBack, Answer, client, request, history, bounds
<1>10. CASE Run
  BY <1>10 DEF Run, client, answer, history, bounds
<1>11. CASE Handle
  BY <1>11 DEF Handle, client, answer, bounds
<1>12. CASE Cancelled
  BY <1>12 DEF Cancelled, Fail, client, request, history, bounds
<1>13. CASE Again
  BY <1>13, <1>b DEF Again, client, answer, history, bounds
<1>14. CASE Exhausted
  BY <1>14 DEF Exhausted, Fail, client, request, history, bounds
<1>15. CASE UNCHANGED vars
  BY <1>15 DEF vars, client, request, answer, history, bounds
<1> QED
  BY <1>1, <1>2, <1>3, <1>4, <1>5, <1>6, <1>7, <1>8, <1>9, <1>10, <1>11, <1>12, <1>13, <1>14, <1>15 DEF Next

-----------------------------------------------------------------------------
(* The model's answer.                                                     *)

\* An entry of the call buffer.
Told == [idx : Nat, id : Nat \cup {None}, name : Names, input : Seq(Nat)]

\* The id a call of the buffer may have instead of its own.
Missing == IF back = "openai" THEN {None} ELSE {}

\* While it streams in, the adapter's buffer holds the calls begun, in their order.
Filling ==
  stage = "answer" =>
    /\ Len(given) = Len(said.calls) /\ buf \in Seq(Told) /\ Len(buf) <= Len(said.calls)
    /\ \A n \in 1..Len(buf) : /\ buf[n].idx = n /\ buf[n].id \in {Before + n} \cup Missing
                              /\ buf[n].name = said.calls[n].name /\ given[n] = Len(buf[n].input) + 1
    /\ \A n \in 1..Len(said.calls) : n > Len(buf) => given[n] = 0

\* A new answer has filled nothing;
LEMMA FillingAsk == Shape /\ Ask => Filling'
<1> SUFFICES ASSUME Shape, Ask PROVE Filling'
  OBVIOUS
<1>1. PICK s \in Says : said' = s /\ given' = [i \in DOMAIN s.calls |-> 0] /\ minted' = minted + Len(s.calls)
  BY DEF Ask
<1>2. s.calls \in Seq(Piece)
  BY ToolsAssumption DEF Said
<1>3. Len(s.calls) \in Nat /\ DOMAIN s.calls = 1..Len(s.calls)
  BY <1>2, LenProperties
<1>4. Len(given') = Len(s.calls) /\ \A n \in 1..Len(s.calls) : given'[n] = 0
  BY <1>1, <1>3
<1>5. buf' = <<>> /\ <<>> \in Seq(Told) /\ Len(<<>>) = 0
  BY EmptySeq DEF Ask
<1> QED
  BY <1>1, <1>3, <1>4, <1>5 DEF Filling

\* a delta fills its own call by one piece, whichever order they come in;
LEMMA FillingDelta ==
  ASSUME AnthropicNames, Shape, Filling, NEW i \in DOMAIN given, Delta(i)
  PROVE  Filling'
<1> DEFINE c == said.calls[i]
           L == Len(buf)
<1>1. /\ stage = "answer" /\ stage' = "answer" /\ given' = [given EXCEPT ![i] = @ + 1]
      /\ buf' = Add(buf, i, [id |-> IF Named(c) THEN Before + i ELSE None, name |-> c.name, part |-> given[i]])
      /\ said' = said /\ minted' = minted /\ Missing' = Missing
  BY DEF Delta, history, client, Missing
<1>2. /\ Len(given) = Len(said.calls) /\ buf \in Seq(Told) /\ L <= Len(said.calls)
      /\ \A n \in 1..L : /\ buf[n].idx = n /\ buf[n].id \in {Before + n} \cup Missing
                         /\ buf[n].name = said.calls[n].name /\ given[n] = Len(buf[n].input) + 1
      /\ \A n \in 1..Len(said.calls) : n > L => given[n] = 0
  BY <1>1 DEF Filling
<1>3. /\ said.calls \in Seq(Piece) /\ Len(said.calls) \in Nat /\ minted \in Nat /\ Len(said.calls) <= minted
      /\ DOMAIN given = 1..Len(said.calls) /\ i \in 1..Len(said.calls) /\ given \in Seq(Nat) /\ L \in Nat
  BY <1>2, LenProperties DEF Shape, Said
<1>4. c \in Piece /\ given[i] \in Nat
  BY <1>2, <1>3, ElementOfSeq
<1>5. Before \in Nat /\ Before' = Before
  BY <1>1, <1>3 DEF Before
<1>6. Len(given') = Len(said.calls) /\ \A n \in 1..Len(said.calls) : given'[n] = IF n = i THEN given[i] + 1 ELSE given[n]
  BY <1>1, <1>2, <1>3, <1>4, ExceptSeq
<1>7. \A n \in 1..L : buf[n] \in Told /\ buf[n].input \in Seq(Nat) /\ Len(buf[n].input) \in Nat
  <2>1. \A n \in 1..L : buf[n] \in Told
    BY <1>2, ElementOfSeq
  <2> QED
    BY <2>1, LenProperties DEF Told
<1>8. DOMAIN buf = 1..L
  BY <1>2, LenProperties
<1>9. CASE given[i] = 0
  <2> DEFINE e == [idx |-> i, id |-> IF Named(c) THEN Before + i ELSE None, name |-> c.name, input |-> <<>>]
  <2>1. i > L
    BY <1>2, <1>3, <1>7, <1>9
  <2>2. \A j \in 1..(i - 1) : given[j] > 0
    <3>1. \A j \in 1..(i - 1) : (IF back = "anthropic" THEN given[j] = said.calls[j].pieces + 1 ELSE given[j] > 0)
      BY DEF Delta
    <3> SUFFICES ASSUME NEW j \in 1..(i - 1) PROVE given[j] > 0
      OBVIOUS
    <3>2. said.calls[j] \in Piece
      BY <1>3, ElementOfSeq
    <3>3. said.calls[j].pieces + 1 > 0
      BY <3>2 DEF Piece
    <3> QED
      BY <3>1, <3>3
  <2>3. i = L + 1
    <3>1. ~(L + 1 < i)
      <4> SUFFICES ASSUME L + 1 < i PROVE FALSE
        OBVIOUS
      <4>1. L + 1 \in 1..(i - 1) /\ L + 1 \in 1..Len(said.calls) /\ L + 1 > L
        BY <1>3
      <4>2. given[L + 1] = 0
        BY <1>2, <4>1
      <4> QED
        BY <2>2, <4>1, <4>2
    <3> QED
      BY <1>3, <2>1, <3>1
  <2>4. {n \in DOMAIN buf : buf[n].idx = i} = {}
    BY <1>2, <1>8, <2>1, <1>3
  <2>5. buf' = Append(buf, e)
    BY <1>1, <2>4 DEF Add
  <2>6. e \in Told /\ e.idx = i /\ e.id \in {Before + i} \cup Missing /\ e.name = c.name /\ Len(e.input) = 0
    <3>1. i \in Nat /\ Before + i \in Nat /\ <<>> \in Seq(Nat) /\ Len(<<>>) = 0
      BY <1>3, <1>5, EmptySeq
    <3>2. c.name \in Names
      BY <1>4 DEF Piece, Names
    <3>3. Named(c) \/ Missing = {None}
      BY DEF Named, AnthropicNames, Missing
    <3> QED
      BY <3>1, <3>2, <3>3 DEF Told
  <2> HIDE DEF e
  <2>7. /\ buf' \in Seq(Told) /\ Len(buf') = L + 1 /\ buf'[L + 1] = e /\ \A n \in 1..L : buf'[n] = buf[n]
    BY <1>2, <2>5, <2>6, AppendProperties
  <2>8. ASSUME NEW n \in 1..Len(buf')
        PROVE  /\ buf'[n].idx = n /\ buf'[n].id \in {Before + n} \cup Missing
               /\ buf'[n].name = said.calls[n].name /\ given'[n] = Len(buf'[n].input) + 1
    <3>1. CASE n = L + 1
      BY <1>3, <1>6, <1>9, <2>3, <2>6, <2>7, <3>1
    <3>2. CASE n \in 1..L
      <4>1. n # i /\ n \in 1..Len(said.calls)
        BY <1>2, <1>3, <2>1, <3>2
      <4> QED
        BY <1>2, <1>6, <2>7, <3>2, <4>1
    <3> QED
      BY <1>3, <2>7, <3>1, <3>2
  <2>9. ASSUME NEW n \in 1..Len(said.calls), n > Len(buf') PROVE given'[n] = 0
    <3>1. n > L /\ n # i
      BY <1>3, <2>3, <2>7, <2>9
    <3> QED
      BY <1>2, <1>6, <3>1
  <2>10. Len(buf') <= Len(said.calls)
    BY <1>3, <2>3, <2>7
  <2> HIDE DEF L, c
  <2> QED
    BY <1>1, <1>5, <1>6, <2>7, <2>8, <2>9, <2>10 DEF Filling
<1>10. CASE given[i] # 0
  <2> DEFINE e == [buf[i] EXCEPT !.input = Append(@, given[i])]
  <2>1. i \in 1..L
    BY <1>2, <1>3, <1>10
  <2>2. {n \in DOMAIN buf : buf[n].idx = i} = {i}
    BY <1>2, <1>8, <2>1
  <2>3. buf' = [n \in DOMAIN buf |-> IF n \in {i} THEN e ELSE buf[n]]
    <3>1. buf' = [n \in DOMAIN buf |-> IF n \in {i} THEN [buf[n] EXCEPT !.input = Append(@, given[i])] ELSE buf[n]]
      BY <1>1, <2>2 DEF Add
    <3> QED
      BY <3>1
  <2>4. /\ e \in Told /\ e.idx = buf[i].idx /\ e.id = buf[i].id /\ e.name = buf[i].name
        /\ Len(e.input) = Len(buf[i].input) + 1
    <3>1. /\ Append(buf[i].input, given[i]) \in Seq(Nat)
          /\ Len(Append(buf[i].input, given[i])) = Len(buf[i].input) + 1
      BY <1>4, <1>7, <2>1, AppendProperties
    <3> QED
      BY <1>7, <2>1, <3>1 DEF Told
  <2> HIDE DEF e
  <2>5. buf' \in Seq(Told) /\ Len(buf') = L
    <3>1. buf' \in [1..L -> Told]
      BY <1>7, <1>8, <2>3, <2>4
    <3> QED
      BY <1>3, <3>1
  <2>6. \A n \in 1..L : buf'[n] = IF n = i THEN e ELSE buf[n]
    BY <1>8, <2>3
  <2>7. ASSUME NEW n \in 1..L
        PROVE  /\ buf'[n].idx = n /\ buf'[n].id \in {Before + n} \cup Missing
               /\ buf'[n].name = said.calls[n].name /\ given'[n] = Len(buf'[n].input) + 1
    <3>1. CASE n = i
      <4>1. buf'[i] = e /\ given'[i] = given[i] + 1
        BY <1>3, <1>6, <2>1, <2>6
      <4>2. given[i] = Len(buf[i].input) + 1 /\ buf[i].idx = i /\ buf[i].id \in {Before + i} \cup Missing
            /\ buf[i].name = said.calls[i].name
        BY <1>2, <2>1
      <4> QED
        BY <2>4, <3>1, <4>1, <4>2
    <3>2. CASE n # i
      <4>1. n \in 1..Len(said.calls)
        BY <1>2, <1>3
      <4> QED
        BY <1>2, <1>6, <2>6, <3>2, <4>1
    <3> QED
      BY <3>1, <3>2
  <2>8. ASSUME NEW n \in 1..Len(said.calls), n > L PROVE given'[n] = 0
    <3>1. n # i
      BY <1>3, <2>1, <2>8
    <3>2. given'[n] = given[n]
      BY <1>6, <3>1
    <3> QED
      BY <1>2, <2>8, <3>2
  <2> QED
    BY <1>1, <1>2, <1>5, <1>6, <2>5, <2>7, <2>8 DEF Filling
<1> QED
  BY <1>9, <1>10

\* and no other step touches the buffer of an answer at work.
LEMMA FillingStep == AnthropicNames /\ Shape /\ Filling /\ [Next]_vars => Filling'
<1> SUFFICES ASSUME AnthropicNames, Shape, Filling, [Next]_vars PROVE Filling'
  OBVIOUS
<1>1. CASE \E live \in BOOLEAN : Send(live)
  BY <1>1 DEF Send, Filling
<1>2. CASE Disconnect
  BY <1>2 DEF Disconnect, client, request, history, Filling, Before, Missing
<1>3. CASE Receive
  BY <1>3 DEF Receive, Filling
<1>4. CASE Ask
  BY <1>4, FillingAsk
<1>5. CASE Collected
  BY <1>5 DEF Collected, Filling
<1>6. CASE Breaks
  BY <1>6 DEF Breaks, Fail, Filling
<1>7. CASE CutShort
  BY <1>7 DEF CutShort, Fail, Filling
<1>8. CASE \E i \in DOMAIN given : Delta(i)
  BY <1>8, FillingDelta
<1>9. CASE HandBack
  BY <1>9 DEF HandBack, Answer, Filling
<1>10. CASE Run
  BY <1>10 DEF Run, Filling
<1>11. CASE Handle
  BY <1>11 DEF Handle, Filling
<1>12. CASE Cancelled
  BY <1>12 DEF Cancelled, Fail, Filling
<1>13. CASE Again
  BY <1>13 DEF Again, Filling
<1>14. CASE Exhausted
  BY <1>14 DEF Exhausted, Fail, Filling
<1>15. CASE UNCHANGED vars
  BY <1>15 DEF vars, client, request, history, Filling, Before, Missing
<1> QED
  BY <1>1, <1>2, <1>3, <1>4, <1>5, <1>6, <1>7, <1>8, <1>9, <1>10, <1>11, <1>12, <1>13, <1>14, <1>15 DEF Next

-----------------------------------------------------------------------------
(* What Ask returns.                                                       *)

\* What done makes of the buffer: each call has the id that it was to have.
LEMMA Gathered ==
  ASSUME Shape, Filling, stage = "answer"
  PROVE  /\ done(back, buf, Before) \in Seq(Call) /\ Len(done(back, buf, Before)) = Len(buf) /\ Len(buf) \in Nat
         /\ \A n \in 1..Len(buf) : /\ done(back, buf, Before)[n].id = Before + n
                                   /\ done(back, buf, Before)[n].name = said.calls[n].name
                                   /\ given[n] = Len(done(back, buf, Before)[n].input) + 1
<1> DEFINE d == done(back, buf, Before)
           L == Len(buf)
<1>1. /\ buf \in Seq(Told) /\ L <= Len(said.calls)
      /\ \A n \in 1..L : /\ buf[n].idx = n /\ buf[n].id \in {Before + n} \cup Missing
                         /\ buf[n].name = said.calls[n].name /\ given[n] = Len(buf[n].input) + 1
  BY DEF Filling
<1>2. L \in Nat /\ DOMAIN buf = 1..L /\ minted \in Nat /\ Len(said.calls) <= minted /\ Len(said.calls) \in Nat
  BY <1>1, LenProperties DEF Shape, Said
<1>3. Before \in Nat /\ Before + Len(said.calls) = minted
  BY <1>2 DEF Before
<1>4. None \notin Nat
  BY ToolsAssumption
<1>5. ASSUME NEW n \in 1..L
      PROVE  d[n] \in Call /\ d[n].id = Before + n /\ d[n].name = buf[n].name /\ d[n].input = buf[n].input
  <2>1. buf[n] \in Told
    BY <1>1, ElementOfSeq
  <2>2. d[n] = [id |-> IF back = "openai" /\ buf[n].id = None THEN Before + buf[n].idx ELSE buf[n].id,
                name |-> buf[n].name, input |-> buf[n].input]
    BY <1>2 DEF done
  <2>3. (IF back = "openai" /\ buf[n].id = None THEN Before + buf[n].idx ELSE buf[n].id) = Before + n
    BY <1>1, <1>3, <1>4 DEF Missing
  <2>4. Before + n \in Used
    BY <1>1, <1>2, <1>3 DEF Used
  <2> HIDE DEF d
  <2> QED
    BY <2>1, <2>2, <2>3, <2>4 DEF Told, Call, Names
<1>6. d \in Seq(Call) /\ Len(d) = L
  <2>1. DOMAIN d = 1..L
    BY <1>2 DEF done
  <2>2. d = [n \in 1..L |-> d[n]]
    BY <1>2 DEF done
  <2> HIDE DEF d
  <2>3. d \in [1..L -> Call]
    BY <1>5, <2>2
  <2> QED
    BY <1>2, <2>3
<1> QED
  BY <1>1, <1>2, <1>5, <1>6

\* A reply is the model's answer: its calls are numbered on from those before, and
\* it is whole unless the request was cancelled.
Replied ==
  /\ reply.calls \in Seq(Call) /\ reply.text \in Seq({"say"})
  /\ stage \in {"reply", "run"} \/ (stage = "sent" /\ ~failed) =>
       /\ Len(reply.calls) <= Len(said.calls)
       /\ \A n \in 1..Len(reply.calls) : reply.calls[n].id = Before + n
       /\ ~gone => /\ reply.text = said.text /\ Len(reply.calls) = Len(said.calls)
                   /\ \A n \in 1..Len(reply.calls) : /\ reply.calls[n].name = said.calls[n].name
                                                     /\ Len(reply.calls[n].input) = said.calls[n].pieces

\* A whole answer makes such a reply;
LEMMA RepliedCollected == Shape /\ Filling /\ Collected => Replied'
<1> SUFFICES ASSUME Shape, Filling, Collected PROVE Replied'
  OBVIOUS
<1> DEFINE d == done(back, buf, Before)
<1>1. /\ stage = "answer" /\ Whole /\ reply' = [text |-> said.text, calls |-> d]
      /\ said' = said /\ minted' = minted /\ gone' = gone
  BY DEF Collected, history
<1>2. /\ d \in Seq(Call) /\ Len(d) = Len(buf) /\ Len(buf) \in Nat
      /\ \A n \in 1..Len(buf) : d[n].id = Before + n /\ d[n].name = said.calls[n].name /\ given[n] = Len(d[n].input) + 1
  BY <1>1, Gathered
<1>3. /\ Len(given) = Len(said.calls) /\ Len(buf) <= Len(said.calls)
      /\ \A n \in 1..Len(said.calls) : n > Len(buf) => given[n] = 0
  BY <1>1 DEF Filling
<1>4. /\ said.text \in Seq({"say"}) /\ said.calls \in Seq(Piece) /\ Len(said.calls) \in Nat /\ given \in Seq(Nat)
      /\ DOMAIN given = 1..Len(said.calls)
  BY <1>3, LenProperties DEF Shape, Said
<1>5. \A n \in 1..Len(said.calls) : said.calls[n].pieces \in Nat /\ given[n] = said.calls[n].pieces + 1
  <2>1. \A n \in 1..Len(said.calls) : said.calls[n] \in Piece
    BY <1>4, ElementOfSeq
  <2> QED
    BY <1>1, <1>4, <2>1 DEF Piece, Whole
<1>6. Len(buf) = Len(said.calls)
  <2> SUFFICES ASSUME Len(buf) < Len(said.calls) PROVE FALSE
    BY <1>2, <1>3, <1>4
  <2>1. Len(said.calls) \in 1..Len(said.calls)
    BY <1>2, <1>4
  <2> QED
    BY <1>3, <1>5, <2>1
<1>7. \A n \in 1..Len(buf) : Len(d[n].input) \in Nat
  <2>1. \A n \in 1..Len(buf) : d[n] \in Call
    BY <1>2, ElementOfSeq
  <2> QED
    BY <2>1, LenProperties DEF Call
<1>8. reply'.calls \in Seq(Call)' /\ Before' = Before
  BY <1>1, <1>2 DEF Call, Used, Before
<1> HIDE DEF d
<1>9. ASSUME NEW n \in 1..Len(d)
      PROVE  d[n].name = said.calls[n].name /\ Len(d[n].input) = said.calls[n].pieces
  <2>1. n \in 1..Len(buf) /\ n \in 1..Len(said.calls)
    BY <1>2, <1>6
  <2>2. given[n] = Len(d[n].input) + 1 /\ d[n].name = said.calls[n].name /\ Len(d[n].input) \in Nat
    BY <1>2, <1>7, <2>1
  <2>3. said.calls[n].pieces \in Nat /\ given[n] = said.calls[n].pieces + 1
    BY <1>5, <2>1
  <2> QED
    BY <2>2, <2>3, SMTT(30)
<1> QED
  BY <1>1, <1>2, <1>4, <1>6, <1>8, <1>9 DEF Replied

\* so does one that is cut short;
LEMMA RepliedCutShort == Shape /\ Filling /\ Replied /\ CutShort => Replied'
<1> SUFFICES ASSUME Shape, Filling, Replied, CutShort PROVE Replied'
  OBVIOUS
<1> DEFINE d == done(back, buf, Before)
<1>1. /\ stage = "answer" /\ gone /\ said' = said /\ minted' = minted /\ gone' = gone
      /\ Before' = Before /\ Seq(Call)' = Seq(Call)
  BY DEF CutShort, history, Before, Call, Used
<1>2. CASE Fail /\ UNCHANGED reply
  BY <1>1, <1>2 DEF Fail, Replied
<1>3. ASSUME stage' = "reply", NEW n \in 0..(IF Whole THEN Len(buf) ELSE 0), NEW text \in {said.text, <<>>},
             reply' = [text |-> text, calls |-> SubSeq(d, 1, n)]
      PROVE  Replied'
  <2>1. /\ d \in Seq(Call) /\ Len(d) = Len(buf) /\ Len(buf) \in Nat
        /\ \A i \in 1..Len(buf) : d[i].id = Before + i
    BY <1>1, Gathered
  <2>2. n \in 0..Len(buf) /\ text \in Seq({"say"}) /\ Len(buf) <= Len(said.calls) /\ Len(said.calls) \in Nat
    <3>1. said.text \in Seq({"say"}) /\ said.calls \in Seq(Piece)
      BY DEF Shape, Said
    <3>2. text \in Seq({"say"})
      BY <1>3, <3>1, EmptySeq
    <3>3. Len(buf) <= Len(said.calls) /\ Len(said.calls) \in Nat
      BY <1>1, <3>1, LenProperties DEF Filling
    <3>4. n \in 0..Len(buf)
      BY <1>3, <2>1
    <3> QED
      BY <3>2, <3>3, <3>4
  <2> HIDE DEF d
  <2>3. SubSeq(d, 1, n) \in Seq(Call) /\ Len(SubSeq(d, 1, n)) = n /\ \A i \in 1..n : SubSeq(d, 1, n)[i] = d[i]
    <3>1. SubSeq(d, 1, n) \in Seq(Call)
      BY <2>1, <2>2, SubSeqProperties
    <3>2. Len(SubSeq(d, 1, n)) = n
      BY <2>1, <2>2, SubSeqProperties
    <3>3. \A i \in 1..n : SubSeq(d, 1, n)[i] = d[1 + i - 1]
      BY <2>1, <2>2, SubSeqProperties
    <3> QED
      BY <3>1, <3>2, <3>3
  <2> QED
    BY <1>1, <1>3, <2>1, <2>2, <2>3 DEF Replied
<1> QED
  BY <1>2, <1>3 DEF CutShort

\* and nothing changes it after that.
LEMMA RepliedStep == Shape /\ Filling /\ Replied /\ [Next]_vars => Replied'
<1> SUFFICES ASSUME Shape, Filling, Replied, [Next]_vars PROVE Replied'
  OBVIOUS
<1>m. ASSUME minted' = minted PROVE Seq(Call)' = Seq(Call) /\ (said' = said => Before' = Before)
  BY <1>m DEF Call, Used, Before
<1>1. CASE \E live \in BOOLEAN : Send(live)
  <2>1. reply' = NoReply /\ stage' = "ask" /\ minted' = minted
    BY <1>1 DEF Send, history
  <2>2. NoReply.calls \in Seq(Call) /\ NoReply.text \in Seq({"say"})
    BY EmptySeq DEF NoReply
  <2> QED
    BY <1>m, <2>1, <2>2 DEF Replied
<1>2. CASE Disconnect
  BY <1>2, <1>m DEF Disconnect, request, answer, history, Replied
<1>3. CASE Receive
  BY <1>3, <1>m DEF Receive, request, Replied
<1>4. CASE Ask
  <2>1. PICK s \in Says : said' = s /\ given' = [i \in DOMAIN s.calls |-> 0] /\ minted' = minted + Len(s.calls)
    BY <1>4 DEF Ask
  <2>2. s.calls \in Seq(Piece)
    BY ToolsAssumption DEF Said
  <2>3. Len(s.calls) \in Nat
    BY <2>2, LenProperties
  <2>4. Call \subseteq Call'
    BY <2>1, <2>3 DEF Shape, Call, Used
  <2>5. reply.calls \in Seq(Call)' /\ reply' = reply /\ stage' = "answer"
    BY <1>4, <2>4, SeqMono DEF Replied, Ask
  <2> QED
    BY <2>5 DEF Replied
<1>5. CASE Collected
  BY <1>5, RepliedCollected
<1>6. CASE Breaks
  BY <1>6, <1>m DEF Breaks, Fail, request, history, Replied
<1>7. CASE CutShort
  BY <1>7, RepliedCutShort
<1>8. CASE \E i \in DOMAIN given : Delta(i)
  BY <1>8, <1>m DEF Delta, history, Replied
<1>9. CASE HandBack
  BY <1>9, <1>m DEF HandBack, Answer, request, history, Replied
<1>10. CASE Run
  BY <1>10, <1>m DEF Run, history, Replied
<1>11. CASE Handle
  BY <1>11, <1>m DEF Handle, history, Replied
<1>12. CASE Cancelled
  BY <1>12, <1>m DEF Cancelled, Fail, request, history, Replied
<1>13. CASE Again
  BY <1>13, <1>m DEF Again, history, Replied
<1>14. CASE Exhausted
  BY <1>14, <1>m DEF Exhausted, Fail, request, history, Replied
<1>15. CASE UNCHANGED vars
  BY <1>15, <1>m DEF vars, request, answer, history, Replied
<1> QED
  BY <1>1, <1>2, <1>3, <1>4, <1>5, <1>6, <1>7, <1>8, <1>9, <1>10, <1>11, <1>12, <1>13, <1>14, <1>15 DEF Next

-----------------------------------------------------------------------------
(* The client's transcript.                                                *)

\* What messages are made of: texts, calls, results and roles,
Texts   == Seq({"ask", "out", "say"})
Spoken  == CallsOf(Nat, Names, Nat)
Outcome == [id : Nat, error : BOOLEAN]
Roles   == {"user", "assistant", "tool"}

\* in the client's format,
Wires(format) ==
  IF format = "openai" THEN [role : Roles, content : Texts, calls : Seq(Spoken), answers : Nat \cup {None}]
  ELSE [role : Roles, content : Texts, calls : Seq(Spoken), results : Seq(Outcome)]

\* and as the neutral messages.
Neutral == [role : Roles, text : Texts, calls : Seq(Spoken), results : Seq(Outcome)]

\* One message of the client's, received.
From(format, m) == IF format = "openai" THEN FromOpenAI(m) ELSE FromAnthropic(m)

\* The transcript a request starts from.
Past == Received(front, talk)

\* Every call a transcript makes, it answers.
Closed(h) == \A i \in 1..Len(h) : \A j \in 1..Len(h[i].calls) : h[i].calls[j].id \in Answered(h)

\* Between requests the client has answered all it was asked to run, and only that.
Talking ==
  /\ talk \in Seq(Wires(front)) /\ Closed(Past)
  /\ Answered(Past) \subseteq {owed[i] : i \in DOMAIN owed}

\* Receiving keeps the calls and the results.
LEMMA FromType ==
  ASSUME NEW format, NEW m \in Wires(format)
  PROVE  /\ From(format, m) \in Neutral /\ From(format, m).calls = m.calls /\ From(format, m).role = m.role
         /\ format # "openai" => From(format, m).results = m.results
         /\ format = "openai" =>
              From(format, m).results = IF m.answers = None THEN <<>> ELSE <<[id |-> m.answers, error |-> FALSE]>>
<1>1. <<>> \in Texts /\ <<>> \in Seq(Outcome)
  BY EmptySeq DEF Texts
<1>2. CASE format = "openai"
  <2>1. m \in [role : Roles, content : Texts, calls : Seq(Spoken), answers : Nat \cup {None}]
    BY <1>2 DEF Wires
  <2>2. CASE m.answers = None
    BY <1>1, <1>2, <2>1, <2>2 DEF From, FromOpenAI, Message, Neutral
  <2>3. CASE m.answers # None
    <3> DEFINE o == [id |-> m.answers, error |-> FALSE]
               r == <<o>>
    <3>1. o \in Outcome
      BY <2>1, <2>3 DEF Outcome
    <3>2. r \in Seq(Outcome)
      <4> HIDE DEF o
      <4> QED
        BY <3>1
    <3>3. From(format, m) = [role |-> m.role, text |-> <<>>, calls |-> m.calls, results |-> r]
      BY <1>2, <2>3 DEF From, FromOpenAI, Message
    <3> HIDE DEF r
    <3>4. From(format, m) \in Neutral
      BY <1>1, <2>1, <3>2, <3>3 DEF Neutral
    <3>5. From(format, m).calls = m.calls /\ From(format, m).role = m.role /\ From(format, m).results = r
      BY <3>3
    <3> HIDE <3>3
    <3>6. From(format, m).results = IF m.answers = None THEN <<>> ELSE <<[id |-> m.answers, error |-> FALSE]>>
      BY <2>3, <3>5 DEF r
    <3> QED
      BY <1>2, <3>4, <3>5, <3>6
  <2> QED
    BY <2>2, <2>3
<1>3. CASE format # "openai"
  <2>1. m \in [role : Roles, content : Texts, calls : Seq(Spoken), results : Seq(Outcome)]
    BY <1>3 DEF Wires
  <2> QED
    BY <1>1, <1>3, <2>1 DEF From, FromAnthropic, Message, Neutral
<1> QED
  BY <1>2, <1>3

\* It goes message by message.
LEMMA ReceivedIs ==
  ASSUME NEW format, NEW w \in Seq(Wires(format))
  PROVE  /\ Received(format, w) \in Seq(Neutral) /\ Len(Received(format, w)) = Len(w) /\ Len(w) \in Nat
         /\ \A i \in 1..Len(w) : w[i] \in Wires(format) /\ Received(format, w)[i] = From(format, w[i])
<1>1. Len(w) \in Nat /\ DOMAIN w = 1..Len(w) /\ \A i \in 1..Len(w) : w[i] \in Wires(format)
  BY LenProperties, ElementOfSeq
<1>2. \A i \in 1..Len(w) : Received(format, w)[i] = From(format, w[i])
  BY <1>1 DEF Received, From
<1>3. Received(format, w) = [i \in 1..Len(w) |-> From(format, w[i])]
  BY <1>1 DEF Received, From
<1>5. \A i \in 1..Len(w) : From(format, w[i]) \in Neutral
  BY <1>1, FromType
<1>4. Received(format, w) \in [1..Len(w) -> Neutral]
  BY <1>3, <1>5
<1> QED
  BY <1>1, <1>2, <1>4

\* What the client adds makes no calls, and answers the ones it was asked to run.
LEMMA MoreTalk ==
  ASSUME NEW calls \in Seq(Spoken), NEW more \in Continues(calls)
  PROVE  /\ more \in Seq(Wires(front))
         /\ \A k \in 1..Len(more) : /\ more[k].calls = <<>>
                                    /\ Ids(From(front, more[k]).results) \subseteq {calls[j].id : j \in 1..Len(calls)}
         /\ \A j \in 1..Len(calls) : \E k \in 1..Len(more) : calls[j].id \in Ids(From(front, more[k]).results)
<1> DEFINE L == Len(calls)
<1>1. L \in Nat /\ DOMAIN calls = 1..L /\ \A j \in 1..L : calls[j] \in Spoken /\ calls[j].id \in Nat
  <2>1. \A j \in 1..L : calls[j] \in Spoken
    BY ElementOfSeq
  <2> QED
    BY <2>1, LenProperties DEF Spoken, CallsOf
<1>2. <<"ask">> \in Texts /\ <<"out">> \in Texts /\ <<>> \in Texts /\ <<>> \in Seq(Spoken) /\ <<>> \in Seq(Outcome)
  BY EmptySeq DEF Texts
<1>3. calls = <<>> <=> L = 0
  BY EmptySeq
<1>4. None \notin Nat
  BY ToolsAssumption
<1>5. Ids(<<>>) = {}
  BY EmptySeq DEF Ids
<1>6. CASE calls = <<>>
  <2>1. PICK m \in Wires(front) : /\ more = <<m>> /\ m.calls = <<>> /\ From(front, m).results = <<>>
    <3>1. CASE front = "openai"
      <4> DEFINE m == OpenAIWire("user", <<"ask">>, <<>>, None)
      <4>1. m \in Wires(front) /\ m.calls = <<>> /\ m.answers = None
        BY <1>2, <3>1 DEF Wires, OpenAIWire, Roles
      <4>2. more = <<m>>
        BY <1>6, <3>1 DEF Continues
      <4> HIDE DEF m
      <4>3. From(front, m).results = <<>>
        BY <3>1, <4>1, FromType
      <4> QED
        BY <4>1, <4>2, <4>3
    <3>2. CASE front # "openai"
      <4> DEFINE m == AnthropicWire("user", <<"ask">>, <<>>, <<>>)
      <4>1. m \in Wires(front) /\ m.calls = <<>> /\ m.results = <<>>
        BY <1>2, <3>2 DEF Wires, AnthropicWire, Roles
      <4>2. more = <<m>>
        BY <1>6, <3>2 DEF Continues
      <4> HIDE DEF m
      <4>3. From(front, m).results = <<>>
        BY <3>2, <4>1, FromType
      <4> QED
        BY <4>1, <4>2, <4>3
    <3> QED
      BY <3>1, <3>2
  <2>2. more \in Seq(Wires(front)) /\ Len(more) = 1 /\ more[1] = m
    BY <2>1
  <2> QED
    BY <1>3, <1>5, <1>6, <2>1, <2>2
<1>7. CASE calls # <<>> /\ front = "openai"
  <2>1. more = [i \in DOMAIN calls |-> OpenAIWire("tool", <<"out">>, <<>>, calls[i].id)]
    BY <1>7 DEF Continues
  <2>2. ASSUME NEW k \in 1..L
        PROVE  more[k] \in Wires(front) /\ more[k].calls = <<>> /\ Ids(From(front, more[k]).results) = {calls[k].id}
    <3> DEFINE m == OpenAIWire("tool", <<"out">>, <<>>, calls[k].id)
    <3>1. more[k] = m
      BY <1>1, <2>1
    <3>2. m \in Wires(front) /\ m.calls = <<>> /\ m.answers = calls[k].id
      BY <1>1, <1>2, <1>7 DEF Wires, OpenAIWire, Roles
    <3> HIDE DEF m
    <3>3. From(front, m).results = <<[id |-> calls[k].id, error |-> FALSE]>>
      <4>1. From(front, m).results = IF m.answers = None THEN <<>> ELSE <<[id |-> m.answers, error |-> FALSE]>>
        BY <1>7, <3>2, FromType
      <4>2. m.answers # None
        BY <1>1, <1>4, <3>2
      <4> QED
        BY <3>2, <4>1, <4>2
    <3>4. Ids(<<[id |-> calls[k].id, error |-> FALSE]>>) = {calls[k].id}
      BY DEF Ids
    <3> QED
      BY <3>1, <3>2, <3>3, <3>4
  <2>3. more \in Seq(Wires(front)) /\ Len(more) = L
    <3>1. DOMAIN more = 1..L /\ more = [k \in 1..L |-> more[k]]
      BY <1>1, <2>1
    <3>2. more \in [1..L -> Wires(front)]
      BY <2>2, <3>1
    <3> QED
      BY <1>1, <3>2
  <2>4. \A j \in 1..L : calls[j].id \in Ids(From(front, more[j]).results)
    BY <2>2
  <2>5. \A k \in 1..L : Ids(From(front, more[k]).results) \subseteq {calls[j].id : j \in 1..L}
    BY <2>2
  <2> QED
    BY <2>2, <2>3, <2>4, <2>5
<1>8. CASE calls # <<>> /\ front # "openai"
  <2>1. PICK text \in {<<>>, <<"ask">>}, e \in BOOLEAN :
          more = <<AnthropicWire("user", text, <<>>, [i \in DOMAIN calls |-> [id |-> calls[i].id, error |-> e]])>>
    BY <1>8 DEF Continues
  <2> DEFINE r == [i \in DOMAIN calls |-> [id |-> calls[i].id, error |-> e]]
             m == AnthropicWire("user", text, <<>>, r)
  <2>2. r \in Seq(Outcome)
    <3>1. \A i \in 1..L : [id |-> calls[i].id, error |-> e] \in Outcome
      BY <1>1 DEF Outcome
    <3>2. r \in [1..L -> Outcome]
      BY <1>1, <3>1
    <3> HIDE DEF r
    <3> QED
      BY <1>1, <3>2
  <2>3. Ids(r) = {calls[j].id : j \in 1..L}
    BY <1>1 DEF Ids
  <2> HIDE DEF r
  <2>4. m \in Wires(front) /\ m.calls = <<>> /\ m.results = r
    BY <1>2, <1>8, <2>2 DEF Wires, AnthropicWire, Roles
  <2>5. more = <<m>>
    BY <2>1 DEF r
  <2> HIDE DEF m
  <2>6. From(front, m).results = r
    BY <1>8, <2>4, FromType
  <2>7. more \in Seq(Wires(front)) /\ Len(more) = 1 /\ more[1] = m
    BY <2>4, <2>5
  <2> QED
    BY <2>3, <2>4, <2>6, <2>7
<1> QED
  BY <1>6, <1>7, <1>8

-----------------------------------------------------------------------------
(* The response.                                                           *)

\* A request's response is open until it is sent; then it is whole.
Sending ==
  /\ stage \notin {"client", "sent"} => ~failed /\ events = IF stream THEN WriteStart(front) ELSE <<>>
  /\ stage = "sent" /\ ~failed => events = Response(front, reply.text, Calls(reply.calls))
  /\ stage = "sent" /\ failed /\ stream => events = WriteStart(front) \o WriteStreamError(front)

\* Each call is settled in one place, and those of an answer at work are still in
\* nobody's hands, but for the ones its handlers have run.
Settling ==
  /\ ran \in Seq(Used) /\ owed \in Seq(Used) /\ results \in Seq([id : Used, error : BOOLEAN])
  /\ \A i \in 1..Len(ran) : \A j \in 1..Len(ran) : ran[i] = ran[j] => i = j
  /\ \A i \in 1..Len(owed) : \A j \in 1..Len(owed) : owed[i] = owed[j] => i = j
  /\ \A i \in 1..Len(ran) : \A j \in 1..Len(owed) : ran[i] # owed[j]
  /\ stage \in {"answer", "reply", "run"} \/ (stage = "sent" /\ ~failed) => \A i \in 1..Len(owed) : owed[i] <= Before
  /\ stage \in {"answer", "reply"} \/ (stage = "sent" /\ ~failed) => \A i \in 1..Len(ran) : ran[i] <= Before
  /\ stage = "run" => /\ Len(results) <= Len(reply.calls) /\ \A k \in 1..Len(results) : results[k].id = Before + k
                      /\ \A i \in 1..Len(ran) : ran[i] <= Before + Len(results)

\* The calls of a reply, as they are written.
LEMMA CallsTyped ==
  ASSUME Shape, Replied
  PROVE  /\ Calls(reply.calls) \in Seq(Spoken) /\ Len(Calls(reply.calls)) = Len(reply.calls)
         /\ reply.calls \in Seq(Spoken) /\ Len(reply.calls) \in Nat
         /\ \A i \in 1..Len(reply.calls) :
              /\ reply.calls[i] \in Spoken /\ reply.calls[i].id \in Used
              /\ Calls(reply.calls)[i].id = reply.calls[i].id /\ Calls(reply.calls)[i].name = reply.calls[i].name
              /\ Calls(reply.calls)[i].input = Arguments(reply.calls[i].input)
<1> DEFINE c == reply.calls
           d == Calls(c)
<1>1. c \in Seq(Call) /\ Len(c) \in Nat /\ DOMAIN c = 1..Len(c)
  BY LenProperties DEF Replied
<1>2. \A i \in 1..Len(c) : c[i] \in Call
  BY <1>1, ElementOfSeq
<1>3. Call \subseteq Spoken
  BY DEF Call, Spoken, CallsOf, Used, Names, Shape
<1>4. c \in Seq(Spoken)
  BY <1>1, <1>3, SeqMono
<1>5. ASSUME NEW i \in 1..Len(c)
      PROVE  /\ d[i] \in Spoken /\ d[i].id = c[i].id /\ d[i].name = c[i].name
             /\ d[i].input = Arguments(c[i].input)
  <2>1. d[i] = [c[i] EXCEPT !.input = Arguments(@)]
    BY <1>1 DEF Calls
  <2>2. Arguments(c[i].input) \in Seq(Nat)
    <3>1. <<0>> \in Seq(Nat) /\ c[i].input \in Seq(Nat)
      BY <1>2 DEF Call
    <3> QED
      BY <3>1 DEF Arguments
  <2>3. c[i] \in Spoken
    BY <1>2, <1>3
  <2> HIDE DEF c, d
  <2> QED
    BY <2>1, <2>2, <2>3 DEF Spoken, CallsOf
<1>6. d \in Seq(Spoken) /\ Len(d) = Len(c)
  <2>1. d = [i \in 1..Len(c) |-> d[i]]
    BY <1>1 DEF Calls
  <2> HIDE DEF d
  <2>2. d \in [1..Len(c) -> Spoken]
    BY <1>5, <2>1
  <2> QED
    BY <1>1, <2>2
<1> QED
  BY <1>1, <1>2, <1>3, <1>4, <1>5, <1>6 DEF Call

\* What is handed back is what the model called for last.
LEMMA HandedBack ==
  ASSUME Shape, Replied, Settling, Talking, stage = "reply"
  PROVE  Unresolved(Past \o Replies(reply)) = reply.calls
<1> DEFINE m == Message("assistant", reply.text, reply.calls, <<>>)
           M == {Past[i] : i \in 1..Len(Past)} \cup {m}
<1>1. Past \in Seq(Neutral) /\ Len(Past) \in Nat /\ DOMAIN Past = 1..Len(Past)
  <2>1. Past \in Seq(Neutral)
    BY ReceivedIs DEF Talking, Past
  <2> QED
    BY <2>1, LenProperties
<1>2. reply.calls \in Seq(Spoken) /\ m.calls = reply.calls /\ m.results = <<>>
  BY CallsTyped DEF Message
<1> HIDE DEF m
<1>3. \A x \in M : x.calls \in Seq(Spoken)
  <2>1. \A i \in 1..Len(Past) : Past[i] \in Neutral
    BY <1>1, ElementOfSeq
  <2> QED
    BY <1>2, <2>1 DEF Neutral
<1>4. Past \in Seq(M) /\ m \in M
  <2>1. Past = [i \in 1..Len(Past) |-> Past[i]]
    BY <1>1
  <2>2. \A i \in 1..Len(Past) : Past[i] \in M
    OBVIOUS
  <2> HIDE DEF M
  <2>3. Past \in [1..Len(Past) -> M]
    BY <2>1, <2>2
  <2> QED
    BY <1>1, <2>3 DEF M
<1>5. \A j \in 1..Len(m.calls) : m.calls[j].id \notin Answered(Past)
  <2> SUFFICES ASSUME NEW j \in 1..Len(reply.calls), reply.calls[j].id \in Answered(Past) PROVE FALSE
    BY <1>2
  <2>1. reply.calls[j].id = Before + j
    BY DEF Replied
  <2>2. PICK i \in DOMAIN owed : reply.calls[j].id = owed[i]
    BY DEF Talking
  <2>3. DOMAIN owed = 1..Len(owed) /\ Len(reply.calls) \in Nat /\ said.calls \in Seq(Piece)
    BY LenProperties, CallsTyped DEF Settling, Shape, Said
  <2>4. owed[i] <= Before
    BY <2>2, <2>3 DEF Settling
  <2>5. Before \in Nat
    BY <2>3, LenProperties DEF Before, Shape
  <2> QED
    BY <2>1, <2>2, <2>3, <2>4, <2>5
<1>6. \A i \in 1..Len(Past) : \A j \in 1..Len(Past[i].calls) : Past[i].calls[j].id \in Answered(Past)
  BY DEF Talking, Closed
<1> HIDE DEF M
<1>7. Unresolved(Past) = <<>> /\ Unresolved(Past \o <<m>>) = m.calls
  BY <1>2, <1>3, <1>4, <1>5, <1>6, UnresolvedIs
<1>8. CASE reply.text = <<>> /\ reply.calls = <<>>
  BY <1>1, <1>7, <1>8, ConcatEmptySeq DEF Replies
<1>9. CASE ~(reply.text = <<>> /\ reply.calls = <<>>)
  BY <1>2, <1>7, <1>9 DEF Replies, m
<1> QED
  BY <1>8, <1>9

\* What a response is written from.
LEMMA Writes ==
  ASSUME Shape, Replied
  PROVE  /\ Calls(reply.calls) \in Seq(CallsOf(Nat, Names, Nat \cup {"say"}))
         /\ reply.text \in Seq(Nat \cup {"say"})
         /\ FinishReason(Calls(reply.calls)) = FinishReason(reply.calls)
<1> DEFINE Q == Nat \cup {"say"}
           d == Calls(reply.calls)
<1>1. d \in Seq(CallsOf(Nat, Names, Q))
  <2>1. d \in Seq(Spoken) /\ Seq(Nat) \subseteq Seq(Q)
    BY CallsTyped, SeqMono
  <2>2. Spoken \subseteq CallsOf(Nat, Names, Q)
    BY <2>1 DEF Spoken, CallsOf
  <2> HIDE DEF d
  <2> QED
    BY <2>1, <2>2, SeqMono
<1>2. reply.text \in Seq(Q)
  <2>1. Seq({"say"}) \subseteq Seq(Q)
    BY SeqMono
  <2> QED
    BY <2>1 DEF Replied
<1>3. FinishReason(d) = FinishReason(reply.calls)
  <2>1. Len(d) = Len(reply.calls) /\ d \in Seq(Spoken) /\ reply.calls \in Seq(Spoken)
    BY CallsTyped
  <2> HIDE DEF d
  <2>2. d = <<>> <=> reply.calls = <<>>
    BY <2>1, EmptySeq
  <2> QED
    BY <2>2 DEF FinishReason
<1> QED
  BY <1>1, <1>2, <1>3

\* The client reads the reply.
LEMMA Hears ==
  ASSUME Shape, Replied, Sending, stage = "sent", ~failed
  PROVE  Heard.text = reply.text /\ Heard.calls = Calls(reply.calls) /\ Heard.ends = <<FinishReason(reply.calls)>>
<1> DEFINE Q == Nat \cup {"say"}
           d == Calls(reply.calls)
<1>1. events = Response(front, reply.text, d)
  BY DEF Sending
<1>2. d \in Seq(CallsOf(Nat, Names, Q))
  BY Writes
<1>3. reply.text \in Seq(Q)
  BY Writes
<1>4. FinishReason(d) = FinishReason(reply.calls)
  BY Writes
<1> HIDE DEF Q, d
<1>5. /\ Read(front, Response(front, reply.text, d)).text = reply.text
      /\ Read(front, Response(front, reply.text, d)).calls = d
      /\ Read(front, Response(front, reply.text, d)).ends = <<FinishReason(d)>>
  BY <1>2, <1>3, ReadBack
<1> QED
  BY <1>1, <1>4, <1>5 DEF Heard, d

\* The response that is handed back is the reply's.
LEMMA SendingHandBack == Shape /\ Replied /\ Settling /\ Talking /\ Sending /\ HandBack => Sending'
<1> SUFFICES ASSUME Shape, Replied, Settling, Talking, Sending, HandBack PROVE Sending'
  OBVIOUS
<1>1. /\ stage = "reply" /\ stage' = "sent" /\ failed' = failed /\ reply' = reply /\ front' = front /\ stream' = stream
      /\ events' = events \o Open \o WriteDelta(front, reply.text)
                     \o WriteStop(front, Calls(Unresolved(Past \o Replies(reply))))
  BY DEF HandBack, Answer, request, client, Past
<1>2. ~failed /\ events = IF stream THEN WriteStart(front) ELSE <<>>
  BY <1>1 DEF Sending
<1>3. events \o Open = WriteStart(front)
  <2>1. <<>> \in Seq(CallsOf(Nat, Names, Nat)) /\ <<>> \in Seq(Nat)
    BY EmptySeq
  <2>2. WriteStart(front) \in Seq(EventsOf(CallsOf(Nat, Names, Nat), Nat))
    BY <2>1, ResponseTyped
  <2>3. WriteStart(front) \o <<>> = WriteStart(front) /\ <<>> \o WriteStart(front) = WriteStart(front)
    BY <2>2, ConcatEmptySeq
  <2> QED
    BY <1>2, <2>3 DEF Open
<1>4. Unresolved(Past \o Replies(reply)) = reply.calls
  BY <1>1, HandedBack
<1>5. events' = Response(front, reply.text, Calls(reply.calls))
  BY <1>1, <1>3, <1>4 DEF Response
<1> QED
  BY <1>1, <1>2, <1>5 DEF Sending

\* A response is written at once, or fails once.
LEMMA SendingStep == Shape /\ Replied /\ Settling /\ Talking /\ Sending /\ [Next]_vars => Sending'
<1> SUFFICES ASSUME Shape, Replied, Settling, Talking, Sending, [Next]_vars PROVE Sending'
  OBVIOUS
<1>f. ASSUME stage \notin {"client", "sent"}, Fail, front' = front, stream' = stream PROVE Sending'
  BY <1>f DEF Sending, Fail
<1>1. CASE \E live \in BOOLEAN : Send(live)
  BY <1>1 DEF Send, Sending
<1>2. CASE Disconnect
  BY <1>2 DEF Disconnect, client, request, answer, Sending
<1>3. CASE Receive
  BY <1>3 DEF Receive, Sending
<1>4. CASE Ask
  BY <1>4 DEF Ask, client, answer, Sending
<1>5. CASE Collected
  BY <1>5 DEF Collected, client, answer, Sending
<1>6. CASE Breaks
  BY <1>6, <1>f DEF Breaks, client
<1>7. CASE CutShort
  BY <1>7, <1>f DEF CutShort, client, answer, Sending
<1>8. CASE \E i \in DOMAIN given : Delta(i)
  BY <1>8 DEF Delta, client, answer, Sending
<1>9. CASE HandBack
  BY <1>9, SendingHandBack
<1>10. CASE Run
  BY <1>10 DEF Run, client, answer, Sending
<1>11. CASE Handle
  BY <1>11 DEF Handle, client, answer, Sending
<1>12. CASE Cancelled
  BY <1>12, <1>f DEF Cancelled, client
<1>13. CASE Again
  BY <1>13 DEF Again, client, answer, Sending
<1>14. CASE Exhausted
  BY <1>14, <1>f DEF Exhausted, client
<1>15. CASE UNCHANGED vars
  BY <1>15 DEF vars, client, request, answer, Sending
<1> QED
  BY <1>1, <1>2, <1>3, <1>4, <1>5, <1>6, <1>7, <1>8, <1>9, <1>10, <1>11, <1>12, <1>13, <1>14, <1>15 DEF Next

-----------------------------------------------------------------------------
(* Who settles a call.                                                     *)

\* A handler is given a call of this answer that none was given before.
LEMMA SettlingHandle == Shape /\ Replied /\ Settling /\ Handle => Settling'
<1> SUFFICES ASSUME Shape, Replied, Settling, Handle PROVE Settling'
  OBVIOUS
<1> DEFINE n == Len(results) + 1
           c == reply.calls[n]
<1>1. /\ stage = "run" /\ Len(results) < Len(reply.calls) /\ ran' = Append(ran, c.id) /\ stage' = stage
      /\ owed' = owed /\ minted' = minted /\ reply' = reply /\ said' = said /\ failed' = failed
  BY DEF Handle, answer
<1>2. PICK e \in BOOLEAN : results' = Append(results, [id |-> c.id, error |-> e])
  BY DEF Handle
<1>3. ran \in Seq(Used) /\ owed \in Seq(Used) /\ results \in Seq([id : Used, error : BOOLEAN])
  BY DEF Settling
<1>4. Len(results) \in Nat /\ Len(ran) \in Nat /\ Len(reply.calls) \in Nat
  BY <1>3, CallsTyped, LenProperties
<1>5. n \in 1..Len(reply.calls) /\ c.id \in Used /\ c.id = Before + n
  <2>1. n \in 1..Len(reply.calls)
    BY <1>1, <1>4
  <2> QED
    BY <1>1, <2>1, CallsTyped DEF Replied
<1>6. Before \in Nat /\ Before' = Before /\ Used' = Used
  <2>1. Len(said.calls) \in Nat
    BY LenProperties DEF Shape, Said
  <2> QED
    BY <1>1, <2>1 DEF Before, Used, Shape
<1>7. \A i \in 1..Len(ran) : ran[i] \in Used /\ ran[i] <= Before + Len(results)
  BY <1>1, <1>3, ElementOfSeq DEF Settling
<1>8. \A i \in 1..Len(owed) : owed[i] <= Before /\ owed[i] \in Used
  BY <1>1, <1>3, ElementOfSeq DEF Settling
<1> HIDE DEF c
<1>9. /\ ran' \in Seq(Used) /\ Len(ran') = Len(ran) + 1 /\ ran'[Len(ran) + 1] = c.id
      /\ \A i \in 1..Len(ran) : ran'[i] = ran[i]
  BY <1>1, <1>3, <1>5, AppendProperties
<1> DEFINE o == [id |-> c.id, error |-> e]
<1>10. o \in [id : Used, error : BOOLEAN] /\ o.id = c.id /\ results' = Append(results, o)
  BY <1>2, <1>5
<1> HIDE DEF o
<1>11. /\ results' \in Seq([id : Used, error : BOOLEAN]) /\ Len(results') = n /\ results'[n] = o
       /\ \A k \in 1..Len(results) : results'[k] = results[k]
  BY <1>3, <1>10, AppendProperties
<1>12. \A i \in 1..Len(ran) + 1 : \A j \in 1..Len(ran) + 1 : ran'[i] = ran'[j] => i = j
  <2>1. \A i \in 1..Len(ran) : ran'[i] # c.id /\ ran[i] \in Nat
    BY <1>4, <1>5, <1>6, <1>7, <1>9 DEF Used
  <2>2. \A i \in 1..Len(ran) + 1 : i = Len(ran) + 1 \/ i \in 1..Len(ran)
    BY <1>4
  <2>3. \A i \in 1..Len(ran) : \A j \in 1..Len(ran) : ran[i] = ran[j] => i = j
    BY DEF Settling
  <2> QED
    BY <1>9, <2>1, <2>2, <2>3
<1>13. \A i \in 1..Len(ran) + 1 : \A j \in 1..Len(owed) : ran'[i] # owed[j]
  <2>1. \A i \in 1..Len(ran) + 1 : i = Len(ran) + 1 \/ i \in 1..Len(ran)
    BY <1>4
  <2>2. \A j \in 1..Len(owed) : owed[j] # c.id
    BY <1>4, <1>5, <1>6, <1>8 DEF Used
  <2>3. \A i \in 1..Len(ran) : \A j \in 1..Len(owed) : ran[i] # owed[j]
    BY DEF Settling
  <2> QED
    BY <1>9, <2>1, <2>2, <2>3
<1>14. \A i \in 1..Len(ran) + 1 : ran'[i] <= Before + n
  <2>1. \A i \in 1..Len(ran) + 1 : i = Len(ran) + 1 \/ i \in 1..Len(ran)
    BY <1>4
  <2>2. \A i \in 1..Len(ran) : ran[i] <= Before + n
    BY <1>4, <1>6, <1>7 DEF Used
  <2> QED
    BY <1>4, <1>5, <1>6, <1>9, <2>1, <2>2
<1>15. \A k \in 1..n : results'[k].id = Before + k
  <2>1. \A k \in 1..n : k = n \/ k \in 1..Len(results)
    BY <1>4
  <2>2. \A k \in 1..Len(results) : results[k].id = Before + k
    BY <1>1 DEF Settling
  <2> QED
    BY <1>5, <1>10, <1>11, <2>1, <2>2
<1>16. Len(results') <= Len(reply.calls)
  BY <1>1, <1>4, <1>11
<1>17. \A i \in 1..Len(owed) : \A j \in 1..Len(owed) : owed[i] = owed[j] => i = j
  BY DEF Settling
<1> HIDE DEF n
<1>18. ran' \in Seq(Used)' /\ owed' \in Seq(Used)' /\ results' \in Seq([id : Used, error : BOOLEAN])'
  BY <1>1, <1>3, <1>6, <1>9, <1>11
<1>19. \A i \in 1..Len(ran') : \A j \in 1..Len(ran') : ran'[i] = ran'[j] => i = j
  BY <1>9, <1>12
<1>20. \A i \in 1..Len(owed') : \A j \in 1..Len(owed') : owed'[i] = owed'[j] => i = j
  BY <1>1, <1>17
<1>21. \A i \in 1..Len(ran') : \A j \in 1..Len(owed') : ran'[i] # owed'[j]
  BY <1>1, <1>9, <1>13
<1>22. \A i \in 1..Len(owed') : owed'[i] <= Before'
  BY <1>1, <1>6, <1>8
<1>23. /\ Len(results') <= Len(reply'.calls) /\ \A k \in 1..Len(results') : results'[k].id = Before' + k
       /\ \A i \in 1..Len(ran') : ran'[i] <= Before' + Len(results')
  BY <1>1, <1>6, <1>9, <1>11, <1>14, <1>15, <1>16
<1> QED
  BY <1>1, <1>18, <1>19, <1>20, <1>21, <1>22, <1>23 DEF Settling

\* What the client is asked to run: the calls of the reply, by their ids.
LEMMA Handed ==
  ASSUME Shape, Replied, Sending, stage = "sent", ~failed
  PROVE  LET ids == [i \in DOMAIN Heard.calls |-> Heard.calls[i].id]
         IN /\ ids \in Seq(Used) /\ Len(ids) = Len(reply.calls) /\ Len(reply.calls) \in Nat
            /\ \A i \in 1..Len(reply.calls) : ids[i] = Before + i /\ ids[i] = Heard.calls[i].id
            /\ Heard.calls \in Seq(Spoken) /\ Len(Heard.calls) = Len(reply.calls)
<1> DEFINE d == Calls(reply.calls)
           ids == [i \in DOMAIN d |-> d[i].id]
<1>1. Heard.calls = d
  BY Hears
<1>2. d \in Seq(Spoken) /\ Len(d) = Len(reply.calls) /\ Len(reply.calls) \in Nat
  BY CallsTyped
<1>3. \A i \in 1..Len(reply.calls) : d[i].id \in Used /\ d[i].id = Before + i
  BY CallsTyped DEF Replied
<1> HIDE DEF d
<1>4. DOMAIN d = 1..Len(reply.calls)
  BY <1>2, LenProperties
<1>5. ids \in Seq(Used) /\ Len(ids) = Len(reply.calls)
  <2>1. ids \in [1..Len(reply.calls) -> Used]
    BY <1>3, <1>4
  <2> QED
    BY <1>2, <2>1
<1> QED
  BY <1>1, <1>2, <1>3, <1>4, <1>5

\* The client is handed the calls of this answer, none of which was run.
LEMMA SettlingReceive == Shape /\ Replied /\ Settling /\ Sending /\ Receive => Settling'
<1> SUFFICES ASSUME Shape, Replied, Settling, Sending, Receive PROVE Settling'
  OBVIOUS
<1>1. /\ stage = "sent" /\ stage' = "client" /\ ran' = ran /\ minted' = minted /\ results' = results
      /\ Used' = Used
  BY DEF Receive, request, Used
<1>2. CASE failed \/ gone
  <2>1. owed' = owed
    BY <1>2 DEF Receive
  <2> QED
    BY <1>1, <2>1 DEF Settling
<1>3. CASE ~(failed \/ gone)
  <2> DEFINE ids == [i \in DOMAIN Heard.calls |-> Heard.calls[i].id]
             N == Len(owed)
             K == Len(reply.calls)
  <2>1. owed' = owed \o ids
    BY <1>3 DEF Receive
  <2>2. ids \in Seq(Used) /\ Len(ids) = K /\ K \in Nat /\ \A i \in 1..K : ids[i] = Before + i
    BY <1>1, <1>3, Handed
  <2> HIDE DEF ids
  <2>3. owed \in Seq(Used) /\ ran \in Seq(Used) /\ N \in Nat
    BY LenProperties DEF Settling
  <2>4. Before \in Nat
    <3>1. Len(said.calls) \in Nat
      BY LenProperties DEF Shape, Said
    <3> QED
      BY <3>1 DEF Before, Shape
  <2>5. (\A i \in 1..N : owed[i] <= Before) /\ \A i \in 1..Len(ran) : ran[i] <= Before
    BY <1>1, <1>3 DEF Settling
  <2>6. (\A i \in 1..N : owed[i] \in Nat) /\ \A i \in 1..Len(ran) : ran[i] \in Nat
    <3>1. (\A i \in 1..N : owed[i] \in Used) /\ \A i \in 1..Len(ran) : ran[i] \in Used
      BY <2>3, ElementOfSeq
    <3> QED
      BY <3>1 DEF Used
  <2>7. /\ owed' \in Seq(Used) /\ Len(owed') = N + K /\ \A i \in 1..N : owed'[i] = owed[i]
        /\ \A i \in N + 1..N + K : owed'[i] = Before + (i - N)
    <3>0. owed \o ids \in Seq(Used) /\ Len(owed \o ids) = Len(owed) + Len(ids)
      <4> HIDE DEF N, K
      <4> QED
        BY <2>2, <2>3, ConcatProperties
    <3>1. owed \o ids \in Seq(Used) /\ Len(owed \o ids) = N + K
      BY <2>2, <3>0
    <3>2. \A i \in 1..N + K : (owed \o ids)[i] = IF i <= N THEN owed[i] ELSE ids[i - N]
      BY <2>2, <2>3, ConcatProperties
    <3>3. \A i \in 1..N : (owed \o ids)[i] = owed[i]
      BY <2>2, <2>3, <3>2
    <3>4. \A i \in N + 1..N + K : (owed \o ids)[i] = Before + (i - N)
      <4> SUFFICES ASSUME NEW i \in N + 1..N + K PROVE (owed \o ids)[i] = Before + (i - N)
        OBVIOUS
      <4>1. i \in 1..N + K /\ ~(i <= N) /\ i - N \in 1..K
        BY <2>2, <2>3
      <4> QED
        BY <2>2, <3>2, <4>1
    <3> QED
      BY <2>1, <3>1, <3>3, <3>4
  <2>8. \A i \in 1..N + K : i \in 1..N \/ i \in N + 1..N + K
    BY <2>2, <2>3
  <2>9. \A i \in 1..N + K : \A j \in 1..N + K : owed'[i] = owed'[j] => i = j
    <3> SUFFICES ASSUME NEW i \in 1..N + K, NEW j \in 1..N + K, owed'[i] = owed'[j] PROVE i = j
      OBVIOUS
    <3>1. CASE i \in 1..N /\ j \in 1..N
      BY <2>7, <3>1 DEF Settling
    <3>2. CASE i \in N + 1..N + K /\ j \in N + 1..N + K
      BY <2>3, <2>4, <2>7, <3>2
    <3>5. ASSUME NEW a \in 1..N, NEW b \in N + 1..N + K PROVE owed'[a] # owed'[b]
      <4>1. owed'[a] \in Nat /\ owed'[a] <= Before
        BY <2>5, <2>6, <2>7
      <4>2. owed'[b] = Before + (b - N) /\ b - N >= 1 /\ b - N \in Nat
        BY <2>2, <2>3, <2>7
      <4> HIDE DEF N, K
      <4> QED
        BY <2>4, <4>1, <4>2
    <3>3. CASE i \in 1..N /\ j \in N + 1..N + K
      BY <3>3, <3>5
    <3>4. CASE j \in 1..N /\ i \in N + 1..N + K
      BY <3>4, <3>5
    <3> QED
      BY <2>8, <3>1, <3>2, <3>3, <3>4
  <2>10. \A i \in 1..Len(ran) : \A j \in 1..N + K : ran[i] # owed'[j]
    <3> SUFFICES ASSUME NEW i \in 1..Len(ran), NEW j \in 1..N + K PROVE ran[i] # owed'[j]
      OBVIOUS
    <3>1. CASE j \in 1..N
      BY <2>7, <3>1 DEF Settling
    <3>2. CASE j \in N + 1..N + K
      BY <2>3, <2>4, <2>5, <2>6, <2>7, <3>2
    <3> QED
      BY <2>8, <3>1, <3>2
  <2> HIDE DEF N, K
  <2>11. /\ results \in Seq([id : Used, error : BOOLEAN])
         /\ \A i \in 1..Len(ran) : \A j \in 1..Len(ran) : ran[i] = ran[j] => i = j
    BY DEF Settling
  <2> QED
    BY <1>1, <2>3, <2>7, <2>9, <2>10, <2>11 DEF Settling
<1> QED
  BY <1>2, <1>3

\* No other step settles a call, and an answer's ids are new.
LEMMA SettlingStep == Shape /\ Replied /\ Settling /\ Sending /\ [Next]_vars => Settling'
<1> SUFFICES ASSUME Shape, Replied, Settling, Sending, [Next]_vars PROVE Settling'
  OBVIOUS
<1>m. ASSUME minted' = minted PROVE Used' = Used /\ (said' = said => Before' = Before)
  BY <1>m DEF Used, Before
<1>e. <<>> \in Seq([id : Used, error : BOOLEAN]) /\ Len(<<>>) = 0
  BY EmptySeq
<1>f. ASSUME Fail, minted' = minted, ran' = ran, owed' = owed, results' = results PROVE Settling'
  BY <1>f, <1>m DEF Settling, Fail
<1>1. CASE \E live \in BOOLEAN : Send(live)
  BY <1>1, <1>m, <1>e DEF Send, history, Settling
<1>2. CASE Disconnect
  BY <1>2, <1>m DEF Disconnect, request, answer, history, Settling
<1>3. CASE Receive
  BY <1>3, SettlingReceive
<1>4. CASE Ask
  <2>1. PICK s \in Says : said' = s /\ given' = [i \in DOMAIN s.calls |-> 0] /\ minted' = minted + Len(s.calls)
    BY <1>4 DEF Ask
  <2>2. s.calls \in Seq(Piece)
    BY ToolsAssumption DEF Said
  <2>3. Len(s.calls) \in Nat /\ minted \in Nat
    BY <2>2, LenProperties DEF Shape
  <2>4. Before' = minted /\ Used \subseteq Used'
    BY <2>1, <2>3 DEF Before, Used
  <2>5. /\ stage' = "answer" /\ ran' = ran /\ owed' = owed /\ results' = results
    BY <1>4 DEF Ask
  <2>6. Seq(Used) \subseteq Seq(Used)' /\ Seq([id : Used, error : BOOLEAN]) \subseteq Seq([id : Used, error : BOOLEAN])'
    <3>1. [id : Used, error : BOOLEAN] \subseteq [id : Used, error : BOOLEAN]'
      BY <2>4
    <3> QED
      BY <2>4, <3>1, SeqMono
  <2>7. (\A i \in 1..Len(owed) : owed[i] <= minted) /\ \A i \in 1..Len(ran) : ran[i] <= minted
    <3>1. (\A i \in 1..Len(owed) : owed[i] \in Used) /\ \A i \in 1..Len(ran) : ran[i] \in Used
      BY ElementOfSeq DEF Settling
    <3> QED
      BY <3>1 DEF Used
  <2>8. ran' \in Seq(Used)' /\ owed' \in Seq(Used)' /\ results' \in Seq([id : Used, error : BOOLEAN])'
    BY <2>5, <2>6 DEF Settling
  <2> QED
    BY <2>4, <2>5, <2>7, <2>8 DEF Settling
<1>5. CASE Collected
  BY <1>5, <1>m DEF Collected, answer, history, Settling
<1>6. CASE Breaks
  BY <1>6, <1>f DEF Breaks, request, history
<1>7. CASE CutShort
  <2>1. /\ stage = "answer" /\ ran' = ran /\ owed' = owed /\ results' = results /\ minted' = minted
        /\ Used' = Used /\ Before' = Before
    BY <1>7, <1>m DEF CutShort, history
  <2>2. CASE Fail
    BY <1>f, <2>1, <2>2
  <2>3. CASE stage' = "reply"
    BY <2>1, <2>3 DEF Settling
  <2> QED
    BY <1>7, <2>2, <2>3 DEF CutShort
<1>8. CASE \E i \in DOMAIN given : Delta(i)
  BY <1>8, <1>m DEF Delta, answer, history, Settling
<1>9. CASE HandBack
  <2>1. /\ stage = "reply" /\ stage' = "sent" /\ ran' = ran /\ owed' = owed /\ results' = results /\ minted' = minted
        /\ Used' = Used /\ Before' = Before
    BY <1>9, <1>m DEF HandBack, Answer, request, history
  <2> QED
    BY <2>1 DEF Settling
<1>10. CASE Run
  <2>1. /\ stage = "reply" /\ stage' = "run" /\ results' = <<>> /\ ran' = ran /\ owed' = owed /\ reply' = reply
        /\ Used' = Used /\ Before' = Before
    BY <1>10, <1>m DEF Run, history
  <2>2. Before \in Nat
    <3>1. Len(said.calls) \in Nat
      BY LenProperties DEF Shape, Said
    <3> QED
      BY <3>1 DEF Before, Shape
  <2>3. Len(reply.calls) \in Nat
    BY CallsTyped
  <2>4. Before + 0 = Before /\ \A k \in 1..0 : FALSE
    BY <2>2
  <2>5. Len(results') = 0 /\ Len(results') <= Len(reply'.calls) /\ results' \in Seq([id : Used, error : BOOLEAN])
    BY <1>e, <2>1, <2>3
  <2>6. \A k \in 1..Len(results') : results'[k].id = Before + k
    BY <2>4, <2>5
  <2>7. \A i \in 1..Len(ran) : ran[i] <= Before + Len(results')
    BY <2>1, <2>4, <2>5 DEF Settling
  <2> QED
    BY <2>1, <2>5, <2>6, <2>7 DEF Settling
<1>11. CASE Handle
  BY <1>11, SettlingHandle
<1>12. CASE Cancelled
  BY <1>12, <1>f DEF Cancelled, request, history
<1>13. CASE Again
  BY <1>13, <1>m DEF Again, answer, history, Settling
<1>14. CASE Exhausted
  BY <1>14, <1>f DEF Exhausted, request, history
<1>15. CASE UNCHANGED vars
  BY <1>15, <1>m DEF vars, request, answer, history, Settling
<1> QED
  BY <1>1, <1>2, <1>3, <1>4, <1>5, <1>6, <1>7, <1>8, <1>9, <1>10, <1>11, <1>12, <1>13, <1>14, <1>15 DEF Next

-----------------------------------------------------------------------------
(* The client answers all that it is asked to run.                         *)

\* What is answered, by message.
LEMMA AnsweredIs ==
  ASSUME NEW h \in Seq(Neutral), NEW x
  PROVE  x \in Answered(h) <=> \E i \in 1..Len(h) : x \in Ids(h[i].results)
<1>1. DOMAIN h = 1..Len(h)
  BY LenProperties
<1> QED
  BY <1>1 DEF Answered

\* What the client adds answers the calls of the message before it.
LEMMA TalkingReceive == Shape /\ Replied /\ Settling /\ Sending /\ Talking /\ Receive => Talking'
<1> SUFFICES ASSUME Shape, Replied, Settling, Sending, Talking, Receive PROVE Talking'
  OBVIOUS
<1>1. stage = "sent" /\ front' = front
  BY DEF Receive
<1>2. CASE failed \/ gone
  BY <1>1, <1>2 DEF Receive, Talking, Past
<1>3. CASE ~(failed \/ gone)
  <2> DEFINE calls == Heard.calls
             x   == IF front = "openai" THEN OpenAIWire("assistant", Heard.text, calls, None)
                    ELSE AnthropicWire("assistant", Heard.text, calls, <<>>)
             ids == [i \in DOMAIN calls |-> calls[i].id]
             h   == Received(front, talk)
             L   == Len(talk)
             K   == Len(calls)
  <2>1. PICK more \in Continues(calls) : talk' = Append(talk, x) \o more
    BY <1>3 DEF Receive
  <2>2. owed' = owed \o ids
    BY <1>3 DEF Receive
  <2>3. /\ ids \in Seq(Used) /\ Len(ids) = K /\ K \in Nat /\ calls \in Seq(Spoken) /\ Heard.text = reply.text
        /\ \A i \in 1..K : ids[i] = calls[i].id
    BY <1>1, <1>3, Handed, Hears
  <2>4. x \in Wires(front) /\ x.calls = calls /\ From(front, x).results = <<>>
    <3>1. Heard.text \in Texts /\ <<>> \in Seq(Outcome)
      <4>1. Seq({"say"}) \subseteq Texts
        BY SeqMono DEF Texts
      <4> QED
        BY <2>3, <4>1, EmptySeq DEF Replied
    <3>2. CASE front = "openai"
      <4>1. x = [role |-> "assistant", content |-> Heard.text, calls |-> calls, answers |-> None]
        BY <3>2 DEF OpenAIWire
      <4> HIDE DEF calls, x
      <4>2. x \in Wires(front) /\ x.calls = calls /\ x.answers = None
        BY <2>3, <3>1, <3>2, <4>1 DEF Wires, Roles
      <4> QED
        BY <3>2, <4>2, FromType
    <3>3. CASE front # "openai"
      <4>1. x = [role |-> "assistant", content |-> Heard.text, calls |-> calls, results |-> <<>>]
        BY <3>3 DEF AnthropicWire
      <4> HIDE DEF calls, x
      <4>2. x \in Wires(front) /\ x.calls = calls /\ x.results = <<>>
        BY <2>3, <3>1, <3>3, <4>1 DEF Wires, Roles
      <4> QED
        BY <3>3, <4>2, FromType
    <3> QED
      BY <3>2, <3>3
  <2> HIDE DEF calls, ids, x
  <2>5. talk \in Seq(Wires(front)) /\ L \in Nat
    BY LenProperties DEF Talking
  <2>6. /\ more \in Seq(Wires(front)) /\ Len(more) \in Nat
        /\ \A k \in 1..Len(more) : /\ more[k].calls = <<>>
                                   /\ Ids(From(front, more[k]).results) \subseteq {calls[j].id : j \in 1..K}
        /\ \A j \in 1..K : \E k \in 1..Len(more) : calls[j].id \in Ids(From(front, more[k]).results)
    BY <2>3, MoreTalk, LenProperties
  <2> DEFINE M == Len(more)
             a == Append(talk, x)
  <2>7. a \in Seq(Wires(front)) /\ Len(a) = L + 1 /\ a[L + 1] = x /\ \A i \in 1..L : a[i] = talk[i]
    BY <2>4, <2>5, AppendProperties
  <2> HIDE DEF a
  <2>8. /\ talk' \in Seq(Wires(front)) /\ Len(talk') = L + 1 + M
        /\ \A i \in 1..L : talk'[i] = talk[i]
        /\ talk'[L + 1] = x
        /\ \A k \in 1..M : talk'[L + 1 + k] = more[k]
    <3>1. /\ a \o more \in Seq(Wires(front)) /\ Len(a \o more) = Len(a) + Len(more)
          /\ \A i \in 1..Len(a) + Len(more) : (a \o more)[i] = IF i <= Len(a) THEN a[i] ELSE more[i - Len(a)]
      BY <2>6, <2>7, ConcatProperties
    <3>2. talk' = a \o more
      BY <2>1 DEF a
    <3>3. \A i \in 1..L + 1 : (a \o more)[i] = a[i]
      BY <2>5, <2>6, <2>7, <3>1
    <3>4. ASSUME NEW k \in 1..M PROVE (a \o more)[L + 1 + k] = more[k]
      <4>1. L + 1 + k \in 1..Len(a) + Len(more) /\ ~(L + 1 + k <= Len(a)) /\ (L + 1 + k) - Len(a) = k
        BY <2>5, <2>6, <2>7
      <4> QED
        BY <3>1, <4>1
    <3>5. L + 1 \in 1..L + 1 /\ \A i \in 1..L : i \in 1..L + 1
      BY <2>5
    <3> QED
      BY <2>7, <3>1, <3>2, <3>3, <3>4, <3>5
  <2> DEFINE g == Received(front, talk')
  <2>9. /\ h \in Seq(Neutral) /\ Len(h) = L /\ g \in Seq(Neutral) /\ Len(g) = L + 1 + M
        /\ \A i \in 1..L : talk[i] \in Wires(front) /\ h[i] = From(front, talk[i])
        /\ \A i \in 1..L + 1 + M : talk'[i] \in Wires(front) /\ g[i] = From(front, talk'[i])
    <3>1. h \in Seq(Neutral) /\ Len(h) = L /\ \A i \in 1..L : talk[i] \in Wires(front) /\ h[i] = From(front, talk[i])
      BY <2>5, ReceivedIs
    <3>2. /\ g \in Seq(Neutral) /\ Len(g) = Len(talk')
          /\ \A i \in 1..Len(talk') : talk'[i] \in Wires(front) /\ g[i] = From(front, talk'[i])
      BY <2>8, ReceivedIs
    <3> HIDE DEF g, h, L, M
    <3> QED
      BY <2>8, <3>1, <3>2
  <2> HIDE DEF g, h
  <2>10. /\ \A i \in 1..L : i \in 1..L + 1 + M /\ g[i] = h[i]
         /\ L + 1 \in 1..L + 1 + M /\ g[L + 1] = From(front, x)
         /\ \A k \in 1..M : L + 1 + k \in 1..L + 1 + M /\ g[L + 1 + k] = From(front, more[k])
    <3>1. \A i \in 1..L : i \in 1..L + 1 + M
      BY <2>5, <2>6
    <3>2. L + 1 \in 1..L + 1 + M
      BY <2>5, <2>6
    <3>3. \A k \in 1..M : L + 1 + k \in 1..L + 1 + M
      BY <2>5, <2>6
    <3> HIDE DEF L, M
    <3> QED
      BY <2>8, <2>9, <3>1, <3>2, <3>3
  <2>11. \A i \in 1..L + 1 + M : i \in 1..L \/ i = L + 1 \/ \E k \in 1..M : i = L + 1 + k
    <3> SUFFICES ASSUME NEW i \in 1..L + 1 + M, i \notin 1..L, i # L + 1 PROVE \E k \in 1..M : i = L + 1 + k
      OBVIOUS
    <3>1. i - (L + 1) \in 1..M /\ i = L + 1 + (i - (L + 1))
      BY <2>5, <2>6
    <3> QED
      BY <3>1
  <2> HIDE DEF L, M, K
  <2>12. ASSUME NEW y
         PROVE  y \in Answered(g) <=> (y \in Answered(h) \/ y \in {calls[j].id : j \in 1..K})
    <3>1. y \in Answered(g) <=> \E i \in 1..L + 1 + M : y \in Ids(g[i].results)
      BY <2>9, AnsweredIs
    <3>2. y \in Answered(h) <=> \E i \in 1..L : y \in Ids(h[i].results)
      BY <2>9, AnsweredIs
    <3>3. y \notin Ids(g[L + 1].results)
      BY <2>4, <2>10, EmptySeq DEF Ids
    <3>4. ASSUME y \in Answered(g), y \notin Answered(h) PROVE y \in {calls[j].id : j \in 1..K}
      <4>1. PICK i \in 1..L + 1 + M : y \in Ids(g[i].results)
        BY <3>1, <3>4
      <4>2. PICK k \in 1..M : i = L + 1 + k
        BY <2>10, <2>11, <3>2, <3>3, <3>4, <4>1
      <4> QED
        BY <2>6, <2>10, <4>1, <4>2 DEF M
    <3>5. ASSUME y \in {calls[j].id : j \in 1..K} PROVE y \in Answered(g)
      <4>1. PICK j \in 1..K : y = calls[j].id
        BY <3>5
      <4>2. PICK k \in 1..M : y \in Ids(From(front, more[k]).results)
        BY <2>6, <4>1 DEF M
      <4> QED
        BY <2>10, <3>1, <4>2
    <3> QED
      BY <2>10, <3>1, <3>2, <3>4, <3>5
  <2>13. Closed(g)
    <3> SUFFICES ASSUME NEW i \in 1..L + 1 + M, NEW j \in 1..Len(g[i].calls)
                 PROVE  g[i].calls[j].id \in Answered(g)
      BY <2>9 DEF Closed
    <3>1. CASE i \in 1..L
      <4>1. g[i] = h[i]
        BY <2>10, <3>1
      <4>2. h[i].calls[j].id \in Answered(h)
        BY <2>9, <3>1, <4>1 DEF Talking, Closed, Past, h
      <4> QED
        BY <2>12, <4>1, <4>2
    <3>2. CASE i = L + 1
      <4>2. From(front, x).calls = x.calls
        BY <2>4, FromType
      <4>1. g[i].calls = calls
        BY <2>4, <2>10, <3>2, <4>2
      <4> QED
        BY <2>12, <4>1 DEF K
    <3>3. ASSUME NEW k \in 1..M, i = L + 1 + k PROVE FALSE
      <4>1. more[k].calls = <<>> /\ more[k] \in Wires(front)
        BY <2>6, ElementOfSeq DEF M
      <4>3. From(front, more[k]).calls = more[k].calls
        BY <4>1, FromType
      <4>2. g[i].calls = <<>>
        BY <2>10, <3>3, <4>1, <4>3
      <4> QED
        BY <4>2, EmptySeq
    <3> QED
      BY <2>11, <3>1, <3>2, <3>3
  <2>14. Answered(g) \subseteq {owed'[i] : i \in DOMAIN owed'}
    <3>1. owed \in Seq(Used) /\ Len(owed) \in Nat /\ DOMAIN owed = 1..Len(owed)
      BY LenProperties DEF Settling
    <3>2. /\ owed' \in Seq(Used) /\ Len(owed') = Len(owed) + Len(ids)
          /\ \A i \in 1..Len(owed) + Len(ids) : owed'[i] = IF i <= Len(owed) THEN owed[i] ELSE ids[i - Len(owed)]
      BY <2>2, <2>3, <3>1, ConcatProperties
    <3>3. DOMAIN owed' = 1..Len(owed) + Len(ids)
      BY <3>2, LenProperties
    <3> SUFFICES ASSUME NEW y \in Answered(g) PROVE \E i \in 1..Len(owed) + Len(ids) : y = owed'[i]
      BY <3>3
    <3>4. CASE y \in Answered(h)
      <4>1. PICK i \in 1..Len(owed) : y = owed[i]
        BY <3>1, <3>4 DEF Talking, Past, h
      <4>2. i \in 1..Len(owed) + Len(ids) /\ i <= Len(owed)
        BY <2>3, <3>1
      <4> QED
        BY <3>2, <4>1, <4>2
    <3>5. CASE y \in {calls[j].id : j \in 1..K}
      <4>1. PICK j \in 1..K : y = ids[j]
        BY <2>3, <3>5
      <4>2. /\ Len(owed) + j \in 1..Len(owed) + Len(ids) /\ ~(Len(owed) + j <= Len(owed))
            /\ (Len(owed) + j) - Len(owed) = j
        BY <2>3, <3>1
      <4>3. owed'[Len(owed) + j] = ids[j]
        BY <3>2, <4>2
      <4> QED
        BY <4>1, <4>2, <4>3
    <3> QED
      BY <2>12, <3>4, <3>5
  <2> QED
    BY <1>1, <2>8, <2>13, <2>14 DEF Talking, Past, g
<1> QED
  BY <1>2, <1>3

\* The transcript changes in no other step.
LEMMA TalkingStep == Shape /\ Replied /\ Settling /\ Sending /\ Talking /\ [Next]_vars => Talking'
<1> SUFFICES ASSUME Shape, Replied, Settling, Sending, Talking, [Next]_vars PROVE Talking'
  OBVIOUS
<1>k. ASSUME talk' = talk, front' = front, owed' = owed PROVE Talking'
  BY <1>k DEF Talking, Past
<1>1. CASE \E live \in BOOLEAN : Send(live)
  BY <1>1, <1>k DEF Send, history
<1>2. CASE Disconnect
  BY <1>2, <1>k DEF Disconnect, client, history
<1>3. CASE Receive
  BY <1>3, TalkingReceive
<1>4. CASE Ask
  BY <1>4, <1>k DEF Ask, client
<1>5. CASE Collected
  BY <1>5, <1>k DEF Collected, client, history
<1>6. CASE Breaks
  BY <1>6, <1>k DEF Breaks, client, history
<1>7. CASE CutShort
  BY <1>7, <1>k DEF CutShort, client, history
<1>8. CASE \E i \in DOMAIN given : Delta(i)
  BY <1>8, <1>k DEF Delta, client, history
<1>9. CASE HandBack
  BY <1>9, <1>k DEF HandBack, client, history
<1>10. CASE Run
  BY <1>10, <1>k DEF Run, client, history
<1>11. CASE Handle
  BY <1>11, <1>k DEF Handle, client
<1>12. CASE Cancelled
  BY <1>12, <1>k DEF Cancelled, client, history
<1>13. CASE Again
  BY <1>13, <1>k DEF Again, client, history
<1>14. CASE Exhausted
  BY <1>14, <1>k DEF Exhausted, client, history
<1>15. CASE UNCHANGED vars
  BY <1>15, <1>k DEF vars, client, history
<1> QED
  BY <1>1, <1>2, <1>3, <1>4, <1>5, <1>6, <1>7, <1>8, <1>9, <1>10, <1>11, <1>12, <1>13, <1>14, <1>15 DEF Next

-----------------------------------------------------------------------------

\* Together they are inductive.
ToolsInv == Shape /\ Filling /\ Replied /\ Sending /\ Settling /\ Talking

\* They hold at first,
LEMMA ToolsInit == Init => ToolsInv
<1> SUFFICES ASSUME Init PROVE ToolsInv
  OBVIOUS
<1>1. Shape
  BY ShapeInit
<1>2. Filling
  BY DEF Init, Filling
<1>3. reply = NoReply /\ stage = "client" /\ ran = <<>> /\ owed = <<>> /\ results = <<>>
  BY DEF Init
<1>e. NoReply.calls = <<>> /\ NoReply.text = <<>> /\ Len(<<>>) = 0
  BY EmptySeq DEF NoReply
<1>4. Replied
  <2>1. <<>> \in Seq(Call) /\ <<>> \in Seq({"say"})
    BY EmptySeq
  <2> QED
    BY <1>3, <1>e, <2>1 DEF Replied
<1>5. Sending
  BY <1>3 DEF Sending
<1>6. Settling
  <2>1. <<>> \in Seq(Used) /\ <<>> \in Seq([id : Used, error : BOOLEAN])
    BY EmptySeq
  <2> QED
    BY <1>3, <1>e, <2>1 DEF Settling
<1>7. Talking
  <2>1. <<"ask">> \in Texts /\ <<>> \in Seq(Spoken) /\ <<>> \in Seq(Outcome)
    BY EmptySeq DEF Texts
  <2> DEFINE m == IF front = "openai" THEN OpenAIWire("user", <<"ask">>, <<>>, None)
                  ELSE AnthropicWire("user", <<"ask">>, <<>>, <<>>)
  <2>2. m \in Wires(front) /\ m.calls = <<>> /\ From(front, m).results = <<>>
    <3>1. CASE front = "openai"
      <4>1. m \in Wires(front) /\ m.calls = <<>> /\ m.answers = None
        BY <2>1, <3>1 DEF Wires, OpenAIWire, Roles
      <4> HIDE DEF m
      <4> QED
        BY <3>1, <4>1, FromType
    <3>2. CASE front # "openai"
      <4>1. m \in Wires(front) /\ m.calls = <<>> /\ m.results = <<>>
        BY <2>1, <3>2 DEF Wires, AnthropicWire, Roles
      <4> HIDE DEF m
      <4> QED
        BY <3>2, <4>1, FromType
    <3> QED
      BY <3>1, <3>2
  <2>3. talk = <<m>>
    BY DEF Init
  <2> HIDE DEF m
  <2>4. talk \in Seq(Wires(front)) /\ Len(talk) = 1 /\ talk[1] = m
    BY <2>2, <2>3
  <2>5. Past \in Seq(Neutral) /\ Len(Past) = 1 /\ Past[1] = From(front, m)
    <3>1. /\ Received(front, talk) \in Seq(Neutral) /\ Len(Received(front, talk)) = Len(talk)
          /\ \A i \in 1..Len(talk) : Received(front, talk)[i] = From(front, talk[i])
      BY <2>4, ReceivedIs
    <3>2. 1 \in 1..Len(talk)
      BY <2>4
    <3> QED
      BY <2>4, <3>1, <3>2 DEF Past
  <2>6. \A i \in 1..1 : i = 1
    OBVIOUS
  <2>7. From(front, m).calls = <<>>
    BY <2>2, FromType
  <2>8. Answered(Past) = {}
    <3>1. Ids(<<>>) = {}
      BY EmptySeq DEF Ids
    <3> QED
      BY <2>2, <2>5, <2>6, <3>1, AnsweredIs
  <2>9. Closed(Past)
    <3>1. \A j \in 1..Len(<<>>) : FALSE
      BY <1>e
    <3> QED
      BY <2>5, <2>6, <2>7, <3>1 DEF Closed
  <2> QED
    BY <2>4, <2>8, <2>9 DEF Talking
<1> QED
  BY <1>1, <1>2, <1>4, <1>5, <1>6, <1>7 DEF ToolsInv

\* and always.
LEMMA ToolsHolds ==
  ASSUME AnthropicNames
  PROVE  Spec => []ToolsInv
<1>1. ToolsInv /\ [Next]_vars => ToolsInv'
  BY ShapeStep, FillingStep, RepliedStep, SendingStep, SettlingStep, TalkingStep DEF ToolsInv
<1> QED
  BY ToolsInit, <1>1, PTL DEF Spec

\* Once, by positions.
LEMMA DistinctOnce ==
  ASSUME NEW S, NEW s \in Seq(S), \A i \in 1..Len(s) : \A j \in 1..Len(s) : s[i] = s[j] => i = j
  PROVE  Once(s)
<1> DEFINE T == {s[i] : i \in 1..Len(s)}
<1>1. Len(s) \in Nat /\ DOMAIN s = 1..Len(s) /\ s = [i \in 1..Len(s) |-> s[i]]
  BY LenProperties
<1>2. s \in Bijection(1..Len(s), T)
  <2>1. s \in [1..Len(s) -> T]
    BY <1>1
  <2>2. \A a, b \in 1..Len(s) : s[a] = s[b] => a = b
    OBVIOUS
  <2>3. \A t \in T : \E a \in 1..Len(s) : s[a] = t
    OBVIOUS
  <2> HIDE DEF T
  <2> QED
    BY <2>1, <2>2, <2>3, Fun_IsBij
<1>3. ExistsBijection(1..Len(s), T)
  BY <1>2 DEF ExistsBijection
<1>4. IsFiniteSet(1..Len(s)) /\ Cardinality(1..Len(s)) = Len(s)
  <2>1. 1 \in Int /\ Len(s) \in Int
    BY <1>1
  <2>2. IsFiniteSet(1..Len(s)) /\ Cardinality(1..Len(s)) = IF 1 > Len(s) THEN 0 ELSE Len(s) - 1 + 1
    BY <2>1, FS_Interval
  <2> QED
    BY <1>1, <2>2
<1>5. Cardinality(T) = Len(s)
  <2> HIDE DEF T
  <2> QED
    BY <1>3, <1>4, FS_Bijection
<1> QED
  BY <1>1, <1>5 DEF Once

\* Each call of a tool is settled in one place: a handler of the brain runs it, once,
\* or the client is asked to, once; for any tools, any answers, however their deltas
\* interleave, any number of rounds and requests, failures, and clients that leave;
\* where Anthropic's calls come with their ids, for its adapter makes none up.
THEOREM CallsSettledOnce ==
  ASSUME AnthropicNames
  PROVE  Spec => []SettledOnce
<1>1. ToolsInv => SettledOnce
  <2> SUFFICES ASSUME Settling PROVE SettledOnce
    BY DEF ToolsInv
  <2>1. DOMAIN ran = 1..Len(ran) /\ DOMAIN owed = 1..Len(owed)
    BY LenProperties DEF Settling
  <2>2. Once(ran) /\ Once(owed)
    BY DistinctOnce DEF Settling
  <2> QED
    BY <2>1, <2>2 DEF SettledOnce, Settling
<1> QED
  BY <1>1, ToolsHolds, PTL

\* The state of the rounds keeps its types: every call of a reply, also one OpenAI's
\* format left without an id, has an id of its own; where Anthropic's bring theirs.
THEOREM ToolsTypes ==
  ASSUME AnthropicNames
  PROVE  Spec => []ToolsTypeOK
<1>1. ToolsInv => ToolsTypeOK
  <2> SUFFICES ASSUME ToolsInv PROVE ToolsTypeOK
    OBVIOUS
  <2>1. \A i \in DOMAIN results : results[i].id \in Used
    <3>1. results \in Seq([id : Used, error : BOOLEAN])
      BY DEF ToolsInv, Settling
    <3>2. \A i \in DOMAIN results : results[i] \in [id : Used, error : BOOLEAN]
      BY <3>1, LenProperties, ElementOfSeq
    <3> QED
      BY <3>2
  <2> QED
    BY <2>1 DEF ToolsInv, ToolsTypeOK, Shape, Replied, Settling
<1> QED
  BY <1>1, ToolsHolds, PTL

\* The response is what the run replied with, in either format and for any answer: a
\* stream is well formed also when it fails, and the client reads the text, exactly
\* the calls handed back, whole and in order, and whether to run any; unless it has
\* left, that is the model's whole answer; where Anthropic's calls come with their ids.
THEOREM ResponsesAsAnswered ==
  ASSUME AnthropicNames
  PROVE  Spec => []SentAsAnswered
<1>1. ToolsInv => SentAsAnswered
  <2> SUFFICES ASSUME ToolsInv, stage = "sent"
               PROVE  /\ stream \/ ~failed => WellFormed(front, events)
                      /\ ~failed => /\ Heard.text = reply.text /\ Same(Heard.calls, reply.calls)
                                    /\ Heard.ends = <<FinishReason(reply.calls)>>
                      /\ ~failed /\ ~gone => /\ reply.text = said.text /\ Len(reply.calls) = Len(said.calls)
                                             /\ \A i \in DOMAIN reply.calls :
                                                  /\ reply.calls[i].name = said.calls[i].name
                                                  /\ Len(reply.calls[i].input) = said.calls[i].pieces
    BY DEF SentAsAnswered
  <2> USE DEF ToolsInv
  <2>1. front \in {"openai", "anthropic"}
    BY ToolsAssumption DEF Shape
  <2>2. ASSUME ~failed PROVE WellFormed(front, events)
    <3>1. events = Response(front, reply.text, Calls(reply.calls))
      BY <2>2 DEF Sending
    <3> DEFINE d == Calls(reply.calls)
               Q == Nat \cup {"say"}
    <3>2. d \in Seq(CallsOf(Nat, Names, Q))
      BY Writes
    <3>3. reply.text \in Seq(Q)
      BY Writes
    <3> HIDE DEF d, Q
    <3>4. WellFormed(front, Response(front, reply.text, d))
      BY <2>1, <3>2, <3>3, ResponseWell
    <3> QED
      BY <3>1, <3>4 DEF d
  <2>3. ASSUME failed, stream PROVE WellFormed(front, events)
    BY <2>1, <2>3, ErrorWell DEF Sending
  <2>4. ASSUME ~failed PROVE Same(Heard.calls, reply.calls)
    <3> DEFINE c == reply.calls
               d == Calls(c)
    <3>1. Heard.calls = d
      BY <2>4, Hears
    <3>2. /\ Len(d) = Len(c) /\ Len(c) \in Nat /\ d \in Seq(Spoken)
          /\ \A i \in 1..Len(c) : d[i].id = c[i].id /\ d[i].name = c[i].name /\ d[i].input = Arguments(c[i].input)
      BY CallsTyped
    <3>3. \A x : Arguments(Arguments(x)) = Arguments(x)
      BY DEF Arguments
    <3>4. DOMAIN d = 1..Len(c)
      BY <3>2, LenProperties
    <3> HIDE DEF c, d
    <3> QED
      BY <3>1, <3>2, <3>3, <3>4 DEF Same, c
  <2>5. ASSUME ~failed, ~gone
        PROVE  /\ reply.text = said.text /\ Len(reply.calls) = Len(said.calls)
               /\ \A i \in DOMAIN reply.calls : /\ reply.calls[i].name = said.calls[i].name
                                                /\ Len(reply.calls[i].input) = said.calls[i].pieces
    <3>1. DOMAIN reply.calls = 1..Len(reply.calls)
      BY LenProperties DEF Replied
    <3> QED
      BY <2>5, <3>1 DEF Replied
  <2> QED
    BY <2>2, <2>3, <2>4, <2>5, Hears
<1> QED
  BY <1>1, ToolsHolds, PTL

-----------------------------------------------------------------------------
(* What the model is asked with.                                           *)

\* A message in a provider's format.
Sendable(format) ==
  IF format = "openai"
  THEN [role : Roles \cup {"system"}, content : Texts \cup {<<"role">>}, calls : Seq(Spoken), answers : Nat \cup {None}]
  ELSE [role : Roles, content : Texts, calls : Seq(Spoken), results : Seq(Outcome)]

\* What a message is sent as.
SentOf(format, m) == IF format = "openai" THEN openaiMessages(m)
                     ELSE IF m.role = "system" THEN <<>>
                     ELSE <<anthropicMessage(m)>>

\* The messages of a conversation, and of what an Ask sends.
Messages == Neutral \cup {Role}

\* It is messages in that format.
LEMMA SentTyped ==
  ASSUME NEW format, NEW m \in Messages
  PROVE  SentOf(format, m) \in Seq(Sendable(format))
<1> DEFINE E == Sendable(format)
<1>0. <<>> \in Seq(Spoken) /\ <<>> \in Seq(Outcome) /\ <<>> \in Texts
  BY EmptySeq DEF Texts
<1>1. m.calls \in Seq(Spoken) /\ m.results \in Seq(Outcome) /\ <<>> \in Seq(Spoken) /\ <<>> \in Texts
  <2>1. CASE m \in Neutral
    BY <1>0, <2>1 DEF Neutral
  <2>2. CASE m = Role
    <3>1. m.calls = <<>> /\ m.results = <<>>
      BY <2>2 DEF Role, Message
    <3> QED
      BY <1>0, <3>1
  <2> QED
    BY <2>1, <2>2 DEF Messages
<1>2. m.text \in Texts \cup {<<"role">>} /\ m.role \in Roles \cup {"system"}
  BY DEF Messages, Neutral, Role, Message
<1>3. CASE format = "openai"
  <2> DEFINE tools == [i \in DOMAIN m.results |-> OpenAIWire("tool", <<>>, <<>>, m.results[i].id)]
  <2>1. DOMAIN m.results = 1..Len(m.results) /\ Len(m.results) \in Nat
    BY <1>1, LenProperties
  <2>2. ASSUME NEW i \in 1..Len(m.results) PROVE OpenAIWire("tool", <<>>, <<>>, m.results[i].id) \in E
    <3>1. m.results[i] \in Outcome
      BY <1>1, ElementOfSeq
    <3> QED
      BY <1>1, <1>3, <3>1 DEF OpenAIWire, Sendable, Roles, Outcome
  <2>3. tools \in Seq(E)
    <3>1. tools \in [1..Len(m.results) -> E]
      <4> HIDE DEF E
      <4> QED
        BY <2>1, <2>2
    <3> HIDE DEF tools, E
    <3> QED
      BY <2>1, <3>1, FunSeq
  <2>4. OpenAIWire("assistant", m.text, m.calls, None) \in E
    BY <1>1, <1>2, <1>3 DEF OpenAIWire, Sendable, Roles
  <2>5. \A role \in {"system", "assistant", "user"} : OpenAIWire(role, m.text, <<>>, None) \in E
    BY <1>1, <1>2, <1>3 DEF OpenAIWire, Sendable, Roles
  <2> HIDE DEF tools, E
  <2>6. \A e \in E : Append(tools, e) \in Seq(E)
    BY <2>3, AppendProperties
  <2>7. openaiMessages(m) =
          IF m.calls # <<>> THEN Append(tools, OpenAIWire("assistant", m.text, m.calls, None))
          ELSE IF m.role = "tool" \/ (tools # <<>> /\ m.text = <<>>) THEN tools
          ELSE Append(tools, OpenAIWire(IF m.role \in {"system", "assistant"} THEN m.role ELSE "user", m.text, <<>>, None))
    BY DEF openaiMessages, tools
  <2>8. (IF m.role \in {"system", "assistant"} THEN m.role ELSE "user") \in {"system", "assistant", "user"}
    OBVIOUS
  <2> QED
    BY <1>3, <2>3, <2>4, <2>5, <2>6, <2>7, <2>8 DEF SentOf, E
<1>4. CASE format # "openai"
  <2>1. CASE m.role = "system"
    BY <1>4, <2>1, EmptySeq DEF SentOf
  <2>2. CASE m.role # "system"
    <3>1. m \in Neutral
      BY <2>2 DEF Messages, Role, Message
    <3>2. anthropicMessage(m) \in E
      BY <1>4, <3>1 DEF anthropicMessage, AnthropicWire, Sendable, Neutral, Roles
    <3> HIDE DEF E
    <3> QED
      BY <1>4, <2>2, <3>2 DEF SentOf, E
  <2> QED
    BY <2>1, <2>2
<1> QED
  BY <1>3, <1>4

\* Sent, message by message.
SentBy(format) == [m \in Messages |-> SentOf(format, m)]

\* A conversation is sent message by message.
LEMMA SentIs ==
  ASSUME NEW format, NEW h \in Seq(Messages)
  PROVE  /\ Maps(SentBy(format), Messages, Seq(Sendable(format)))
         /\ Sent(format, h) = Through(SentBy(format), h) /\ Sent(format, h) \in Seq(Sendable(format))
<1>1. Maps(SentBy(format), Messages, Seq(Sendable(format)))
  BY SentTyped DEF Maps, SentBy
<1>2. \A i \in DOMAIN h : h[i] \in Messages
  BY LenProperties, ElementOfSeq
<1>3. Each(SentBy(format), h) = [i \in DOMAIN h |-> SentOf(format, h[i])]
  BY <1>2 DEF Each, SentBy
<1>4. Sent(format, h) = Flatten([i \in DOMAIN h |-> SentOf(format, h[i])])
  BY DEF Sent, SentOf
<1>5. Sent(format, h) = Through(SentBy(format), h)
  BY <1>3, <1>4 DEF Through
<1> QED
  BY <1>1, <1>5, ThroughType

-----------------------------------------------------------------------------
(* Legal, as a run from nothing owed to nothing owed.                      *)

\* The steps a provider takes: the calls owed before an entry, the entry, those after.
Takes(format, a, e, b) ==
  /\ Answers(format, e) \subseteq a /\ b = (a \ Answers(format, e)) \cup Ids(e.calls)
  /\ Speaks(format, e) => a = {}
\* As a set, for Runs.
Dues(format) == {t \in (SUBSET Nat) \X Sendable(format) \X (SUBSET Nat) : Takes(format, t[1], t[2], t[3])}

\* The recursion Legal is defined by.
LeftFrom(format, o, s) ==
  o = [n \in 0..Len(s) |-> IF n = 0 THEN {} ELSE (o[n - 1] \ Answers(format, s[n])) \cup Ids(s[n].calls)]

\* A way from nothing owed to nothing owed makes a transcript legal.
LEMMA LegalIs ==
  ASSUME NEW format, NEW s \in Seq(Sendable(format)), Runs(Dues(format), s, {}, {})
  PROVE  Legal(format, s)
<1> DEFINE T == Dues(format)
           A(e) == Answers(format, e)
<1>0. PICK L : Trail(T, s, {}, {}, L)
  BY DEF Runs
<1> DEFINE f == [n \in 0..Len(s) |-> L[n]]
<1>1. Len(s) \in Nat /\ L[0] = {} /\ L[Len(s)] = {} /\ \A n \in 1..Len(s) : <<L[n - 1], s[n], L[n]>> \in T
  BY <1>0, LenProperties DEF Trail
<1>2. ASSUME NEW n \in 1..Len(s)
      PROVE  /\ Answers(format, s[n]) \subseteq L[n - 1] /\ L[n] = (L[n - 1] \ Answers(format, s[n])) \cup Ids(s[n].calls)
             /\ Speaks(format, s[n]) => L[n - 1] = {}
  <2>1. <<L[n - 1], s[n], L[n]>> \in T
    BY <1>1
  <2> DEFINE a == L[n - 1]
             e == s[n]
             b == L[n]
  <2> HIDE DEF a, e, b
  <2>2. Takes(format, a, e, b)
    BY <2>1 DEF Dues, a, e, b
  <2> QED
    BY <2>2 DEF Takes, a, b, e
<1>3. LeftFrom(format, f, s)
  <2>1. ASSUME NEW n \in 0..Len(s)
        PROVE  f[n] = IF n = 0 THEN {} ELSE (f[n - 1] \ Answers(format, s[n])) \cup Ids(s[n].calls)
    <3>1. CASE n = 0
      BY <1>1, <3>1
    <3>2. CASE n # 0
      <4>1. n \in 1..Len(s) /\ n - 1 \in 0..Len(s)
        BY <1>1, <3>2
      <4>2. f[n] = L[n] /\ f[n - 1] = L[n - 1]
        BY <4>1
      <4> QED
        BY <1>2, <3>2, <4>1, <4>2
    <3> QED
      BY <3>1, <3>2
  <2>2. f = [n \in 0..Len(s) |-> f[n]]
    OBVIOUS
  <2> HIDE DEF f
  <2> QED
    BY <2>1, <2>2 DEF LeftFrom
<1> HIDE DEF f
<1> DEFINE o == CHOOSE g : LeftFrom(format, g, s)
<1>4. LeftFrom(format, o, s)
  BY <1>3
<1> HIDE DEF o
<1>5. o[0] = {} /\ \A n \in 1..Len(s) : o[n] = (o[n - 1] \ Answers(format, s[n])) \cup Ids(s[n].calls)
  <2>1. \A n \in 0..Len(s) : o[n] = IF n = 0 THEN {} ELSE (o[n - 1] \ Answers(format, s[n])) \cup Ids(s[n].calls)
    BY <1>4 DEF LeftFrom
  <2>2. 0 \in 0..Len(s) /\ \A n \in 1..Len(s) : n \in 0..Len(s) /\ n # 0
    BY <1>1
  <2> QED
    BY <2>1, <2>2
<1> DEFINE S == {n \in Nat : n <= Len(s) => o[n] = L[n]}
<1>6. 0 \in S
  BY <1>1, <1>5
<1>7. ASSUME NEW n \in Nat, n \in S PROVE n + 1 \in S
  <2> SUFFICES ASSUME n + 1 <= Len(s) PROVE o[n + 1] = L[n + 1]
    OBVIOUS
  <2>1. n + 1 \in 1..Len(s) /\ (n + 1) - 1 = n /\ n <= Len(s)
    BY <1>1
  <2>2. o[n] = L[n]
    BY <1>7, <2>1
  <2>3. o[n + 1] = (o[n] \ Answers(format, s[n + 1])) \cup Ids(s[n + 1].calls)
    BY <1>5, <2>1
  <2>4. L[n + 1] = (L[n] \ Answers(format, s[n + 1])) \cup Ids(s[n + 1].calls)
    BY <1>2, <2>1
  <2> QED
    BY <2>2, <2>3, <2>4
<1>8. Nat \subseteq S
  <2> HIDE DEF S
  <2> QED
    BY <1>6, <1>7, Induction
<1>9. ASSUME NEW n \in 0..Len(s) PROVE o[n] = L[n]
  <2>1. n \in Nat /\ n <= Len(s)
    BY <1>1
  <2> QED
    BY <1>8, <2>1
<1>10. o[Len(s)] = {}
  BY <1>1, <1>9
<1>11. ASSUME NEW n \in 1..Len(s)
       PROVE  Answers(format, s[n]) \subseteq o[n - 1] /\ (Speaks(format, s[n]) => o[n - 1] = {})
  <2>1. n - 1 \in 0..Len(s)
    BY <1>1
  <2> QED
    BY <1>2, <1>9, <2>1
<1>12. DOMAIN s = 1..Len(s)
  BY LenProperties
<1> QED
  BY <1>10, <1>11, <1>12 DEF Legal, LeftFrom, o

-----------------------------------------------------------------------------
(* Conversations that a provider takes, and what may be added to them.     *)

\* Whole: nothing is left to answer, nor answered out of place.
Settled(format, h) == Runs(Dues(format), Sent(format, h), {}, {})

\* Sent half by half;
LEMMA SentConcat ==
  ASSUME NEW format, NEW a \in Seq(Messages), NEW b \in Seq(Messages)
  PROVE  Sent(format, a \o b) = Sent(format, a) \o Sent(format, b)
<1> DEFINE f == SentBy(format)
           x == a \o b
<1>0. Maps(f, Messages, Seq(Sendable(format)))
  BY SentIs
<1>1. Sent(format, a) = Through(f, a)
  BY SentIs
<1>2. Sent(format, b) = Through(f, b)
  BY SentIs
<1>3. x \in Seq(Messages)
  BY ConcatProperties
<1> HIDE DEF f
<1> DEFINE X == Sendable(format)
<1>m. Maps(f, Messages, Seq(X))
  BY <1>0
<1> HIDE DEF X
<1>4. Through(f, x) = Through(f, a) \o Through(f, b)
  BY <1>m, ThroughConcat
<1> HIDE DEF x
<1>5. Sent(format, x) = Through(f, x)
  BY <1>3, SentIs DEF f
<1> QED
  BY <1>1, <1>2, <1>4, <1>5 DEF x

\* two whole conversations make one;
LEMMA SettledConcat ==
  ASSUME NEW format, NEW a \in Seq(Messages), NEW b \in Seq(Messages), Settled(format, a), Settled(format, b)
  PROVE  Settled(format, a \o b)
<1> DEFINE u == Sent(format, a)
           v == Sent(format, b)
           T == Dues(format)
<1>1. u \in Seq(Sendable(format))
  BY SentIs
<1>2. v \in Seq(Sendable(format))
  BY SentIs
<1>3. Runs(T, u, {}, {})
  BY DEF Settled
<1>4. Runs(T, v, {}, {})
  BY DEF Settled
<1>5. Sent(format, a \o b) = u \o v
  BY SentConcat
<1> HIDE DEF u, v, T
<1>6. Runs(T, u \o v, {}, {})
  BY <1>1, <1>2, <1>3, <1>4, RunsConcat
<1> QED
  BY <1>5, <1>6 DEF Settled, T

\* one message is sent as it is.
LEMMA SentOne ==
  ASSUME NEW format, NEW m \in Messages
  PROVE  Sent(format, <<m>>) = SentOf(format, m)
<1> DEFINE f == SentBy(format)
           w == <<m>>
<1>1. w \in Seq(Messages) /\ f[m] = SentOf(format, m)
  BY DEF SentBy
<1>2. Through(f, w) = f[m]
  <2>1. <<>> \in Seq(Messages)
    BY EmptySeq
  <2>2. Maps(f, Messages, Seq(Sendable(format)))
    BY <2>1, SentIs
  <2> HIDE DEF f
  <2> QED
    BY <2>2, ThroughOne
<1> HIDE DEF w, f
<1>3. Sent(format, w) = Through(f, w)
  BY <1>1, SentIs DEF f
<1> QED
  BY <1>1, <1>2, <1>3 DEF w

\* A message that neither calls nor answers.
LEMMA SettledSaying ==
  ASSUME NEW format \in {"openai", "anthropic"}, NEW m \in Messages, m.calls = <<>>, m.results = <<>>
  PROVE  Settled(format, <<m>>)
<1> DEFINE s == SentOf(format, m)
           T == Dues(format)
<1>1. s = <<>> \/ \E e \in Sendable(format) : s = <<e>> /\ e.calls = <<>> /\ Answers(format, e) = {}
  <2> DEFINE role == IF m.role \in {"system", "assistant"} THEN m.role ELSE "user"
             o == OpenAIWire(role, m.text, <<>>, None)
             a == anthropicMessage(m)
  <2>1. CASE format = "openai"
    <3> DEFINE tools == [i \in DOMAIN m.results |-> OpenAIWire("tool", <<>>, <<>>, m.results[i].id)]
    <3>1. tools = <<>>
      OBVIOUS
    <3>2. s = IF m.role = "tool" \/ (tools # <<>> /\ m.text = <<>>) THEN tools ELSE Append(tools, o)
      BY <2>1 DEF SentOf, openaiMessages
    <3>3. o.calls = <<>> /\ o.answers = None
      BY DEF OpenAIWire
    <3>4. o \in Sendable(format)
      BY <2>1 DEF OpenAIWire, Sendable, Messages, Neutral, Role, Message, Roles
    <3>5. Append(<<>>, o) = <<o>>
      OBVIOUS
    <3> HIDE DEF tools, o
    <3> QED
      BY <2>1, <3>1, <3>2, <3>3, <3>4, <3>5 DEF Answers
  <2>2. CASE format # "openai"
    <3>1. CASE m.role = "system"
      BY <2>2, <3>1 DEF SentOf
    <3>2. CASE m.role # "system"
      <4>1. s = <<a>>
        BY <2>2, <3>2 DEF SentOf
      <4>2. m \in Neutral
        BY <3>2 DEF Messages, Role, Message
      <4>3. a \in Sendable(format)
        BY <2>2, <4>2 DEF anthropicMessage, AnthropicWire, Sendable, Neutral, Roles
      <4>4. a.calls = <<>> /\ a.results = <<>>
        BY DEF anthropicMessage, AnthropicWire
      <4>5. Ids(<<>>) = {}
        BY EmptySeq DEF Ids
      <4> HIDE DEF a
      <4>6. Answers(format, a) = {}
        BY <2>2, <4>4, <4>5 DEF Answers
      <4> QED
        BY <4>1, <4>3, <4>4, <4>6
    <3> QED
      BY <3>1, <3>2
  <2> QED
    BY <2>1, <2>2
<1>2. ASSUME NEW e \in Sendable(format), e.calls = <<>>, Answers(format, e) = {} PROVE Runs(T, <<e>>, {}, {})
  <2>1. Takes(format, {}, e, {})
    BY <1>2 DEF Takes, Ids
  <2>2. <<{}, e, {}>> \in T
    BY <2>1 DEF Dues
  <2> HIDE DEF T
  <2> QED
    BY <2>2, RunsOne
<1>3. Sent(format, <<m>>) = s
  BY SentOne
<1> HIDE DEF s, T
<1>4. Runs(T, s, {}, {})
  BY <1>1, <1>2, RunsEmpty
<1> QED
  BY <1>3, <1>4 DEF Settled, T

\* Answers to the calls that are owed, one by one.
LEMMA AnswerRun ==
  ASSUME NEW format, NEW s \in Seq(Sendable(format)), NEW ids \in [1..Len(s) -> Nat],
         \A j \in 1..Len(s) : \A k \in 1..Len(s) : ids[j] = ids[k] => j = k,
         \A k \in 1..Len(s) : s[k].calls = <<>> /\ Answers(format, s[k]) = {ids[k]}
  PROVE  Runs(Dues(format), s, {ids[k] : k \in 1..Len(s)}, {})
<1> DEFINE n    == Len(s)
           L[k \in 0..n] == {ids[j] : j \in (k + 1)..n}
<1>1. n \in Nat /\ \A k \in 1..n : s[k] \in Sendable(format)
  BY LenProperties, ElementOfSeq
<1>2. Ids(<<>>) = {}
  BY EmptySeq DEF Ids
<1>3. ASSUME NEW k \in 1..n PROVE <<L[k - 1], s[k], L[k]>> \in Dues(format)
  <2>1. k - 1 \in 0..n /\ k \in 0..n /\ (k - 1) + 1 = k
    BY <1>1
  <2>2. L[k - 1] = {ids[j] : j \in k..n} /\ L[k] = {ids[j] : j \in (k + 1)..n}
    BY <2>1
  <2> DEFINE a == {ids[j] : j \in k..n}
             b == {ids[j] : j \in (k + 1)..n}
             e == s[k]
  <2>3. a \in SUBSET Nat /\ b \in SUBSET Nat
    <3>1. \A j \in k..n : j \in 1..n /\ ids[j] \in Nat
      BY <1>1
    <3>2. \A j \in (k + 1)..n : j \in k..n
      BY <1>1
    <3> HIDE DEF n
    <3> QED
      BY <3>1, <3>2
  <2>4. b = a \ {ids[k]} /\ ids[k] \in a
    <3>1. \A j \in k..n : j = k \/ j \in (k + 1)..n
      BY <1>1
    <3>2. \A j \in (k + 1)..n : j \in k..n /\ j \in 1..n /\ j # k
      BY <1>1
    <3>3. k \in k..n
      BY <1>1
    <3> QED
      BY <3>1, <3>2, <3>3
  <2>5. e.calls = <<>> /\ Answers(format, e) = {ids[k]} /\ e \in Sendable(format)
    BY <1>1
  <2> HIDE DEF a, b, e, n
  <2>6. Takes(format, a, e, b)
    BY <1>2, <2>4, <2>5 DEF Takes, Speaks
  <2>7. <<a, e, b>> \in Dues(format)
    BY <2>3, <2>5, <2>6 DEF Dues
  <2> QED
    BY <2>2, <2>7 DEF a, b, e
<1>4. L[0] = {ids[k] : k \in 1..n} /\ L[n] = {}
  <2>1. 0 \in 0..n /\ n \in 0..n /\ 0 + 1 = 1 /\ (n + 1)..n = {}
    BY <1>1
  <2> QED
    BY <2>1
<1> HIDE DEF L
<1>5. Trail(Dues(format), s, {ids[k] : k \in 1..n}, {}, L)
  BY <1>3, <1>4 DEF Trail
<1> QED
  BY <1>5 DEF Runs

\* The results of an exchange, as one message.
LEMMA SettledBy ==
  ASSUME NEW format \in {"openai", "anthropic"}, NEW r \in Neutral, r.calls = <<>>, r.text = <<>>,
         \A j \in 1..Len(r.results) : \A k \in 1..Len(r.results) : r.results[j].id = r.results[k].id => j = k,
         r.results # <<>>
  PROVE  Runs(Dues(format), Sent(format, <<r>>), Ids(r.results), {})
<1> DEFINE s   == SentOf(format, r)
           n   == Len(r.results)
           ids == [k \in 1..n |-> r.results[k].id]
<1>1. r.results \in Seq(Outcome) /\ r.role # "system" /\ r \in Messages
  BY DEF Neutral, Roles, Messages
<1>2. n \in Nat /\ DOMAIN r.results = 1..n /\ n # 0 /\ \A k \in 1..n : r.results[k].id \in Nat
  <2>1. \A k \in 1..n : r.results[k] \in Outcome
    BY <1>1, ElementOfSeq
  <2> QED
    BY <1>1, <2>1, LenProperties, EmptySeq DEF Outcome
<1>3. Ids(r.results) = {r.results[k].id : k \in 1..n}
  BY <1>2 DEF Ids
<1>4. Sent(format, <<r>>) = s
  BY <1>1, SentOne
<1>5. s \in Seq(Sendable(format))
  BY <1>1, SentTyped
<1>6. CASE format = "openai"
  <2> DEFINE tools == [i \in 1..n |-> OpenAIWire("tool", <<>>, <<>>, r.results[i].id)]
  <2>1. tools # <<>>
    <3>1. DOMAIN tools = 1..n /\ DOMAIN <<>> = {} /\ 1 \in 1..n
      BY <1>2, EmptySeq
    <3> HIDE DEF tools
    <3> QED
      BY <3>1
  <2>2. s = tools
    <3>1. openaiMessages(r) = IF r.role = "tool" \/ (tools # <<>> /\ r.text = <<>>) THEN tools
                              ELSE Append(tools, OpenAIWire(IF r.role \in {"system", "assistant"} THEN r.role ELSE "user", r.text, <<>>, None))
      BY <1>2 DEF openaiMessages
    <3> HIDE DEF tools
    <3> QED
      BY <1>6, <2>1, <3>1 DEF SentOf
  <2>3. Len(s) = n
    <3>1. DOMAIN s = 1..n
      BY <2>2
    <3> HIDE DEF s
    <3> QED
      BY <1>2, <1>5, <3>1, LenProperties
  <2>4. \A k \in 1..n : s[k].calls = <<>> /\ s[k].answers = r.results[k].id
    BY <2>2 DEF OpenAIWire
  <2> HIDE DEF s, tools
  <2>5. \A k \in 1..n : Answers(format, s[k]) = {r.results[k].id}
    <3>1. None \notin Nat
      BY ToolsAssumption
    <3> QED
      BY <1>2, <1>6, <2>4, <3>1 DEF Answers
  <2>6. ids \in [1..n -> Nat] /\ \A k \in 1..n : ids[k] = r.results[k].id
    BY <1>2
  <2> HIDE DEF ids
  <2>7. Runs(Dues(format), s, {ids[k] : k \in 1..n}, {})
    <3>1. \A j \in 1..n : \A k \in 1..n : ids[j] = ids[k] => j = k
      BY <2>6
    <3>2. \A k \in 1..n : s[k].calls = <<>> /\ Answers(format, s[k]) = {ids[k]}
      BY <2>4, <2>5, <2>6
    <3> HIDE DEF n
    <3> QED
      BY <1>5, <2>3, <2>6, <3>1, <3>2, AnswerRun
  <2>8. {ids[k] : k \in 1..n} = Ids(r.results)
    BY <1>3, <2>6
  <2> QED
    BY <1>4, <2>7, <2>8 DEF s
<1>7. CASE format # "openai"
  <2> DEFINE e == anthropicMessage(r)
  <2>1. s = <<e>>
    BY <1>1, <1>7 DEF SentOf
  <2>2. e.calls = <<>> /\ e.results = r.results
    BY DEF anthropicMessage, AnthropicWire
  <2>3. e \in Sendable(format)
    BY <1>7 DEF anthropicMessage, AnthropicWire, Sendable, Neutral, Roles
  <2> HIDE DEF e, s, ids, n
  <2>4. Answers(format, e) = Ids(r.results)
    BY <1>7, <2>2 DEF Answers
  <2>5. Ids(r.results) \in SUBSET Nat /\ Ids(r.results) # {}
    <3>1. 1 \in 1..n
      BY <1>2
    <3> QED
      BY <1>2, <1>3, <3>1
  <2>6. Ids(<<>>) = {}
    BY EmptySeq DEF Ids
  <2> DEFINE A == Ids(r.results)
  <2>7. A \in SUBSET Nat /\ A # {} /\ Answers(format, e) = A
    BY <2>4, <2>5
  <2> HIDE DEF A
  <2>8. Takes(format, A, e, {})
    BY <2>2, <2>6, <2>7 DEF Takes, Speaks
  <2>9. <<A, e, {}>> \in Dues(format)
    BY <2>3, <2>7, <2>8 DEF Dues
  <2>10. Runs(Dues(format), <<e>>, A, {})
    <3> DEFINE T == Dues(format)
    <3>1. <<A, e, {}>> \in T
      BY <2>9
    <3> HIDE DEF T
    <3>2. Runs(T, <<e>>, A, {})
      BY <3>1, RunsOne
    <3> QED
      BY <3>2 DEF T
  <2> QED
    BY <1>4, <2>1, <2>10 DEF A
<1> QED
  BY <1>6, <1>7

\* The results of an exchange, each in a message of its own.
LEMMA SettledSingly ==
  ASSUME NEW format \in {"openai", "anthropic"}, NEW h \in Seq(Neutral), NEW ids \in [1..Len(h) -> Nat],
         \A j \in 1..Len(h) : \A k \in 1..Len(h) : ids[j] = ids[k] => j = k,
         \A k \in 1..Len(h) : /\ h[k].calls = <<>> /\ h[k].text = <<>>
                              /\ h[k].results = <<[id |-> ids[k], error |-> FALSE]>>
  PROVE  Runs(Dues(format), Sent(format, h), {ids[k] : k \in 1..Len(h)}, {})
<1> DEFINE n == Len(h)
           E(k) == IF format = "openai" THEN OpenAIWire("tool", <<>>, <<>>, ids[k]) ELSE anthropicMessage(h[k])
           s == [k \in 1..n |-> E(k)]
<1>1. n \in Nat /\ DOMAIN h = 1..n /\ \A k \in 1..n : h[k] \in Neutral /\ h[k].role # "system" /\ h[k] \in Messages
  <2>1. n \in Nat /\ DOMAIN h = 1..n
    BY LenProperties
  <2>2. \A k \in 1..n : h[k] \in Neutral
    BY ElementOfSeq
  <2>3. \A m \in Neutral : m.role # "system" /\ m \in Messages
    BY DEF Neutral, Roles, Messages
  <2> QED
    BY <2>1, <2>2, <2>3
<1>2. ASSUME NEW k \in 1..n
      PROVE  /\ SentOf(format, h[k]) = <<E(k)>> /\ E(k) \in Sendable(format)
             /\ E(k).calls = <<>> /\ Answers(format, E(k)) = {ids[k]}
  <2> DEFINE m == h[k]
             o == [id |-> ids[k], error |-> FALSE]
             e == E(k)
  <2>1. /\ m \in Neutral /\ m \in Messages /\ m.role # "system" /\ m.calls = <<>> /\ m.text = <<>>
        /\ m.results = <<o>> /\ o.id = ids[k] /\ ids[k] \in Nat
    BY <1>1
  <2>2. CASE format = "openai"
    <3>1. e = OpenAIWire("tool", <<>>, <<>>, ids[k])
      BY <2>2
    <3> HIDE DEF m, o, e
    <3>2. [i \in DOMAIN m.results |-> OpenAIWire("tool", <<>>, <<>>, m.results[i].id)] = <<e>>
      <4>1. DOMAIN <<o>> = 1..1 /\ <<o>>[1] = o /\ DOMAIN <<e>> = 1..1 /\ <<e>>[1] = e /\ \A i \in 1..1 : i = 1
        OBVIOUS
      <4>2. [i \in DOMAIN <<o>> |-> OpenAIWire("tool", <<>>, <<>>, <<o>>[i].id)] = <<e>>
        BY <2>1, <3>1, <4>1
      <4> QED
        BY <2>1, <4>2
    <3>3. <<e>> # <<>>
      OBVIOUS
    <3>4. SentOf(format, m) = <<e>>
      BY <2>1, <2>2, <3>2, <3>3 DEF SentOf, openaiMessages
    <3>5. e.calls = <<>> /\ e.answers = ids[k]
      BY <3>1 DEF OpenAIWire
    <3>6. e \in Sendable(format)
      <4>1. <<>> \in Texts /\ <<>> \in Seq(Spoken)
        BY EmptySeq DEF Texts
      <4> QED
        BY <2>1, <2>2, <3>1, <4>1 DEF OpenAIWire, Sendable, Roles
    <3>7. Answers(format, e) = {ids[k]}
      <4>1. None \notin Nat
        BY ToolsAssumption
      <4> QED
        BY <2>1, <2>2, <3>5, <4>1 DEF Answers
    <3> QED
      BY <3>4, <3>5, <3>6, <3>7 DEF m, e
  <2>3. CASE format # "openai"
    <3>1. e = anthropicMessage(m)
      BY <2>3
    <3> HIDE DEF m, o, e
    <3>2. SentOf(format, m) = <<e>>
      BY <2>1, <2>3, <3>1 DEF SentOf
    <3>3. e.calls = <<>> /\ e.results = <<o>>
      BY <2>1, <3>1 DEF anthropicMessage, AnthropicWire
    <3>4. e \in Sendable(format)
      BY <2>1, <2>3, <3>1 DEF anthropicMessage, AnthropicWire, Sendable, Neutral, Roles
    <3>5. Ids(<<o>>) = {o.id}
      BY DEF Ids
    <3>6. Answers(format, e) = {ids[k]}
      BY <2>1, <2>3, <3>3, <3>5 DEF Answers
    <3> QED
      BY <3>2, <3>3, <3>4, <3>6 DEF m, e
  <2> QED
    BY <2>2, <2>3
<1> HIDE DEF E
<1>3. \A k \in 1..n : s[k] = E(k)
  OBVIOUS
<1>4. s \in Seq(Sendable(format)) /\ Len(s) = n
  <2>1. s \in [1..n -> Sendable(format)] /\ DOMAIN s = 1..n
    BY <1>2
  <2> HIDE DEF s
  <2> QED
    BY <1>1, <2>1, FunSeq, LenProperties
<1>5. Sent(format, h) = s
  <2> HIDE DEF s
  <2>1. [i \in DOMAIN h |-> SentOf(format, h[i])] = [i \in 1..n |-> <<s[i]>>]
    BY <1>1, <1>2, <1>3
  <2>2. Flatten([i \in 1..n |-> <<s[i]>>]) = s
    <3> HIDE DEF n
    <3>1. Flatten([i \in 1..Len(s) |-> <<s[i]>>]) = s
      BY <1>4, FlattenSingles
    <3> QED
      BY <1>4, <3>1
  <2>3. Sent(format, h) = Flatten([i \in DOMAIN h |-> SentOf(format, h[i])])
    BY DEF Sent, SentOf
  <2> QED
    BY <2>1, <2>2, <2>3
<1>6. Runs(Dues(format), s, {ids[k] : k \in 1..n}, {})
  <2>1. ids \in [1..n -> Nat] /\ \A j \in 1..n : \A k \in 1..n : ids[j] = ids[k] => j = k
    OBVIOUS
  <2>2. \A k \in 1..n : s[k].calls = <<>> /\ Answers(format, s[k]) = {ids[k]}
    BY <1>2, <1>3
  <2> HIDE DEF s, n
  <2> QED
    BY <1>4, <2>1, <2>2, AnswerRun
<1> QED
  BY <1>5, <1>6

\* A message that calls, and what answers it.
LEMMA SettledExchange ==
  ASSUME NEW format \in {"openai", "anthropic"}, NEW m \in Neutral, m.results = <<>>, m.calls # <<>>,
         NEW h \in Seq(Neutral), Runs(Dues(format), Sent(format, h), Ids(m.calls), {})
  PROVE  Settled(format, <<m>> \o h)
<1> DEFINE a == <<m>>
           T == Dues(format)
           C == Ids(m.calls)
<1>1. a \in Seq(Messages) /\ h \in Seq(Messages) /\ m \in Messages
  <2>1. Neutral \subseteq Messages
    BY DEF Messages
  <2>2. Seq(Neutral) \subseteq Seq(Messages)
    BY <2>1, SeqMono
  <2> QED
    BY <2>1, <2>2
<1>2. PICK e \in Sendable(format) : SentOf(format, m) = <<e>> /\ e.calls = m.calls /\ Answers(format, e) = {}
  <2>0. Ids(<<>>) = {}
    BY EmptySeq DEF Ids
  <2>1. CASE format = "openai"
    <3> DEFINE e == OpenAIWire("assistant", m.text, m.calls, None)
               tools == [i \in DOMAIN m.results |-> OpenAIWire("tool", <<>>, <<>>, m.results[i].id)]
    <3>1. tools = <<>>
      OBVIOUS
    <3>2. openaiMessages(m) = Append(tools, e)
      BY DEF openaiMessages
    <3>3. e.calls = m.calls /\ e.answers = None
      BY DEF OpenAIWire
    <3>4. e \in Sendable(format)
      BY <2>1 DEF OpenAIWire, Sendable, Neutral, Roles
    <3>5. Append(<<>>, e) = <<e>>
      OBVIOUS
    <3> HIDE DEF e, tools
    <3>6. SentOf(format, m) = <<e>>
      BY <2>1, <3>1, <3>2, <3>5 DEF SentOf
    <3>7. Answers(format, e) = {}
      BY <2>1, <3>3 DEF Answers
    <3> QED
      BY <3>3, <3>4, <3>6, <3>7
  <2>2. CASE format # "openai"
    <3> DEFINE e == anthropicMessage(m)
    <3>1. SentOf(format, m) = <<e>>
      BY <2>2 DEF SentOf, Neutral, Roles
    <3>2. e.calls = m.calls /\ e.results = <<>>
      BY DEF anthropicMessage, AnthropicWire
    <3>3. e \in Sendable(format)
      BY <2>2 DEF anthropicMessage, AnthropicWire, Sendable, Neutral, Roles
    <3> HIDE DEF e
    <3>4. Answers(format, e) = {}
      BY <2>0, <2>2, <3>2 DEF Answers
    <3> QED
      BY <3>1, <3>2, <3>3, <3>4
  <2> QED
    BY <2>1, <2>2
<1>3. Sent(format, a) = <<e>>
  BY <1>1, <1>2, SentOne
<1>4. C \in SUBSET Nat
  <2>1. m.calls \in Seq(Spoken)
    BY DEF Neutral
  <2>2. \A i \in DOMAIN m.calls : m.calls[i] \in Spoken
    BY <2>1, LenProperties, ElementOfSeq
  <2> QED
    BY <2>2 DEF Ids, Spoken, CallsOf
<1>5. Takes(format, {}, e, C)
  BY <1>2 DEF Takes
<1>6. <<{}, e, C>> \in T
  BY <1>2, <1>4, <1>5 DEF Dues
<1> HIDE DEF a, T, C
<1>7. Runs(T, <<e>>, {}, C)
  BY <1>6, RunsOne
<1>8. Runs(T, Sent(format, h), C, {})
  BY DEF T, C
<1>9. Sent(format, a \o h) = Sent(format, a) \o Sent(format, h)
  BY <1>1, SentConcat
<1> DEFINE u == Sent(format, a)
           v == Sent(format, h)
<1>10. u \in Seq(Sendable(format)) /\ v \in Seq(Sendable(format))
  BY <1>1, SentIs
<1>11. Runs(T, u, {}, C) /\ Runs(T, v, C, {})
  BY <1>3, <1>7, <1>8
<1> HIDE DEF u, v
<1>12. Runs(T, u \o v, {}, {})
  BY <1>10, <1>11, RunsConcat
<1> QED
  BY <1>9, <1>12 DEF Settled, T, u, v, a

-----------------------------------------------------------------------------
(* The conversation of a request, and what the client adds to a transcript. *)

\* A request's conversation is whole whenever the model may be asked, and so is
\* what the next one starts from.
Conversing ==
  /\ chat \in Seq(Neutral) /\ Settled(back, Past)
  /\ stage \notin {"client", "sent"} => Settled(back, chat)

\* The formats there are.
Providers == {"openai", "anthropic"}

\* The client answers an exchange, or goes on with a question.
LEMMA SettledMore ==
  ASSUME front \in Providers, NEW format \in Providers, NEW calls \in Seq(Spoken), NEW more \in Continues(calls),
         \A j \in 1..Len(calls) : \A k \in 1..Len(calls) : calls[j].id = calls[k].id => j = k
  PROVE  LET h == Received(front, more)
         IN /\ h \in Seq(Neutral)
            /\ calls = <<>> => Settled(format, h)
            /\ calls # <<>> => Runs(Dues(format), Sent(format, h), Ids(calls), {})
<1> DEFINE h == Received(front, more)
           L == Len(calls)
<1>1. more \in Seq(Wires(front))
  BY MoreTalk
<1>2. /\ h \in Seq(Neutral) /\ Len(h) = Len(more) /\ Len(more) \in Nat
      /\ \A k \in 1..Len(more) : more[k] \in Wires(front) /\ h[k] = From(front, more[k])
  BY <1>1, ReceivedIs
<1>3. L \in Nat /\ DOMAIN calls = 1..L /\ Ids(calls) = {calls[j].id : j \in 1..L}
  BY LenProperties DEF Ids
<1>4. \A j \in 1..L : calls[j].id \in Nat
  <2>1. \A j \in 1..L : calls[j] \in Spoken
    BY ElementOfSeq
  <2> QED
    BY <2>1 DEF Spoken, CallsOf
<1>5. calls = <<>> <=> L = 0
  BY EmptySeq
<1>6. CASE calls = <<>>
  <2> DEFINE m == IF front = "openai" THEN OpenAIWire("user", <<"ask">>, <<>>, None)
                  ELSE AnthropicWire("user", <<"ask">>, <<>>, <<>>)
  <2>1. more = <<m>> /\ m.calls = <<>> /\ (front # "openai" => m.results = <<>>) /\ (front = "openai" => m.answers = None)
    BY <1>6 DEF Continues, OpenAIWire, AnthropicWire
  <2> HIDE DEF m
  <2>2. Len(more) = 1 /\ more[1] = m /\ 1 \in 1..1
    BY <2>1
  <2>3. m \in Wires(front) /\ h[1] = From(front, m) /\ Len(h) = 1
    BY <1>2, <2>2
  <2> DEFINE r == From(front, m)
  <2>4. r \in Neutral /\ r.calls = <<>> /\ r.results = <<>>
    BY <2>1, <2>3, FromType
  <2>5. h = <<r>>
    <3>1. h \in Seq(Neutral) /\ Len(h) = 1 /\ h[1] = r
      BY <1>2, <2>3
    <3> HIDE DEF h, r
    <3> QED
      BY <2>4, <3>1
  <2>6. r \in Messages
    BY <2>4 DEF Messages
  <2> HIDE DEF r
  <2>7. Settled(format, <<r>>)
    BY <2>4, <2>6, SettledSaying DEF Providers
  <2> QED
    BY <1>2, <1>6, <2>5, <2>7
<1>7. CASE calls # <<>> /\ front = "openai"
  <2> DEFINE ids == [k \in 1..L |-> calls[k].id]
  <2>1. more = [i \in DOMAIN calls |-> OpenAIWire("tool", <<"out">>, <<>>, calls[i].id)]
    BY <1>7 DEF Continues
  <2>2. Len(more) = L
    <3>1. DOMAIN more = 1..L
      BY <1>3, <2>1
    <3> QED
      BY <1>1, <1>3, <3>1, LenProperties
  <2>3. ASSUME NEW k \in 1..L
        PROVE  h[k].calls = <<>> /\ h[k].text = <<>> /\ h[k].results = <<[id |-> calls[k].id, error |-> FALSE]>>
    <3> DEFINE m == OpenAIWire("tool", <<"out">>, <<>>, calls[k].id)
    <3>1. more[k] = m /\ h[k] = FromOpenAI(more[k])
      BY <1>2, <1>3, <1>7, <2>1, <2>2 DEF From
    <3>2. m.answers = calls[k].id /\ m.calls = <<>>
      BY DEF OpenAIWire
    <3>3. m.answers # None
      BY <1>4, <3>2, ToolsAssumption
    <3> HIDE DEF m, h
    <3> DEFINE q == <<[id |-> m.answers, error |-> FALSE]>>
    <3>4. h[k] = Message(m.role, <<>>, m.calls, q)
      BY <3>1, <3>3 DEF FromOpenAI
    <3>5. q = <<[id |-> calls[k].id, error |-> FALSE]>>
      BY <3>2
    <3> HIDE DEF q
    <3>6. h[k].calls = m.calls /\ h[k].text = <<>> /\ h[k].results = q
      BY <3>4 DEF Message
    <3> QED
      BY <3>2, <3>5, <3>6
  <2>4. ids \in [1..L -> Nat] /\ \A k \in 1..L : ids[k] = calls[k].id
    BY <1>4
  <2> HIDE DEF ids, h, L
  <2>5. Len(h) = L
    BY <1>2, <2>2 DEF h
  <2>6. \A j \in 1..L : \A k \in 1..L : ids[j] = ids[k] => j = k
    BY <2>4 DEF L
  <2>7. \A k \in 1..L : h[k].calls = <<>> /\ h[k].text = <<>> /\ h[k].results = <<[id |-> ids[k], error |-> FALSE]>>
    BY <2>3, <2>4 DEF h
  <2>8. h \in Seq(Neutral) /\ format \in {"openai", "anthropic"}
    BY <1>2 DEF Providers, h
  <2>9. Runs(Dues(format), Sent(format, h), {ids[k] : k \in 1..L}, {})
    BY <2>4, <2>5, <2>6, <2>7, <2>8, SettledSingly
  <2>10. {ids[k] : k \in 1..L} = Ids(calls)
    BY <1>3, <2>4
  <2> QED
    BY <1>7, <2>8, <2>9, <2>10 DEF h
<1>8. CASE calls # <<>> /\ front # "openai"
  <2>1. PICK text \in {<<>>, <<"ask">>}, e \in BOOLEAN :
          more = <<AnthropicWire("user", text, <<>>, [i \in DOMAIN calls |-> [id |-> calls[i].id, error |-> e]])>>
    BY <1>8, SMTT(30) DEF Continues
  <2> DEFINE q == [i \in DOMAIN calls |-> [id |-> calls[i].id, error |-> e]]
             m == AnthropicWire("user", text, <<>>, q)
             r == FromAnthropic(m)
  <2>2. DOMAIN q = 1..L /\ \A i \in 1..L : q[i].id = calls[i].id
    BY <1>3
  <2>3. Ids(q) = Ids(calls)
    BY <1>3, <2>2 DEF Ids
  <2>4. q # <<>>
    <3>1. 1 \in 1..L
      BY <1>3, <1>5, <1>8
    <3> HIDE DEF q
    <3> QED
      BY <2>2, <3>1, EmptySeq
  <2> HIDE DEF q
  <2>5. m.calls = <<>> /\ m.results = q
    BY DEF AnthropicWire
  <2>6. more = <<m>>
    BY <2>1 DEF q
  <2> HIDE DEF m
  <2>7. r.calls = <<>> /\ r.text = <<>> /\ r.results = q
    BY <2>4, <2>5 DEF FromAnthropic, Message
  <2>8. Len(more) = 1 /\ more[1] = m /\ 1 \in 1..1
    BY <2>6
  <2>9. h[1] = r /\ Len(h) = 1 /\ h \in Seq(Neutral)
    BY <1>2, <1>8, <2>8 DEF From
  <2>10. h = <<r>> /\ r \in Neutral
    <3> HIDE DEF h, r
    <3>0. 1 \in 1..Len(h) /\ h \in Seq(Neutral)
      BY <2>9
    <3>1. h[1] \in Neutral
      BY <3>0, ElementOfSeq
    <3>2. r \in Neutral
      BY <2>9, <3>1
    <3> QED
      BY <2>9, <3>2
  <2>11. r.results \in Seq(Outcome)
    BY <2>10 DEF Neutral
  <2>12. Len(r.results) = L
    <3> HIDE DEF r
    <3> QED
      BY <1>3, <2>2, <2>7, <2>11, LenProperties
  <2> HIDE DEF r
  <2>13. \A j \in 1..Len(r.results) : \A k \in 1..Len(r.results) : r.results[j].id = r.results[k].id => j = k
    BY <2>2, <2>7, <2>12
  <2>14. Runs(Dues(format), Sent(format, <<r>>), Ids(r.results), {})
    BY <2>4, <2>7, <2>10, <2>13, SettledBy DEF Providers
  <2> QED
    BY <1>2, <1>8, <2>3, <2>7, <2>10, <2>14
<1> QED
  BY <1>6, <1>7, <1>8

\* Received half by half.
LEMMA ReceivedConcat ==
  ASSUME NEW format, NEW a \in Seq(Wires(format)), NEW b \in Seq(Wires(format))
  PROVE  Received(format, a \o b) = Received(format, a) \o Received(format, b)
<1> DEFINE f == [m \in Wires(format) |-> From(format, m)]
           x == a \o b
<1>1. x \in Seq(Wires(format))
  BY ConcatProperties
<1>2. ASSUME NEW w \in Seq(Wires(format)) PROVE Received(format, w) = Each(f, w)
  <2>1. \A i \in DOMAIN w : w[i] \in Wires(format)
    BY LenProperties, ElementOfSeq
  <2> QED
    BY <2>1 DEF Received, Each, From
<1> HIDE DEF f
<1>3. Received(format, a) = Each(f, a) /\ Received(format, b) = Each(f, b)
  BY <1>2
<1>4. Each(f, x) = Each(f, a) \o Each(f, b)
  BY EachConcat
<1> HIDE DEF x
<1>5. Received(format, x) = Each(f, x)
  BY <1>1, <1>2
<1> QED
  BY <1>3, <1>4, <1>5 DEF x

\* The client's answer completes what it was handed.
LEMMA SettledReceive == Shape /\ Replied /\ Settling /\ Sending /\ Talking /\ Conversing /\ Receive => Settled(back, Past')
<1> SUFFICES ASSUME Shape, Replied, Settling, Sending, Talking, Conversing, Receive PROVE Settled(back, Past')
  OBVIOUS
<1>1. stage = "sent" /\ front' = front
  BY DEF Receive
<1>2. CASE failed \/ gone
  BY <1>1, <1>2 DEF Receive, Conversing, Past
<1>3. CASE ~(failed \/ gone)
  <2> DEFINE calls == Heard.calls
             x == IF front = "openai" THEN OpenAIWire("assistant", Heard.text, calls, None)
                  ELSE AnthropicWire("assistant", Heard.text, calls, <<>>)
             X == From(front, x)
  <2>0. back \in Providers /\ front \in Providers
    BY ToolsAssumption DEF Shape, Providers
  <2>1. PICK more \in Continues(calls) : talk' = Append(talk, x) \o more
    BY <1>3 DEF Receive
  <2>2. /\ calls \in Seq(Spoken) /\ Heard.text \in Texts
        /\ \A j \in 1..Len(calls) : \A k \in 1..Len(calls) : calls[j].id = calls[k].id => j = k
    <3> DEFINE d == Calls(reply.calls)
    <3>1. Heard.calls = d /\ Heard.text = reply.text
      BY <1>1, <1>3, Hears
    <3>2. d \in Seq(Spoken) /\ Len(d) = Len(reply.calls) /\ \A i \in 1..Len(reply.calls) : d[i].id = reply.calls[i].id
      BY CallsTyped
    <3>3. \A i \in 1..Len(reply.calls) : reply.calls[i].id = Before + i
      BY <1>1, <1>3 DEF Replied
    <3>4. Before \in Nat
      <4>1. Len(said.calls) \in Nat
        BY LenProperties DEF Shape, Said
      <4> QED
        BY <4>1 DEF Before, Shape
    <3>5. reply.text \in Texts
      <4>1. Seq({"say"}) \subseteq Texts
        BY SeqMono DEF Texts
      <4> QED
        BY <4>1 DEF Replied
    <3> HIDE DEF d
    <3>6. \A j \in 1..Len(d) : \A k \in 1..Len(d) : d[j].id = d[k].id => j = k
      BY <3>2, <3>3, <3>4
    <3> QED
      BY <3>1, <3>2, <3>5, <3>6
  <2> HIDE DEF calls
  <2>3. x \in Wires(front) /\ X.calls = calls /\ X.results = <<>> /\ X \in Neutral
    <3>1. <<>> \in Seq(Outcome)
      BY EmptySeq
    <3>2. CASE front = "openai"
      <4>1. x \in Wires(front) /\ x.calls = calls /\ x.answers = None
        BY <2>2, <3>2 DEF OpenAIWire, Wires, Roles
      <4> HIDE DEF x
      <4> QED
        BY <3>2, <4>1, FromType
    <3>3. CASE front # "openai"
      <4>1. x \in Wires(front) /\ x.calls = calls /\ x.results = <<>>
        BY <2>2, <3>1, <3>3 DEF AnthropicWire, Wires, Roles
      <4> HIDE DEF x
      <4> QED
        BY <3>3, <4>1, FromType
    <3> QED
      BY <3>2, <3>3
  <2> HIDE DEF x, X
  <2> DEFINE H == Received(front, more)
  <2>4. /\ H \in Seq(Neutral)
        /\ calls = <<>> => Settled(back, H)
        /\ calls # <<>> => Runs(Dues(back), Sent(back, H), Ids(calls), {})
    BY <2>0, <2>2, SettledMore
  <2>5. more \in Seq(Wires(front))
    BY <2>2, MoreTalk
  <2>6. talk \in Seq(Wires(front)) /\ Past \in Seq(Neutral)
    BY ReceivedIs DEF Talking, Past
  <2> DEFINE a == talk \o <<x>>
  <2>7. a \in Seq(Wires(front)) /\ <<x>> \in Seq(Wires(front)) /\ Append(talk, x) = a
    <3>1. <<x>> \in Seq(Wires(front))
      BY <2>3
    <3> QED
      BY <2>3, <2>6, <3>1, ConcatProperties, AppendIsConcat
  <2>8. Received(front, <<x>>) = <<X>>
    BY DEF Received, From, X
  <2>9. Received(front, a) = Past \o <<X>>
    BY <2>6, <2>7, <2>8, ReceivedConcat DEF Past
  <2> HIDE DEF a
  <2>10. Received(front, a \o more) = Received(front, a) \o H
    BY <2>5, <2>7, ReceivedConcat
  <2>11. Past' = (Past \o <<X>>) \o H
    BY <1>1, <2>1, <2>7, <2>9, <2>10 DEF Past
  <2> DEFINE w == <<X>>
  <2>12. w \in Seq(Neutral) /\ (Past \o w) \o H = Past \o (w \o H)
    <3>1. w \in Seq(Neutral)
      BY <2>3
    <3> HIDE DEF w, H
    <3> QED
      BY <2>4, <2>6, <3>1, ConcatAssociative
  <2>13. Settled(back, w \o H)
    <3>1. CASE calls # <<>>
      <4> HIDE DEF H
      <4> QED
        BY <2>0, <2>3, <2>4, <3>1, SettledExchange DEF Providers
    <3>2. CASE calls = <<>>
      <4>1. X \in Messages /\ w \in Seq(Messages) /\ H \in Seq(Messages)
        <5>1. Neutral \subseteq Messages
          BY DEF Messages
        <5>2. Seq(Neutral) \subseteq Seq(Messages)
          BY <5>1, SeqMono
        <5> QED
          BY <2>3, <2>4, <2>12, <5>1, <5>2
      <4>2. Settled(back, w)
        BY <2>0, <2>3, <3>2, <4>1, SettledSaying DEF Providers
      <4>3. Settled(back, H)
        BY <2>4, <3>2
      <4> HIDE DEF w, H
      <4> QED
        BY <4>1, <4>2, <4>3, SettledConcat
    <3> QED
      BY <3>1, <3>2
  <2>14. w \o H \in Seq(Neutral)
    <3> HIDE DEF w, H
    <3> QED
      BY <2>4, <2>12, ConcatProperties
  <2> DEFINE y == w \o H
  <2>15. y \in Seq(Neutral) /\ Settled(back, y)
    BY <2>13, <2>14
  <2>16. Past' = Past \o y
    BY <2>11, <2>12
  <2> HIDE DEF y
  <2>17. Past \in Seq(Messages) /\ y \in Seq(Messages)
    <3>1. Neutral \subseteq Messages
      BY DEF Messages
    <3>2. Seq(Neutral) \subseteq Seq(Messages)
      BY <3>1, SeqMono
    <3> QED
      BY <2>6, <2>15, <3>2
  <2>18. Settled(back, Past)
    BY DEF Conversing
  <2> DEFINE p == Past
  <2>19. p \in Seq(Messages) /\ Settled(back, p)
    BY <2>17, <2>18
  <2> HIDE DEF p
  <2>20. Settled(back, p \o y)
    BY <2>15, <2>17, <2>19, SettledConcat
  <2> QED
    BY <2>16, <2>20 DEF p
<1> QED
  BY <1>2, <1>3

\* An exchange the agent has resolved joins the conversation whole.
LEMMA SettledAgain ==
  Shape /\ Replied /\ Settling /\ Conversing /\ Again => chat' \in Seq(Neutral) /\ Settled(back, chat')
<1> SUFFICES ASSUME Shape, Replied, Settling, Conversing, Again PROVE chat' \in Seq(Neutral) /\ Settled(back, chat')
  OBVIOUS
<1> DEFINE A == Message("assistant", reply.text, reply.calls, <<>>)
           R == Message("tool", <<>>, <<>>, results)
           E == <<A>> \o <<R>>
<1>0. back \in Providers
  BY ToolsAssumption DEF Shape, Providers
<1>1. stage = "run" /\ Len(results) = Len(reply.calls) /\ chat' = chat \o <<A, R>>
  BY DEF Again
<1>2. reply.calls \in Seq(Spoken) /\ Len(reply.calls) \in Nat /\ DOMAIN reply.calls = 1..Len(reply.calls)
  <2>1. reply.calls \in Seq(Spoken)
    BY CallsTyped
  <2> QED
    BY <2>1, LenProperties
<1>3. reply.text \in Texts /\ <<>> \in Texts /\ <<>> \in Seq(Spoken) /\ <<>> \in Seq(Outcome)
  <2>1. Seq({"say"}) \subseteq Texts
    BY SeqMono DEF Texts
  <2> QED
    BY <2>1, EmptySeq DEF Replied, Texts
<1>4. results \in Seq(Outcome) /\ DOMAIN results = 1..Len(results)
  <2>1. [id : Used, error : BOOLEAN] \subseteq Outcome
    BY DEF Outcome, Used
  <2>2. Seq([id : Used, error : BOOLEAN]) \subseteq Seq(Outcome)
    BY <2>1, SeqMono
  <2>3. results \in Seq(Outcome)
    BY <2>2 DEF Settling
  <2> QED
    BY <2>3, LenProperties
<1>5. \A k \in 1..Len(results) : results[k].id = Before + k /\ reply.calls[k].id = Before + k
  BY <1>1 DEF Settling, Replied
<1>6. Before \in Nat
  <2>1. Len(said.calls) \in Nat
    BY LenProperties DEF Shape, Said
  <2> QED
    BY <2>1 DEF Before, Shape
<1>7. \A j \in 1..Len(results) : \A k \in 1..Len(results) : results[j].id = results[k].id => j = k
  BY <1>5, <1>6
<1>8. Ids(results) = Ids(reply.calls)
  BY <1>1, <1>2, <1>4, <1>5 DEF Ids
<1>9. A \in Neutral /\ A.calls = reply.calls /\ A.results = <<>>
  BY <1>2, <1>3 DEF Message, Neutral, Roles
<1>10. R \in Neutral /\ R.calls = <<>> /\ R.text = <<>> /\ R.results = results
  BY <1>3, <1>4 DEF Message, Neutral, Roles
<1> HIDE DEF A, R
<1>11. <<A, R>> = E /\ <<A>> \in Seq(Neutral) /\ <<R>> \in Seq(Neutral)
  <2>1. <<A>> \in Seq(Neutral) /\ <<R>> \in Seq(Neutral)
    BY <1>9, <1>10
  <2>2. <<A, R>> = Append(<<A>>, R)
    OBVIOUS
  <2>3. Append(<<A>>, R) = <<A>> \o <<R>>
    BY <1>10, <2>1, AppendIsConcat
  <2> QED
    BY <2>1, <2>2, <2>3
<1>12. Neutral \subseteq Messages /\ Seq(Neutral) \subseteq Seq(Messages)
  <2>1. Neutral \subseteq Messages
    BY DEF Messages
  <2> QED
    BY <2>1, SeqMono
<1>13. Settled(back, E)
  <2>1. CASE reply.calls # <<>>
    <3>1. results # <<>>
      BY <1>1, <1>2, <1>4, <2>1, EmptySeq
    <3>2. Runs(Dues(back), Sent(back, <<R>>), Ids(R.results), {})
      BY <1>0, <1>7, <1>10, <3>1, SettledBy DEF Providers
    <3>3. Runs(Dues(back), Sent(back, <<R>>), Ids(A.calls), {})
      BY <1>8, <1>9, <1>10, <3>2
    <3> DEFINE r == <<R>>
    <3>4. r \in Seq(Neutral) /\ Runs(Dues(back), Sent(back, r), Ids(A.calls), {})
      BY <1>11, <3>3
    <3> HIDE DEF r
    <3>5. Settled(back, <<A>> \o r)
      BY <1>0, <1>9, <2>1, <3>4, SettledExchange DEF Providers
    <3> QED
      BY <3>5 DEF r
  <2>2. CASE reply.calls = <<>>
    <3>1. results = <<>>
      BY <1>1, <1>4, <2>2, EmptySeq
    <3>2. A \in Messages /\ R \in Messages
      BY <1>9, <1>10, <1>12
    <3>3. Settled(back, <<A>>)
      BY <1>0, <1>9, <2>2, <3>2, SettledSaying DEF Providers
    <3>4. Settled(back, <<R>>)
      BY <1>0, <1>10, <3>1, <3>2, SettledSaying DEF Providers
    <3> DEFINE a == <<A>>
               r == <<R>>
    <3>5. a \in Seq(Messages) /\ r \in Seq(Messages) /\ Settled(back, a) /\ Settled(back, r)
      BY <1>11, <1>12, <3>3, <3>4
    <3> HIDE DEF a, r
    <3>6. Settled(back, a \o r)
      BY <3>5, SettledConcat
    <3> QED
      BY <3>6 DEF a, r
  <2> QED
    BY <2>1, <2>2
<1>14. E \in Seq(Neutral)
  BY <1>11, ConcatProperties
<1>15. chat' = chat \o E /\ chat \in Seq(Neutral) /\ Settled(back, chat)
  BY <1>1, <1>11 DEF Conversing
<1> HIDE DEF E
<1>16. chat \o E \in Seq(Neutral)
  BY <1>14, <1>15, ConcatProperties
<1>17. Settled(back, chat \o E)
  BY <1>12, <1>13, <1>14, <1>15, SettledConcat
<1> QED
  BY <1>15, <1>16, <1>17

\* The conversation stays whole,
LEMMA ConversingStep ==
  Shape /\ Replied /\ Settling /\ Sending /\ Talking /\ Conversing /\ [Next]_vars => Conversing'
<1> SUFFICES ASSUME Shape, Replied, Settling, Sending, Talking, Conversing, [Next]_vars PROVE Conversing'
  OBVIOUS
<1> USE DEF Conversing
<1>p. ASSUME talk' = talk, front' = front PROVE Past' = Past
  BY <1>p DEF Past
<1>k. ASSUME talk' = talk, front' = front, back' = back, chat' = chat,
             stage \in {"client", "sent"} => stage' \in {"client", "sent"}
      PROVE  Conversing'
  BY <1>k, <1>p
<1>f. ASSUME Fail PROVE stage' = "sent"
  BY <1>f DEF Fail
<1>1. ASSUME NEW live \in BOOLEAN, Send(live) PROVE Conversing'
  <2>1. chat' = Past /\ talk' = talk /\ front' = front /\ back' = back
    BY <1>1 DEF Send, Past
  <2>2. Past \in Seq(Neutral)
    BY ReceivedIs DEF Talking, Past
  <2> QED
    BY <1>p, <2>1, <2>2
<1>2. CASE Disconnect
  BY <1>2, <1>k DEF Disconnect, client, request
<1>3. CASE Receive
  <2>1. Settled(back, Past')
    BY <1>3, SettledReceive
  <2>2. back' = back /\ chat' = chat /\ stage' = "client"
    BY <1>3 DEF Receive, request
  <2> QED
    BY <2>1, <2>2
<1>4. CASE Ask
  BY <1>4, <1>k DEF Ask, client
<1>5. CASE Collected
  BY <1>5, <1>k DEF Collected, client
<1>6. CASE Breaks
  BY <1>6, <1>k DEF Breaks, client, request
<1>7. CASE CutShort
  BY <1>7, <1>k DEF CutShort, client
<1>8. CASE \E i \in DOMAIN given : Delta(i)
  BY <1>8, <1>k DEF Delta, client
<1>9. CASE HandBack
  BY <1>9, <1>k DEF HandBack, client, request
<1>10. CASE Run
  BY <1>10, <1>k DEF Run, client
<1>11. CASE Handle
  BY <1>11, <1>k DEF Handle, client
<1>12. CASE Cancelled
  BY <1>12, <1>k DEF Cancelled, client, request
<1>13. CASE Again
  <2>1. chat' \in Seq(Neutral) /\ Settled(back, chat')
    BY <1>13, SettledAgain
  <2>2. talk' = talk /\ front' = front /\ back' = back
    BY <1>13 DEF Again, client
  <2> QED
    BY <1>p, <2>1, <2>2
<1>14. CASE Exhausted
  BY <1>14, <1>k DEF Exhausted, client, request
<1>15. CASE UNCHANGED vars
  BY <1>15, <1>k DEF vars, client, request
<1> QED
  BY <1>1, <1>2, <1>3, <1>4, <1>5, <1>6, <1>7, <1>8, <1>9, <1>10, <1>11, <1>12, <1>13, <1>14, <1>15 DEF Next

\* as it is at first.
LEMMA ConversingInit == Init => Conversing
<1> SUFFICES ASSUME Init PROVE Conversing
  OBVIOUS
<1>1. front \in Providers /\ back \in Providers
  BY ToolsAssumption DEF Init, Providers
<1> DEFINE c == <<>>
<1>2. c \in Seq(Spoken) /\ c = <<>> /\ <<>> \in Seq(Neutral) /\ Len(c) = 0
  BY EmptySeq
<1>3. talk \in Continues(c)
  BY DEF Init, Continues
<1> HIDE DEF c
<1>4. \A j \in 1..Len(c) : \A k \in 1..Len(c) : c[j].id = c[k].id => j = k
  BY <1>2
<1>5. Settled(back, Past)
  BY <1>1, <1>2, <1>3, <1>4, SettledMore DEF Past
<1> QED
  BY <1>2, <1>5 DEF Init, Conversing

\* Whatever is run, handed back and sent again, and whichever two formats meet: what
\* the model is asked with is a transcript its provider takes, every call answered
\* directly after it (chat.go:231-236); where Anthropic's calls come with their ids.
THEOREM AsksAreTaken ==
  ASSUME AnthropicNames
  PROVE  Spec => []AsksAreLegal
<1>1. ToolsInv /\ Conversing => AsksAreLegal
  <2> SUFFICES ASSUME ToolsInv, Conversing, stage = "answer" PROVE Legal(back, Sent(back, assembled))
    BY DEF AsksAreLegal
  <2> DEFINE r == <<Role>>
             s == Sent(back, assembled)
  <2>1. back \in Providers
    BY ToolsAssumption DEF ToolsInv, Shape, Providers
  <2>2. chat \in Seq(Messages) /\ Settled(back, chat)
    <3>1. Neutral \subseteq Messages
      BY DEF Messages
    <3> QED
      BY <3>1, SeqMono DEF Conversing
  <2>3. Role \in Messages /\ Role.calls = <<>> /\ Role.results = <<>>
    BY DEF Messages, Role, Message
  <2>4. r \in Seq(Messages)
    BY <2>3
  <2>5. Settled(back, r)
    BY <2>1, <2>3, SettledSaying DEF Providers
  <2> HIDE DEF r
  <2>6. assembled \in Seq(Messages) /\ assembled = r \o chat
    BY <2>2, <2>4, ConcatProperties DEF assembled, r
  <2>7. Settled(back, r \o chat)
    BY <2>2, <2>4, <2>5, SettledConcat
  <2>8. s \in Seq(Sendable(back))
    BY <2>6, SentIs
  <2>9. Runs(Dues(back), s, {}, {})
    BY <2>6, <2>7 DEF Settled
  <2> HIDE DEF s
  <2>10. Legal(back, s)
    BY <2>8, <2>9, LegalIs
  <2> QED
    BY <2>10 DEF s
<1>2. ToolsInv /\ Conversing /\ [Next]_vars => Conversing'
  BY ConversingStep DEF ToolsInv
<1> QED
  BY ToolsHolds, ConversingInit, <1>1, <1>2, PTL DEF Spec
=============================================================================
