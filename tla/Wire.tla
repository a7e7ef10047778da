---------------------------------- MODULE Wire ----------------------------------
(***************************************************************************)
(* Tool interactions as messages, and the two formats they are carried in: *)
(* OpenAI's chat completions and Anthropic's messages.  A client speaks    *)
(* one of them to the brain (internal/openai, internal/anthropic), and the *)
(* brain one to its model (pkg/model/openai.go, anthropic.go); in between  *)
(* they are the neutral messages of pkg/model.                             *)
(*                                                                         *)
(* A text is the sequence of its parts, the arguments of a call the        *)
(* sequence of the pieces they are streamed in.                            *)
(***************************************************************************)
EXTENDS Integers, SequencesExt

CONSTANT None   \* no id

\* A neutral message; a call is [id, name, input], a result [id, error].
Message(role, text, calls, results) == [role |-> role, text |-> text, calls |-> calls, results |-> results]

Ids(s) == {s[i].id : i \in DOMAIN s}

Flatten(s) ==
  LET upto[n \in 0..Len(s)] == IF n = 0 THEN <<>> ELSE upto[n - 1] \o s[n]
  IN upto[Len(s)]

\* SelectSeq, in a form that can be reasoned about.
Those(s, Is(_)) == Flatten([i \in DOMAIN s |-> IF Is(s[i]) THEN <<s[i]>> ELSE <<>>])

\* ToolCallsIn: the calls of a chat, and whether the chat answers them.
ToolCallsIn(msgs) == Flatten([i \in DOMAIN msgs |-> msgs[i].calls])
Answered(msgs)    == UNION {Ids(msgs[i].results) : i \in DOMAIN msgs}

\* FAULT (SettledOnce): the calls of settled history are owed again.
AllCalls(msgs) == ToolCallsIn(msgs)

\* The calls a chat does not answer are what is owed to the client.
Unresolved(msgs) == Those(ToolCallsIn(msgs), LAMBDA c : c.id \notin Answered(msgs))

-----------------------------------------------------------------------------
(* From the client.  An OpenAI message holds the id of the one call it     *)
(* answers; an Anthropic one the tool_use and tool_result blocks.          *)

OpenAIWire(role, content, calls, answers) ==
  [role |-> role, content |-> content, calls |-> calls, answers |-> answers]
AnthropicWire(role, content, calls, results) ==
  [role |-> role, content |-> content, calls |-> calls, results |-> results]

FromOpenAI(m) ==
  IF m.answers = None THEN Message(m.role, m.content, m.calls, <<>>)
  ELSE Message(m.role, <<>>, m.calls, <<[id |-> m.answers, error |-> FALSE]>>)

\* Beside results a text is dropped, also one the client wrote.
FromAnthropic(m) ==
  Message(m.role, IF m.results = <<>> THEN m.content ELSE <<>>, m.calls, m.results)

Received(format, talk) ==
  [i \in DOMAIN talk |-> IF format = "openai" THEN FromOpenAI(talk[i]) ELSE FromAnthropic(talk[i])]

-----------------------------------------------------------------------------
(* To the model.  OpenAI takes each result in a message of its own;        *)
(* Anthropic all of them in the user's turn, and no system message.        *)

openaiMessages(m) ==
  LET tools == [i \in DOMAIN m.results |-> OpenAIWire("tool", <<>>, <<>>, m.results[i].id)]
      role  == IF m.role \in {"system", "assistant"} THEN m.role ELSE "user"
  IN IF m.calls # <<>> THEN Append(tools, OpenAIWire("assistant", m.text, m.calls, None))
     ELSE IF m.role = "tool" \/ (tools # <<>> /\ m.text = <<>>) THEN tools
     ELSE Append(tools, OpenAIWire(role, m.text, <<>>, None))

anthropicMessage(m) ==
  LET own == m.calls # <<>> \/ (m.results = <<>> /\ m.role = "assistant")
  IN AnthropicWire(IF own THEN "assistant" ELSE "user", m.text, m.calls, m.results)

Sent(format, msgs) ==
  Flatten([i \in DOMAIN msgs |-> IF format = "openai" THEN openaiMessages(msgs[i])
                                 ELSE IF msgs[i].role = "system" THEN <<>>
                                 ELSE <<anthropicMessage(msgs[i])>>])

\* What a provider takes: every call is answered, by what comes directly after the
\* message that makes it, and every answer has its call.
Answers(format, m) == IF format = "anthropic" THEN Ids(m.results)
                      ELSE IF m.answers = None THEN {} ELSE {m.answers}

Speaks(format, m) == m.calls # <<>> \/ Answers(format, m) = {}

Legal(format, talk) ==
  LET left[n \in 0..Len(talk)] ==
        IF n = 0 THEN {} ELSE (left[n - 1] \ Answers(format, talk[n])) \cup Ids(talk[n].calls)
  IN /\ left[Len(talk)] = {}
     /\ \A n \in DOMAIN talk : /\ Answers(format, talk[n]) \subseteq left[n - 1]
                               /\ Speaks(format, talk[n]) => left[n - 1] = {}

-----------------------------------------------------------------------------
(* The model's answer, in deltas: calls are put together by their index.   *)

\* callBuf.add and anthropicCallBuf.start, append: a call keeps the place it was
\* first seen at.
Add(buf, idx, piece) ==
  LET at == {n \in DOMAIN buf : buf[n].idx = idx}
  IN IF at = {} THEN Append(buf, [idx |-> idx, id |-> piece.id, name |-> piece.name, input |-> <<>>])
     ELSE [n \in DOMAIN buf |-> IF n \in at THEN [buf[n] EXCEPT !.input = Append(@, piece.part)] ELSE buf[n]]

\* FAULT (ToolsTypeOK): a call the provider gave no id keeps none.
doneUnnamed(format, buf, fresh) ==
  [n \in DOMAIN buf |-> [id |-> buf[n].id, name |-> buf[n].name, input |-> buf[n].input]]

\* done: callBuf's gives an id to a call that has none; anthropicCallBuf's does not.
done(format, buf, fresh) ==
  [n \in DOMAIN buf |->
     [id |-> IF format = "openai" /\ buf[n].id = None THEN fresh + buf[n].idx ELSE buf[n].id,
      name |-> buf[n].name, input |-> buf[n].input]]

-----------------------------------------------------------------------------
(* To the client: the events of a streaming response, in order.            *)

\* Arguments are JSON: empty ones become an object, the part 0.
Arguments(input) == IF input = <<>> THEN <<0>> ELSE input
Calls(calls)     == [i \in DOMAIN calls |-> [calls[i] EXCEPT !.input = Arguments(@)]]

FinishReason(calls) == IF calls = <<>> THEN "end" ELSE "tools"

Event(name, at, body) == [event |-> name, at |-> at, body |-> body]

WriteStart(format) ==
  IF format = "openai" THEN <<>>
  ELSE <<Event("message_start", None, None), Event("block_start", 0, <<>>)>>

WriteDelta(format, text) == <<Event("delta", 0, text)>>

\* FAULT (SentAsAnswered): the blocks are counted from the text's.
WriteToolCallsAtZero(calls) ==
  Flatten([i \in DOMAIN calls |-> <<Event("block_start", i - 1, <<[calls[i] EXCEPT !.input = <<>>]>>),
                                    Event("delta", i - 1, calls[i].input),
                                    Event("block_stop", i - 1, None)>>])

\* Anthropic's: each call a block of its own after the text's.
WriteToolCalls(calls) ==
  Flatten([i \in DOMAIN calls |-> <<Event("block_start", i, <<[calls[i] EXCEPT !.input = <<>>]>>),
                                    Event("delta", i, calls[i].input),
                                    Event("block_stop", i, None)>>])

WriteStop(format, calls) ==
  IF format = "openai"
  THEN (IF calls = <<>> THEN <<>> ELSE <<Event("calls", None, calls)>>)
       \o <<Event("finish", None, FinishReason(calls)), Event("done", None, None)>>
  ELSE <<Event("block_stop", 0, None)>> \o WriteToolCalls(calls)
       \o <<Event("finish", None, FinishReason(calls)), Event("message_stop", None, None)>>

\* An error in an open stream; Anthropic's message is closed first, as if it had ended.
WriteStreamError(format) ==
  IF format = "openai" THEN <<Event("error", None, None), Event("done", None, None)>>
  ELSE WriteStop(format, <<>>) \o <<Event("error", None, None)>>

\* What a client makes of them: the text and the calls of the message, how it ended.
Of(events, name) == Those(events, LAMBDA e : e.event = name)

Read(format, events) ==
  LET Bodies(name) == [i \in DOMAIN events |-> IF events[i].event = name THEN events[i].body ELSE <<>>]
      Block(n) == [i \in DOMAIN events |->
                     IF events[i].event = "delta" /\ events[i].at = n THEN events[i].body ELSE <<>>]
      opened   == Those(events, LAMBDA e : e.event = "block_start" /\ e.body # <<>>)
  IN [text  |-> Flatten(Block(0)),
      calls |-> IF format = "openai" THEN Flatten(Bodies("calls"))
                ELSE [i \in DOMAIN opened |-> [opened[i].body[1] EXCEPT !.input = Flatten(Block(opened[i].at))]],
      ends  |-> Flatten([i \in DOMAIN events |-> IF events[i].event = "finish" THEN <<events[i].body>> ELSE <<>>])]

\* The blocks of a stream do not overlap, hold all its deltas, and it ends once.
WellFormed(format, events) ==
  LET End == IF format = "openai" THEN "done" ELSE "message_stop"
      open[n \in 0..Len(events)] ==
        IF n = 0 THEN {}
        ELSE CASE events[n].event = "block_start" -> open[n - 1] \cup {events[n].at}
               [] events[n].event = "block_stop"  -> open[n - 1] \ {events[n].at}
               [] OTHER                           -> open[n - 1]
  IN /\ Len(Of(events, End)) = 1 /\ Len(Of(events, "finish")) <= 1
     /\ \A n \in DOMAIN events :
          /\ events[n].event = End => SubSeq(events, n + 1, Len(events)) = Of(events, "error") \/ n = Len(events)
          /\ format = "anthropic" =>
               /\ events[n].event = "block_start" => open[n - 1] = {}
               /\ events[n].event \in {"delta", "block_stop"} => open[n - 1] = {events[n].at}
               /\ events[n].event \in {"finish", "message_stop"} => open[n - 1] = {}
=============================================================================
