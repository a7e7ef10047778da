---------------------------------- MODULE Tools ----------------------------------
(***************************************************************************)
(* The rounds of tool use between a client, the brain and its model: a     *)
(* client sends its transcript (internal/serve), the brain's agent asks    *)
(* its model in rounds (internal/agent/chat.go), runs the calls it has     *)
(* handlers for and hands the others back, and the client runs those and   *)
(* sends the transcript again.  Both sides of the wire are in Wire.        *)
(*                                                                         *)
(* The agent's handler is the one of the documentation: Resolve over the   *)
(* turn's messages with its own and the client's tools, Reply with the     *)
(* text, Call with what is left.  What the model says, and the client, are *)
(* outside: the client answers every call it is asked to run.              *)
(***************************************************************************)
EXTENDS Wire, FiniteSets

CONSTANTS
  Formats,      \* the formats in use, of "openai" and "anthropic"
  Unnamed,      \* those whose models may leave a call without an id
  Own,          \* tools of the agent that carry a handler (OnCall)
  Forwarded,    \* the client's
  Says,         \* what the model may say: a text, and calls with their pieces
  Rounds,       \* WithMaxRounds
  MaxAsks,      \* bound: asks of the model
  MaxRequests,  \* bound: requests
  MaxFaults     \* bound: failures of the model, and clients that go away

\* A call as the model says it: its tool, whether it names the call where the format
\* lets it be left out, and in how many pieces its arguments come.
Piece == [name : Own \cup Forwarded, named : BOOLEAN, pieces : Nat]
Said  == [text : Seq({"say"}), calls : Seq(Piece)]

ASSUME ToolsAssumption ==
  /\ Formats \subseteq {"openai", "anthropic"} /\ Unnamed \subseteq Formats
  /\ Own \cap Forwarded = {} /\ Says \subseteq Said
  /\ {Rounds, MaxAsks, MaxRequests, MaxFaults} \subseteq Nat /\ None \notin Nat

\* Anthropic's format has an id in every tool_use block, and its adapter relies on it.
AnthropicNames == Unnamed \subseteq {"openai"}

VARIABLES
  front, back,  \* the formats of the client and of the model
  (* the client *)
  talk,         \* its transcript
  stream,       \* whether it wants this response streamed
  (* the request *)
  stage,        \* "client", "ask", "answer" (of the model), "reply", "run" or "sent"
  chat,         \* what Resolve has added to the conversation
  round,
  said, given,  \* what the model says, and the deltas of each call it has given
  buf,          \* the adapter's callBuf
  reply,        \* what Ask returned
  results,      \* the results of this round so far
  events,       \* the response: the events of a stream, or what it holds
  failed,       \* the run returned an error
  gone,         \* the client has gone away
  (* history *)
  ran,          \* the calls the brain's handlers were given, in order
  owed,         \* the calls the client was asked to run, in order
  minted,       \* ids in use
  asks, requests, faults

client  == <<front, back, talk, stream>>
request == <<chat, round, said, given, buf, reply, results>>
answer  == <<events, failed>>
history == <<ran, owed, minted>>
bounds  == <<asks, requests, faults>>
vars    == <<client, stage, request, answer, gone, history, bounds>>

Used  == 1..minted
Call  == [id : Used, name : Own \cup Forwarded, input : Seq(Nat)]
NoReply == [text |-> <<>>, calls |-> <<>>]

ToolsTypeOK ==
  /\ {front, back} \subseteq Formats /\ stream \in BOOLEAN /\ failed \in BOOLEAN /\ gone \in BOOLEAN
  /\ stage \in {"client", "ask", "answer", "reply", "run", "sent"}
  /\ round \in 0..Rounds /\ said \in Said /\ given \in Seq(Nat)
  /\ reply.calls \in Seq(Call) /\ reply.text \in Seq({"say"})
  /\ \A i \in DOMAIN results : results[i].id \in Used
  /\ ran \in Seq(Used) /\ owed \in Seq(Used)
  /\ asks \in 0..MaxAsks /\ requests \in 0..MaxRequests /\ faults \in 0..MaxFaults

-----------------------------------------------------------------------------
(* The client. *)

\* A request: the transcript is decoded; an Anthropic stream is opened.
Send(live) ==
  /\ stage = "client" /\ requests < MaxRequests /\ requests' = requests + 1
  /\ stream' = live /\ stage' = "ask"
  /\ chat' = Received(front, talk) /\ round' = 0 /\ reply' = NoReply /\ results' = <<>>
  /\ events' = (IF live THEN WriteStart(front) ELSE <<>>) /\ failed' = FALSE /\ gone' = FALSE
  /\ UNCHANGED <<front, back, talk, said, given, buf, history, asks, faults>>

Disconnect ==
  /\ stage \notin {"client", "sent"} /\ ~gone /\ faults < MaxFaults
  /\ gone' = TRUE /\ faults' = faults + 1
  /\ UNCHANGED <<client, stage, request, answer, history, asks, requests>>

\* What it adds: the brain's message, and its answers to the calls in it or its
\* next question.
Heard == Read(front, events)

Continues(calls) ==
  IF front = "openai"
  THEN IF calls = <<>> THEN {<<OpenAIWire("user", <<"ask">>, <<>>, None)>>}
       ELSE {[i \in DOMAIN calls |-> OpenAIWire("tool", <<"out">>, <<>>, calls[i].id)]}
  ELSE IF calls = <<>> THEN {<<AnthropicWire("user", <<"ask">>, <<>>, <<>>)>>}
       ELSE {<<AnthropicWire("user", text, <<>>, [i \in DOMAIN calls |-> [id |-> calls[i].id, error |-> e]])>> :
               text \in {<<>>, <<"ask">>}, e \in BOOLEAN}

Receive ==
  /\ stage = "sent" /\ stage' = "client"
  /\ IF failed \/ gone THEN UNCHANGED <<talk, owed>>
     ELSE LET m == OpenAIWire("assistant", Heard.text, Heard.calls, None)
              a == AnthropicWire("assistant", Heard.text, Heard.calls, <<>>)
          IN /\ \E more \in Continues(Heard.calls) :
                  talk' = Append(talk, IF front = "openai" THEN m ELSE a) \o more
             /\ owed' = owed \o [i \in DOMAIN Heard.calls |-> Heard.calls[i].id]
  /\ UNCHANGED <<front, back, stream, request, answer, gone, ran, minted, bounds>>

-----------------------------------------------------------------------------
(* The end of a request. *)

\* A response that is not streamed holds what the stream's events would.
Open == IF stream THEN <<>> ELSE WriteStart(front)

\* The handler replies and calls: the calls go with the reply's message, and those
\* nobody has answered to the client.
Replies(r) == IF r.text = <<>> /\ r.calls = <<>> THEN <<>>
              ELSE <<Message("assistant", r.text, r.calls, <<>>)>>

Answer ==
  LET transcript == Received(front, talk) \o Replies(reply)
  IN /\ stage' = "sent"
     /\ events' = events \o Open \o WriteDelta(front, reply.text)
                  \o WriteStop(front, Calls(Unresolved(transcript)))
     /\ UNCHANGED failed

\* The run returned an error: an event, or a status.
Fail ==
  /\ stage' = "sent" /\ failed' = TRUE
  /\ events' = IF stream THEN events \o WriteStreamError(front) ELSE events

-----------------------------------------------------------------------------
(* Ask, and the stream of the model's answer. *)

Role == Message("system", <<"role">>, <<>>, <<>>)

\* What an Ask sends: the agent's role and the conversation.
assembled == <<Role>> \o chat

Ask ==
  /\ stage = "ask" /\ asks < MaxAsks /\ asks' = asks + 1
  /\ \E s \in Says : said' = s /\ given' = [i \in DOMAIN s.calls |-> 0] /\ minted' = minted + Len(s.calls)
  /\ stage' = "answer" /\ buf' = <<>>
  /\ UNCHANGED <<client, chat, round, reply, results, answer, gone, ran, owed, requests, faults>>

\* The last of the ids in use before this answer.
Before == minted - Len(said.calls)

Named(c) == c.named \/ back \notin Unnamed

\* A delta of the call at i: its id and name, then its arguments.  OpenAI's deltas
\* of parallel calls interleave, Anthropic's blocks follow each other.
Delta(i) ==
  LET c     == said.calls[i]
      piece == [id |-> IF Named(c) THEN Before + i ELSE None, name |-> c.name, part |-> given[i]]
      Full(j) == given[j] = said.calls[j].pieces + 1
  IN /\ stage = "answer" /\ ~Full(i)
     /\ \A j \in 1..(i - 1) : IF back = "anthropic" THEN Full(j) ELSE given[j] > 0
     /\ given' = [given EXCEPT ![i] = @ + 1] /\ buf' = Add(buf, i, piece)
     /\ UNCHANGED <<client, stage, chat, round, said, reply, results, answer, gone, history, bounds>>

Whole == \A i \in DOMAIN given : given[i] = said.calls[i].pieces + 1

\* The stream has ended: CollectAll has the text and every call.
Collected ==
  /\ stage = "answer" /\ Whole /\ stage' = "reply"
  /\ reply' = [text |-> said.text, calls |-> done(back, buf, Before)]
  /\ UNCHANGED <<client, chat, round, said, given, buf, results, answer, gone, history, bounds>>

\* No model or tool is fit to ask with, the endpoint refuses or breaks off, or the
\* answer is not of the schema.  (A live reply carries the error, and the handler
\* returns it.)
Breaks ==
  /\ stage \in {"ask", "answer"} /\ faults < MaxFaults /\ faults' = faults + 1
  /\ Fail
  /\ UNCHANGED <<client, request, gone, history, asks, requests>>

\* The request's context is cancelled: the Ask fails, or the adapter gives up in
\* silence, and what it had passed on is taken for the whole answer.
CutShort ==
  /\ stage = "answer" /\ gone
  /\ \/ Fail /\ UNCHANGED reply
     \/ /\ stage' = "reply" /\ UNCHANGED answer
        /\ \E n \in 0..(IF Whole THEN Len(buf) ELSE 0) :
             \E text \in {said.text, <<>>} :
               reply' = [text |-> text, calls |-> SubSeq(done(back, buf, Before), 1, n)]
  /\ UNCHANGED <<client, chat, round, said, given, buf, results, gone, history, bounds>>

-----------------------------------------------------------------------------
(* Resolve. *)

\* A round is run whole or not at all: each of its calls has a handler here.
Resolvable == \A i \in DOMAIN reply.calls : reply.calls[i].name \in Own

\* No calls, or some that are not ours: the reply is handed back.
HandBack ==
  /\ stage = "reply" /\ (reply.calls = <<>> \/ ~Resolvable)
  /\ Answer
  /\ UNCHANGED <<client, request, gone, history, bounds>>

Run ==
  /\ stage = "reply" /\ reply.calls # <<>> /\ Resolvable
  /\ stage' = "run" /\ results' = <<>>
  /\ UNCHANGED <<client, chat, round, said, given, buf, reply, answer, gone, history, bounds>>

\* The next handler runs; its error is a result like another.
Handle ==
  LET c == reply.calls[Len(results) + 1]
  IN /\ stage = "run" /\ Len(results) < Len(reply.calls) /\ ~gone
     /\ \E e \in BOOLEAN : results' = Append(results, [id |-> c.id, error |-> e])
     /\ ran' = Append(ran, c.id)
     /\ UNCHANGED <<client, stage, chat, round, said, given, buf, reply, answer, gone, owed, minted, bounds>>

Cancelled ==
  /\ stage = "run" /\ Len(results) < Len(reply.calls) /\ gone /\ Fail
  /\ UNCHANGED <<client, request, gone, history, bounds>>

\* FAULT (AsksAreLegal): the results are added without the message that calls.
AgainAlone ==
  /\ stage = "run" /\ Len(results) = Len(reply.calls)
  /\ round + 1 < Rounds /\ round' = round + 1 /\ stage' = "ask"
  /\ chat' = Append(chat, Message("tool", <<>>, <<>>, results))
  /\ UNCHANGED <<client, said, given, buf, reply, results, answer, gone, history, bounds>>

\* The exchange is recorded, all results in one message, and the model asked again.
Again ==
  /\ stage = "run" /\ Len(results) = Len(reply.calls)
  /\ round + 1 < Rounds /\ round' = round + 1 /\ stage' = "ask"
  /\ chat' = chat \o <<Message("assistant", reply.text, reply.calls, <<>>),
                       Message("tool", <<>>, <<>>, results)>>
  /\ UNCHANGED <<client, said, given, buf, reply, results, answer, gone, history, bounds>>

\* ErrMaxRounds: the handlers of the last round have run, their results are lost.
Exhausted ==
  /\ stage = "run" /\ Len(results) = Len(reply.calls) /\ round + 1 >= Rounds
  /\ Fail
  /\ UNCHANGED <<client, request, gone, history, bounds>>

-----------------------------------------------------------------------------

Init ==
  /\ front \in Formats /\ back \in Formats
  /\ talk = <<IF front = "openai" THEN OpenAIWire("user", <<"ask">>, <<>>, None)
              ELSE AnthropicWire("user", <<"ask">>, <<>>, <<>>)>>
  /\ stream = FALSE /\ stage = "client" /\ chat = <<>> /\ round = 0
  /\ said = NoReply /\ given = <<>> /\ buf = <<>> /\ reply = NoReply /\ results = <<>>
  /\ events = <<>> /\ failed = FALSE /\ gone = FALSE
  /\ ran = <<>> /\ owed = <<>> /\ minted = 0 /\ asks = 0 /\ requests = 0 /\ faults = 0

Next ==
  \/ \E live \in BOOLEAN : Send(live)
  \/ Disconnect \/ Receive \/ Ask \/ Collected \/ Breaks \/ CutShort
  \/ \E i \in DOMAIN given : Delta(i)
  \/ HandBack \/ Run \/ Handle \/ Cancelled \/ Again \/ Exhausted

Spec == Init /\ [][Next]_vars

-----------------------------------------------------------------------------

\* Whatever is run, handed back and sent again, and whichever two formats meet: what
\* the model is asked with is a transcript its provider takes, every call answered
\* directly after it (chat.go:231-236).
AsksAreLegal == stage = "answer" => Legal(back, Sent(back, assembled))

\* A call is settled in one place: a handler of the brain runs it, once, or the
\* client is asked to, once; the client is never asked for what a handler has run.
Once(s) == Cardinality({s[i] : i \in DOMAIN s}) = Len(s)

SettledOnce ==
  /\ Once(ran) /\ Once(owed)
  /\ \A i \in DOMAIN ran : \A j \in DOMAIN owed : ran[i] # owed[j]

\* The response is what the run replied with, streamed or not: a stream is well
\* formed also when it fails, the client reads the reply's text and exactly the
\* calls that were handed back, whole and in order, and is told whether to run any.
Same(a, b) == /\ Len(a) = Len(b)
              /\ \A i \in DOMAIN a : /\ a[i].id = b[i].id /\ a[i].name = b[i].name
                                     /\ Arguments(a[i].input) = Arguments(b[i].input)

SentAsAnswered ==
  stage = "sent" =>
    /\ stream \/ ~failed => WellFormed(front, events)
    /\ ~failed => /\ Heard.text = reply.text /\ Same(Heard.calls, reply.calls)
                  /\ Heard.ends = <<FinishReason(reply.calls)>>
    /\ ~failed /\ ~gone => /\ reply.text = said.text /\ Len(reply.calls) = Len(said.calls)
                           /\ \A i \in DOMAIN reply.calls :
                                /\ reply.calls[i].name = said.calls[i].name
                                /\ Len(reply.calls[i].input) = said.calls[i].pieces

=============================================================================
