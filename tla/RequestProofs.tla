----------------------------- MODULE RequestProofs -----------------------------
(***************************************************************************)
(* Proofs about Request, for every brain: however its flows, jobs,         *)
(* webhooks and boot chains trigger each other, no body descends from more *)
(* others than maxTriggerDepth; its types; and, where flows are built of   *)
(* flows made before them, what the startup walk accepts a request finds,  *)
(* whatever crashes, is deployed and is resumed in between; and what is    *)
(* recorded for a run stays as it was recorded.                            *)
(***************************************************************************)
EXTENDS Request, SequenceTheorems, WellFoundedInduction, TLAPS

\* A bounded count that the code carries and the history agree.
Deep(x) == x.lineage \in Nat /\ x.depth = x.lineage /\ x.lineage <= MaxTriggerDepth

\* The depth a payload or a context carries is the true one, and is bounded.
LineageInv ==
  /\ {"depth", "lineage"} \subseteq DOMAIN pass
  /\ Deep(pass)
  /\ \A j \in jobs : Deep(j)
  /\ \A e \in DOMAIN hooks : Deep(hooks[e])

\* The program starts so.
LEMMA LineageInit == Init => LineageInv
BY RequestAssumption DEF Init, LineageInv, Deep, Idle

\* What carries a depth is left alone, but for marks on the pass, or lost.
LEMMA LineageKept ==
  ASSUME LineageInv,
         \/ pass' = pass
         \/ pass' = Idle
         \/ \E b : pass' = [pass EXCEPT !.over = b] \/ pass' = [pass EXCEPT !.mixed = b],
         jobs' = jobs,
         hooks' = hooks \/ hooks' = <<>>
  PROVE  LineageInv'
BY RequestAssumption DEF LineageInv, Deep, Idle

\* A pass that begins has the depth of what began it.
LEMMA LineageBegins ==
  ASSUME LineageInv, NEW x, Deep(x), NEW kind, NEW f, NEW run, NEW live, NEW said,
         Begin(kind, f, run, live, said, x.depth, x.lineage),
         jobs' \subseteq jobs, hooks' = hooks
  PROVE  LineageInv'
<1>1. /\ {"depth", "lineage"} \subseteq DOMAIN pass'
      /\ pass'.depth = x.depth /\ pass'.lineage = x.lineage
  BY DEF Begin, Idle
<1> QED BY <1>1 DEF LineageInv, Deep

\* Every step leaves the depths true and bounded.
LEMMA LineageStep == LineageInv /\ [Next]_vars => LineageInv'
<1> SUFFICES ASSUME LineageInv, [Next]_vars PROVE LineageInv'
  OBVIOUS
<1> USE DEF store, process, walking, bounds
<1>1. CASE ActivateDurable
  BY <1>1, LineageKept DEF ActivateDurable, Live, Stale
<1>2. CASE Load \/ Miss \/ Save
  BY <1>2, LineageKept DEF Load, Miss, Save
<1>3. ASSUME NEW i \in DOMAIN replies,
             \/ AgentFails(i)
             \/ \E x \in Agents[i].exits \cup {None} :
                  Streams(x) \/ \E silent \in BOOLEAN : Reply(i, x, silent)
      PROVE  LineageInv'
  BY <1>3, LineageKept DEF AgentFails, Streams, Reply
<1>4. CASE SelectConflict \/ Collect
  BY <1>4, LineageKept DEF SelectConflict, Collect
<1>5. CASE EnterDecorated \/ SeqStep \/ SeqEnds \/ SelectNone \/ SelectEnter \/ UnknownSelect \/ NotifySends
  BY <1>5, LineageKept
  DEF EnterDecorated, SeqStep, SeqEnds, SelectNone, SelectEnter, UnknownSelect, NotifySends
<1>6. CASE RespondRuns
  BY <1>6, LineageKept DEF RespondRuns
<1>7. CASE BareTrigger \/ NothingToDefer \/ DeferFails
  BY <1>7, LineageKept DEF BareTrigger, NothingToDefer, DeferFails
<1>8. CASE DeferBody
  <2> DEFINE j == [id |-> idsOf(Rest)[1], chat |-> st.chat, depth |-> pass.depth + 1,
                   lineage |-> pass.lineage + 1]
  <2>1. pass' = pass /\ hooks' = hooks /\ jobs' = jobs \cup {j}
    BY <1>8 DEF DeferBody
  <2>2. ~(pass.depth + 1 > MaxTriggerDepth)  BY <1>8 DEF DeferBody, Refused
  <2> QED BY <2>1, <2>2, RequestAssumption DEF LineageInv, Deep
<1>9. CASE RegisterWebhook
  <2> DEFINE h == [body |-> seqOf(Rest), chat |-> st.chat, depth |-> pass.depth + 1,
                   lineage |-> pass.lineage + 1,
                   reply |-> \E i \in DOMAIN Rest : reachesRespond[Rest[i]]]
  <2>1. pass' = pass /\ jobs' = jobs /\ hooks' = Write(hooks, Node.endpoint, h)
    BY <1>9 DEF RegisterWebhook
  <2>2. ~(pass.depth + 1 > MaxTriggerDepth)  BY <1>9 DEF RegisterWebhook, Refused
  <2> QED BY <2>1, <2>2, RequestAssumption DEF LineageInv, Deep, Write
<1>10. CASE RunAtStartup
  <2>1. Deep(Idle)  BY RequestAssumption DEF Deep, Idle
  <2>2. Begin("boot", seqOf(Head(boot)), BootRun, FALSE, <<>>, Idle.depth, Idle.lineage)
        /\ jobs' = jobs /\ hooks' = hooks
    BY <1>10 DEF RunAtStartup, Idle
  <2> QED BY <2>1, <2>2, LineageBegins
<1>11. CASE Booted \/ Finish
  BY <1>11, LineageKept DEF Booted, Finish
<1>12. CASE Ended \/ Crash
  BY <1>12, LineageKept DEF Ended, Crash, Clear
<1>13. ASSUME NEW b \in DOMAIN Binaries, Deploy(b) PROVE LineageInv'
  BY <1>13, LineageKept DEF Deploy
<1>14. ASSUME NEW r \in Clients, NEW live \in BOOLEAN, Serve(r, live) PROVE LineageInv'
  <2>1. Deep(Idle)  BY RequestAssumption DEF Deep, Idle
  <2>2. Begin("request", resolve(Running.entries, Running.extra, Wants[r]), r, live, <<User>>,
              Idle.depth, Idle.lineage)
        /\ jobs' = jobs /\ hooks' = hooks
    BY <1>14 DEF Serve, Idle
  <2> QED BY <2>1, <2>2, LineageBegins
<1>15. ASSUME NEW e \in DOMAIN hooks, CallHook(e) PROVE LineageInv'
  <2>1. Deep(hooks[e]) /\ jobs' = jobs /\ hooks' = hooks  BY <1>15 DEF CallHook, LineageInv
  <2>2. Begin(IF hooks[e].reply THEN "hook" ELSE "background", hooks[e].body, Fresh, FALSE,
              hooks[e].chat, hooks[e].depth, hooks[e].lineage)
    BY <1>15 DEF CallHook
  <2> QED BY <2>1, <2>2, LineageBegins
<1>16. ASSUME NEW j \in jobs, FireJob(j) PROVE LineageInv'
  <2>1. Deep(j) /\ jobs' \subseteq jobs /\ hooks' = hooks  BY <1>16 DEF FireJob, LineageInv
  <2>2. Begin("job", registered[j.id], Fresh, FALSE, j.chat, j.depth, j.lineage)
    BY <1>16 DEF FireJob
  <2> QED BY <2>1, <2>2, LineageBegins
<1>17. CASE UNCHANGED vars
  BY <1>17, LineageKept DEF vars
<1> QED BY <1>1, <1>2, <1>3, <1>4, <1>5, <1>6, <1>7, <1>8, <1>9, <1>10, <1>11, <1>12, <1>13,
           <1>14, <1>15, <1>16, <1>17 DEF Next, Walk

\* For every brain and any number of requests, jobs, calls of webhooks, crashes and
\* deployments: no body descends from more than MaxTriggerDepth others.
THEOREM Lineage == Spec => []LineageBounded
<1>1. LineageInv => LineageBounded  BY DEF LineageInv, Deep, LineageBounded
<1> QED BY <1>1, LineageInit, LineageStep, PTL DEF Spec

-----------------------------------------------------------------------------
(* Types. *)

Bodies  == {f.id : f \in {g \in Flows : g.kind = "basic"}}
Msg     == {User} \cup [leaf : Bodies, agent : Nat, nth : Nat]
Chats   == Seq(Msg)
Paths   == Seq(Nat \cup {f.id : f \in Flows})
Frames  == [flow : Flows, path : Paths, pos : Nat, sink : BOOLEAN,
            cp : {"none", "live", "stale"}, scope : Specs]
Chains  == UNION {Positions(Binaries[b].boot) : b \in DOMAIN Binaries}
\* What a pass has besides its depth.
PassFields == {"kind", "run", "stream", "depth", "lineage", "over", "mixed"}

\* A State: the marks of what was delivered lie in its conversation.
StateOK(s) ==
  /\ DOMAIN s = {"chat", "sel", "seed", "sent"}
  /\ s.chat \in Chats
  /\ s.sent \in -1..Len(s.chat) /\ s.seed \in 0..Len(s.chat)

\* The flows the pass is inside; what is not innermost is a chain.
StackOK(s) == s \in Seq(Frames) /\ \A i \in DOMAIN s : i > 1 => s[i].flow.kind = "seq"

\* Where the pass stands.
StandOK ==
  /\ pc \in {"down", "boot", "idle", "run", "armed", "ask", "save", "done", "failed", "replied"}
  /\ pc \in {"run", "armed", "ask", "save"} <=> stack # <<>>
  /\ StackOK(stack)
  /\ StateOK(st)

\* A leaf whose agents are at work.
AskOK ==
  pc = "ask" =>
    /\ Top.flow.kind = "basic" /\ DOMAIN replies = DOMAIN Top.flow.agents
    /\ \A i \in DOMAIN replies : replies[i] # NotYet => replies[i].said \in Chats

\* What is kept.
KeptOK ==
  /\ \A k \in DOMAIN saved : StateOK(saved[k])
  /\ current \subseteq DOMAIN saved
  /\ \A j \in jobs : j.chat \in Chats
  /\ \A x \in DOMAIN registered : registered[x] \in Flows
  /\ \A x \in DOMAIN hooks : hooks[x].body \in Flows /\ hooks[x].chat \in Chats
  /\ asks \in [Bodies -> Nat]

\* The process and its pass.
ProcessOK ==
  /\ pc # "down" => binary \in DOMAIN Binaries
  /\ boot \in Seq(Chains)
  /\ DOMAIN pass = PassFields /\ pass.run \in Runs \cup {Fresh} /\ pass.stream \in BOOLEAN
  /\ passes \in 0..MaxPasses /\ faults \in 0..MaxFaults

\* All of the types.
TypeInv == StandOK /\ AskOK /\ KeptOK /\ ProcessOK

\* The program starts with its types.
LEMMA TypeInit == Init => TypeInv
<1> SUFFICES ASSUME Init PROVE TypeInv
  OBVIOUS
<1> USE DEF Init
<1>1. StandOK
  BY DEF StandOK, StackOK, StateOK, NoState, Chats
<1>2. AskOK
  BY DEF AskOK
<1>3. KeptOK
  BY DEF KeptOK, Bodies
<1>4. ProcessOK
  BY RequestAssumption DEF ProcessOK, Idle, PassFields
<1> QED
  BY <1>1, <1>2, <1>3, <1>4 DEF TypeInv

\* The innermost flow, when there is one.
LEMMA TopIs ==
  ASSUME StandOK, pc \in {"run", "armed", "ask", "save"}
  PROVE  /\ stack # <<>> /\ Len(stack) \in Nat \ {0} /\ DOMAIN stack = 1..Len(stack)
         /\ Top \in Frames /\ Top.flow \in Flows /\ StackOK(stack) /\ StateOK(st)
<1>1. stack # <<>> /\ stack \in Seq(Frames) /\ StackOK(stack) /\ StateOK(st)
  BY DEF StandOK, StackOK
<1>2. Len(stack) \in Nat \ {0} /\ DOMAIN stack = 1..Len(stack) /\ stack[1] \in Frames
  BY <1>1
<1> QED
  BY <1>1, <1>2 DEF Top, Frames

\* Another frame in place of the innermost.
Replaced(s, x) == <<x>> \o Tail(s)

\* Where the frames are after that.
LEMMA ReplacedIs ==
  ASSUME NEW s, StackOK(s), s # <<>>, NEW x \in Frames
  PROVE  /\ Replaced(s, x) \in Seq(Frames) /\ Len(Replaced(s, x)) = Len(s) /\ Len(s) \in Nat \ {0}
         /\ Replaced(s, x)[1] = x
         /\ \A i \in DOMAIN Replaced(s, x) : i > 1 => i \in DOMAIN s /\ Replaced(s, x)[i] = s[i]
<1> DEFINE n == <<x>> \o Tail(s)
<1>1. s \in Seq(Frames) /\ Tail(s) \in Seq(Frames) /\ Len(Tail(s)) = Len(s) - 1 /\ Len(s) \in Nat \ {0}
  BY DEF StackOK
<1>2. n \in Seq(Frames) /\ Len(n) = Len(s) /\ n[1] = x
  BY <1>1
<1>3. ASSUME NEW i \in DOMAIN n, i > 1 PROVE n[i] = s[i] /\ i \in DOMAIN s
  BY <1>1, <1>2, <1>3
<1>4. n = Replaced(s, x)
  BY DEF Replaced
<1> HIDE DEF n
<1> QED
  BY <1>1, <1>2, <1>3, <1>4

\* It is a stack still.
LEMMA TopReplaced ==
  ASSUME NEW s, StackOK(s), s # <<>>, NEW x \in Frames
  PROVE  /\ StackOK(<<x>> \o Tail(s)) /\ <<x>> \o Tail(s) # <<>>
<1> DEFINE n == Replaced(s, x)
<1>1. /\ n \in Seq(Frames) /\ Len(n) = Len(s) /\ Len(s) \in Nat \ {0}
      /\ \A i \in DOMAIN n : i > 1 => i \in DOMAIN s /\ n[i] = s[i]
  BY ReplacedIs
<1> HIDE DEF n
<1>2. StackOK(n) /\ n # <<>>
  BY <1>1 DEF StackOK
<1> QED
  BY <1>2 DEF n, Replaced

\* Another frame on top of a chain.
Pushed(s, x) == <<x>> \o s

\* Where the frames are after that.
LEMMA PushedIs ==
  ASSUME NEW s, StackOK(s), NEW x \in Frames
  PROVE  /\ Pushed(s, x) \in Seq(Frames) /\ Len(Pushed(s, x)) = Len(s) + 1 /\ Len(s) \in Nat
         /\ Pushed(s, x)[1] = x
         /\ \A i \in DOMAIN Pushed(s, x) : i > 1 => i - 1 \in DOMAIN s /\ Pushed(s, x)[i] = s[i - 1]
<1> DEFINE n == <<x>> \o s
<1>1. s \in Seq(Frames) /\ Len(s) \in Nat
  BY DEF StackOK
<1>2. n \in Seq(Frames) /\ Len(n) = Len(s) + 1 /\ n[1] = x
  BY <1>1
<1>3. ASSUME NEW i \in DOMAIN n, i > 1 PROVE n[i] = s[i - 1] /\ i - 1 \in DOMAIN s
  BY <1>1, <1>2, <1>3
<1>4. n = Pushed(s, x)
  BY DEF Pushed
<1> HIDE DEF n
<1> QED
  BY <1>1, <1>2, <1>3, <1>4

\* It is a stack still, when a chain was innermost.
LEMMA TopPushed ==
  ASSUME NEW s, StackOK(s), s # <<>>, s[1].flow.kind = "seq", NEW x \in Frames
  PROVE  StackOK(<<x>> \o s) /\ <<x>> \o s # <<>>
<1> DEFINE n == Pushed(s, x)
<1>1. n = <<x>> \o s
  BY DEF Pushed
<1>2. /\ n \in Seq(Frames) /\ Len(n) = Len(s) + 1 /\ Len(s) \in Nat
      /\ \A i \in DOMAIN n : i > 1 => i - 1 \in DOMAIN s /\ n[i] = s[i - 1]
  BY PushedIs
<1> HIDE DEF n
<1>3. \A i \in DOMAIN n : i > 1 => n[i].flow.kind = "seq"
  <2> SUFFICES ASSUME NEW i \in DOMAIN n, i > 1 PROVE n[i].flow.kind = "seq"
    OBVIOUS
  <2>1. i - 1 \in DOMAIN s /\ n[i] = s[i - 1] /\ i - 1 \in Nat
    BY <1>2
  <2>2. i - 1 = 1 \/ i - 1 > 1
    BY <1>2, <2>1
  <2> QED
    BY <2>1, <2>2 DEF StackOK
<1>4. StackOK(n) /\ n # <<>>
  BY <1>2, <1>3 DEF StackOK
<1> QED
  BY <1>1, <1>4

\* The innermost flow returns to the chain around it.
Popped(s) == <<[s[2] EXCEPT !.pos = @ + 1]>> \o SubSeq(s, 3, Len(s))

\* Where the frames are after that.
LEMMA PoppedIs ==
  ASSUME NEW s, StackOK(s), s # <<>>, Len(s) # 1
  PROVE  /\ s[2] \in Frames /\ 2 \in DOMAIN s
         /\ Popped(s) \in Seq(Frames) /\ Len(Popped(s)) = Len(s) - 1 /\ Len(s) \in Nat /\ Len(s) >= 2
         /\ Popped(s)[1] = [s[2] EXCEPT !.pos = @ + 1]
         /\ \A i \in DOMAIN Popped(s) : i > 1 => i + 1 \in DOMAIN s /\ Popped(s)[i] = s[i + 1]
<1>1. s \in Seq(Frames) /\ Len(s) \in Nat /\ Len(s) >= 2
  <2>1. s \in Seq(Frames)
    BY DEF StackOK
  <2>2. Len(s) \in Nat /\ Len(s) # 0 /\ Len(s) # 1
    BY <2>1, EmptySeq
  <2>3. ASSUME NEW k \in Nat, k # 0, k # 1 PROVE k >= 2
    BY <2>3
  <2>4. Len(s) >= 2
    BY <2>2, <2>3
  <2> QED
    BY <2>1, <2>2, <2>4
<1> DEFINE x == [s[2] EXCEPT !.pos = @ + 1]
           r == SubSeq(s, 3, Len(s))
           n == <<x>> \o r
<1>2. s[2] \in Frames /\ 2 \in DOMAIN s
  BY <1>1
<1>3. x \in Frames
  BY <1>2 DEF Frames
<1>4. r \in Seq(Frames) /\ Len(r) = Len(s) - 2 /\ \A i \in 1..Len(s) - 2 : r[i] = s[i + 2]
  <2>1. \A i \in 3..Len(s) : s[i] \in Frames
    BY <1>1
  <2>2. /\ r \in Seq(Frames) /\ Len(r) = IF 3 <= Len(s) THEN Len(s) - 3 + 1 ELSE 0
        /\ \A i \in 1..Len(s) - 3 + 1 : r[i] = s[3 + i - 1]
    BY <1>1, <2>1, SubSeqProperties
  <2> HIDE DEF r
  <2>3. Len(r) = Len(s) - 2
    <3>1. ASSUME NEW k \in Nat, k >= 2 PROVE (IF 3 <= k THEN k - 3 + 1 ELSE 0) = k - 2
      BY <3>1
    <3> QED
      BY <1>1, <2>2, <3>1
  <2>4. ASSUME NEW i \in 1..Len(s) - 2 PROVE r[i] = s[i + 2]
    <3>1. i \in 1..Len(s) - 3 + 1 /\ 3 + i - 1 = i + 2
      BY <1>1
    <3> QED
      BY <3>1, <2>2
  <2> QED
    BY <2>2, <2>3, <2>4
<1> HIDE DEF x, r
<1>5. n \in Seq(Frames) /\ Len(n) = Len(s) - 1 /\ n[1] = x
  BY <1>1, <1>3, <1>4
<1>6. ASSUME NEW i \in DOMAIN n, i > 1 PROVE n[i] = s[i + 1] /\ i + 1 \in DOMAIN s
  BY <1>1, <1>3, <1>4, <1>5, <1>6
<1>7. Popped(s) = n
  BY DEF Popped, x, r
<1> HIDE DEF n
<1> QED
  BY <1>1, <1>2, <1>5, <1>6, <1>7 DEF x

\* It is a stack still.
LEMMA TopPopped ==
  ASSUME NEW s, StackOK(s), s # <<>>, Len(s) # 1
  PROVE  StackOK(Popped(s)) /\ Popped(s) # <<>>
<1> DEFINE n == Popped(s)
<1>1. /\ n \in Seq(Frames) /\ Len(n) = Len(s) - 1 /\ Len(s) \in Nat /\ Len(s) >= 2
      /\ 2 \in DOMAIN s
      /\ \A i \in DOMAIN n : i > 1 => i + 1 \in DOMAIN s /\ n[i] = s[i + 1]
  BY PoppedIs
<1> HIDE DEF n
<1>2. \A i \in DOMAIN n : i > 1 => n[i].flow.kind = "seq"
  BY <1>1 DEF StackOK
<1>3. StackOK(n) /\ n # <<>>
  BY <1>1, <1>2 DEF StackOK
<1> QED
  BY <1>3 DEF n

\* A flow returns a State.
LEMMA ReturnStands ==
  ASSUME StandOK, stack # <<>>, NEW s, StateOK(s), Return(s)
  PROVE  StandOK' /\ AskOK' /\ pc' \in {"run", "done"}
<1>1. st' = s /\ pc' \in {"run", "done"} /\ StackOK(stack) /\ (stack' = <<>> <=> pc' = "done") /\ StackOK(stack')
  <2>1. CASE Len(stack) = 1
    BY <2>1 DEF Return, StandOK, StackOK
  <2>2. CASE Len(stack) # 1
    BY <2>2, TopPopped DEF Return, StandOK, Popped
  <2> QED
    BY <2>1, <2>2
<1>2. StateOK(st')
  BY <1>1
<1> QED
  BY <1>1, <1>2 DEF StandOK, AskOK, StackOK, StateOK

\* A flow fails.
LEMMA FailStands ==
  ASSUME StandOK, Fail
  PROVE  StandOK' /\ AskOK' /\ pc' = "failed"
BY DEF Fail, StandOK, AskOK, StackOK, StateOK

\* A flow hands on to a part of it.
LEMMA DescendStands ==
  ASSUME StandOK, stack # <<>>, NEW x \in Frames, Descend(x)
  PROVE  StandOK' /\ AskOK' /\ pc' = "run"
<1>1. StackOK(stack') /\ stack' # <<>>
  BY TopReplaced DEF Descend, StandOK
<1> QED
  BY <1>1 DEF Descend, StandOK, AskOK, StackOK, StateOK

\* A pass begins.
LEMMA BeginStands ==
  ASSUME StandOK, NEW kind, NEW f \in Flows, NEW run \in Runs \cup {Fresh}, NEW live \in BOOLEAN,
         NEW said \in Chats, NEW depth, NEW lineage, Begin(kind, f, run, live, said, depth, lineage)
  PROVE  /\ StandOK' /\ AskOK' /\ pc' = "run"
         /\ DOMAIN pass' = PassFields /\ pass'.run \in Runs \cup {Fresh} /\ pass'.stream \in BOOLEAN
<1> DEFINE x == [Frame(f) EXCEPT !.sink = live]
<1>1. x \in Frames
  <2>1. x = [flow |-> f, path |-> <<>>, pos |-> 1, sink |-> live, cp |-> "none", scope |-> None]
    BY DEF Frame
  <2>2. <<>> \in Paths /\ None \in Specs
    BY EmptySeq, RequestAssumption DEF Paths
  <2> HIDE DEF x
  <2> QED
    BY <2>1, <2>2 DEF Frames
<1> HIDE DEF x
<1>2. stack' = <<x>> /\ pc' = "run" /\ st' = [NoState EXCEPT !.chat = said, !.seed = Len(said)]
  BY DEF Begin, x
<1>3. StackOK(stack') /\ stack' # <<>>
  BY <1>1, <1>2 DEF StackOK
<1>4. StateOK(st')
  BY <1>2 DEF StateOK, NoState, Chats
<1>5. DOMAIN pass' = PassFields /\ pass'.run = run /\ pass'.stream = live
  BY DEF Begin, Idle, PassFields
<1> QED
  BY <1>2, <1>3, <1>4, <1>5 DEF StandOK, AskOK

\* A set of numbers has a least member.
LEMMA Least ==
  ASSUME NEW S \in SUBSET Nat, S # {}
  PROVE  \E k \in S : \A j \in S : k <= j
<1>1. PICK k \in S : \A j \in S : ~(<<j, k>> \in OpToRel(<, Nat))
  BY NatLessThanWellFounded, WFMin, Zenon
<1>2. ASSUME NEW j \in S PROVE k <= j
  <2>1. <<j, k>> \notin OpToRel(<, Nat)
    BY <1>1, Zenon
  <2>2. j \in Nat /\ k \in Nat
    OBVIOUS
  <2>3. ~(j < k)
    BY <2>1, <2>2, Zenon DEF OpToRel
  <2> QED
    BY <2>2, <2>3
<1> QED
  BY <1>2

\* Induction over the naturals, for a set of them.
LEMMA Induction ==
  ASSUME NEW S, 0 \in S, \A n \in Nat : n \in S => n + 1 \in S
  PROVE  Nat \subseteq S
<1> SUFFICES ASSUME ~(Nat \subseteq S) PROVE FALSE
  OBVIOUS
<1>1. PICK k \in Nat \ S : \A j \in Nat \ S : k <= j
  <2>1. Nat \ S # {} /\ Nat \ S \in SUBSET Nat
    OBVIOUS
  <2> QED
    BY <2>1, Least
<1>2. k # 0 /\ k - 1 \in Nat
  BY <1>1
<1>3. k - 1 \in S
  BY <1>1, <1>2
<1> QED
  BY <1>1, <1>2, <1>3


-----------------------------------------------------------------------------
(* What the agents of a leaf say together. *)

\* f gathers the replies of q: all of them, those up to the k-th, and those by a choice.
Gathers(f, q)    == f = [n \in Nat |-> IF n = 0 THEN <<>> ELSE f[n - 1] \o q[n].said]
Upto(k, f, q)    == f = [n \in 0..k |-> IF n = 0 THEN <<>> ELSE f[n - 1] \o q[n].said]
Gathered(k, q)   == (CHOOSE f : Upto(k, f, q))[k]

\* There is a gathering up to every place.
LEMMA UptoExists ==
  ASSUME NEW q, NEW k \in Nat
  PROVE  \E f : Upto(k, f, q)
<1> DEFINE S == {n \in Nat : \E f : Upto(n, f, q)}
<1>1. 0 \in S
  <2>1. Upto(0, [n \in 0..0 |-> <<>>], q)
    BY DEF Upto
  <2> QED
    BY <2>1
<1>2. ASSUME NEW n \in Nat, n \in S PROVE n + 1 \in S
  <2>1. PICK f : Upto(n, f, q)
    BY <1>2
  <2> DEFINE h == [j \in 0..n + 1 |-> IF j = n + 1 THEN f[n] \o q[n + 1].said ELSE f[j]]
  <2>2. ASSUME NEW j \in 0..n + 1
        PROVE  h[j] = IF j = 0 THEN <<>> ELSE h[j - 1] \o q[j].said
    <3>1. CASE j = n + 1
      <4>1. j # 0 /\ j - 1 = n /\ n \in 0..n + 1 /\ n # n + 1
        BY <3>1
      <4>2. h[j] = f[n] \o q[j].said /\ h[n] = f[n]
        BY <3>1, <4>1
      <4> HIDE DEF h
      <4> QED
        BY <4>1, <4>2
    <3>2. CASE j \in 0..n
      <4>1. h[j] = f[j] /\ (j # 0 => h[j - 1] = f[j - 1])
        BY <3>2
      <4>2. f[j] = IF j = 0 THEN <<>> ELSE f[j - 1] \o q[j].said
        BY <2>1, <3>2 DEF Upto
      <4> QED
        BY <4>1, <4>2
    <3> QED
      BY <3>1, <3>2
  <2>3. h = [j \in 0..n + 1 |-> h[j]]
    OBVIOUS
  <2> HIDE DEF h
  <2>4. Upto(n + 1, h, q)
    BY <2>2, <2>3 DEF Upto
  <2> QED
    BY <2>4
<1> HIDE DEF S
<1>3. k \in S
  BY <1>1, <1>2, Induction
<1> QED
  BY <1>3 DEF S

\* Two gatherings agree as far as both go.
LEMMA UptoAgree ==
  ASSUME NEW q, NEW m \in Nat, NEW k \in Nat, NEW f, NEW g, Upto(m, f, q), Upto(k, g, q),
         NEW j \in Nat, j <= m, j <= k
  PROVE  f[j] = g[j]
<1> DEFINE S == {n \in Nat : n <= m /\ n <= k => f[n] = g[n]}
<1>1. 0 \in S
  BY DEF Upto
<1>2. ASSUME NEW n \in Nat, n \in S PROVE n + 1 \in S
  <2> SUFFICES ASSUME n + 1 <= m, n + 1 <= k PROVE f[n + 1] = g[n + 1]
    OBVIOUS
  <2>1. f[n] = g[n]
    BY <1>2
  <2>2. n + 1 \in 0..m /\ n + 1 \in 0..k /\ n + 1 # 0 /\ (n + 1) - 1 = n
    OBVIOUS
  <2>3. f[n + 1] = f[n] \o q[n + 1].said
    BY <2>2 DEF Upto
  <2>4. g[n + 1] = g[n] \o q[n + 1].said
    BY <2>2 DEF Upto
  <2> QED
    BY <2>1, <2>3, <2>4
<1> HIDE DEF S
<1>3. j \in S
  BY <1>1, <1>2, Induction
<1> QED
  BY <1>3 DEF S

\* So there is a gathering of the whole.
LEMMA GathersExists ==
  ASSUME NEW q
  PROVE  \E f : Gathers(f, q)
<1> DEFINE h == [n \in Nat |-> Gathered(n, q)]
<1>1. ASSUME NEW n \in Nat
      PROVE  h[n] = IF n = 0 THEN <<>> ELSE h[n - 1] \o q[n].said
  <2>1. PICK f : Upto(n, f, q) /\ f[n] = Gathered(n, q)
    BY UptoExists, Zenon DEF Gathered
  <2>2. f[n] = IF n = 0 THEN <<>> ELSE f[n - 1] \o q[n].said
    BY <2>1 DEF Upto
  <2>3. ASSUME n # 0 PROVE f[n - 1] = h[n - 1]
    <3>1. n - 1 \in Nat /\ n - 1 <= n /\ n - 1 <= n - 1
      BY <2>3
    <3>2. PICK g : Upto(n - 1, g, q) /\ g[n - 1] = Gathered(n - 1, q)
      BY <3>1, UptoExists, Zenon DEF Gathered
    <3>3. f[n - 1] = g[n - 1]
      BY <2>1, <3>1, <3>2, UptoAgree
    <3> QED
      BY <3>1, <3>2, <3>3
  <2> QED
    BY <2>1, <2>2, <2>3
<1>2. h = [n \in Nat |-> h[n]]
  OBVIOUS
<1> HIDE DEF h
<1> QED
  BY <1>1, <1>2 DEF Gathers

\* The replies of a leaf, one after the other, are a conversation.
LEMMA SpokenTyped ==
  ASSUME NEW k \in Nat, \A i \in 1..k : replies[i].said \in Chats
  PROVE  Spoken[k] \in Chats
<1>1. Gathers(Spoken, replies)
  BY GathersExists DEF Spoken, Gathers
<1> HIDE DEF Spoken
<1> DEFINE S == {n \in Nat : n <= k => Spoken[n] \in Chats}
<1>2. 0 \in S
  BY <1>1 DEF Gathers, Chats
<1>3. ASSUME NEW n \in Nat, n \in S PROVE n + 1 \in S
  <2> SUFFICES ASSUME n + 1 <= k PROVE Spoken[n + 1] \in Chats
    OBVIOUS
  <2>1. Spoken[n] \in Chats /\ replies[n + 1].said \in Chats
    BY <1>3
  <2>2. Spoken[n + 1] = Spoken[n] \o replies[n + 1].said
    <3>1. n + 1 \in Nat /\ n + 1 # 0 /\ (n + 1) - 1 = n
      OBVIOUS
    <3>2. \A j \in Nat : Spoken[j] = IF j = 0 THEN <<>> ELSE Spoken[j - 1] \o replies[j].said
      BY <1>1 DEF Gathers
    <3> QED
      BY <3>1, <3>2
  <2> QED
    BY <2>1, <2>2, ConcatProperties DEF Chats
<1> HIDE DEF S
<1>4. k \in S
  BY <1>2, <1>3, Induction
<1> QED
  BY <1>4 DEF S

-----------------------------------------------------------------------------
(* Every step keeps the types. *)

\* Faults are counted, up to the bound.
LEMMA FaultsCounted ==
  ASSUME faults \in 0..MaxFaults, Fault \/ faults' = faults
  PROVE  faults' \in 0..MaxFaults
BY RequestAssumption DEF Fault

\* The pass and the process stay, but for marks.
LEMMA ProcessKept ==
  ASSUME ProcessOK,
         \/ pass' = pass
         \/ \E b : pass' = [pass EXCEPT !.over = b] \/ pass' = [pass EXCEPT !.mixed = b],
         binary' = binary, boot' = boot, passes' = passes,
         Fault \/ faults' = faults,
         pc' # "down" => pc # "down"
  PROVE  ProcessOK'
<1>1. DOMAIN pass' = PassFields /\ pass'.run \in Runs \cup {Fresh} /\ pass'.stream \in BOOLEAN
  BY DEF ProcessOK, PassFields
<1>2. faults' \in 0..MaxFaults
  BY FaultsCounted DEF ProcessOK
<1> QED
  BY <1>1, <1>2 DEF ProcessOK

\* What is kept stays, or is lost.
LEMMA KeptKept ==
  ASSUME KeptOK, saved' = saved, current' \subseteq current, jobs' \subseteq jobs,
         registered' = registered \/ registered' = <<>>, hooks' = hooks \/ hooks' = <<>>,
         asks' = asks
  PROVE  KeptOK'
BY DEF KeptOK

\* The innermost flow is marked as durable.
LEMMA MarkStands ==
  ASSUME StandOK, pc = "run", NEW c \in {"live", "stale"},
         stack' = [stack EXCEPT ![1].cp = c], st' = st, pc' = "armed"
  PROVE  StandOK' /\ AskOK'
<1>1. /\ stack # <<>> /\ Len(stack) \in Nat \ {0} /\ DOMAIN stack = 1..Len(stack) /\ stack[1] \in Frames
      /\ StackOK(stack)
  BY TopIs DEF Top
<1>2. [stack[1] EXCEPT !.cp = c] \in Frames /\ [stack[1] EXCEPT !.cp = c].flow = stack[1].flow
  BY <1>1 DEF Frames
<1>3. stack' = [stack EXCEPT ![1] = [stack[1] EXCEPT !.cp = c]]
  OBVIOUS
<1>4. stack' \in Seq(Frames) /\ DOMAIN stack' = DOMAIN stack /\ Len(stack') = Len(stack)
      /\ \A i \in DOMAIN stack : i > 1 => stack'[i] = stack[i]
  BY <1>1, <1>2, <1>3 DEF StackOK
<1>5. StackOK(stack') /\ stack' # <<>>
  BY <1>1, <1>4 DEF StackOK
<1> QED
  BY <1>5 DEF StandOK, AskOK, StateOK

\* Types: a Durable is entered.
LEMMA ActivateTypes ==
  ASSUME TypeInv, ActivateDurable
  PROVE  TypeInv'
<1> USE DEF TypeInv, ActivateDurable, process
<1>1. StandOK' /\ AskOK'
  <2>1. \E c \in {"live", "stale"} : stack' = [stack EXCEPT ![1].cp = c]
    BY DEF Live, Stale
  <2>2. pc = "run" /\ st' = st /\ pc' = "armed"
    OBVIOUS
  <2> QED
    BY <2>1, <2>2, MarkStands
<1>2. KeptOK'
  <2>1. current' \subseteq current
    BY DEF Live, Stale
  <2> QED
    BY <2>1, KeptKept
<1>3. ProcessOK'
  <2>1. pass' = pass \/ \E b : pass' = [pass EXCEPT !.over = b]
    BY DEF Live, Stale
  <2>2. Fault \/ faults' = faults
    BY DEF StoreOK, StoreFails
  <2> QED
    BY <2>1, <2>2, ProcessKept
<1> QED
  BY <1>1, <1>2, <1>3

\* Types: a leaf is read back, or is to be asked.
LEMMA LoadTypes ==
  ASSUME TypeInv, Load \/ Miss \/ Save
  PROVE  TypeInv'
<1> USE DEF TypeInv
<1>1. stack # <<>> /\ StateOK(st)
  BY TopIs DEF Load, Miss, Save, Ready
<1>2. StandOK' /\ AskOK' /\ pc' # "down" /\ pc # "down"
  <2>1. CASE Load
    <3>1. StateOK(saved[Key]) /\ Return(saved[Key])
      BY <2>1 DEF Load, KeptOK
    <3> QED
      BY <1>1, <2>1, <3>1, ReturnStands DEF Load, Ready
  <2>2. CASE Miss
    <3>1. pc' = "ask" /\ UNCHANGED <<stack, st>> /\ pc \in {"run", "armed"} /\ Top.flow.kind = "basic"
          /\ replies' = [i \in DOMAIN Top.flow.agents |-> NotYet]
      BY <2>2 DEF Miss, Ready
    <3>2. AskOK'
      BY <3>1 DEF AskOK, Top, NotYet
    <3> QED
      BY <3>1, <3>2 DEF StandOK, StackOK, StateOK
  <2>3. CASE Save
    BY <1>1, <2>3, ReturnStands DEF Save
  <2> QED
    BY <2>1, <2>2, <2>3
<1>3. KeptOK'
  <2>1. CASE Load \/ Miss
    BY <2>1, KeptKept DEF Load, Miss, store, process, history
  <2>2. CASE Save
    <3>1. UNCHANGED <<jobs, registered, hooks, asks>>
      BY <2>2 DEF Save, process
    <3>2. \/ UNCHANGED <<saved, current>>
          \/ saved' = Write(saved, Key, st) /\ current' = current \cup {Key}
      BY <2>2 DEF Save
    <3>3. /\ \A k \in DOMAIN saved' : StateOK(saved'[k])
          /\ current' \subseteq DOMAIN saved'
      BY <1>1, <3>2 DEF KeptOK, Write
    <3> QED
      BY <3>1, <3>3 DEF KeptOK
  <2> QED
    BY <2>1, <2>2
<1>4. ProcessOK'
  <2>1. UNCHANGED <<pass, binary, boot, passes>> /\ (Fault \/ faults' = faults)
    BY DEF Load, Miss, Save, StoreOK, StoreFails, process, bounds
  <2> QED
    BY <1>2, <2>1, ProcessKept
<1> QED
  BY <1>2, <1>3, <1>4

\* What an agent says is a message.
LEMMA SaidIs ==
  ASSUME TypeInv, pc = "ask", NEW i \in DOMAIN replies
  PROVE  <<Said(i)>> \in Chats /\ <<>> \in Chats
<1>1. Top.flow \in Flows /\ Top.flow.kind = "basic" /\ i \in DOMAIN Top.flow.agents
  BY TopIs DEF TypeInv, AskOK
<1>2. i \in Nat
  BY <1>1, FlowsAssumption
<1>3. Top.flow.id \in Bodies
  BY <1>1 DEF Bodies
<1>4. asks[Top.flow.id] + 1 \in Nat
  BY <1>3 DEF TypeInv, KeptOK
<1>5. Said(i) \in Msg
  BY <1>2, <1>3, <1>4 DEF Said, Msg
<1> QED
  BY <1>5 DEF Chats

\* Types: an agent fails, streams or replies.
LEMMA ReplyTypes ==
  ASSUME TypeInv, NEW i \in DOMAIN replies, NEW x,
         AgentFails(i) \/ Streams(x) \/ (\E silent \in BOOLEAN : Reply(i, x, silent))
  PROVE  TypeInv'
<1> USE DEF TypeInv
<1>1. CASE AgentFails(i)
  <2>1. StandOK' /\ AskOK' /\ pc' = "failed" /\ pc # "down"
    BY <1>1, FailStands DEF AgentFails
  <2>2. KeptOK'
    BY <1>1, KeptKept DEF AgentFails, store, process
  <2>3. ProcessOK'
    BY <1>1, <2>1, ProcessKept DEF AgentFails, process
  <2> QED
    BY <2>1, <2>2, <2>3
<1>2. CASE Streams(x)
  <2>1. UNCHANGED <<stack, st, pc>> /\ pc = "ask" /\ DOMAIN replies = {1}
        /\ replies' = <<[said |-> <<Said(1)>>, sel |-> x]>>
    BY <1>2 DEF Streams
  <2>2. <<Said(1)>> \in Chats
    BY <2>1, SaidIs
  <2>3. AskOK'
    BY <2>1, <2>2 DEF AskOK, Top, NotYet
  <2>4. StandOK'
    BY <2>1 DEF StandOK, StackOK, StateOK
  <2>5. KeptOK'
    BY <1>2, KeptKept DEF Streams, store, process, history
  <2>6. ProcessOK'
    BY <1>2, ProcessKept DEF Streams, process, bounds
  <2> QED
    BY <2>3, <2>4, <2>5, <2>6
<1>3. ASSUME NEW silent \in BOOLEAN, Reply(i, x, silent) PROVE TypeInv'
  <2> DEFINE said == IF silent THEN <<>> ELSE <<Said(i)>>
  <2>1. UNCHANGED <<stack, st, pc>> /\ pc = "ask"
        /\ replies' = [replies EXCEPT ![i] = [said |-> said, sel |-> x]]
    BY <1>3 DEF Reply
  <2>2. said \in Chats
    BY <2>1, SaidIs
  <2> HIDE DEF said
  <2>3. AskOK'
    <3>1. DOMAIN replies' = DOMAIN replies /\ \A j \in DOMAIN replies : j # i => replies'[j] = replies[j]
      BY <2>1
    <3>2. replies'[i].said = said
      BY <2>1
    <3> QED
      BY <2>1, <2>2, <3>1, <3>2 DEF AskOK, Top
  <2>4. StandOK'
    BY <2>1 DEF StandOK, StackOK, StateOK
  <2>5. KeptOK'
    BY <1>3, KeptKept DEF Reply, store, process, history
  <2>6. ProcessOK'
    BY <1>3, ProcessKept DEF Reply, process, bounds
  <2> QED
    BY <2>3, <2>4, <2>5, <2>6
<1> QED
  BY <1>1, <1>2, <1>3

\* Types: the replies of a leaf are merged and saved.
LEMMA CollectTypes ==
  ASSUME TypeInv, SelectConflict \/ Collect
  PROVE  TypeInv'
<1> USE DEF TypeInv
<1>1. CASE SelectConflict
  <2>1. StandOK' /\ AskOK' /\ pc' = "failed" /\ pc # "down"
    BY <1>1, FailStands DEF SelectConflict
  <2>2. KeptOK'
    BY <1>1, KeptKept DEF SelectConflict, store, process
  <2>3. ProcessOK'
    BY <1>1, <2>1, ProcessKept DEF SelectConflict, process, bounds
  <2> QED
    BY <2>1, <2>2, <2>3
<1>2. CASE Collect
  <2> DEFINE more == Spoken[Len(replies)]
  <2>1. pc = "ask" /\ Answered = DOMAIN replies /\ pc' = "save" /\ stack' = stack
    BY <1>2 DEF Collect
  <2>2. Top.flow \in Flows /\ Top.flow.kind = "basic" /\ DOMAIN replies = DOMAIN Top.flow.agents
    BY <2>1, TopIs DEF AskOK
  <2>3. Len(replies) \in Nat /\ DOMAIN replies = 1..Len(replies)
    <3>1. Top.flow.agents \in Seq(Positions(Top.flow.agents))
      BY <2>2, FlowsAssumption
    <3>2. Len(Top.flow.agents) \in Nat /\ DOMAIN replies = 1..Len(Top.flow.agents)
      BY <2>2, <3>1, LenProperties
    <3> QED
      BY <3>2
  <2>4. \A i \in 1..Len(replies) : replies[i].said \in Chats
    BY <2>1, <2>3 DEF AskOK, Answered
  <2>5. more \in Chats
    BY <2>3, <2>4, SpokenTyped
  <2>6. \E x : st' = [st EXCEPT !.chat = st.chat \o more, !.sel = x]
    BY <1>2 DEF Collect
  <2> HIDE DEF more
  <2>7. StateOK(st')
    <3>1. StateOK(st)
      BY DEF StandOK
    <3>2. st.chat \o more \in Chats /\ Len(st.chat \o more) >= Len(st.chat) /\ Len(st.chat) \in Nat
          /\ Len(st.chat \o more) \in Nat
      BY <2>5, <3>1, ConcatProperties, LenProperties DEF StateOK, Chats
    <3>3. st'.chat = st.chat \o more /\ st'.seed = st.seed /\ st'.sent = st.sent
          /\ DOMAIN st' = DOMAIN st
      BY <2>6, <3>1 DEF StateOK
    <3> QED
      BY <3>1, <3>2, <3>3 DEF StateOK
  <2>8. StandOK' /\ AskOK'
    BY <2>1, <2>7 DEF StandOK, StackOK, AskOK, StateOK
  <2>9. KeptOK'
    <3>1. UNCHANGED <<saved, current, jobs, registered, hooks>>
          /\ asks' = [asks EXCEPT ![Top.flow.id] = @ + 1]
      BY <1>2 DEF Collect, store, process
    <3>2. Top.flow.id \in Bodies
      BY <2>2 DEF Bodies
    <3>3. asks' \in [Bodies -> Nat]
      BY <3>1, <3>2 DEF KeptOK
    <3> QED
      BY <3>1, <3>3 DEF KeptOK
  <2>10. ProcessOK'
    BY <1>2, <2>1, ProcessKept DEF Collect, process, bounds
  <2> QED
    BY <2>8, <2>9, <2>10
<1> QED
  BY <1>1, <1>2

\* Actions that leave what is kept, and the process, alone.
LEMMA WalkedOn ==
  ASSUME TypeInv, StandOK', AskOK', pc # "down",
         \/ pass' = pass
         \/ \E b : pass' = [pass EXCEPT !.mixed = b],
         UNCHANGED <<saved, jobs, binary, boot, registered, hooks, asks, current, passes>>,
         Fault \/ faults' = faults
  PROVE  TypeInv'
<1>1. KeptOK'
  BY KeptKept DEF TypeInv
<1>2. ProcessOK'
  BY ProcessKept DEF TypeInv
<1> QED
  BY <1>1, <1>2 DEF TypeInv

\* Types: the flows that hold others.
LEMMA HolderTypes ==
  ASSUME TypeInv,
         EnterDecorated \/ SeqStep \/ SeqEnds \/ SelectNone \/ SelectEnter \/ UnknownSelect \/ NotifySends
           \/ BareTrigger \/ NothingToDefer \/ DeferFails
  PROVE  TypeInv'
<1>1. /\ pc \in {"run", "armed"} /\ stack # <<>> /\ StackOK(stack) /\ StateOK(st)
      /\ Top \in Frames /\ Top.flow \in Flows /\ StandOK
  <2>1. pc \in {"run", "armed"}
    BY DEF EnterDecorated, SeqStep, SeqEnds, SelectNone, SelectEnter, UnknownSelect, NotifySends,
           BareTrigger, NothingToDefer, DeferFails, Splits, SeqAt, Ready
  <2> QED
    BY <2>1, TopIs DEF TypeInv
<1>2. \A i \in DOMAIN Top.flow.kids : Top.flow.kids[i] \in Flows /\ i \in Nat
  BY <1>1, FlowsAssumption
<1>3. StandOK' /\ AskOK'
  <2>1. CASE EnterDecorated
    <3> DEFINE x == [Top EXCEPT !.flow = Top.flow.kids[1],
                                !.scope = IF Top.flow.model = None THEN @ ELSE Top.flow.model]
    <3>1. Top.flow.kids[1] \in Flows /\ Top.flow.model \in Specs
      <4>1. Top.flow.kids \in Seq(Flows) /\ Top.flow.kids # <<>> /\ Top.flow.model \in Specs
        BY <1>1, <2>1, FlowsAssumption DEF EnterDecorated, Ready
      <4> QED
        BY <4>1
    <3>2. x \in Frames
      BY <1>1, <3>1 DEF Frames
    <3>3. Descend(x)
      BY <2>1 DEF EnterDecorated
    <3> HIDE DEF x
    <3> QED
      BY <1>1, <3>2, <3>3, DescendStands
  <2>2. CASE SeqStep
    <3>1. PICK s \in BOOLEAN :
            stack' = <<[Top EXCEPT !.flow = Top.flow.kids[Top.pos], !.path = Append(@, Top.pos), !.pos = 1,
                                   !.sink = s]>> \o stack
      <4>1. Top.sink \in BOOLEAN
        BY <1>1 DEF Frames
      <4> QED
        BY <2>2, <4>1 DEF SeqStep
    <3> DEFINE x == [Top EXCEPT !.flow = Top.flow.kids[Top.pos], !.path = Append(@, Top.pos), !.pos = 1,
                                !.sink = s]
    <3>2. x \in Frames
      <4>1. Append(Top.path, Top.pos) \in Paths
        BY <1>1 DEF Frames, Paths
      <4>2. Top.flow.kids[Top.pos] \in Flows
        BY <1>2, <2>2 DEF SeqStep, SeqAt
      <4> QED
        BY <1>1, <4>1, <4>2 DEF Frames
    <3> HIDE DEF x
    <3>3. stack' = <<x>> \o stack /\ stack[1].flow.kind = "seq" /\ pc' = "run" /\ st' = st
      BY <2>2, <3>1 DEF x, SeqStep, SeqAt, Ready, Top
    <3>4. StackOK(stack') /\ stack' # <<>>
      BY <1>1, <3>2, <3>3, TopPushed
    <3> QED
      BY <1>1, <3>3, <3>4 DEF StandOK, AskOK, StateOK
  <2>3. CASE SeqEnds \/ SelectNone \/ BareTrigger \/ NothingToDefer
    <3>1. Return(st)
      BY <2>3 DEF SeqEnds, SelectNone, BareTrigger, NothingToDefer
    <3> QED
      BY <1>1, <3>1, ReturnStands
  <2>4. CASE SelectEnter
    <3>1. PICK i \in DOMAIN Top.flow.kids :
            /\ Top.flow.kids[i].id = st.sel
            /\ stack' = <<[Top EXCEPT !.flow = Top.flow.kids[i], !.path = Append(@, st.sel)]>> \o Tail(stack)
      BY <2>4 DEF SelectEnter
    <3> DEFINE x == [Top EXCEPT !.flow = Top.flow.kids[i], !.path = Append(@, st.sel)]
    <3>2. x \in Frames
      <4>1. st.sel \in {f.id : f \in Flows}
        BY <1>2, <3>1
      <4>2. Append(Top.path, st.sel) \in Paths
        BY <1>1, <4>1 DEF Frames, Paths
      <4> QED
        BY <1>1, <1>2, <4>2 DEF Frames
    <3> HIDE DEF x
    <3>3. stack' = <<x>> \o Tail(stack) /\ pc' = "run" /\ st' = [st EXCEPT !.sel = None]
      BY <2>4, <3>1 DEF x, SelectEnter
    <3>4. StackOK(stack') /\ stack' # <<>>
      BY <1>1, <3>2, <3>3, TopReplaced
    <3>5. StateOK(st')
      BY <1>1, <3>3 DEF StateOK
    <3> QED
      BY <1>1, <3>3, <3>4, <3>5 DEF StandOK, AskOK
  <2>5. CASE UnknownSelect \/ DeferFails
    BY <1>1, <2>5, FailStands DEF UnknownSelect, DeferFails
  <2>6. CASE NotifySends
    BY <1>1, <2>6, FailStands, ReturnStands DEF NotifySends
  <2> QED
    BY <2>1, <2>2, <2>3, <2>4, <2>5, <2>6
<1>4. pass' = pass /\ UNCHANGED <<saved, jobs, binary, boot, registered, hooks, asks, current, passes>>
  BY DEF EnterDecorated, SeqStep, SeqEnds, SelectNone, SelectEnter, UnknownSelect, NotifySends,
         BareTrigger, NothingToDefer, DeferFails, store, process, history, bounds
<1>5. Fault \/ faults' = faults
  BY DEF EnterDecorated, SeqStep, SeqEnds, SelectNone, SelectEnter, UnknownSelect, NotifySends,
         BareTrigger, NothingToDefer, DeferFails, bounds
<1> QED
  BY <1>1, <1>3, <1>4, <1>5, WalkedOn

\* Types: Respond.
LEMMA RespondTypes ==
  ASSUME TypeInv, RespondRuns
  PROVE  TypeInv'
<1> DEFINE s == [st EXCEPT !.sent = Len(st.chat)]
<1>1. stack # <<>> /\ StateOK(st) /\ StandOK /\ pc # "down"
  BY TopIs DEF TypeInv, RespondRuns, Ready
<1>2. StateOK(s)
  BY <1>1 DEF StateOK, Chats
<1>3. Return(s)
  BY DEF RespondRuns
<1> HIDE DEF s
<1>4. StandOK' /\ AskOK'
  BY <1>1, <1>2, <1>3, ReturnStands
<1>5. \E b : pass' = [pass EXCEPT !.mixed = b]
  BY DEF RespondRuns
<1>6. UNCHANGED <<saved, jobs, binary, boot, registered, hooks, asks, current, passes>> /\ faults' = faults
  BY DEF RespondRuns, store, process, history, bounds
<1> QED
  BY <1>1, <1>4, <1>5, <1>6, WalkedOn

\* Types: triggers and webhooks.
LEMMA DeferTypes ==
  ASSUME TypeInv, DeferBody \/ RegisterWebhook
  PROVE  TypeInv'
<1>1. /\ pc \in {"run", "armed"} /\ Top.flow \in Flows /\ Top \in Frames /\ Top.flow.kind = "seq"
      /\ Rest # <<>> /\ stack # <<>> /\ StateOK(st) /\ StandOK /\ pc # "down"
  <2>1. pc \in {"run", "armed"} /\ Top.flow.kind = "seq" /\ Rest # <<>>
    BY DEF DeferBody, RegisterWebhook, Splits, SeqAt, Ready
  <2> QED
    BY <2>1, TopIs DEF TypeInv
<1>2. StandOK' /\ AskOK'
  BY <1>1, ReturnStands DEF DeferBody, RegisterWebhook
<1>3. seqOf(Rest) \in Flows
  <2> DEFINE q == Top.flow.kids
  <2>1. q \in Seq(Flows) /\ Top.pos \in Nat
    BY <1>1, FlowsAssumption DEF Frames
  <2>2. Top.pos + 1 \in DOMAIN q
    <3>1. Len(q) \in Nat /\ DOMAIN q = 1..Len(q)
      BY <2>1
    <3> SUFFICES ASSUME Len(q) < Top.pos + 1 PROVE FALSE
      BY <2>1, <3>1
    <3>2. SubSeq(q, Top.pos + 1, Len(q)) = <<>>
      BY <2>1, <3>1, SubSeqEmpty
    <3> QED
      BY <1>1, <3>2 DEF Rest
  <2> QED
    BY <1>1, <2>2, FlowsAssumption DEF Rest
<1>4. st.chat \in Chats
  BY <1>1 DEF StateOK
<1>5. KeptOK'
  <2>1. UNCHANGED <<saved, current, asks>>
    BY DEF DeferBody, RegisterWebhook, store, history
  <2>2. \A j \in jobs' : j.chat \in Chats
    <3>1. jobs' = jobs \/ \E j : j.chat = st.chat /\ jobs' = jobs \cup {j}
      <4>1. CASE DeferBody
        <5> DEFINE j == [id |-> idsOf(Rest)[1], chat |-> st.chat, depth |-> pass.depth + 1,
                         lineage |-> pass.lineage + 1]
        <5>1. jobs' = jobs \cup {j} /\ j.chat = st.chat
          BY <4>1 DEF DeferBody
        <5> HIDE DEF j
        <5> QED
          BY <5>1
      <4>2. CASE RegisterWebhook
        BY <4>2 DEF RegisterWebhook, store
      <4> QED
        BY <4>1, <4>2
    <3> QED
      BY <1>4, <3>1 DEF TypeInv, KeptOK
  <2>3. \A b \in DOMAIN registered' : registered'[b] \in Flows
    BY <1>3 DEF DeferBody, RegisterWebhook, Write, TypeInv, KeptOK
  <2>4. \A b \in DOMAIN hooks' : hooks'[b].body \in Flows /\ hooks'[b].chat \in Chats
    <3>1. CASE DeferBody
      BY <3>1 DEF DeferBody, TypeInv, KeptOK
    <3>2. CASE RegisterWebhook
      <4> DEFINE h == [body |-> seqOf(Rest), chat |-> st.chat, depth |-> pass.depth + 1,
                       lineage |-> pass.lineage + 1,
                       reply |-> \E i \in DOMAIN Rest : reachesRespond[Rest[i]]]
      <4>1. h.body = seqOf(Rest) /\ h.chat = st.chat
        OBVIOUS
      <4>2. hooks' = Write(hooks, Node.endpoint, h)
        BY <3>2 DEF RegisterWebhook
      <4> HIDE DEF h
      <4> QED
        BY <1>3, <1>4, <4>1, <4>2 DEF Write, TypeInv, KeptOK
    <3> QED
      BY <3>1, <3>2
  <2>5. \A k \in DOMAIN saved : StateOK(saved[k])
    BY DEF TypeInv, KeptOK
  <2> QED
    BY <2>1, <2>2, <2>3, <2>4, <2>5 DEF TypeInv, KeptOK
<1>6. ProcessOK'
  <2>1. UNCHANGED <<pass, binary, boot, passes>> /\ faults' = faults
    BY DEF DeferBody, RegisterWebhook, bounds, store
  <2> QED
    BY <1>1, <2>1, ProcessKept DEF TypeInv
<1> QED
  BY <1>2, <1>5, <1>6 DEF TypeInv

\* A pass is over.
LEMMA ClearStands ==
  ASSUME Clear, pc' \in {"down", "boot", "idle"}
  PROVE  /\ StandOK' /\ AskOK'
         /\ DOMAIN pass' = PassFields /\ pass'.run \in Runs \cup {Fresh} /\ pass'.stream \in BOOLEAN
BY DEF Clear, StandOK, AskOK, StackOK, StateOK, NoState, Chats, Idle, PassFields

\* Types: the process starts, boots, ends a pass or crashes.
LEMMA ServerTypes ==
  ASSUME TypeInv,
         (\E b \in DOMAIN Binaries : Deploy(b)) \/ RunAtStartup \/ Booted \/ Finish \/ Ended \/ Crash
  PROVE  TypeInv'
<1> USE DEF TypeInv
<1>1. ASSUME NEW b \in DOMAIN Binaries, Deploy(b) PROVE TypeInv'
  <2>1. /\ binary' = b /\ boot' = Binaries[b].boot /\ pc' = "boot" /\ pc = "down"
        /\ UNCHANGED <<saved, jobs, registered, hooks, pass, stack, st, replies, asks, current, passes, faults>>
    BY <1>1 DEF Deploy, store, history, bounds
  <2>2. boot' \in Seq(Chains)
    <3>1. Binaries[b].boot \in Seq(Positions(Binaries[b].boot)) /\ Positions(Binaries[b].boot) \subseteq Chains
      BY FlowsAssumption DEF Chains
    <3>2. \A i \in 1..Len(Binaries[b].boot) : Binaries[b].boot[i] \in Chains
      BY <3>1
    <3> QED
      BY <2>1, <3>1, <3>2
  <2>3. StandOK' /\ AskOK'
    BY <2>1 DEF StandOK, AskOK, StackOK, StateOK
  <2>4. KeptOK'
    BY <2>1, KeptKept
  <2>5. ProcessOK'
    BY <2>1, <2>2 DEF ProcessOK
  <2> QED
    BY <2>3, <2>4, <2>5
<1>2. CASE RunAtStartup
  <2>1. seqOf(Head(boot)) \in Flows /\ Tail(boot) \in Seq(Chains)
    <3>1. boot \in Seq(Chains) /\ boot # <<>>
      BY <1>2 DEF RunAtStartup, ProcessOK
    <3>2. Head(boot) \in Chains /\ Tail(boot) \in Seq(Chains)
      BY <3>1
    <3> QED
      BY <3>2, FlowsAssumption DEF Chains, Positions
  <2>2. Begin("boot", seqOf(Head(boot)), BootRun, FALSE, <<>>, 0, 0) /\ boot' = Tail(boot)
        /\ UNCHANGED <<saved, jobs, binary, registered, hooks, asks, current, passes, faults>> /\ pc # "down"
    BY <1>2 DEF RunAtStartup, store, history, bounds
  <2>3. <<>> \in Chats /\ BootRun \in Runs \cup {Fresh}
    BY DEF Chats, Runs
  <2>4. /\ StandOK' /\ AskOK' /\ pc' = "run"
        /\ DOMAIN pass' = PassFields /\ pass'.run \in Runs \cup {Fresh} /\ pass'.stream \in BOOLEAN
    BY <2>1, <2>2, <2>3, BeginStands
  <2>5. KeptOK'
    BY <2>2, KeptKept
  <2>6. ProcessOK'
    BY <2>1, <2>2, <2>4 DEF ProcessOK
  <2> QED
    BY <2>4, <2>5, <2>6
<1>3. CASE Booted \/ Finish
  <2>1. StandOK' /\ AskOK' /\ pc # "down"
    BY <1>3 DEF Booted, Finish, StandOK, AskOK, StackOK, StateOK
  <2>2. KeptOK'
    BY <1>3, KeptKept DEF Booted, Finish, store, process, history
  <2>3. ProcessOK'
    BY <1>3, <2>1, ProcessKept DEF Booted, Finish, process, bounds
  <2> QED
    BY <2>1, <2>2, <2>3
<1>4. CASE Ended \/ Crash
  <2>1. /\ Clear /\ pc' \in {"down", "boot", "idle"} /\ pc # "down"
        /\ UNCHANGED <<saved, jobs, binary, asks, current, passes>>
        /\ registered' = registered \/ registered' = <<>>
        /\ hooks' = hooks \/ hooks' = <<>>
        /\ boot' = boot \/ boot' = <<>>
        /\ Fault \/ faults' = faults
    <3>1. CASE Ended
      BY <3>1 DEF Ended, store, history, bounds
    <3>2. CASE Crash
      BY <3>2 DEF Crash, store
    <3> QED
      BY <1>4, <3>1, <3>2
  <2>2. /\ StandOK' /\ AskOK'
        /\ DOMAIN pass' = PassFields /\ pass'.run \in Runs \cup {Fresh} /\ pass'.stream \in BOOLEAN
    BY <2>1, ClearStands
  <2>3. KeptOK'
    BY <2>1, KeptKept
  <2>4. faults' \in 0..MaxFaults /\ boot' \in Seq(Chains)
    BY <2>1, FaultsCounted, EmptySeq DEF ProcessOK
  <2>5. binary' \in DOMAIN Binaries /\ passes' \in 0..MaxPasses
    BY <2>1 DEF ProcessOK
  <2>6. ProcessOK'
    BY <2>2, <2>4, <2>5 DEF ProcessOK
  <2> QED
    BY <2>2, <2>3, <2>6
<1> QED
  BY <1>1, <1>2, <1>3, <1>4

\* A pass that a client, a caller of a webhook or the engine begins.
LEMMA NewPassTypes ==
  ASSUME TypeInv, NewPass, NEW kind, NEW f \in Flows, NEW run \in Runs \cup {Fresh},
         NEW live \in BOOLEAN, NEW said \in Chats, NEW depth, NEW lineage,
         Begin(kind, f, run, live, said, depth, lineage), jobs' \subseteq jobs,
         UNCHANGED <<saved, binary, boot, registered, hooks, asks, current, faults>>
  PROVE  TypeInv'
<1>1. /\ StandOK' /\ AskOK' /\ pc' = "run"
      /\ DOMAIN pass' = PassFields /\ pass'.run \in Runs \cup {Fresh} /\ pass'.stream \in BOOLEAN
  BY BeginStands DEF TypeInv
<1>2. KeptOK'
  BY KeptKept DEF TypeInv
<1>3. passes' \in 0..MaxPasses /\ pc # "down"
  BY RequestAssumption DEF NewPass, TypeInv, ProcessOK
<1>4. ProcessOK'
  BY <1>1, <1>3 DEF TypeInv, ProcessOK
<1> QED
  BY <1>1, <1>2, <1>4 DEF TypeInv

\* Every step keeps the types.
LEMMA TypeStep == TypeInv /\ [Next]_vars => TypeInv'
<1> SUFFICES ASSUME TypeInv, [Next]_vars PROVE TypeInv'
  OBVIOUS
<1>1. CASE Walk
  <2>1. ASSUME NEW i \in DOMAIN replies,
               \/ AgentFails(i)
               \/ \E x \in Agents[i].exits \cup {None} :
                    Streams(x) \/ \E silent \in BOOLEAN : Reply(i, x, silent)
        PROVE  TypeInv'
    BY <2>1, ReplyTypes
  <2> QED
    BY <1>1, <2>1, ActivateTypes, LoadTypes, CollectTypes, HolderTypes, RespondTypes, DeferTypes,
       ServerTypes DEF Walk
<1>2. CASE (\E b \in DOMAIN Binaries : Deploy(b)) \/ Crash
  BY <1>2, ServerTypes
<1>3. ASSUME NEW r \in Clients, NEW live \in BOOLEAN, Serve(r, live) PROVE TypeInv'
  <2> DEFINE f == resolve(Running.entries, Running.extra, Wants[r])
  <2>1. f \in Flows
    <3>1. binary \in DOMAIN Binaries
      BY <1>3 DEF Serve, NewPass, TypeInv, ProcessOK
    <3> QED
      BY <3>1, FlowsAssumption DEF Running
  <2>2. <<User>> \in Chats /\ r \in Runs \cup {Fresh}
    BY DEF Chats, Msg, Runs
  <2>3. NewPass /\ Begin("request", f, r, live, <<User>>, 0, 0)
    BY <1>3 DEF Serve
  <2>4. jobs' \subseteq jobs /\ UNCHANGED <<saved, binary, boot, registered, hooks, asks, current, faults>>
    BY <1>3 DEF Serve, store, process, history
  <2> HIDE DEF f
  <2> QED
    BY <2>1, <2>2, <2>3, <2>4, NewPassTypes
<1>4. ASSUME NEW e \in DOMAIN hooks, CallHook(e) PROVE TypeInv'
  <2>1. hooks[e].body \in Flows /\ hooks[e].chat \in Chats
    BY DEF TypeInv, KeptOK
  <2>2. NewPass /\ \E kind : Begin(kind, hooks[e].body, Fresh, FALSE, hooks[e].chat, hooks[e].depth, hooks[e].lineage)
    BY <1>4 DEF CallHook
  <2>3. jobs' \subseteq jobs /\ UNCHANGED <<saved, binary, boot, registered, hooks, asks, current, faults>>
    BY <1>4 DEF CallHook, store, process, history
  <2> QED
    BY <2>1, <2>2, <2>3, NewPassTypes
<1>5. ASSUME NEW j \in jobs, FireJob(j) PROVE TypeInv'
  <2>1. registered[j.id] \in Flows /\ j.chat \in Chats
    BY <1>5 DEF FireJob, TypeInv, KeptOK
  <2>2. NewPass /\ Begin("job", registered[j.id], Fresh, FALSE, j.chat, j.depth, j.lineage)
    BY <1>5 DEF FireJob
  <2>3. jobs' \subseteq jobs /\ UNCHANGED <<saved, binary, boot, registered, hooks, asks, current, faults>>
    BY <1>5 DEF FireJob, process, history
  <2> QED
    BY <2>1, <2>2, <2>3, NewPassTypes
<1>6. CASE UNCHANGED vars
  <2>1. UNCHANGED <<saved, jobs, binary, boot, registered, hooks, pass, stack, st, pc, replies, asks, current,
                    passes, faults>>
    BY <1>6 DEF vars, store, process, walking, history, bounds
  <2>2. StandOK' /\ AskOK'
    BY <2>1 DEF TypeInv, StandOK, AskOK, StackOK, StateOK, Top
  <2>3. KeptOK' /\ ProcessOK'
    BY <2>1 DEF TypeInv, KeptOK, ProcessOK, StateOK
  <2> QED
    BY <2>2, <2>3 DEF TypeInv
<1> QED
  BY <1>1, <1>2, <1>3, <1>4, <1>5, <1>6 DEF Next

\* For every set of flows, binaries and clients: a pass stands where its stack says,
\* inside flows that are known, its marks lie in the conversation it threads, and
\* what it resumes from was saved.
THEOREM RequestTypes == Spec => []RequestTypeOK
<1>1. TypeInv /\ LineageInv => RequestTypeOK
  <2> SUFFICES ASSUME TypeInv, LineageInv PROVE RequestTypeOK
    OBVIOUS
  <2>1. \A i \in DOMAIN stack : stack[i].flow \in Flows /\ stack[i].cp \in {"none", "live", "stale"}
    <3>1. \A i \in DOMAIN stack : stack[i] \in Frames
      BY DEF TypeInv, StandOK, StackOK
    <3> QED
      BY <3>1 DEF Frames
  <2>2. pass.depth \in 0..MaxTriggerDepth
    BY RequestAssumption DEF LineageInv, Deep
  <2> QED
    BY <2>1, <2>2 DEF RequestTypeOK, TypeInv, StandOK, StackOK, AskOK, KeptOK, ProcessOK, StateOK
<1> QED
  BY <1>1, TypeInit, TypeStep, LineageInit, LineageStep, PTL DEF Spec

-----------------------------------------------------------------------------
(* The startup walk, for flows that are built of flows made before them.   *)

\* made numbers the flows in the order their builders made them.
BuiltUp(made) ==
  /\ made \in [Flows -> Nat]
  /\ \A f \in Flows : \A i \in DOMAIN f.kids : made[f.kids[i]] < made[f]

\* What the walk says of f, given what it says of the parts of f.
Walks(g, f, scope) ==
  CASE f.kind = "basic" -> \A i \in DOMAIN f.agents : validAgent(f.agents[i], f.model, scope)
    [] f.kind = "decorated" -> g[f.kids[1]][IF f.model = None THEN scope ELSE f.model]
    [] f.kind = "seq" ->
         \A i \in DOMAIN f.kids :
           /\ g[f.kids[i]][scope]
           /\ i + 1 \in DOMAIN f.kids => checkSelectAdjacency(f.kids[i], f.kids[i + 1])
    [] f.kind = "select" -> \A i \in DOMAIN f.kids : g[f.kids[i]][scope]
    [] OTHER -> TRUE

\* g is what the walk says of every flow.
Whole(g) == g = [f \in Flows |-> [scope \in Specs |-> Walks(g, f, scope)]]

\* g is what the walk says of the flows made before the k-th.
Part(made, k, g) == \A f \in Flows, scope \in Specs : made[f] < k => g[f][scope] = Walks(g, f, scope)

\* What the walk says of f depends on its parts only.
LEMMA WalksParts ==
  ASSUME NEW f \in Flows, NEW scope \in Specs, NEW g, NEW h,
         \A i \in DOMAIN f.kids, s \in Specs : g[f.kids[i]][s] = h[f.kids[i]][s]
  PROVE  Walks(g, f, scope) = Walks(h, f, scope)
<1>1. f.kids \in Seq(Flows) /\ f.model \in Specs /\ (f.kind = "decorated" => f.kids # <<>>)
  BY FlowsAssumption
<1>2. f.kind = "decorated" => 1 \in DOMAIN f.kids
  BY <1>1
<1>3. CASE f.kind = "basic"
  BY <1>3 DEF Walks
<1>4. CASE f.kind = "decorated"
  BY <1>1, <1>2, <1>4 DEF Walks
<1>5. CASE f.kind = "seq"
  BY <1>5 DEF Walks
<1>6. CASE f.kind = "select"
  BY <1>6 DEF Walks
<1>7. CASE f.kind \notin {"basic", "decorated", "seq", "select"}
  BY <1>7 DEF Walks
<1> QED
  BY <1>3, <1>4, <1>5, <1>6, <1>7

\* There is such a part for every k.
LEMMA PartExists ==
  ASSUME NEW made, BuiltUp(made), NEW k \in Nat
  PROVE  \E g : Part(made, k, g)
<1> DEFINE S == {n \in Nat : \E g : Part(made, n, g)}
<1>1. 0 \in S
  <2>1. Part(made, 0, [f \in Flows |-> [scope \in Specs |-> TRUE]])
    BY DEF Part, BuiltUp
  <2> QED
    BY <2>1
<1>2. ASSUME NEW n \in Nat, n \in S PROVE n + 1 \in S
  <2>1. PICK g : Part(made, n, g)
    BY <1>2
  <2> DEFINE h == [f \in Flows |-> [scope \in Specs |-> IF made[f] < n THEN g[f][scope] ELSE Walks(g, f, scope)]]
  <2>2. ASSUME NEW f \in Flows, NEW scope \in Specs, made[f] < n + 1
        PROVE  h[f][scope] = Walks(h, f, scope)
    <3>1. h[f][scope] = Walks(g, f, scope)
      BY <2>1 DEF Part
    <3>2. ASSUME NEW i \in DOMAIN f.kids, NEW s \in Specs
          PROVE  g[f.kids[i]][s] = h[f.kids[i]][s]
      <4>1. f.kids[i] \in Flows
        BY FlowsAssumption
      <4>2. made[f.kids[i]] \in Nat /\ made[f] \in Nat /\ made[f.kids[i]] < made[f]
        BY <4>1 DEF BuiltUp
      <4>3. made[f.kids[i]] < n
        BY <2>2, <4>2
      <4> QED
        BY <4>1, <4>3
    <3> HIDE DEF h
    <3> QED
      BY <3>1, <3>2, WalksParts
  <2> HIDE DEF h
  <2>3. Part(made, n + 1, h)
    BY <2>2 DEF Part
  <2> QED
    BY <2>3
<1> HIDE DEF S
<1>3. k \in S
  BY <1>1, <1>2, Induction
<1> QED
  BY <1>3 DEF S

\* Two parts agree as far as both go.
LEMMA PartsAgree ==
  ASSUME NEW made, BuiltUp(made), NEW j \in Nat, NEW k \in Nat, NEW g, NEW h,
         Part(made, j, g), Part(made, k, h),
         NEW f \in Flows, NEW scope \in Specs, made[f] < j, made[f] < k
  PROVE  g[f][scope] = h[f][scope]
<1> DEFINE S == {n \in Nat : \A x \in Flows, s \in Specs :
                   made[x] < n /\ made[x] < j /\ made[x] < k => g[x][s] = h[x][s]}
<1>1. 0 \in S
  BY DEF BuiltUp
<1>2. ASSUME NEW n \in Nat, n \in S PROVE n + 1 \in S
  <2> SUFFICES ASSUME NEW x \in Flows, NEW s \in Specs, made[x] < n + 1, made[x] < j, made[x] < k
               PROVE  g[x][s] = h[x][s]
    OBVIOUS
  <2>1. ASSUME NEW i \in DOMAIN x.kids, NEW t \in Specs
        PROVE  g[x.kids[i]][t] = h[x.kids[i]][t]
    <3>1. x.kids[i] \in Flows
      BY FlowsAssumption
    <3>2. made[x.kids[i]] \in Nat /\ made[x] \in Nat /\ made[x.kids[i]] < made[x]
      BY <3>1 DEF BuiltUp
    <3>3. made[x.kids[i]] < n /\ made[x.kids[i]] < j /\ made[x.kids[i]] < k
      BY <3>2
    <3> QED
      BY <1>2, <3>1, <3>3
  <2>2. g[x][s] = Walks(g, x, s) /\ h[x][s] = Walks(h, x, s)
    BY DEF Part
  <2> QED
    BY <2>1, <2>2, WalksParts
<1> HIDE DEF S
<1>3. made[f] + 1 \in Nat /\ made[f] < made[f] + 1
  BY DEF BuiltUp
<1>4. made[f] + 1 \in S
  BY <1>1, <1>2, <1>3, Induction
<1> QED
  BY <1>3, <1>4 DEF S

\* So there is a whole.
LEMMA WholeExists ==
  ASSUME NEW made, BuiltUp(made)
  PROVE  \E g : Whole(g)
<1> DEFINE p(f) == CHOOSE g : Part(made, made[f] + 1, g)
           w    == [f \in Flows |-> [scope \in Specs |-> p(f)[f][scope]]]
<1>1. ASSUME NEW f \in Flows
      PROVE  made[f] + 1 \in Nat /\ made[f] < made[f] + 1 /\ Part(made, made[f] + 1, p(f))
  <2>1. made[f] + 1 \in Nat /\ made[f] < made[f] + 1
    BY DEF BuiltUp
  <2> QED
    BY <2>1, PartExists
<1>2. ASSUME NEW f \in Flows, NEW scope \in Specs
      PROVE  w[f][scope] = Walks(w, f, scope)
  <2>1. w[f][scope] = Walks(p(f), f, scope)
    BY <1>1 DEF Part
  <2>2. ASSUME NEW i \in DOMAIN f.kids, NEW s \in Specs
        PROVE  p(f)[f.kids[i]][s] = w[f.kids[i]][s]
    <3>1. f.kids[i] \in Flows
      BY FlowsAssumption
    <3>2. made[f.kids[i]] \in Nat /\ made[f] \in Nat /\ made[f.kids[i]] < made[f]
      BY <3>1 DEF BuiltUp
    <3>3. made[f.kids[i]] < made[f] + 1
      BY <3>2
    <3>4. /\ Part(made, made[f] + 1, p(f)) /\ made[f] + 1 \in Nat
          /\ Part(made, made[f.kids[i]] + 1, p(f.kids[i])) /\ made[f.kids[i]] + 1 \in Nat
          /\ made[f.kids[i]] < made[f.kids[i]] + 1
      BY <1>1, <3>1
    <3>5. w[f.kids[i]][s] = p(f.kids[i])[f.kids[i]][s]
      BY <3>1
    <3> HIDE DEF p, w
    <3>6. p(f)[f.kids[i]][s] = p(f.kids[i])[f.kids[i]][s]
      BY <3>1, <3>3, <3>4, PartsAgree
    <3> QED
      BY <3>5, <3>6
  <2> HIDE DEF p, w
  <2> QED
    BY <2>1, <2>2, WalksParts
<1>3. w = [f \in Flows |-> [scope \in Specs |-> w[f][scope]]]
  OBVIOUS
<1> HIDE DEF p, w
<1>4. ASSUME NEW f \in Flows
      PROVE  [scope \in Specs |-> w[f][scope]] = [scope \in Specs |-> Walks(w, f, scope)]
  BY <1>2
<1>5. w = [f \in Flows |-> [scope \in Specs |-> Walks(w, f, scope)]]
  BY <1>3, <1>4, Zenon
<1> QED
  BY <1>5, Zenon DEF Whole

\* The startup walk visits every part, under the model that is in force there.
LEMMA WalkIs ==
  ASSUME NEW made, BuiltUp(made), NEW f \in Flows, NEW scope \in Specs
  PROVE  walk[f][scope] = Walks(walk, f, scope)
<1>1. Whole(walk)
  BY WholeExists DEF walk, Whole, Walks
<1> HIDE DEF walk
<1> QED
  BY <1>1 DEF Whole

-----------------------------------------------------------------------------
(* What the startup walk accepts, a request finds.                         *)

\* The flow a client is served by a binary.
ServedFlow(b, r) == resolve(Binaries[b].entries, Binaries[b].extra, Wants[r])

\* The places of the flows inside f: a wrapper has the place of what it wraps.
Placings == Paths \X Flows
\* C holds, with a flow, the parts of it at their places.
Grown(C) ==
  \A p \in Paths, f \in Flows : <<p, f>> \in C =>
    /\ f.kind = "decorated" => <<p, f.kids[1]>> \in C
    /\ f.kind = "seq" => \A i \in DOMAIN f.kids : <<Append(p, i), f.kids[i]>> \in C
    /\ f.kind = "select" => \A i \in DOMAIN f.kids :
         (\A j \in DOMAIN f.kids : f.kids[j].id = f.kids[i].id => i <= j)
           => <<Append(p, f.kids[i].id), f.kids[i]>> \in C
\* The least such set around f.
Places(f) == {x \in Placings : \A C \in SUBSET Placings : <<<<>>, f>> \in C /\ Grown(C) => x \in C}

\* Whatever is deployed, the leaf at a place has the exits it had.
KeepsExits ==
  \A b, c \in DOMAIN Binaries, r \in Clients, p \in Paths, f, g \in Flows :
    /\ <<p, f>> \in Places(ServedFlow(b, r)) /\ f.kind = "basic"
    /\ <<p, g>> \in Places(ServedFlow(c, r)) /\ g.kind = "basic"
    => exits(f) = exits(g)

\* The process runs a binary that has passed the walk.
Validated ==
  pc # "down" => \A f \in Served(Running.entries, Running.extra) : Validate(f)

\* The flows the pass is inside have passed it too, and stand where their path says.
Visited(s, F) ==
  \A i \in DOMAIN s : walk[s[i].flow][s[i].scope] /\ <<s[i].path, s[i].flow>> \in Places(F)

\* What is above a chain on the stack is, or is inside, the step the chain is at.
Nested(s) ==
  \A i \in DOMAIN s : i > 1 =>
    /\ s[i].pos \in DOMAIN s[i].flow.kids
    /\ s[i].flow.kids[s[i].pos].kind = "basic" => s[i - 1].flow = s[i].flow.kids[s[i].pos]

\* A selection made before the step at pos of the chain f is an exit of the leaf before it.
Before(f, pos, sel) ==
  pos > 1 /\ f.kids[pos - 1].kind = "basic" => sel \in exits(f.kids[pos - 1]) \cup {None}

\* A selection is an exit of the leaf that was last.
Selections ==
  KeepsExits =>
    /\ pc = "armed" => Top.flow.kind \in {"basic", "decorated"}
    /\ pc = "ask" => \A i \in DOMAIN replies :
         replies[i] # NotYet => replies[i].sel \in Agents[i].exits \cup {None}
    /\ pc = "save" => Top.flow.kind = "basic" /\ st.sel \in exits(Top.flow) \cup {None}
    /\ pc = "run" /\ Top.flow.kind = "seq" => Before(Top.flow, Top.pos, st.sel)
    /\ pc \in {"run", "armed"} /\ Top.flow.kind # "seq" =>
         /\ Top.pos = 1
         /\ Len(stack) > 1 => Before(stack[2].flow, stack[2].pos, st.sel)

\* So is one that was saved.
SavedSelections ==
  KeepsExits => \A k \in DOMAIN saved : k[1] \in Clients /\ saved[k].sel # None =>
    \E b \in DOMAIN Binaries, f \in Flows :
      /\ <<k[2], f>> \in Places(ServedFlow(b, k[1])) /\ f.kind = "basic"
      /\ saved[k].sel \in exits(f)

\* What holds while a request is served.
InRequest == pass.kind = "request" => Visited(stack, ServedFlow(binary, pass.run)) /\ Selections

\* The invariant behind StartupChecksHold.
CheckInv ==
  /\ Validated
  /\ pass.kind = "request" <=> pass.run \in Clients
  /\ Nested(stack)
  /\ InRequest
  /\ SavedSelections

\* A flow has a place in itself, and so have the parts of its parts.
LEMMA PlacesGrow ==
  ASSUME NEW F \in Flows
  PROVE  <<<<>>, F>> \in Places(F) /\ Grown(Places(F))
<1>1. <<<<>>, F>> \in Places(F)
  <2>1. <<<<>>, F>> \in Placings
    BY EmptySeq DEF Placings, Paths
  <2> QED
    BY <2>1 DEF Places
<1>2. ASSUME NEW p \in Paths, NEW f \in Flows, <<p, f>> \in Places(F), NEW q \in Paths, NEW g \in Flows,
             \A C \in SUBSET Placings : Grown(C) /\ <<p, f>> \in C => <<q, g>> \in C
      PROVE  <<q, g>> \in Places(F)
  BY <1>2 DEF Places, Placings
<1>3. ASSUME NEW p \in Paths, NEW f \in Flows, <<p, f>> \in Places(F)
      PROVE  /\ f.kind = "decorated" => <<p, f.kids[1]>> \in Places(F)
             /\ f.kind = "seq" => \A i \in DOMAIN f.kids : <<Append(p, i), f.kids[i]>> \in Places(F)
             /\ f.kind = "select" => \A i \in DOMAIN f.kids :
                  (\A j \in DOMAIN f.kids : f.kids[j].id = f.kids[i].id => i <= j)
                    => <<Append(p, f.kids[i].id), f.kids[i]>> \in Places(F)
  <2>1. f.kids \in Seq(Flows) /\ DOMAIN f.kids \subseteq Nat /\ \A i \in DOMAIN f.kids : f.kids[i] \in Flows
    BY FlowsAssumption
  <2>2. ASSUME f.kind = "decorated" PROVE <<p, f.kids[1]>> \in Places(F)
    <3>1. f.kids[1] \in Flows
      BY <2>1, <2>2, FlowsAssumption
    <3>2. \A C \in SUBSET Placings : Grown(C) /\ <<p, f>> \in C => <<p, f.kids[1]>> \in C
      BY <2>2 DEF Grown
    <3> QED
      BY <1>2, <1>3, <3>1, <3>2
  <2>3. ASSUME f.kind = "seq", NEW i \in DOMAIN f.kids PROVE <<Append(p, i), f.kids[i]>> \in Places(F)
    <3>1. f.kids[i] \in Flows /\ Append(p, i) \in Paths
      BY <2>1 DEF Paths
    <3>2. \A C \in SUBSET Placings : Grown(C) /\ <<p, f>> \in C => <<Append(p, i), f.kids[i]>> \in C
      BY <2>3 DEF Grown
    <3> QED
      BY <1>2, <1>3, <3>1, <3>2
  <2>4. ASSUME f.kind = "select", NEW i \in DOMAIN f.kids,
               \A j \in DOMAIN f.kids : f.kids[j].id = f.kids[i].id => i <= j
        PROVE  <<Append(p, f.kids[i].id), f.kids[i]>> \in Places(F)
    <3>1. f.kids[i] \in Flows /\ Append(p, f.kids[i].id) \in Paths
      BY <2>1 DEF Paths
    <3>2. \A C \in SUBSET Placings : Grown(C) /\ <<p, f>> \in C => <<Append(p, f.kids[i].id), f.kids[i]>> \in C
      BY <2>4 DEF Grown
    <3> QED
      BY <1>2, <1>3, <3>1, <3>2
  <2> QED
    BY <2>2, <2>3, <2>4
<1> QED
  BY <1>1, <1>3 DEF Grown

\* The walk goes into the parts.
LEMMA WalkInto ==
  ASSUME NEW made, BuiltUp(made), NEW f \in Flows, NEW scope \in Specs, walk[f][scope]
  PROVE  /\ f.kind = "basic" => \A i \in DOMAIN f.agents : validAgent(f.agents[i], f.model, scope)
         /\ f.kind = "decorated" => walk[f.kids[1]][IF f.model = None THEN scope ELSE f.model]
         /\ f.kind = "seq" => \A i \in DOMAIN f.kids :
              /\ walk[f.kids[i]][scope]
              /\ i + 1 \in DOMAIN f.kids => checkSelectAdjacency(f.kids[i], f.kids[i + 1])
         /\ f.kind = "select" => \A i \in DOMAIN f.kids : walk[f.kids[i]][scope]
<1>1. Walks(walk, f, scope)
  BY WalkIs
<1> HIDE DEF walk
<1> QED
  BY <1>1 DEF Walks

\* The entry that was registered last, of those with a name.
LEMMA LastIs ==
  ASSUME NEW S, NEW entries \in Seq(S), NEW name, \E i \in DOMAIN entries : entries[i].name = name
  PROVE  LET l == LastOf(entries, LAMBDA e : e.name = name) IN l \in DOMAIN entries /\ entries[l].name = name
<1> DEFINE n == Len(entries)
           T == {k \in Nat : n - k \in DOMAIN entries /\ entries[n - k].name = name}
<1>1. n \in Nat /\ DOMAIN entries = 1..n
  BY LenProperties
<1>2. T # {}
  <2>1. PICK i \in DOMAIN entries : entries[i].name = name
    OBVIOUS
  <2>2. n - i \in Nat /\ n - (n - i) = i
    BY <1>1, <2>1
  <2> QED
    BY <2>1, <2>2
<1>3. PICK k \in T : \A j \in T : k <= j
  <2>1. T \in SUBSET Nat
    OBVIOUS
  <2> HIDE DEF T
  <2> QED
    BY <1>2, <2>1, Least
<1>4. n - k \in DOMAIN entries /\ entries[n - k].name = name
  BY <1>3
<1>5. ASSUME NEW j \in DOMAIN entries, entries[j].name = name PROVE j <= n - k
  <2>1. n - j \in Nat /\ n - (n - j) = j
    BY <1>1
  <2>2. n - j \in T
    BY <1>5, <2>1
  <2>3. k <= n - j /\ k \in Nat
    BY <1>3, <2>2
  <2> QED
    BY <1>1, <2>3
<1>6. \E i \in DOMAIN entries : entries[i].name = name /\ \A j \in DOMAIN entries : entries[j].name = name => j <= i
  BY <1>4, <1>5
<1> QED
  BY <1>6 DEF LastOf

\* A client is served one of the flows the walk has visited.
LEMMA ServedIs ==
  ASSUME NEW b \in DOMAIN Binaries, NEW r \in Clients
  PROVE  ServedFlow(b, r) \in Served(Binaries[b].entries, Binaries[b].extra)
<1> DEFINE entries == Binaries[b].entries
           extra == Binaries[b].extra
           name == Wants[r]
<1>1. CASE name # None /\ \E i \in DOMAIN entries : entries[i].name = name
  <2> DEFINE l == LastOf(entries, LAMBDA e : e.name = name)
  <2>1. entries \in Seq(Positions(entries))
    BY FlowsAssumption
  <2>2. l \in DOMAIN entries /\ entries[l].name = name
    BY <1>1, <2>1, LastIs
  <2>3. ServedFlow(b, r) = entries[l].flow
    BY <1>1 DEF ServedFlow, resolve
  <2> HIDE DEF l, entries, name
  <2>4. l \in {j \in DOMAIN entries : entries[j].name # None}
    BY <1>1, <2>2
  <2> QED
    BY <2>3, <2>4 DEF Served, entries
<1>2. CASE ~(name # None /\ \E i \in DOMAIN entries : entries[i].name = name)
  <2>1. resolve(entries, extra, name) = resolve(entries, extra, None)
    BY <1>2 DEF resolve
  <2> QED
    BY <2>1 DEF ServedFlow, Served
<1> QED
  BY <1>1, <1>2

\* What stands on the stack, as it changes.
LEMMA StackPopped ==
  ASSUME NEW s, StackOK(s), s # <<>>, Len(s) # 1, NEW F
  PROVE  /\ Nested(s) => Nested(Popped(s))
         /\ Visited(s, F) => Visited(Popped(s), F)
<1> DEFINE n == Popped(s)
<1>1. /\ s[2] \in Frames /\ 2 \in DOMAIN s
      /\ n \in Seq(Frames) /\ Len(n) = Len(s) - 1 /\ Len(s) \in Nat /\ Len(s) >= 2
      /\ n[1] = [s[2] EXCEPT !.pos = @ + 1]
      /\ \A i \in DOMAIN n : i > 1 => i + 1 \in DOMAIN s /\ n[i] = s[i + 1]
  BY PoppedIs
<1> HIDE DEF n
<1>2. n[1].flow = s[2].flow /\ n[1].scope = s[2].scope /\ n[1].path = s[2].path
  BY <1>1 DEF Frames
<1>3. DOMAIN n = 1..Len(n) /\ DOMAIN s = 1..Len(s)
  BY <1>1 DEF StackOK
<1>4. ASSUME Nested(s), NEW i \in DOMAIN n, i > 1
      PROVE  /\ n[i].pos \in DOMAIN n[i].flow.kids
             /\ n[i].flow.kids[n[i].pos].kind = "basic" => n[i - 1].flow = n[i].flow.kids[n[i].pos]
  <2>1. i + 1 \in DOMAIN s /\ i + 1 > 1 /\ n[i] = s[i + 1] /\ (i + 1) - 1 = i
    BY <1>1, <1>3, <1>4
  <2>2. n[i - 1].flow = s[i].flow
    <3>1. CASE i = 2
      BY <1>2, <3>1
    <3>2. CASE i # 2
      <4>1. i - 1 \in DOMAIN n /\ i - 1 > 1 /\ (i - 1) + 1 = i
        BY <1>3, <1>4, <3>2
      <4> QED
        BY <1>1, <4>1
    <3> QED
      BY <3>1, <3>2
  <2>3. /\ s[i + 1].pos \in DOMAIN s[i + 1].flow.kids
        /\ s[i + 1].flow.kids[s[i + 1].pos].kind = "basic" => s[i].flow = s[i + 1].flow.kids[s[i + 1].pos]
    BY <1>4, <2>1 DEF Nested
  <2> QED
    BY <2>1, <2>2, <2>3
<1>5. ASSUME Visited(s, F), NEW i \in DOMAIN n
      PROVE  walk[n[i].flow][n[i].scope] /\ <<n[i].path, n[i].flow>> \in Places(F)
  <2>1. CASE i = 1
    BY <1>1, <1>2, <1>5, <2>1 DEF Visited
  <2>2. CASE i # 1
    BY <1>1, <1>3, <1>5, <2>2 DEF Visited
  <2> QED
    BY <2>1, <2>2
<1> QED
  BY <1>4, <1>5 DEF Nested, Visited, n

\* The innermost flow hands on to a part of it.
LEMMA StackReplaced ==
  ASSUME NEW s, StackOK(s), s # <<>>, NEW x \in Frames, NEW F, s[1].flow.kind # "basic", Nested(s)
  PROVE  /\ Nested(Replaced(s, x))
         /\ Visited(s, F) /\ walk[x.flow][x.scope] /\ <<x.path, x.flow>> \in Places(F) => Visited(Replaced(s, x), F)
<1> DEFINE n == Replaced(s, x)
<1>1. /\ n \in Seq(Frames) /\ Len(n) = Len(s) /\ Len(s) \in Nat \ {0}
      /\ n[1] = x
      /\ \A i \in DOMAIN n : i > 1 => i \in DOMAIN s /\ n[i] = s[i]
  BY ReplacedIs
<1> HIDE DEF n
<1>2. DOMAIN n = 1..Len(n) /\ DOMAIN s = 1..Len(s)
  BY <1>1 DEF StackOK
<1>3. ASSUME NEW i \in DOMAIN n, i > 1
      PROVE  /\ n[i].pos \in DOMAIN n[i].flow.kids
             /\ n[i].flow.kids[n[i].pos].kind = "basic" => n[i - 1].flow = n[i].flow.kids[n[i].pos]
  <2>1. i \in DOMAIN s /\ n[i] = s[i]
    BY <1>1, <1>3
  <2>2. /\ s[i].pos \in DOMAIN s[i].flow.kids
        /\ s[i].flow.kids[s[i].pos].kind = "basic" => s[i - 1].flow = s[i].flow.kids[s[i].pos]
    BY <1>3, <2>1 DEF Nested
  <2>3. CASE i = 2
    BY <2>1, <2>2, <2>3
  <2>4. CASE i # 2
    <3>1. i - 1 \in DOMAIN n /\ i - 1 > 1
      BY <1>2, <1>3, <2>4
    <3> QED
      BY <1>1, <2>1, <2>2, <3>1
  <2> QED
    BY <2>3, <2>4
<1>4. ASSUME Visited(s, F), walk[x.flow][x.scope], <<x.path, x.flow>> \in Places(F), NEW i \in DOMAIN n
      PROVE  walk[n[i].flow][n[i].scope] /\ <<n[i].path, n[i].flow>> \in Places(F)
  <2>1. CASE i = 1
    BY <1>1, <1>4, <2>1
  <2>2. CASE i # 1
    BY <1>1, <1>2, <1>4, <2>2 DEF Visited
  <2> QED
    BY <2>1, <2>2
<1> QED
  BY <1>3, <1>4 DEF Nested, Visited, n

\* The innermost chain enters the step it is at.
LEMMA StackPushed ==
  ASSUME NEW s, StackOK(s), s # <<>>, NEW x \in Frames, NEW F, Nested(s),
         s[1].pos \in DOMAIN s[1].flow.kids, x.flow = s[1].flow.kids[s[1].pos]
  PROVE  /\ Nested(Pushed(s, x))
         /\ Visited(s, F) /\ walk[x.flow][x.scope] /\ <<x.path, x.flow>> \in Places(F) => Visited(Pushed(s, x), F)
<1> DEFINE n == Pushed(s, x)
<1>1. /\ n \in Seq(Frames) /\ Len(n) = Len(s) + 1 /\ Len(s) \in Nat
      /\ n[1] = x
      /\ \A i \in DOMAIN n : i > 1 => i - 1 \in DOMAIN s /\ n[i] = s[i - 1]
  BY PushedIs
<1> HIDE DEF n
<1>2. DOMAIN n = 1..Len(n) /\ DOMAIN s = 1..Len(s)
  BY <1>1 DEF StackOK
<1>3. ASSUME NEW i \in DOMAIN n, i > 1
      PROVE  /\ n[i].pos \in DOMAIN n[i].flow.kids
             /\ n[i].flow.kids[n[i].pos].kind = "basic" => n[i - 1].flow = n[i].flow.kids[n[i].pos]
  <2>1. i - 1 \in DOMAIN s /\ n[i] = s[i - 1]
    BY <1>1, <1>3
  <2>2. CASE i = 2
    BY <1>1, <2>1, <2>2
  <2>3. CASE i # 2
    <3>1. i - 1 \in DOMAIN n /\ i - 1 > 1
      BY <1>2, <1>3, <2>3
    <3>2. n[i - 1] = s[(i - 1) - 1]
      BY <1>1, <3>1
    <3>3. /\ s[i - 1].pos \in DOMAIN s[i - 1].flow.kids
          /\ s[i - 1].flow.kids[s[i - 1].pos].kind = "basic" => s[(i - 1) - 1].flow = s[i - 1].flow.kids[s[i - 1].pos]
      BY <2>1, <3>1 DEF Nested
    <3> QED
      BY <2>1, <3>2, <3>3
  <2> QED
    BY <2>2, <2>3
<1>4. ASSUME Visited(s, F), walk[x.flow][x.scope], <<x.path, x.flow>> \in Places(F), NEW i \in DOMAIN n
      PROVE  walk[n[i].flow][n[i].scope] /\ <<n[i].path, n[i].flow>> \in Places(F)
  <2>1. CASE i = 1
    BY <1>1, <1>4, <2>1
  <2>2. CASE i # 1
    BY <1>1, <1>2, <1>4, <2>2 DEF Visited
  <2> QED
    BY <2>1, <2>2
<1> QED
  BY <1>3, <1>4 DEF Nested, Visited, n

\* A flow returns: the chain around it goes on behind the leaf that was last.
LEMMA ReturnChecks ==
  ASSUME StandOK, stack # <<>>, Nested(stack), NEW s, NEW F, Return(s)
  PROVE  /\ Nested(stack')
         /\ Visited(stack, F) => Visited(stack', F)
         /\ (KeepsExits /\ Top.flow.kind = "basic" => s.sel \in exits(Top.flow) \cup {None}) => Selections'
<1>1. StackOK(stack) /\ st' = s
  BY DEF StandOK, Return
<1>2. CASE Len(stack) = 1
  <2>1. stack' = <<>> /\ pc' = "done"
    BY <1>2 DEF Return
  <2>2. Nested(stack') /\ Visited(stack', F)
    BY <2>1 DEF Nested, Visited
  <2> QED
    BY <2>1, <2>2 DEF Selections
<1>3. CASE Len(stack) # 1
  <2>1. stack' = Popped(stack) /\ pc' = "run"
    BY <1>3 DEF Return, Popped
  <2>2. Nested(stack') /\ (Visited(stack, F) => Visited(stack', F))
    BY <1>1, <1>3, <2>1, StackPopped
  <2>3. stack[2] \in Frames /\ 2 \in DOMAIN stack /\ stack'[1] = [stack[2] EXCEPT !.pos = @ + 1]
    BY <1>1, <1>3, <2>1, PoppedIs
  <2>4. stack[2].flow.kind = "seq"
    BY <1>1, <2>3 DEF StackOK
  <2>5. stack'[1].flow = stack[2].flow /\ stack'[1].pos = stack[2].pos + 1 /\ stack[2].pos \in Nat
    BY <2>3 DEF Frames
  <2>6. stack[2].flow.kids[stack[2].pos].kind = "basic" => stack[1].flow = stack[2].flow.kids[stack[2].pos]
    <3>1. 2 > 1 /\ 2 - 1 = 1
      OBVIOUS
    <3> QED
      BY <2>3, <3>1 DEF Nested
  <2>7. ASSUME KeepsExits, Top.flow.kind = "basic" => s.sel \in exits(Top.flow) \cup {None}
        PROVE  Before(stack'[1].flow, stack'[1].pos, st'.sel)
    <3>1. (stack[2].pos + 1) - 1 = stack[2].pos
      BY <2>5
    <3> QED
      BY <1>1, <2>5, <2>6, <2>7, <3>1 DEF Before, Top
  <2> QED
    BY <2>1, <2>2, <2>4, <2>5, <2>7 DEF Selections, Top
<1> QED
  BY <1>2, <1>3

\* The pass is over, or was never begun.
LEMMA EmptyChecks ==
  ASSUME NEW F, stack' = <<>>, pc' \notin {"run", "armed", "ask", "save"}
  PROVE  Nested(stack') /\ Visited(stack', F) /\ Selections'
BY DEF Nested, Visited, Selections

\* A step inside a pass.
LEMMA ChecksGoOn ==
  ASSUME CheckInv, pc # "down", binary' = binary, pass'.kind = pass.kind, pass'.run = pass.run,
         Nested(stack'), SavedSelections',
         pass.kind = "request" => Visited(stack', ServedFlow(binary, pass.run)) /\ Selections'
  PROVE  CheckInv'
<1>1. Validated'
  BY DEF CheckInv, Validated, Running
<1>2. InRequest'
  BY DEF InRequest
<1> QED
  BY <1>1, <1>2 DEF CheckInv

\* What is saved stays as it is.
LEMMA SavedStay ==
  ASSUME SavedSelections, saved' = saved
  PROVE  SavedSelections'
BY DEF SavedSelections

\* What holds of the innermost flow of a request.
LEMMA TopChecks ==
  ASSUME TypeInv, CheckInv, pc \in {"run", "armed", "ask", "save"}
  PROVE  /\ stack # <<>> /\ Len(stack) \in Nat \ {0} /\ 1 \in DOMAIN stack /\ Top \in Frames /\ Top.flow \in Flows
         /\ Top.path \in Paths /\ Top.scope \in Specs /\ Top.pos \in Nat
         /\ StandOK /\ StackOK(stack) /\ Nested(stack) /\ SavedSelections /\ pc # "down"
         /\ pass.kind = "request" =>
              /\ walk[Top.flow][Top.scope] /\ <<Top.path, Top.flow>> \in Places(ServedFlow(binary, pass.run))
              /\ Visited(stack, ServedFlow(binary, pass.run)) /\ Selections
              /\ pass.run \in Clients /\ binary \in DOMAIN Binaries
              /\ ServedFlow(binary, pass.run) \in Flows
<1>1. /\ stack # <<>> /\ Len(stack) \in Nat \ {0} /\ 1 \in DOMAIN stack /\ Top \in Frames /\ Top.flow \in Flows
      /\ StackOK(stack) /\ StandOK
  BY TopIs DEF TypeInv
<1>2. Top.path \in Paths /\ Top.scope \in Specs /\ Top.pos \in Nat
  BY <1>1 DEF Frames
<1>3. Nested(stack) /\ SavedSelections /\ InRequest
  BY DEF CheckInv
<1>4. ASSUME pass.kind = "request"
      PROVE  /\ walk[Top.flow][Top.scope] /\ <<Top.path, Top.flow>> \in Places(ServedFlow(binary, pass.run))
             /\ Visited(stack, ServedFlow(binary, pass.run)) /\ Selections
  BY <1>1, <1>3, <1>4 DEF InRequest, Visited, Top
<1>5. ASSUME pass.kind = "request"
      PROVE  pass.run \in Clients /\ binary \in DOMAIN Binaries /\ ServedFlow(binary, pass.run) \in Flows
  <2>1. pass.run \in Clients /\ binary \in DOMAIN Binaries
    BY <1>5 DEF CheckInv, TypeInv, ProcessOK
  <2> QED
    BY <2>1, FlowsAssumption DEF ServedFlow
<1> QED
  BY <1>1, <1>2, <1>3, <1>4, <1>5

\* Checks: a Durable is entered.
LEMMA ActivateChecks ==
  ASSUME TypeInv, CheckInv, ActivateDurable
  PROVE  CheckInv'
<1>1. pc = "run" /\ pc' = "armed" /\ st' = st /\ saved' = saved /\ binary' = binary /\ Top.flow.durable
  BY DEF ActivateDurable, process
<1>2. PICK c \in {"live", "stale"} : stack' = [stack EXCEPT ![1].cp = c]
  BY DEF ActivateDurable, Live, Stale
<1>3. pass'.kind = pass.kind /\ pass'.run = pass.run
  BY DEF ActivateDurable, Live, Stale, TypeInv, ProcessOK, PassFields
<1>4. /\ 1 \in DOMAIN stack /\ Top \in Frames /\ Top.flow \in Flows /\ StackOK(stack) /\ Nested(stack)
      /\ SavedSelections
      /\ Len(stack) \in Nat \ {0} /\ DOMAIN stack = 1..Len(stack)
  BY <1>1, TopChecks DEF StackOK
<1>5. [Top EXCEPT !.cp = c].flow = Top.flow /\ [Top EXCEPT !.cp = c].pos = Top.pos
      /\ [Top EXCEPT !.cp = c].path = Top.path /\ [Top EXCEPT !.cp = c].scope = Top.scope
  BY <1>4 DEF Frames
<1>6. /\ DOMAIN stack' = DOMAIN stack /\ Len(stack') = Len(stack)
      /\ \A i \in DOMAIN stack : /\ stack'[i].flow = stack[i].flow /\ stack'[i].pos = stack[i].pos
                                 /\ stack'[i].path = stack[i].path /\ stack'[i].scope = stack[i].scope
  <2>1. stack' = [stack EXCEPT ![1] = [Top EXCEPT !.cp = c]]
    BY <1>2 DEF Top
  <2>2. DOMAIN stack' = DOMAIN stack /\ stack'[1] = [Top EXCEPT !.cp = c]
        /\ \A i \in DOMAIN stack : i # 1 => stack'[i] = stack[i]
    BY <1>4, <2>1
  <2>3. Len(stack') = Len(stack)
    BY <1>4, <2>1 DEF StackOK
  <2> QED
    BY <1>5, <2>2, <2>3 DEF Top
<1>7. Nested(stack')
  <2> SUFFICES ASSUME NEW i \in DOMAIN stack, i > 1
               PROVE  /\ stack'[i].pos \in DOMAIN stack'[i].flow.kids
                      /\ stack'[i].flow.kids[stack'[i].pos].kind = "basic"
                           => stack'[i - 1].flow = stack'[i].flow.kids[stack'[i].pos]
    BY <1>6 DEF Nested
  <2>1. i - 1 \in DOMAIN stack
    BY <1>4
  <2> QED
    BY <1>4, <1>6, <2>1 DEF Nested
<1>8. ASSUME pass.kind = "request" PROVE Visited(stack', ServedFlow(binary, pass.run)) /\ Selections'
  <2>1. Visited(stack, ServedFlow(binary, pass.run)) /\ Selections
    BY <1>1, <1>8, TopChecks
  <2>2. Visited(stack', ServedFlow(binary, pass.run))
    BY <1>6, <2>1 DEF Visited
  <2>3. Top.flow.kind \in {"basic", "decorated"}
    BY <1>1, <1>4, FlowsAssumption
  <2>4. Top'.flow = Top.flow /\ Top'.pos = Top.pos
    BY <1>4, <1>6 DEF Top
  <2>5. Len(stack') > 1 => stack'[2].flow = stack[2].flow /\ stack'[2].pos = stack[2].pos
    BY <1>4, <1>6
  <2>6. Selections'
    BY <1>1, <1>6, <2>1, <2>3, <2>4, <2>5 DEF Selections
  <2> QED
    BY <2>2, <2>6
<1>9. SavedSelections'
  BY <1>1, <1>4, SavedStay
<1> QED
  BY <1>1, <1>3, <1>7, <1>8, <1>9, ChecksGoOn

\* Checks: a leaf is read back, is to be asked, or is saved.
LEMMA LeafChecks ==
  ASSUME TypeInv, CheckInv, Load \/ Miss \/ Save
  PROVE  CheckInv'
<1>1. pc \in {"run", "armed", "ask", "save"} /\ UNCHANGED <<binary, pass>>
  BY DEF Load, Miss, Save, Ready, process
<1> DEFINE F == ServedFlow(binary, pass.run)
<1>2. /\ stack # <<>> /\ StandOK /\ Nested(stack) /\ SavedSelections /\ Top.path \in Paths /\ Top.flow \in Flows
      /\ pc # "down"
      /\ pass.kind = "request" => /\ <<Top.path, Top.flow>> \in Places(F) /\ Visited(stack, F) /\ Selections
                                  /\ pass.run \in Clients /\ binary \in DOMAIN Binaries
  BY <1>1, TopChecks
<1> HIDE DEF F
<1>3. CASE Load
  <2>1. Return(saved[Key]) /\ saved' = saved /\ Top.flow.kind = "basic" /\ Key \in DOMAIN saved
    BY <1>3 DEF Load, Ready, store
  <2>2. ASSUME KeepsExits, pass.kind = "request" PROVE saved[Key].sel \in exits(Top.flow) \cup {None}
    <3> SUFFICES ASSUME saved[Key].sel # None PROVE saved[Key].sel \in exits(Top.flow)
      OBVIOUS
    <3>1. Key[1] = pass.run /\ Key[2] = Top.path
      BY DEF Key
    <3>2. PICK b \in DOMAIN Binaries, f \in Flows :
            /\ <<Key[2], f>> \in Places(ServedFlow(b, Key[1])) /\ f.kind = "basic"
            /\ saved[Key].sel \in exits(f)
      BY <1>2, <2>1, <2>2, <3>1 DEF SavedSelections
    <3>3. exits(f) = exits(Top.flow)
      BY <1>2, <2>1, <2>2, <3>1, <3>2 DEF KeepsExits, F
    <3> QED
      BY <3>2, <3>3
  <2>3. Nested(stack') /\ (pass.kind = "request" => Visited(stack', F) /\ Selections')
    BY <1>2, <2>1, <2>2, ReturnChecks
  <2> QED
    BY <1>1, <1>2, <2>1, <2>3, SavedStay, ChecksGoOn DEF F
<1>4. CASE Miss
  <2>1. pc' = "ask" /\ UNCHANGED <<stack, saved>> /\ \A i \in DOMAIN replies' : replies'[i] = NotYet
    BY <1>4 DEF Miss, store
  <2>2. Selections'
    BY <2>1 DEF Selections
  <2>3. Nested(stack') /\ (pass.kind = "request" => Visited(stack', F))
    BY <1>2, <2>1 DEF Nested, Visited
  <2> QED
    BY <1>1, <1>2, <2>1, <2>2, <2>3, SavedStay, ChecksGoOn DEF F
<1>5. CASE Save
  <2>1. Return(st) /\ pc = "save" /\ (saved' = saved \/ saved' = Write(saved, Key, st))
    BY <1>5 DEF Save
  <2>2. KeepsExits /\ pass.kind = "request" => Top.flow.kind = "basic" /\ st.sel \in exits(Top.flow) \cup {None}
    BY <1>2, <2>1 DEF Selections
  <2>3. Nested(stack') /\ (pass.kind = "request" => Visited(stack', F) /\ Selections')
    BY <1>2, <2>1, <2>2, ReturnChecks
  <2>4. SavedSelections'
    <3>1. CASE saved' = saved
      BY <1>2, <3>1, SavedStay
    <3>2. CASE saved' = Write(saved, Key, st)
      <4> SUFFICES ASSUME KeepsExits, NEW k \in DOMAIN saved', k[1] \in Clients, saved'[k].sel # None
                   PROVE  \E b \in DOMAIN Binaries, f \in Flows :
                            /\ <<k[2], f>> \in Places(ServedFlow(b, k[1])) /\ f.kind = "basic"
                            /\ saved'[k].sel \in exits(f)
        BY DEF SavedSelections
      <4>1. CASE k = Key
        <5>1. k[1] = pass.run /\ k[2] = Top.path /\ saved'[k] = st
          BY <3>2, <4>1 DEF Key, Write
        <5>2. pass.kind = "request"
          BY <5>1 DEF CheckInv
        <5> QED
          BY <1>2, <2>2, <5>1, <5>2 DEF F
      <4>2. CASE k # Key
        <5>1. k \in DOMAIN saved /\ saved'[k] = saved[k]
          BY <3>2, <4>2 DEF Write
        <5> QED
          BY <1>2, <5>1 DEF SavedSelections
      <4> QED
        BY <4>1, <4>2
    <3> QED
      BY <2>1, <3>1, <3>2
  <2> QED
    BY <1>1, <1>2, <2>3, <2>4, ChecksGoOn DEF F
<1> QED
  BY <1>3, <1>4, <1>5

\* Checks: an agent fails, streams or replies.
LEMMA AgentChecks ==
  ASSUME TypeInv, CheckInv, NEW i \in DOMAIN replies,
         \/ AgentFails(i)
         \/ \E x \in Agents[i].exits \cup {None} :
              Streams(x) \/ \E silent \in BOOLEAN : Reply(i, x, silent)
  PROVE  CheckInv'
<1>1. pc = "ask" /\ UNCHANGED <<binary, pass, saved>>
  BY DEF AgentFails, Streams, Reply, process, store
<1> DEFINE F == ServedFlow(binary, pass.run)
<1>2. /\ StandOK /\ Nested(stack) /\ SavedSelections /\ pc # "down"
      /\ pass.kind = "request" => Visited(stack, F) /\ Selections
  BY <1>1, TopChecks
<1> HIDE DEF F
<1>3. SavedSelections'
  BY <1>1, <1>2, SavedStay
<1>4. CASE AgentFails(i)
  <2>1. stack' = <<>> /\ pc' = "failed"
    BY <1>4 DEF AgentFails, Fail
  <2>2. Nested(stack') /\ Visited(stack', F) /\ Selections'
    BY <2>1, EmptyChecks
  <2> QED
    BY <1>1, <1>2, <1>3, <2>2, ChecksGoOn DEF F
<1>5. ASSUME NEW x \in Agents[i].exits \cup {None}, Streams(x) \/ \E silent \in BOOLEAN : Reply(i, x, silent)
      PROVE  CheckInv'
  <2>1. UNCHANGED <<stack, st, pc>>
    BY <1>5 DEF Streams, Reply
  <2>2. /\ DOMAIN replies' = DOMAIN replies
        /\ \A j \in DOMAIN replies : replies'[j] = replies[j] \/ (j = i /\ replies'[j].sel = x)
    <3>1. CASE Streams(x)
      BY <3>1 DEF Streams
    <3>2. ASSUME NEW silent \in BOOLEAN, Reply(i, x, silent)
          PROVE  \E said : replies' = [replies EXCEPT ![i] = [said |-> said, sel |-> x]]
      BY <3>2 DEF Reply
    <3> QED
      BY <1>5, <3>1, <3>2
  <2>3. Nested(stack') /\ (pass.kind = "request" => Visited(stack', F))
    BY <1>2, <2>1 DEF Nested, Visited
  <2>4. ASSUME pass.kind = "request" PROVE Selections'
    <3> SUFFICES ASSUME KeepsExits PROVE Selections'
      BY DEF Selections
    <3>1. \A j \in DOMAIN replies' : replies'[j] # NotYet => replies'[j].sel \in Agents'[j].exits \cup {None}
      BY <1>1, <1>2, <1>5, <2>1, <2>2, <2>4 DEF Selections, Agents, Top
    <3> QED
      BY <1>1, <2>1, <3>1 DEF Selections
  <2> QED
    BY <1>1, <1>2, <1>3, <2>3, <2>4, ChecksGoOn DEF F
<1> QED
  BY <1>4, <1>5

\* Checks: the replies of a leaf are merged.
LEMMA CollectChecks ==
  ASSUME TypeInv, CheckInv, SelectConflict \/ Collect
  PROVE  CheckInv'
<1>1. pc = "ask" /\ Answered = DOMAIN replies /\ UNCHANGED <<binary, pass, saved>>
  BY DEF SelectConflict, Collect, process, store
<1> DEFINE F == ServedFlow(binary, pass.run)
<1>2. /\ StandOK /\ Nested(stack) /\ SavedSelections /\ pc # "down"
      /\ pass.kind = "request" => Visited(stack, F) /\ Selections
  BY <1>1, TopChecks
<1> HIDE DEF F
<1>3. SavedSelections'
  BY <1>1, <1>2, SavedStay
<1>4. CASE SelectConflict
  <2>1. stack' = <<>> /\ pc' = "failed"
    BY <1>4 DEF SelectConflict, Fail
  <2>2. Nested(stack') /\ Visited(stack', F) /\ Selections'
    BY <2>1, EmptyChecks
  <2> QED
    BY <1>1, <1>2, <1>3, <2>2, ChecksGoOn DEF F
<1>5. CASE Collect
  <2>1. stack' = stack /\ pc' = "save"
        /\ \E c : st' = [st EXCEPT !.chat = c, !.sel = IF Selected = {} THEN None ELSE CHOOSE a \in Selected : TRUE]
    BY <1>5 DEF Collect
  <2>2. st'.sel \in Selected \cup {None}
    BY <1>2, <2>1 DEF StandOK, StateOK
  <2>3. Nested(stack') /\ (pass.kind = "request" => Visited(stack', F))
    BY <1>2, <2>1 DEF Nested, Visited
  <2>4. ASSUME pass.kind = "request" PROVE Selections'
    <3> SUFFICES ASSUME KeepsExits PROVE Selections'
      BY DEF Selections
    <3>1. Top.flow.kind = "basic" /\ DOMAIN replies = DOMAIN Top.flow.agents
      BY <1>1 DEF TypeInv, AskOK
    <3>2. Selected \subseteq exits(Top.flow) \cup {None}
      <4>1. \A i \in DOMAIN replies : replies[i].sel \in Top.flow.agents[i].exits \cup {None}
        BY <1>1, <1>2, <2>4 DEF Selections, Answered, Agents
      <4> QED
        BY <3>1, <4>1 DEF Selected, exits
    <3> QED
      BY <2>1, <2>2, <3>1, <3>2 DEF Selections, Top
  <2> QED
    BY <1>1, <1>2, <1>3, <2>3, <2>4, ChecksGoOn DEF F
<1> QED
  BY <1>4, <1>5

\* Checks: the flows that hold others, Respond, triggers and webhooks.
LEMMA HolderChecks ==
  ASSUME NEW made, BuiltUp(made), TypeInv, CheckInv,
         \/ EnterDecorated \/ SeqStep \/ SeqEnds \/ SelectNone \/ SelectEnter \/ UnknownSelect \/ NotifySends
         \/ BareTrigger \/ NothingToDefer \/ DeferFails \/ DeferBody \/ RegisterWebhook \/ RespondRuns
  PROVE  CheckInv'
<1> DEFINE F == ServedFlow(binary, pass.run)
<1>1. /\ pc \in {"run", "armed"} /\ UNCHANGED <<binary, saved>>
      /\ pass' = pass \/ \E b : pass' = [pass EXCEPT !.mixed = b]
  BY DEF EnterDecorated, SeqStep, SeqEnds, SelectNone, SelectEnter, UnknownSelect, NotifySends, BareTrigger,
         NothingToDefer, DeferFails, DeferBody, RegisterWebhook, RespondRuns, Splits, SeqAt, Ready, process, store
<1>2. pass'.kind = pass.kind /\ pass'.run = pass.run
  BY <1>1 DEF TypeInv, ProcessOK, PassFields
<1>3. /\ stack # <<>> /\ Len(stack) \in Nat \ {0} /\ 1 \in DOMAIN stack /\ Top \in Frames /\ Top.flow \in Flows
      /\ Top.path \in Paths /\ Top.scope \in Specs /\ Top.pos \in Nat
      /\ StandOK /\ StackOK(stack) /\ Nested(stack) /\ SavedSelections /\ pc # "down"
      /\ pass.kind = "request" =>
           /\ walk[Top.flow][Top.scope] /\ <<Top.path, Top.flow>> \in Places(F)
           /\ Visited(stack, F) /\ Selections /\ F \in Flows
  BY <1>1, TopChecks
<1>4. pass.kind = "request" => Grown(Places(F))
  BY <1>3, PlacesGrow
<1> HIDE DEF F
<1>5. Top.flow.kids \in Seq(Flows) /\ \A i \in DOMAIN Top.flow.kids : Top.flow.kids[i] \in Flows /\ i \in Nat
  BY <1>3, FlowsAssumption
<1>6. Nested(stack') /\ (pass.kind = "request" => Visited(stack', F) /\ Selections')
  <2>1. CASE EnterDecorated
    <3> DEFINE x == [Top EXCEPT !.flow = Top.flow.kids[1],
                                !.scope = IF Top.flow.model = None THEN @ ELSE Top.flow.model]
    <3>1. Top.flow.kind = "decorated" /\ stack' = Replaced(stack, x) /\ pc' = "run" /\ st' = st
      BY <2>1 DEF EnterDecorated, Ready, Descend, Replaced
    <3>2. Top.flow.kids[1] \in Flows /\ Top.flow.model \in Specs
      <4>1. Top.flow.kids # <<>> /\ Top.flow.model \in Specs
        BY <1>3, <3>1, FlowsAssumption
      <4> QED
        BY <1>5, <4>1
    <3>3. /\ x \in Frames /\ x.flow = Top.flow.kids[1] /\ x.path = Top.path /\ x.pos = Top.pos
          /\ x.scope = IF Top.flow.model = None THEN Top.scope ELSE Top.flow.model
      BY <1>3, <3>2 DEF Frames
    <3> HIDE DEF x
    <3>4. pass.kind = "request" => walk[x.flow][x.scope] /\ <<x.path, x.flow>> \in Places(F)
      BY <1>3, <1>4, <3>1, <3>3, WalkInto DEF Grown
    <3>5. Nested(stack') /\ (pass.kind = "request" => Visited(stack', F))
      BY <1>3, <3>1, <3>3, <3>4, StackReplaced DEF Top
    <3>6. stack'[1] = x /\ Len(stack') = Len(stack) /\ (Len(stack) > 1 => stack'[2] = stack[2])
      <4>1. /\ stack'[1] = x /\ Len(stack') = Len(stack) /\ stack' \in Seq(Frames)
            /\ \A i \in DOMAIN stack' : i > 1 => stack'[i] = stack[i]
        BY <1>3, <3>1, <3>3, ReplacedIs
      <4> QED
        BY <1>3, <4>1
    <3>7. ASSUME pass.kind = "request" PROVE Selections'
      <4> SUFFICES ASSUME KeepsExits PROVE Selections'
        BY DEF Selections
      <4>1. Top.pos = 1 /\ (Len(stack) > 1 => Before(stack[2].flow, stack[2].pos, st.sel))
        BY <1>1, <1>3, <3>1, <3>7 DEF Selections
      <4> QED
        BY <3>1, <3>3, <3>6, <4>1 DEF Selections, Top, Before
    <3> QED
      BY <3>5, <3>7
  <2>2. CASE SeqStep
    <3>1. Top.sink \in BOOLEAN
      BY <1>3 DEF Frames
    <3>2. PICK s \in BOOLEAN :
            stack' = Pushed(stack, [Top EXCEPT !.flow = Top.flow.kids[Top.pos], !.path = Append(@, Top.pos),
                                               !.pos = 1, !.sink = s])
      BY <2>2, <3>1 DEF SeqStep, Pushed
    <3> DEFINE x == [Top EXCEPT !.flow = Top.flow.kids[Top.pos], !.path = Append(@, Top.pos), !.pos = 1,
                                !.sink = s]
    <3>3. Top.flow.kind = "seq" /\ Top.pos \in DOMAIN Top.flow.kids /\ pc' = "run" /\ st' = st
      BY <2>2 DEF SeqStep, SeqAt, Ready
    <3>4. Append(Top.path, Top.pos) \in Paths
      BY <1>3 DEF Paths
    <3>5. /\ x \in Frames /\ x.flow = Top.flow.kids[Top.pos] /\ x.path = Append(Top.path, Top.pos) /\ x.pos = 1
          /\ x.scope = Top.scope
      BY <1>3, <1>5, <3>3, <3>4 DEF Frames
    <3>6. stack' = Pushed(stack, x)
      BY <3>2
    <3> HIDE DEF x
    <3>7. ASSUME pass.kind = "request" PROVE walk[x.flow][x.scope] /\ <<x.path, x.flow>> \in Places(F)
      <4>1. walk[Top.flow.kids[Top.pos]][Top.scope]
        BY <1>3, <3>3, <3>7, WalkInto
      <4>2. <<Append(Top.path, Top.pos), Top.flow.kids[Top.pos]>> \in Places(F)
        BY <1>3, <1>4, <3>3, <3>7 DEF Grown
      <4> QED
        BY <3>5, <4>1, <4>2
    <3>8. Nested(stack') /\ (pass.kind = "request" => Visited(stack', F))
      BY <1>3, <3>3, <3>5, <3>6, <3>7, StackPushed DEF Top
    <3>9. stack'[1] = x /\ stack'[2] = stack[1]
      <4>1. /\ stack'[1] = x /\ Len(stack') = Len(stack) + 1 /\ stack' \in Seq(Frames)
            /\ \A i \in DOMAIN stack' : i > 1 => stack'[i] = stack[i - 1]
        BY <1>3, <3>5, <3>6, PushedIs
      <4>2. 2 \in DOMAIN stack' /\ 2 > 1 /\ 2 - 1 = 1
        BY <1>3, <4>1
      <4> QED
        BY <4>1, <4>2
    <3>10. ASSUME pass.kind = "request" PROVE Selections'
      <4> SUFFICES ASSUME KeepsExits PROVE Selections'
        BY DEF Selections
      <4>1. Before(Top.flow, Top.pos, st.sel)
        BY <1>1, <1>3, <3>3, <3>10 DEF Selections
      <4> QED
        BY <3>3, <3>5, <3>9, <4>1 DEF Selections, Top, Before
    <3> QED
      BY <3>8, <3>10
  <2>3. CASE SelectEnter
    <3>1. PICK i \in DOMAIN Top.flow.kids :
            /\ Top.flow.kids[i].id = st.sel
            /\ \A j \in DOMAIN Top.flow.kids : Top.flow.kids[j].id = st.sel => i <= j
            /\ stack' = Replaced(stack, [Top EXCEPT !.flow = Top.flow.kids[i], !.path = Append(@, st.sel)])
      BY <2>3 DEF SelectEnter, Replaced
    <3> DEFINE x == [Top EXCEPT !.flow = Top.flow.kids[i], !.path = Append(@, st.sel)]
    <3>2. Top.flow.kind = "select" /\ stack' = Replaced(stack, x) /\ pc' = "run" /\ st' = [st EXCEPT !.sel = None]
      BY <2>3, <3>1 DEF SelectEnter, Ready
    <3>3. Append(Top.path, st.sel) \in Paths
      <4>1. st.sel \in {f.id : f \in Flows}
        BY <1>5, <3>1
      <4> QED
        BY <1>3, <4>1 DEF Paths
    <3>4. /\ x \in Frames /\ x.flow = Top.flow.kids[i] /\ x.path = Append(Top.path, Top.flow.kids[i].id)
          /\ x.scope = Top.scope /\ x.pos = Top.pos
      BY <1>3, <1>5, <3>1, <3>3 DEF Frames
    <3> HIDE DEF x
    <3>5. ASSUME pass.kind = "request" PROVE walk[x.flow][x.scope] /\ <<x.path, x.flow>> \in Places(F)
      <4>1. walk[x.flow][x.scope]
        BY <1>3, <3>2, <3>4, <3>5, WalkInto
      <4>2. \A j \in DOMAIN Top.flow.kids : Top.flow.kids[j].id = Top.flow.kids[i].id => i <= j
        BY <3>1
      <4> QED
        BY <1>3, <1>4, <3>2, <3>4, <3>5, <4>1, <4>2 DEF Grown
    <3>6. Nested(stack') /\ (pass.kind = "request" => Visited(stack', F))
      BY <1>3, <3>2, <3>4, <3>5, StackReplaced DEF Top
    <3>7. stack'[1] = x
      BY <1>3, <3>2, <3>4, ReplacedIs
    <3>8. ASSUME pass.kind = "request" PROVE Selections'
      <4> SUFFICES ASSUME KeepsExits PROVE Selections'
        BY DEF Selections
      <4>1. Top.pos = 1
        BY <1>1, <1>3, <3>2, <3>8 DEF Selections
      <4>2. st'.sel = None
        BY <1>3, <3>2 DEF StandOK, StateOK
      <4> QED
        BY <3>2, <3>4, <3>7, <4>1, <4>2 DEF Selections, Top, Before
    <3> QED
      BY <3>6, <3>8
  <2>4. ASSUME NEW s, Return(s), Top.flow.kind # "basic"
        PROVE  Nested(stack') /\ (pass.kind = "request" => Visited(stack', F) /\ Selections')
    BY <1>3, <2>4, ReturnChecks
  <2>5. ASSUME Fail
        PROVE  Nested(stack') /\ (pass.kind = "request" => Visited(stack', F) /\ Selections')
    <3>1. stack' = <<>> /\ pc' = "failed"
      BY <2>5 DEF Fail
    <3> QED
      BY <3>1, EmptyChecks
  <2>6. CASE SeqEnds \/ SelectNone \/ BareTrigger \/ NothingToDefer \/ DeferBody \/ RegisterWebhook \/ RespondRuns
    <3>1. Top.flow.kind # "basic" /\ \E s : Return(s)
      BY <2>6 DEF SeqEnds, SelectNone, BareTrigger, NothingToDefer, DeferBody, RegisterWebhook, RespondRuns,
                  Splits, SeqAt, Ready
    <3> QED
      BY <2>4, <3>1
  <2>7. CASE UnknownSelect \/ DeferFails
    BY <2>5, <2>7 DEF UnknownSelect, DeferFails
  <2>8. CASE NotifySends
    <3>1. Top.flow.kind # "basic" /\ (Fail \/ Return(st))
      BY <2>8 DEF NotifySends, Ready
    <3> QED
      BY <2>4, <2>5, <3>1
  <2> QED
    BY <2>1, <2>2, <2>3, <2>6, <2>7, <2>8
<1>7. SavedSelections'
  BY <1>1, <1>3, SavedStay
<1> QED
  BY <1>1, <1>2, <1>3, <1>6, <1>7, ChecksGoOn DEF F

\* The program starts so.
LEMMA CheckInit == Init => CheckInv
BY RequestAssumption DEF Init, CheckInv, Validated, Nested, InRequest, SavedSelections, Idle, Runs

\* A pass that is not a client's begins.
LEMMA OtherBegins ==
  ASSUME CheckInv, pc # "down", NEW kind, kind # "request", NEW f, NEW run, run \notin Clients,
         NEW live, NEW said, NEW depth, NEW lineage,
         Begin(kind, f, run, live, said, depth, lineage), binary' = binary, saved' = saved
  PROVE  CheckInv'
<1>1. pass'.kind = kind /\ pass'.run = run /\ Len(stack') = 1 /\ DOMAIN stack' = {1}
  BY DEF Begin, Idle
<1>2. Validated'
  BY DEF CheckInv, Validated, Running
<1>3. Nested(stack')
  BY <1>1 DEF Nested
<1>4. SavedSelections'
  BY SavedStay DEF CheckInv
<1> QED
  BY <1>1, <1>2, <1>3, <1>4 DEF CheckInv, InRequest

\* Checks: a request begins, at the root of what its client is served.
LEMMA ServeChecks ==
  ASSUME TypeInv, CheckInv, NEW r \in Clients, NEW live \in BOOLEAN, Serve(r, live)
  PROVE  CheckInv'
<1> DEFINE F == ServedFlow(binary, r)
           x == [Frame(F) EXCEPT !.sink = live]
<1>1. binary \in DOMAIN Binaries /\ pc = "idle" /\ UNCHANGED <<binary, saved>>
  BY DEF Serve, NewPass, TypeInv, ProcessOK, store, process
<1>2. F \in Flows /\ walk[F][None]
  <2>1. F \in Served(Binaries[binary].entries, Binaries[binary].extra)
    BY <1>1, ServedIs
  <2>2. F \in Flows
    BY <1>1, FlowsAssumption DEF ServedFlow
  <2> QED
    BY <1>1, <2>1, <2>2 DEF CheckInv, Validated, Running, Validate
<1>3. stack' = <<x>> /\ pc' = "run" /\ pass'.kind = "request" /\ pass'.run = r
  BY DEF Serve, Begin, Idle, ServedFlow, Running
<1>4. x.flow = F /\ x.path = <<>> /\ x.pos = 1 /\ x.scope = None
  BY DEF Frame
<1> HIDE DEF F, x
<1>5. <<<<>>, F>> \in Places(F)
  BY <1>2, PlacesGrow
<1>6. stack'[1] = x /\ Len(stack') = 1 /\ DOMAIN stack' = {1}
  BY <1>3
<1>7. Visited(stack', F)
  BY <1>2, <1>4, <1>5, <1>6 DEF Visited
<1>8. Selections'
  BY <1>3, <1>4, <1>6 DEF Selections, Top, Before
<1>9. Nested(stack')
  BY <1>6 DEF Nested
<1>10. Validated'
  BY <1>1 DEF CheckInv, Validated, Running
<1>11. SavedSelections'
  BY <1>1, SavedStay DEF CheckInv
<1> QED
  BY <1>1, <1>3, <1>7, <1>8, <1>9, <1>10, <1>11 DEF CheckInv, InRequest, F

\* Checks: the process starts, boots, ends a pass or crashes.
LEMMA ServerChecks ==
  ASSUME TypeInv, CheckInv,
         (\E b \in DOMAIN Binaries : Deploy(b)) \/ RunAtStartup \/ Booted \/ Finish \/ Ended \/ Crash
  PROVE  CheckInv'
<1>1. SavedSelections /\ saved' = saved
  BY DEF CheckInv, Deploy, RunAtStartup, Booted, Finish, Ended, Crash, store
<1>2. SavedSelections'
  BY <1>1, SavedStay
<1>3. ASSUME NEW b \in DOMAIN Binaries, Deploy(b) PROVE CheckInv'
  <2>1. pc = "down" /\ pc' = "boot" /\ binary' = b /\ UNCHANGED <<pass, stack>>
    BY <1>3 DEF Deploy
  <2>2. stack' = <<>>
    BY <2>1 DEF TypeInv, StandOK
  <2>3. Validated'
    BY <1>3, <2>1 DEF Deploy, Validated, Running
  <2>4. Nested(stack') /\ Visited(stack', ServedFlow(b, pass.run)) /\ Selections'
    BY <2>1, <2>2, EmptyChecks
  <2> QED
    BY <1>2, <2>1, <2>3, <2>4 DEF CheckInv, InRequest
<1>4. CASE RunAtStartup
  <2>1. BootRun \notin Clients /\ pc # "down" /\ binary' = binary
        /\ Begin("boot", seqOf(Head(boot)), BootRun, FALSE, <<>>, 0, 0)
    BY <1>4, RequestAssumption DEF RunAtStartup
  <2> QED
    BY <1>1, <2>1, OtherBegins
<1>5. CASE Booted \/ Finish
  <2>1. pc # "down" /\ pc' \in {"idle", "replied"} /\ pc \in {"boot", "done"} /\ UNCHANGED <<binary, pass, stack>>
    BY <1>5 DEF Booted, Finish, process
  <2>2. stack' = <<>>
    BY <2>1 DEF TypeInv, StandOK
  <2>3. Nested(stack') /\ Visited(stack', ServedFlow(binary, pass.run)) /\ Selections'
    BY <2>1, <2>2, EmptyChecks
  <2> QED
    BY <1>2, <2>1, <2>3, ChecksGoOn
<1>6. CASE Ended \/ Crash
  <2>1. Clear /\ pc' \in {"down", "boot", "idle"} /\ pc # "down" /\ binary' = binary
    BY <1>6 DEF Ended, Crash
  <2>2. stack' = <<>> /\ pass'.kind = "none" /\ pass'.run = Fresh /\ Fresh \notin Clients
    BY <2>1, RequestAssumption DEF Clear, Idle, Runs
  <2>3. Nested(stack')
    BY <2>2 DEF Nested
  <2>4. Validated'
    BY <2>1 DEF CheckInv, Validated, Running
  <2> QED
    BY <1>2, <2>2, <2>3, <2>4 DEF CheckInv, InRequest
<1> QED
  BY <1>3, <1>4, <1>5, <1>6

\* Every step keeps the checks.
LEMMA CheckStep ==
  ASSUME NEW made, BuiltUp(made)
  PROVE  TypeInv /\ CheckInv /\ [Next]_vars => CheckInv'
<1> SUFFICES ASSUME TypeInv, CheckInv, [Next]_vars PROVE CheckInv'
  OBVIOUS
<1>1. CASE Walk
  <2>1. ASSUME NEW i \in DOMAIN replies,
               \/ AgentFails(i)
               \/ \E x \in Agents[i].exits \cup {None} :
                    Streams(x) \/ \E silent \in BOOLEAN : Reply(i, x, silent)
        PROVE  CheckInv'
    BY <2>1, AgentChecks
  <2>2. CASE ActivateDurable \/ Load \/ Miss \/ Save \/ SelectConflict \/ Collect
    BY <2>2, ActivateChecks, LeafChecks, CollectChecks
  <2>3. CASE RunAtStartup \/ Booted \/ Finish \/ Ended
    BY <2>3, ServerChecks
  <2>4. CASE \/ EnterDecorated \/ SeqStep \/ SeqEnds \/ SelectNone \/ SelectEnter \/ UnknownSelect \/ NotifySends
             \/ BareTrigger \/ NothingToDefer \/ DeferFails \/ DeferBody \/ RegisterWebhook \/ RespondRuns
    BY <2>4, HolderChecks
  <2> QED
    BY <1>1, <2>1, <2>2, <2>3, <2>4 DEF Walk
<1>2. CASE (\E b \in DOMAIN Binaries : Deploy(b)) \/ Crash
  BY <1>2, ServerChecks
<1>3. ASSUME NEW r \in Clients, NEW live \in BOOLEAN, Serve(r, live) PROVE CheckInv'
  BY <1>3, ServeChecks
<1>4. Fresh \notin Clients
  BY RequestAssumption DEF Runs
<1>5. ASSUME NEW e \in DOMAIN hooks, CallHook(e) PROVE CheckInv'
  <2>1. /\ pc # "down" /\ UNCHANGED <<binary, saved>>
        /\ \E kind \in {"hook", "background"} :
             Begin(kind, hooks[e].body, Fresh, FALSE, hooks[e].chat, hooks[e].depth, hooks[e].lineage)
    BY <1>5 DEF CallHook, NewPass, process, store
  <2> QED
    BY <1>4, <2>1, OtherBegins
<1>6. ASSUME NEW j \in jobs, FireJob(j) PROVE CheckInv'
  <2>1. /\ pc # "down" /\ UNCHANGED <<binary, saved>>
        /\ Begin("job", registered[j.id], Fresh, FALSE, j.chat, j.depth, j.lineage)
    BY <1>6 DEF FireJob, NewPass, process
  <2> QED
    BY <1>4, <2>1, OtherBegins
<1>7. CASE UNCHANGED vars
  <2>1. UNCHANGED <<saved, binary, pass, stack, st, pc, replies>>
    BY <1>7 DEF vars, store, process, walking
  <2> QED
    BY <2>1 DEF CheckInv, Validated, Running, Nested, InRequest, Visited, Selections, Top, Agents, SavedSelections
<1> QED
  BY <1>1, <1>2, <1>3, <1>5, <1>6, <1>7 DEF Next

\* The agents a request asks resolve to models that build.
AskedModelsBuild ==
  pass.kind = "request" /\ pc = "ask" => \A i \in DOMAIN replies : CanAnswer(i)

\* The flow that asks has passed the walk, under the scope it is in.
LEMMA CheckedBuild ==
  ASSUME NEW made, BuiltUp(made)
  PROVE  TypeInv /\ CheckInv => AskedModelsBuild
<1> SUFFICES ASSUME TypeInv, CheckInv, pass.kind = "request", pc = "ask", NEW i \in DOMAIN replies
             PROVE  CanAnswer(i)
  BY DEF AskedModelsBuild
<1>1. Top.flow \in Flows /\ Top.scope \in Specs /\ walk[Top.flow][Top.scope]
  BY TopChecks
<1>2. Top.flow.kind = "basic" /\ i \in DOMAIN Top.flow.agents
  BY DEF TypeInv, AskOK
<1>3. validAgent(Top.flow.agents[i], Top.flow.model, Top.scope)
  BY <1>1, <1>2, WalkInto
<1> QED
  BY <1>3 DEF validAgent, CanAnswer, AskedOf, Agents

\* For every brain whose flows are built of flows made before them, and whatever is
\* deployed, crashes or is resumed: the walk at startup passes the enclosing model
\* down the tree, the runtime carries it on the context, and every agent a request
\* asks resolves to a model that builds.
THEOREM AskedBuild ==
  ASSUME NEW made, BuiltUp(made)
  PROVE  Spec => []AskedModelsBuild
<1>1. TypeInv /\ CheckInv => AskedModelsBuild
  BY CheckedBuild
<1>2. TypeInv /\ CheckInv /\ [Next]_vars => CheckInv'
  BY CheckStep
<1> QED
  BY <1>1, <1>2, TypeInit, TypeStep, CheckInit, PTL DEF Spec

\* Where, besides, a deployment leaves the leaf at a place the exits it had (they are
\* not in the signature a checkpoint is guarded by): an exit that a leaf before a bare
\* Select selects is a member of it, whether a model selected it or a retry resumed it.
THEOREM StartupChecks ==
  ASSUME NEW made, BuiltUp(made), KeepsExits
  PROVE  Spec => []StartupChecksHold
<1>1. TypeInv /\ CheckInv => StartupChecksHold
  <2> SUFFICES ASSUME TypeInv, CheckInv, pass.kind = "request" PROVE
         /\ pc = "ask" => \A i \in DOMAIN replies : CanAnswer(i)
         /\ pc = "run" /\ Top.flow.kind = "select" /\ Len(stack) > 1
              /\ stack[2].pos > 1 /\ stack[2].flow.kids[stack[2].pos - 1].kind = "basic"
              /\ stack[2].flow.kids[stack[2].pos] = Top.flow
              => st.sel \in ids(Top.flow) \cup {None}
    BY DEF StartupChecksHold
  <2>1. ASSUME pc = "ask", NEW i \in DOMAIN replies PROVE CanAnswer(i)
    BY <2>1, CheckedBuild DEF AskedModelsBuild
  <2>2. ASSUME pc = "run", Top.flow.kind = "select", Len(stack) > 1, stack[2].pos > 1,
               stack[2].flow.kids[stack[2].pos - 1].kind = "basic", stack[2].flow.kids[stack[2].pos] = Top.flow
        PROVE  st.sel \in ids(Top.flow) \cup {None}
    <3> DEFINE g == stack[2].flow
               k == stack[2].pos - 1
    <3>1. StackOK(stack) /\ Nested(stack) /\ Len(stack) \in Nat /\ Selections
          /\ Visited(stack, ServedFlow(binary, pass.run))
      BY <2>2, TopChecks
    <3>2. 2 \in DOMAIN stack /\ stack[2] \in Frames
      BY <2>2, <3>1 DEF StackOK
    <3>3. g \in Flows /\ stack[2].scope \in Specs /\ stack[2].pos \in Nat /\ g.kind = "seq"
      BY <3>1, <3>2 DEF Frames, StackOK
    <3>4. walk[g][stack[2].scope]
      BY <3>1, <3>2 DEF Visited
    <3>5. k \in DOMAIN g.kids /\ k + 1 \in DOMAIN g.kids /\ k + 1 = stack[2].pos
      <4>1. stack[2].pos \in DOMAIN g.kids
        BY <3>1, <3>2 DEF Nested
      <4>2. g.kids \in Seq(Flows)
        BY <3>3, FlowsAssumption
      <4> QED
        BY <2>2, <3>3, <4>1, <4>2
    <3>6. checkSelectAdjacency(g.kids[k], g.kids[k + 1])
      BY <3>3, <3>4, <3>5, WalkInto
    <3>7. st.sel \in exits(g.kids[k]) \cup {None}
      BY <2>2, <3>1 DEF Selections, Before
    <3> QED
      BY <2>2, <3>5, <3>6, <3>7 DEF checkSelectAdjacency
  <2> QED
    BY <2>1, <2>2
<1>2. TypeInv /\ CheckInv /\ [Next]_vars => CheckInv'
  BY CheckStep
<1> QED
  BY <1>1, <1>2, TypeInit, TypeStep, CheckInit, PTL DEF Spec

-----------------------------------------------------------------------------
(* What is recorded stays as it was recorded.                              *)

\* The place p is inside the place q.
Starts(p, q) == Len(q) <= Len(p) /\ \A n \in 1..Len(q) : p[n] = q[n]

\* A place inside a frame's is inside a step that its chain has entered.
Behind(p, s, i) ==
  Starts(p, s[i].path) =>
    /\ s[i].flow.kind = "seq" /\ Len(p) > Len(s[i].path)
    /\ p[Len(s[i].path) + 1] \in 1..(IF i = 1 THEN s[i].pos - 1 ELSE s[i].pos)

\* The frames stand each inside the step of the next at which that one is.
Pathed(s) ==
  /\ \A i \in DOMAIN s : s[i].pos # 0
  /\ \A i, j \in DOMAIN s : j < i =>
       /\ Starts(s[j].path, s[i].path) /\ Len(s[j].path) > Len(s[i].path)
       /\ s[j].path[Len(s[i].path) + 1] = s[i].pos

\* What resumes nothing has p behind it.
NotAhead(s, p) == \A i \in DOMAIN s : s[i].cp = "stale" => Behind(p, s, i)

\* No flow of these resumes or records.
Undurable(s) == \A i \in DOMAIN s : s[i].cp = "none"

\* Records are of runs, at places.
Keys == \A k \in DOMAIN saved : k = <<k[1], k[2]>> /\ k[1] \in Runs /\ k[2] \in Paths

\* What is remembered of the runs.
HistoryOK == sound \in [Runs -> BOOLEAN] /\ DOMAIN answer = Runs

\* A leaf that is to be recorded has not been; what is stale goes on from its own records.
RecordInv ==
  /\ Keys /\ Pathed(stack)
  /\ pass.over \in BOOLEAN /\ (pass.over => Durably)
  /\ Durably \/ Undurable(stack)
  /\ \A k \in current : k[1] = pass.run => NotAhead(stack, k[2])
  /\ pc \in {"ask", "save"} => Top.flow.kind = "basic"
  /\ pc \in {"ask", "save"} /\ Top.cp = "live" /\ sound[pass.run] => Key \notin DOMAIN saved

\* A path and what is appended to it.
LEMMA AppendIs ==
  ASSUME NEW p \in Paths, NEW x \in Nat \cup {f.id : f \in Flows}
  PROVE  /\ Append(p, x) \in Paths /\ Len(p) \in Nat /\ Len(Append(p, x)) = Len(p) + 1
         /\ \A n \in 1..Len(p) : Append(p, x)[n] = p[n]
         /\ Append(p, x)[Len(p) + 1] = x
BY DEF Paths

\* A path goes on from what it is appended to.
LEMMA AppendStarts ==
  ASSUME NEW p \in Paths, NEW x \in Nat \cup {f.id : f \in Flows}
  PROVE  Append(p, x) \in Paths /\ Starts(Append(p, x), p)
BY AppendIs DEF Starts

\* What a checkpoint store finds under a place is inside it.
LEMMA UnderIs ==
  ASSUME NEW r, NEW p \in Paths, NEW q \in Paths
  PROVE  Under(<<r, p>>, q) <=> Starts(p, q)
<1>1. Len(p) \in Nat /\ Len(q) \in Nat /\ DOMAIN q = 1..Len(q)
  BY DEF Paths
<1>2. ASSUME Len(q) <= Len(p) PROVE SubSeq(p, 1, Len(q)) = q <=> \A n \in 1..Len(q) : p[n] = q[n]
  <2>1. SubSeq(p, 1, Len(q)) = [n \in 1..Len(q) |-> p[n]]
    BY <1>1, <1>2 DEF Paths
  <2>2. q = [n \in 1..Len(q) |-> q[n]]
    BY DEF Paths
  <2> QED
    BY <2>1, <2>2
<1> QED
  BY <1>1, <1>2 DEF Under, Starts

\* What is inside is inside what that is inside of.
LEMMA StartsOn ==
  ASSUME NEW p \in Paths, NEW q \in Paths, NEW r \in Paths, Starts(p, q), Starts(q, r)
  PROVE  /\ Starts(p, r) /\ Len(p) >= Len(q)
         /\ Len(q) > Len(r) => Len(r) + 1 \in 1..Len(q) /\ p[Len(r) + 1] = q[Len(r) + 1]
<1>1. Len(p) \in Nat /\ Len(q) \in Nat /\ Len(r) \in Nat
  BY DEF Paths
<1> QED
  BY <1>1 DEF Starts

\* What a chain returns to.
LEMMA PathedPopped ==
  ASSUME NEW s, StackOK(s), s # <<>>, Len(s) # 1, Pathed(s)
  PROVE  /\ Pathed(Popped(s))
         /\ \A p \in Paths : NotAhead(s, p) => NotAhead(Popped(s), p)
         /\ NotAhead(Popped(s), s[1].path)
         /\ Undurable(s) => Undurable(Popped(s))
<1> DEFINE n == Popped(s)
<1>1. /\ s[2] \in Frames /\ 2 \in DOMAIN s
      /\ n \in Seq(Frames) /\ Len(n) = Len(s) - 1 /\ Len(s) \in Nat /\ Len(s) >= 2
      /\ n[1] = [s[2] EXCEPT !.pos = @ + 1]
      /\ \A i \in DOMAIN n : i > 1 => i + 1 \in DOMAIN s /\ n[i] = s[i + 1]
  BY PoppedIs
<1> HIDE DEF n
<1>2. n[1].flow = s[2].flow /\ n[1].cp = s[2].cp /\ n[1].path = s[2].path /\ n[1].pos = s[2].pos + 1
  BY <1>1 DEF Frames
<1>3. DOMAIN n = 1..Len(n) /\ DOMAIN s = 1..Len(s) /\ \A i \in DOMAIN s : s[i].pos \in Nat
  <2>1. s \in Seq(Frames) /\ \A i \in DOMAIN s : s[i] \in Frames
    BY DEF StackOK
  <2> QED
    BY <1>1, <2>1 DEF Frames
<1>4. ASSUME NEW i \in DOMAIN n
      PROVE  /\ i + 1 \in DOMAIN s /\ n[i].flow = s[i + 1].flow /\ n[i].path = s[i + 1].path
             /\ n[i].cp = s[i + 1].cp
             /\ i > 1 => n[i].pos = s[i + 1].pos
  <2>1. CASE i = 1
    <3>1. i + 1 = 2 /\ ~(i > 1)
      BY <2>1
    <3> QED
      BY <1>1, <1>2, <2>1, <3>1
  <2>2. CASE i # 1
    BY <1>1, <1>3, <2>2
  <2> QED
    BY <2>1, <2>2
<1>5. Pathed(n)
  <2>1. ASSUME NEW i \in DOMAIN n PROVE n[i].pos # 0
    <3>1. CASE i = 1
      <4>1. s[2].pos \in Nat /\ n[i].pos = s[2].pos + 1
        BY <1>1, <1>2, <1>3, <3>1
      <4> QED
        BY <4>1
    <3>2. CASE i # 1
      BY <1>3, <1>4, <3>2 DEF Pathed
    <3> QED
      BY <3>1, <3>2
  <2>2. ASSUME NEW i \in DOMAIN n, NEW j \in DOMAIN n, j < i
        PROVE  /\ Starts(n[j].path, n[i].path) /\ Len(n[j].path) > Len(n[i].path)
               /\ n[j].path[Len(n[i].path) + 1] = n[i].pos
    <3>1. j + 1 < i + 1 /\ i > 1
      BY <1>3, <2>2
    <3>2. i + 1 \in DOMAIN s /\ j + 1 \in DOMAIN s
      BY <1>4
    <3>3. /\ Starts(s[j + 1].path, s[i + 1].path) /\ Len(s[j + 1].path) > Len(s[i + 1].path)
          /\ s[j + 1].path[Len(s[i + 1].path) + 1] = s[i + 1].pos
      BY <3>1, <3>2 DEF Pathed
    <3> QED
      BY <1>4, <3>1, <3>3
  <2> QED
    BY <2>1, <2>2 DEF Pathed
<1>6. ASSUME NEW p \in Paths, NotAhead(s, p), NEW i \in DOMAIN n, n[i].cp = "stale"
      PROVE  Behind(p, n, i)
  <2>1. Behind(p, s, i + 1) /\ i + 1 # 1 /\ i + 1 \in DOMAIN s
    BY <1>3, <1>4, <1>6 DEF NotAhead
  <2>2. (IF i + 1 = 1 THEN s[i + 1].pos - 1 ELSE s[i + 1].pos) = (IF i = 1 THEN n[i].pos - 1 ELSE n[i].pos)
    BY <1>2, <1>3, <1>4, <2>1
  <2> QED
    BY <1>4, <2>1, <2>2 DEF Behind
<1>7. ASSUME NEW i \in DOMAIN n PROVE Behind(s[1].path, n, i)
  <2>1. 1 \in DOMAIN s /\ 1 < i + 1 /\ i + 1 \in DOMAIN s
    BY <1>1, <1>3, <1>4
  <2>2. /\ Len(s[1].path) > Len(s[i + 1].path) /\ s[1].path[Len(s[i + 1].path) + 1] = s[i + 1].pos
        /\ s[i + 1].pos # 0
    BY <2>1 DEF Pathed
  <2>3. s[i + 1].flow.kind = "seq"
    BY <2>1 DEF StackOK
  <2>4. s[i + 1].pos \in 1..(IF i = 1 THEN n[i].pos - 1 ELSE n[i].pos)
    BY <1>2, <1>3, <1>4, <2>1, <2>2, SMTT(30)
  <2> QED
    BY <1>4, <2>2, <2>3, <2>4 DEF Behind
<1> QED
  BY <1>4, <1>5, <1>6, <1>7 DEF NotAhead, Undurable, n

\* What the innermost flow hands on to.
LEMMA PathedReplaced ==
  ASSUME NEW s, StackOK(s), s # <<>>, Pathed(s), s[1].flow.kind # "seq", NEW x \in Frames,
         x.pos = s[1].pos, x.cp = s[1].cp, Starts(x.path, s[1].path)
  PROVE  /\ Pathed(Replaced(s, x))
         /\ \A p \in Paths : NotAhead(s, p) => NotAhead(Replaced(s, x), p)
         /\ Undurable(s) => Undurable(Replaced(s, x))
<1> DEFINE n == Replaced(s, x)
<1>1. /\ n \in Seq(Frames) /\ Len(n) = Len(s) /\ Len(s) \in Nat \ {0} /\ s \in Seq(Frames)
      /\ n[1] = x
      /\ \A i \in DOMAIN n : i > 1 => i \in DOMAIN s /\ n[i] = s[i]
  BY ReplacedIs DEF StackOK
<1> HIDE DEF n
<1>2. /\ DOMAIN n = 1..Len(s) /\ DOMAIN s = 1..Len(s) /\ 1 \in DOMAIN s
      /\ \A i \in DOMAIN s : s[i].path \in Paths /\ n[i].path \in Paths
  <2>1. /\ DOMAIN n = 1..Len(s) /\ DOMAIN s = 1..Len(s) /\ 1 \in DOMAIN s
        /\ \A i \in DOMAIN s : s[i] \in Frames /\ n[i] \in Frames
    BY <1>1
  <2> QED
    BY <2>1 DEF Frames
<1>3. ASSUME NEW i \in DOMAIN n PROVE n[i].pos = s[i].pos /\ n[i].cp = s[i].cp /\ Starts(n[i].path, s[i].path)
  BY <1>1, <1>2 DEF Starts
<1>4. ASSUME NEW i \in DOMAIN n, NEW j \in DOMAIN n, j < i
      PROVE  /\ Starts(n[j].path, n[i].path) /\ Len(n[j].path) > Len(n[i].path)
             /\ n[j].path[Len(n[i].path) + 1] = n[i].pos
  <2>1. /\ n[i] = s[i] /\ Starts(s[j].path, s[i].path) /\ Len(s[j].path) > Len(s[i].path)
        /\ s[j].path[Len(s[i].path) + 1] = s[i].pos
    BY <1>1, <1>2, <1>4 DEF Pathed
  <2>2. Starts(n[j].path, s[i].path) /\ Len(n[j].path) >= Len(s[j].path)
        /\ n[j].path[Len(s[i].path) + 1] = s[j].path[Len(s[i].path) + 1]
    <3>1. Starts(n[j].path, s[j].path) /\ n[j].path \in Paths /\ s[j].path \in Paths /\ s[i].path \in Paths
      BY <1>2, <1>3
    <3>2. /\ Len(s[i].path) \in Nat /\ Len(s[j].path) \in Nat /\ Len(s[i].path) + 1 \in 1..Len(s[j].path)
      BY <2>1, <3>1 DEF Paths
    <3>3. Starts(n[j].path, s[i].path) /\ Len(n[j].path) >= Len(s[j].path)
      BY <2>1, <3>1, StartsOn
    <3> QED
      BY <3>1, <3>2, <3>3 DEF Starts
  <2>3. Len(n[j].path) \in Nat /\ Len(s[j].path) \in Nat /\ Len(s[i].path) \in Nat
    <3>1. n[j].path \in Paths /\ s[j].path \in Paths /\ s[i].path \in Paths
      BY <1>2
    <3> QED
      BY <3>1 DEF Paths
  <2> QED
    BY <2>1, <2>2, <2>3
<1>5. ASSUME NEW p \in Paths, NotAhead(s, p), NEW i \in DOMAIN n, n[i].cp = "stale"
      PROVE  Behind(p, n, i)
  <2>1. Behind(p, s, i)
    BY <1>2, <1>3, <1>5 DEF NotAhead
  <2>2. CASE i > 1
    BY <1>1, <2>1, <2>2 DEF Behind
  <2>3. CASE i = 1
    <3>1. ~Starts(p, s[1].path)
      BY <2>1, <2>3 DEF Behind
    <3>2. ~Starts(p, n[1].path)
      BY <1>2, <1>3, <3>1, StartsOn
    <3> QED
      BY <2>3, <3>2 DEF Behind
  <2> QED
    BY <1>2, <2>2, <2>3
<1> QED
  BY <1>2, <1>3, <1>4, <1>5 DEF NotAhead, Pathed, Undurable, n

\* The step a chain enters.
LEMMA PathedPushed ==
  ASSUME NEW s, StackOK(s), s # <<>>, Pathed(s), NEW x \in Frames,
         x.pos = 1, x.cp = s[1].cp, x.path = Append(s[1].path, s[1].pos)
  PROVE  /\ Pathed(Pushed(s, x))
         /\ \A p \in Paths : NotAhead(s, p) => NotAhead(Pushed(s, x), p)
         /\ Undurable(s) => Undurable(Pushed(s, x))
<1> DEFINE n == Pushed(s, x)
<1>1. /\ n \in Seq(Frames) /\ Len(n) = Len(s) + 1 /\ Len(s) \in Nat /\ s \in Seq(Frames)
      /\ n[1] = x
      /\ \A i \in DOMAIN n : i > 1 => i - 1 \in DOMAIN s /\ n[i] = s[i - 1]
  BY PushedIs DEF StackOK
<1> HIDE DEF n
<1>2. /\ DOMAIN n = 1..Len(s) + 1 /\ DOMAIN s = 1..Len(s) /\ 1 \in DOMAIN s
      /\ \A i \in DOMAIN s : s[i].path \in Paths /\ s[i].pos \in Nat
  <2>1. /\ DOMAIN n = 1..Len(s) + 1 /\ DOMAIN s = 1..Len(s) /\ \A i \in DOMAIN s : s[i] \in Frames
    BY <1>1
  <2>2. Len(s) # 0
    BY <1>1, EmptySeq
  <2>3. 1 \in DOMAIN s
    BY <1>1, <2>1, <2>2
  <2> QED
    BY <2>1, <2>3 DEF Frames
<1>3. /\ Starts(x.path, s[1].path) /\ Len(x.path) = Len(s[1].path) + 1 /\ Len(s[1].path) \in Nat
      /\ x.path[Len(s[1].path) + 1] = s[1].pos /\ x.path \in Paths
  <2>1. s[1].path \in Paths /\ s[1].pos \in Nat
    BY <1>2
  <2>2. /\ x.path \in Paths /\ Len(s[1].path) \in Nat /\ Len(x.path) = Len(s[1].path) + 1
        /\ \A m \in 1..Len(s[1].path) : x.path[m] = s[1].path[m]
        /\ x.path[Len(s[1].path) + 1] = s[1].pos
    <3> DEFINE q == s[1].path
               z == s[1].pos
    <3>1. q \in Paths /\ z \in Nat \cup {f.id : f \in Flows} /\ x.path = Append(q, z)
      BY <2>1
    <3> HIDE DEF q, z
    <3>2. /\ x.path \in Paths /\ Len(q) \in Nat /\ Len(x.path) = Len(q) + 1
          /\ \A m \in 1..Len(q) : x.path[m] = q[m]
          /\ x.path[Len(q) + 1] = z
      <4> DEFINE w == Append(q, z)
      <4>1. /\ w \in Paths /\ Len(q) \in Nat /\ Len(w) = Len(q) + 1
            /\ \A m \in 1..Len(q) : w[m] = q[m]
            /\ w[Len(q) + 1] = z
        BY <3>1, AppendIs, Zenon
      <4>2. x.path = w
        BY <3>1
      <4> HIDE DEF w
      <4> QED
        BY <4>1, <4>2
    <3> QED
      BY <3>2 DEF q, z
  <2> QED
    BY <2>2 DEF Starts
<1>4. ASSUME NEW i \in DOMAIN n, NEW j \in DOMAIN n, j < i
      PROVE  /\ Starts(n[j].path, n[i].path) /\ Len(n[j].path) > Len(n[i].path)
             /\ n[j].path[Len(n[i].path) + 1] = n[i].pos
  <2>1. i - 1 \in DOMAIN s /\ n[i] = s[i - 1]
    BY <1>1, <1>2, <1>4
  <2>2. CASE j > 1
    <3>1. j - 1 \in DOMAIN s /\ n[j] = s[j - 1] /\ j - 1 < i - 1
      BY <1>1, <1>2, <1>4, <2>2
    <3> QED
      BY <2>1, <3>1 DEF Pathed
  <2>3. CASE j = 1 /\ i = 2
    <3>1. n[i] = s[1] /\ n[j] = x
      BY <1>1, <2>1, <2>3
    <3>2. Len(s[1].path) + 1 > Len(s[1].path)
      BY <1>3
    <3> QED
      BY <1>3, <3>1, <3>2
  <2>4. CASE j = 1 /\ i > 2
    <3>1. /\ Starts(s[1].path, s[i - 1].path) /\ Len(s[1].path) > Len(s[i - 1].path)
          /\ s[1].path[Len(s[i - 1].path) + 1] = s[i - 1].pos
      BY <1>2, <2>1, <2>4, SMTT(30) DEF Pathed
    <3>2. /\ Starts(x.path, s[i - 1].path)
          /\ x.path[Len(s[i - 1].path) + 1] = s[1].path[Len(s[i - 1].path) + 1]
      BY <1>2, <1>3, <2>1, <3>1, StartsOn
    <3>3. Len(s[i - 1].path) \in Nat
      <4>1. s[i - 1].path \in Paths
        BY <1>2, <2>1
      <4> QED
        BY <4>1 DEF Paths
    <3>4. n[j] = x
      BY <1>1, <2>4
    <3>5. Len(x.path) > Len(s[i - 1].path)
      BY <1>3, <3>1, <3>3
    <3> QED
      BY <2>1, <3>1, <3>2, <3>4, <3>5
  <2> QED
    BY <1>2, <1>4, <2>2, <2>3, <2>4
<1>5. ASSUME NEW p \in Paths, NotAhead(s, p), NEW i \in DOMAIN n, n[i].cp = "stale"
      PROVE  Behind(p, n, i)
  <2>1. CASE i > 2
    <3>1. i - 1 \in DOMAIN s /\ i - 1 # 1 /\ n[i] = s[i - 1]
      BY <1>1, <1>2, <2>1
    <3> QED
      <4>1. Behind(p, s, i - 1)
        BY <1>5, <3>1 DEF NotAhead
      <4> QED
        BY <2>1, <3>1, <4>1 DEF Behind
  <2>2. CASE i = 2
    <3>1. n[i] = s[1] /\ Behind(p, s, 1)
      <4>1. n[i] = s[i - 1] /\ i - 1 = 1
        BY <1>1, <1>2, <2>2
      <4> QED
        BY <1>2, <1>5, <4>1 DEF NotAhead
    <3>2. 1..s[1].pos - 1 \subseteq 1..s[1].pos
      BY <1>2
    <3> QED
      BY <2>2, <3>1, <3>2 DEF Behind
  <2>3. CASE i = 1
    <3>1. Behind(p, s, 1)
      BY <1>1, <1>2, <1>5, <2>3 DEF NotAhead
    <3>2. ASSUME Starts(p, x.path) PROVE FALSE
      <4>1. Starts(p, s[1].path) /\ p[Len(s[1].path) + 1] = s[1].pos
        <5>1. s[1].path \in Paths /\ Len(x.path) > Len(s[1].path)
          BY <1>2, <1>3
        <5> QED
          BY <1>3, <3>2, <5>1, StartsOn, ZenonT(40)
      <4>2. s[1].pos \in 1..s[1].pos - 1
        BY <3>1, <4>1 DEF Behind
      <4> QED
        BY <1>2, <4>2
    <3> QED
      BY <1>1, <2>3, <3>2 DEF Behind
  <2> QED
    BY <1>2, <2>1, <2>2, <2>3
<1>6. ASSUME NEW i \in DOMAIN n PROVE n[i].pos # 0
  <2>1. CASE i = 1
    BY <1>1, <2>1
  <2>2. CASE i > 1
    BY <1>1, <2>2 DEF Pathed
  <2> QED
    BY <1>2, <2>1, <2>2
<1>7. ASSUME Undurable(s), NEW i \in DOMAIN n PROVE n[i].cp = "none"
  <2>1. CASE i = 1
    BY <1>1, <1>2, <1>7, <2>1 DEF Undurable
  <2>2. CASE i > 1
    BY <1>1, <1>7, <2>2 DEF Undurable
  <2> QED
    BY <1>2, <2>1, <2>2
<1> QED
  BY <1>4, <1>5, <1>6, <1>7 DEF NotAhead, Pathed, Undurable, n

\* A Durable is entered.
LEMMA PathedMarked ==
  ASSUME NEW s, StackOK(s), s # <<>>, Pathed(s), NEW c \in {"live", "stale"}
  PROVE  LET n == [s EXCEPT ![1].cp = c]
         IN /\ Pathed(n)
            /\ \A p \in Paths : NotAhead(s, p) /\ (c = "stale" => ~Starts(p, s[1].path)) => NotAhead(n, p)
<1> DEFINE n == [s EXCEPT ![1].cp = c]
<1>1. s \in Seq(Frames) /\ Len(s) \in Nat \ {0} /\ DOMAIN s = 1..Len(s) /\ 1 \in DOMAIN s /\ s[1] \in Frames
  BY DEF StackOK
<1>2. n[1] = [s[1] EXCEPT !.cp = c] /\ DOMAIN n = DOMAIN s /\ \A i \in DOMAIN s : i # 1 => n[i] = s[i]
  BY <1>1
<1> HIDE DEF n
<1>3. n[1].path = s[1].path /\ n[1].pos = s[1].pos /\ n[1].flow = s[1].flow /\ n[1].cp = c
  BY <1>1, <1>2 DEF Frames
<1>4. \A i \in DOMAIN n : n[i].path = s[i].path /\ n[i].pos = s[i].pos /\ n[i].flow = s[i].flow
                          /\ (i # 1 => n[i].cp = s[i].cp)
  BY <1>2, <1>3
<1>5. Pathed(n)
  BY <1>2, <1>4 DEF Pathed
<1>6. ASSUME NEW p \in Paths, NotAhead(s, p), c = "stale" => ~Starts(p, s[1].path),
             NEW i \in DOMAIN n, n[i].cp = "stale"
      PROVE  Behind(p, n, i)
  <2>1. CASE i = 1
    BY <1>3, <1>6, <2>1 DEF Behind
  <2>2. CASE i # 1
    BY <1>2, <1>4, <1>6, <2>2 DEF Behind, NotAhead
  <2> QED
    BY <2>1, <2>2
<1> QED
  BY <1>5, <1>6 DEF NotAhead, n

\* The pass goes on, or is over, with the records as they are.
LEMMA RecordsGoOn ==
  ASSUME RecordInv, UNCHANGED <<saved, current>>, pass'.run = pass.run, pass'.over = pass.over,
         pc' \notin {"ask", "save"}, Pathed(stack'),
         \A p \in Paths : NotAhead(stack, p) => NotAhead(stack', p),
         Undurable(stack) => Undurable(stack'), current \subseteq DOMAIN saved
  PROVE  RecordInv'
<1>1. \A k \in current : k[2] \in Paths
  BY DEF RecordInv, Keys
<1> QED
  BY <1>1 DEF RecordInv, Keys, Durably

\* Nothing stands on the stack.
LEMMA PathedEmpty == Pathed(<<>>) /\ Undurable(<<>>) /\ \A p \in Paths : NotAhead(<<>>, p)
BY DEF Pathed, Undurable, NotAhead

\* A flow returns.
LEMMA PathedReturn ==
  ASSUME StandOK, stack # <<>>, Pathed(stack), NEW s, Return(s)
  PROVE  /\ pc' \in {"run", "done"} /\ Pathed(stack')
         /\ \A p \in Paths : NotAhead(stack, p) => NotAhead(stack', p)
         /\ Undurable(stack) => Undurable(stack')
         /\ NotAhead(stack', Top.path)
<1>1. CASE Len(stack) = 1
  <2>1. stack' = <<>> /\ pc' = "done"
    BY <1>1 DEF Return
  <2> QED
    BY <2>1, PathedEmpty DEF NotAhead
<1>2. CASE Len(stack) # 1
  <2>1. stack' = Popped(stack) /\ pc' = "run"
    BY <1>2 DEF Return, Popped
  <2> QED
    BY <1>2, <2>1, PathedPopped DEF StandOK, Top
<1> QED
  BY <1>1, <1>2

\* Records: a Durable is entered.
LEMMA ActivateRecords ==
  ASSUME TypeInv, RecordInv, ActivateDurable
  PROVE  RecordInv'
<1> USE DEF TypeInv
<1>1. /\ pc = "run" /\ Durably /\ saved' = saved /\ pc' = "armed" /\ current' \subseteq current
      /\ current \subseteq DOMAIN saved /\ pass'.run = pass.run
      /\ pass'.over \in BOOLEAN
  <2>1. pass.run = pass'.run /\ pass'.over \in BOOLEAN /\ current' \subseteq current
    BY DEF ActivateDurable, Live, Stale, ProcessOK, PassFields, RecordInv
  <2> QED
    BY <2>1 DEF ActivateDurable, KeptOK
<1>2. stack # <<>> /\ StackOK(stack) /\ Pathed(stack) /\ Top.path \in Paths
  <2>1. stack # <<>> /\ Top \in Frames /\ StackOK(stack)
    BY <1>1, TopIs
  <2> QED
    BY <2>1 DEF Frames, RecordInv
<1>3. PICK c \in {"live", "stale"} :
        /\ stack' = [stack EXCEPT ![1].cp = c]
        /\ c = "stale" => current' = {k \in current : ~(k[1] = pass.run /\ Under(k, Top.path))}
  BY DEF ActivateDurable, Live, Stale
<1>4. /\ Pathed(stack')
      /\ \A p \in Paths : NotAhead(stack, p) /\ (c = "stale" => ~Starts(p, Top.path)) => NotAhead(stack', p)
  BY <1>2, <1>3, PathedMarked DEF Top
<1>5. ASSUME NEW k \in current', k[1] = pass'.run PROVE NotAhead(stack', k[2])
  <2>1. k \in current /\ k[1] = pass.run /\ k = <<k[1], k[2]>> /\ k[2] \in Paths /\ NotAhead(stack, k[2])
    BY <1>1, <1>5 DEF RecordInv, Keys
  <2>2. ASSUME c = "stale" PROVE ~Starts(k[2], Top.path)
    <3>1. ~Under(k, Top.path)
      BY <1>3, <1>5, <2>1, <2>2
    <3>2. Under(<<k[1], k[2]>>, Top.path) <=> Starts(k[2], Top.path)
      BY <1>2, <2>1, UnderIs
    <3> QED
      BY <2>1, <3>1, <3>2
  <2> QED
    BY <1>4, <2>1, <2>2
<1>6. Keys'
  BY <1>1 DEF RecordInv, Keys
<1>7. Durably'
  BY <1>1 DEF Durably
<1> QED
  BY <1>1, <1>4, <1>5, <1>6, <1>7 DEF RecordInv

\* Records: a leaf is read back, is to be asked, or is saved.
LEMMA LeafRecords ==
  ASSUME HistoryOK, TypeInv, RecordInv, Load \/ Miss \/ Save
  PROVE  RecordInv'
<1> USE DEF TypeInv
<1>1. /\ stack # <<>> /\ StackOK(stack) /\ Pathed(stack) /\ Top.path \in Paths /\ pass' = pass
      /\ current \subseteq DOMAIN saved
  <2>1. stack # <<>> /\ Top \in Frames /\ StackOK(stack)
    BY TopIs DEF Load, Miss, Save, Ready
  <2>2. pass' = pass
    BY DEF Load, Miss, Save
  <2> QED
    BY <2>1, <2>2 DEF Frames, RecordInv, KeptOK
<1>2. CASE Load
  <2>1. Return(saved[Key]) /\ UNCHANGED <<saved, current>>
    BY <1>2 DEF Load, store, history
  <2> QED
    BY <1>1, <2>1, PathedReturn, RecordsGoOn DEF RecordInv
<1>3. CASE Miss
  <2>1. /\ pc' = "ask" /\ UNCHANGED <<stack, saved, current>> /\ Top.flow.kind = "basic"
        /\ \/ (Top.cp # "live" \/ Key \notin DOMAIN saved)
           \/ Top.cp = "live" /\ StoreFails
    BY <1>3 DEF Miss, store, Ready
  <2>2. ASSUME Top'.cp = "live", sound'[pass'.run], Key \in DOMAIN saved PROVE FALSE
    <3>1. StoreFails /\ stack[1].cp = "live"
      BY <2>1, <2>2 DEF Top
    <3>2. Durably
      <4>1. 1 \in DOMAIN stack
        BY <1>1 DEF StackOK
      <4> QED
        BY <3>1, <4>1 DEF RecordInv, Undurable
    <3>3. pass.run \in Runs
      BY <3>2 DEF Durably, ProcessOK
    <3>4. sound' = [sound EXCEPT ![pass.run] = FALSE]
      BY <3>1, <3>2 DEF StoreFails
    <3> QED
      BY <1>1, <2>2, <3>3, <3>4 DEF HistoryOK
  <2>3. Top' = Top /\ Key' = Key
    BY <1>1, <2>1 DEF Top, Key
  <2> QED
    BY <1>1, <2>1, <2>2, <2>3 DEF RecordInv, Keys, Durably
<1>4. CASE Save
  <2>1. Return(st) /\ pc = "save" /\ Key = <<pass.run, Top.path>>
        /\ \/ UNCHANGED <<saved, current>>
           \/ Top.cp # "none" /\ saved' = Write(saved, Key, st) /\ current' = current \cup {Key}
    BY <1>4 DEF Save, Key
  <2>2. CASE UNCHANGED <<saved, current>>
    BY <1>1, <2>1, <2>2, PathedReturn, RecordsGoOn DEF RecordInv
  <2>3. CASE Top.cp # "none" /\ saved' = Write(saved, Key, st) /\ current' = current \cup {Key}
    <3>1. pass.run \in Runs
      <4>1. 1 \in DOMAIN stack
        BY <1>1 DEF StackOK
      <4>2. Durably
        BY <2>3, <4>1 DEF RecordInv, Undurable, Top
      <4> QED
        BY <4>2 DEF Durably, ProcessOK
    <3>2. Keys'
      BY <1>1, <2>1, <2>3, <3>1 DEF RecordInv, Keys, Write
    <3>3. /\ pc' \in {"run", "done"} /\ Pathed(stack')
          /\ Undurable(stack) => Undurable(stack')
          /\ \A p \in Paths : NotAhead(stack, p) => NotAhead(stack', p)
          /\ NotAhead(stack', Top.path)
      BY <1>1, <2>1, PathedReturn
    <3>4. ASSUME NEW k \in current', k[1] = pass.run PROVE NotAhead(stack', k[2])
      <4>1. CASE k = Key
        BY <2>1, <3>3, <4>1
      <4>2. CASE k # Key
        BY <1>1, <2>3, <3>3, <3>4, <4>2 DEF RecordInv, Keys
      <4> QED
        BY <4>1, <4>2
    <3> QED
      BY <1>1, <3>2, <3>3, <3>4 DEF RecordInv, Durably
  <2> QED
    BY <2>1, <2>2, <2>3
<1> QED
  BY <1>2, <1>3, <1>4

\* Records: the agents of a leaf.
LEMMA AgentRecords ==
  ASSUME TypeInv, RecordInv,
         \/ SelectConflict \/ Collect
         \/ \E i \in DOMAIN replies :
              \/ AgentFails(i)
              \/ \E x \in Agents[i].exits \cup {None} :
                   Streams(x) \/ \E silent \in BOOLEAN : Reply(i, x, silent)
  PROVE  RecordInv'
<1>1. pc = "ask" /\ UNCHANGED <<saved, current, pass>> /\ current \subseteq DOMAIN saved
  BY DEF AgentFails, Streams, Reply, SelectConflict, Collect, store, history, TypeInv, KeptOK
<1>2. CASE stack' = <<>> /\ pc' = "failed"
  BY <1>1, <1>2, PathedEmpty, RecordsGoOn
<1>3. CASE UNCHANGED <<stack, sound>> /\ pc' \in {"ask", "save"}
  BY <1>1, <1>3 DEF RecordInv, Keys, Durably, Top, Key
<1>4. \/ stack' = <<>> /\ pc' = "failed"
      \/ UNCHANGED <<stack, sound>> /\ pc' \in {"ask", "save"}
  <2>1. CASE SelectConflict
    BY <2>1 DEF SelectConflict, Fail
  <2>2. CASE Collect
    BY <2>2 DEF Collect
  <2>3. ASSUME NEW i \in DOMAIN replies, AgentFails(i) PROVE stack' = <<>> /\ pc' = "failed"
    BY <2>3 DEF AgentFails, Fail
  <2>4. ASSUME NEW i \in DOMAIN replies, NEW x \in Agents[i].exits \cup {None},
               Streams(x) \/ \E silent \in BOOLEAN : Reply(i, x, silent)
        PROVE  UNCHANGED <<stack, sound>> /\ pc' \in {"ask", "save"}
    BY <1>1, <2>4 DEF Streams, Reply, history
  <2> QED
    BY <2>1, <2>2, <2>3, <2>4
<1> QED
  BY <1>2, <1>3, <1>4

\* Records: the flows that hold others, Respond, triggers and webhooks.
LEMMA HolderRecords ==
  ASSUME TypeInv, RecordInv,
         \/ EnterDecorated \/ SeqStep \/ SeqEnds \/ SelectNone \/ SelectEnter \/ UnknownSelect \/ NotifySends
         \/ BareTrigger \/ NothingToDefer \/ DeferFails \/ DeferBody \/ RegisterWebhook \/ RespondRuns
  PROVE  RecordInv'
<1>1. /\ pc \in {"run", "armed"} /\ UNCHANGED <<saved, current>>
      /\ pass' = pass \/ \E b : pass' = [pass EXCEPT !.mixed = b]
  BY DEF EnterDecorated, SeqStep, SeqEnds, SelectNone, SelectEnter, UnknownSelect, NotifySends, BareTrigger,
         NothingToDefer, DeferFails, DeferBody, RegisterWebhook, RespondRuns, Splits, SeqAt, Ready, history, store
<1>2. pass'.over = pass.over /\ pass'.run = pass.run
  BY <1>1 DEF TypeInv, ProcessOK, PassFields
<1>3. /\ stack # <<>> /\ Top \in Frames /\ Top.flow \in Flows /\ StandOK /\ StackOK(stack) /\ Pathed(stack)
      /\ Top.path \in Paths /\ Top.pos \in Nat /\ current \subseteq DOMAIN saved
  <2>1. stack # <<>> /\ Top \in Frames /\ Top.flow \in Flows /\ StackOK(stack)
    BY <1>1, TopIs DEF TypeInv
  <2> QED
    BY <2>1 DEF Frames, RecordInv, TypeInv, KeptOK
<1>4. Top.flow.kids \in Seq(Flows) /\ \A i \in DOMAIN Top.flow.kids : Top.flow.kids[i] \in Flows /\ i \in Nat
  BY <1>3, FlowsAssumption
<1>5. ASSUME NEW x \in Frames, stack' = Replaced(stack, x), pc' = "run", Top.flow.kind # "seq",
             x.pos = Top.pos, x.cp = Top.cp, Starts(x.path, Top.path)
      PROVE  RecordInv'
  BY <1>1, <1>2, <1>3, <1>5, PathedReplaced, RecordsGoOn DEF Top
<1>6. CASE EnterDecorated
  <2> DEFINE x == [Top EXCEPT !.flow = Top.flow.kids[1],
                              !.scope = IF Top.flow.model = None THEN @ ELSE Top.flow.model]
  <2>1. Top.flow.kind = "decorated" /\ stack' = Replaced(stack, x) /\ pc' = "run"
    BY <1>6 DEF EnterDecorated, Ready, Descend, Replaced
  <2>2. Top.flow.kids[1] \in Flows /\ Top.flow.model \in Specs
    <3>1. Top.flow.kids # <<>> /\ Top.flow.model \in Specs
      BY <1>3, <2>1, FlowsAssumption
    <3> QED
      BY <1>4, <3>1
  <2>3. x \in Frames /\ x.path = Top.path /\ x.pos = Top.pos /\ x.cp = Top.cp
    BY <1>3, <2>2 DEF Frames
  <2>4. Starts(Top.path, Top.path)
    BY <1>3 DEF Starts, Paths
  <2> HIDE DEF x
  <2> QED
    BY <1>5, <2>1, <2>3, <2>4
<1>7. CASE SeqStep
  <2>1. Top.sink \in BOOLEAN
    BY <1>3 DEF Frames
  <2>2. PICK s \in BOOLEAN :
          stack' = Pushed(stack, [Top EXCEPT !.flow = Top.flow.kids[Top.pos], !.path = Append(@, Top.pos),
                                             !.pos = 1, !.sink = s])
    BY <1>7, <2>1 DEF SeqStep, Pushed
  <2> DEFINE x == [Top EXCEPT !.flow = Top.flow.kids[Top.pos], !.path = Append(@, Top.pos), !.pos = 1,
                              !.sink = s]
  <2>3. Top.flow.kind = "seq" /\ Top.pos \in DOMAIN Top.flow.kids /\ pc' = "run"
    BY <1>7 DEF SeqStep, SeqAt, Ready
  <2>4. Append(Top.path, Top.pos) \in Paths
    BY <1>3 DEF Paths
  <2>5. x \in Frames /\ x.path = Append(Top.path, Top.pos) /\ x.pos = 1 /\ x.cp = Top.cp
    BY <1>3, <1>4, <2>3, <2>4 DEF Frames
  <2>6. stack' = Pushed(stack, x)
    BY <2>2
  <2> HIDE DEF x
  <2> QED
    BY <1>1, <1>2, <1>3, <2>3, <2>5, <2>6, PathedPushed, RecordsGoOn DEF Top
<1>8. CASE SelectEnter
  <2>1. PICK i \in DOMAIN Top.flow.kids :
          /\ Top.flow.kids[i].id = st.sel
          /\ stack' = Replaced(stack, [Top EXCEPT !.flow = Top.flow.kids[i], !.path = Append(@, st.sel)])
    BY <1>8 DEF SelectEnter, Replaced
  <2> DEFINE x == [Top EXCEPT !.flow = Top.flow.kids[i], !.path = Append(@, st.sel)]
  <2>2. Top.flow.kind = "select" /\ stack' = Replaced(stack, x) /\ pc' = "run"
    BY <1>8, <2>1 DEF SelectEnter, Ready
  <2>3. Append(Top.path, st.sel) \in Paths /\ Starts(Append(Top.path, st.sel), Top.path)
    <3>1. st.sel \in {f.id : f \in Flows}
      BY <1>4, <2>1
    <3>2. \A p \in Paths : Append(p, st.sel) \in Paths /\ Starts(Append(p, st.sel), p)
      BY <3>1, AppendStarts
    <3> QED
      BY <1>3, <3>2
  <2>4. x \in Frames /\ x.path = Append(Top.path, st.sel) /\ x.pos = Top.pos /\ x.cp = Top.cp
    BY <1>3, <1>4, <2>1, <2>3 DEF Frames
  <2> HIDE DEF x
  <2> QED
    BY <1>5, <2>2, <2>3, <2>4
<1>9. ASSUME NEW s, Return(s) PROVE RecordInv'
  BY <1>1, <1>2, <1>3, <1>9, PathedReturn, RecordsGoOn
<1>10. ASSUME Fail PROVE RecordInv'
  <2>1. stack' = <<>> /\ pc' = "failed"
    BY <1>10 DEF Fail
  <2> QED
    BY <1>1, <1>2, <1>3, <2>1, PathedEmpty, RecordsGoOn
<1>11. CASE \/ SeqEnds \/ SelectNone \/ BareTrigger \/ NothingToDefer \/ DeferBody \/ RegisterWebhook
            \/ RespondRuns \/ NotifySends \/ UnknownSelect \/ DeferFails
  <2>1. Fail \/ \E s : Return(s)
    BY <1>11 DEF SeqEnds, SelectNone, BareTrigger, NothingToDefer, DeferBody, RegisterWebhook, RespondRuns,
                 NotifySends, UnknownSelect, DeferFails
  <2> QED
    BY <1>9, <1>10, <2>1
<1> QED
  BY <1>6, <1>7, <1>8, <1>11

\* Records: a pass begins.
LEMMA BeginRecords ==
  ASSUME TypeInv, RecordInv, NEW kind, NEW f, NEW run, NEW live, NEW said, NEW depth, NEW lineage,
         Begin(kind, f, run, live, said, depth, lineage), UNCHANGED <<saved, current>>
  PROVE  RecordInv'
<1> DEFINE x == [Frame(f) EXCEPT !.sink = live]
<1>1. stack' = <<x>> /\ pc' = "run" /\ pass'.over = FALSE
  BY DEF Begin, Idle
<1>2. x.pos = 1 /\ x.cp = "none"
  BY DEF Frame
<1> HIDE DEF x
<1>3. stack'[1] = x /\ DOMAIN stack' = {1}
  BY <1>1
<1>4. Pathed(stack') /\ Undurable(stack') /\ \A p : NotAhead(stack', p)
  BY <1>2, <1>3 DEF Pathed, Undurable, NotAhead
<1> QED
  BY <1>1, <1>4 DEF RecordInv, Keys

\* Records: the process starts, boots, ends a pass or crashes.
LEMMA ServerRecords ==
  ASSUME TypeInv, RecordInv,
         (\E b \in DOMAIN Binaries : Deploy(b)) \/ Booted \/ Finish \/ Ended \/ Crash
  PROVE  RecordInv'
<1>1. UNCHANGED <<saved, current>>
  BY DEF Deploy, Booted, Finish, Ended, Crash, store, history
<1>2. CASE (\E b \in DOMAIN Binaries : Deploy(b)) \/ Booted \/ Finish
  <2>1. UNCHANGED <<pass, stack>> /\ pc' \notin {"ask", "save"}
    BY <1>2 DEF Deploy, Booted, Finish
  <2> QED
    BY <1>1, <2>1 DEF RecordInv, Keys, Durably
<1>3. CASE Ended \/ Crash
  <2>1. pass'.over = FALSE /\ stack' = <<>> /\ pc' \notin {"ask", "save"}
    BY <1>3 DEF Ended, Crash, Clear, Idle
  <2>2. Pathed(stack') /\ Undurable(stack') /\ \A p : NotAhead(stack', p)
    BY <2>1 DEF Pathed, Undurable, NotAhead
  <2> QED
    BY <1>1, <2>1, <2>2 DEF RecordInv, Keys
<1> QED
  BY <1>2, <1>3

\* The program starts so.
LEMMA RecordInit == Init => RecordInv /\ HistoryOK
<1> SUFFICES ASSUME Init PROVE RecordInv /\ HistoryOK
  OBVIOUS
<1>1. pass.over = FALSE /\ stack = <<>> /\ saved = <<>> /\ current = {} /\ pc = "down"
  BY DEF Init, Idle
<1>2. HistoryOK
  BY DEF Init, HistoryOK
<1>3. Keys
  BY <1>1 DEF Keys
<1>4. Pathed(stack) /\ Undurable(stack)
  BY <1>1, PathedEmpty
<1> QED
  BY <1>1, <1>2, <1>3, <1>4 DEF RecordInv

\* Every step keeps what is remembered.
LEMMA HistoryStep == TypeInv /\ HistoryOK /\ [Next]_vars => HistoryOK'
<1> SUFFICES ASSUME TypeInv, HistoryOK, [Next]_vars PROVE HistoryOK'
  OBVIOUS
<1> USE DEF history
<1>1. ASSUME sound' = sound \/ \E r : sound' = [sound EXCEPT ![r] = FALSE],
             answer' = answer \/ \E r, a : answer' = [answer EXCEPT ![r] = a]
      PROVE  HistoryOK'
  BY <1>1 DEF HistoryOK
<1>2. CASE Walk
  <2>1. ASSUME NEW i \in DOMAIN replies,
               \/ AgentFails(i)
               \/ \E x \in Agents[i].exits \cup {None} :
                    Streams(x) \/ \E silent \in BOOLEAN : Reply(i, x, silent)
        PROVE  HistoryOK'
    BY <1>1, <2>1 DEF AgentFails, Fail, Cut, Streams, Reply
  <2>2. CASE ActivateDurable \/ Load \/ Miss \/ Save \/ SelectConflict \/ Collect
    BY <1>1, <2>2 DEF ActivateDurable, Load, Miss, Save, SelectConflict, Collect, Fail, Cut, StoreOK, StoreFails
  <2>3. CASE RunAtStartup \/ Booted \/ Finish \/ Ended
    BY <1>1, <2>3 DEF RunAtStartup, Booted, Finish, Ended
  <2>4. CASE \/ EnterDecorated \/ SeqStep \/ SeqEnds \/ SelectNone \/ SelectEnter \/ UnknownSelect \/ NotifySends
             \/ BareTrigger \/ NothingToDefer \/ DeferFails \/ DeferBody \/ RegisterWebhook \/ RespondRuns
    BY <1>1, <2>4
    DEF EnterDecorated, SeqStep, SeqEnds, SelectNone, SelectEnter, UnknownSelect, NotifySends, BareTrigger,
        NothingToDefer, DeferFails, DeferBody, RegisterWebhook, RespondRuns, Fail, Cut
  <2> QED
    BY <1>2, <2>1, <2>2, <2>3, <2>4 DEF Walk
<1>3. CASE (\E b \in DOMAIN Binaries : Deploy(b)) \/ Crash
  BY <1>1, <1>3 DEF Deploy, Crash, Cut
<1>4. CASE \/ \E r \in Clients, live \in BOOLEAN : Serve(r, live)
           \/ \E e \in DOMAIN hooks : CallHook(e)
           \/ \E j \in jobs : FireJob(j)
  BY <1>1, <1>4 DEF Serve, CallHook, FireJob
<1>5. CASE UNCHANGED vars
  BY <1>5 DEF vars, HistoryOK
<1> QED
  BY <1>2, <1>3, <1>4, <1>5 DEF Next

\* Every step keeps the records.
LEMMA RecordStep == HistoryOK /\ TypeInv /\ RecordInv /\ [Next]_vars => RecordInv'
<1> SUFFICES ASSUME HistoryOK, TypeInv, RecordInv, [Next]_vars PROVE RecordInv'
  OBVIOUS
<1>1. CASE Walk
  <2>1. CASE \/ SelectConflict \/ Collect
             \/ \E i \in DOMAIN replies :
                  \/ AgentFails(i)
                  \/ \E x \in Agents[i].exits \cup {None} :
                       Streams(x) \/ \E silent \in BOOLEAN : Reply(i, x, silent)
    BY <2>1, AgentRecords
  <2>2. CASE ActivateDurable \/ Load \/ Miss \/ Save
    BY <2>2, ActivateRecords, LeafRecords
  <2>3. CASE Booted \/ Finish \/ Ended
    BY <2>3, ServerRecords
  <2>4. CASE \/ EnterDecorated \/ SeqStep \/ SeqEnds \/ SelectNone \/ SelectEnter \/ UnknownSelect \/ NotifySends
             \/ BareTrigger \/ NothingToDefer \/ DeferFails \/ DeferBody \/ RegisterWebhook \/ RespondRuns
    BY <2>4, HolderRecords
  <2>5. CASE RunAtStartup
    BY <2>5, BeginRecords DEF RunAtStartup, store, history
  <2> QED
    BY <1>1, <2>1, <2>2, <2>3, <2>4, <2>5 DEF Walk
<1>2. CASE (\E b \in DOMAIN Binaries : Deploy(b)) \/ Crash
  BY <1>2, ServerRecords
<1>3. CASE \/ \E r \in Clients, live \in BOOLEAN : Serve(r, live)
           \/ \E e \in DOMAIN hooks : CallHook(e)
           \/ \E j \in jobs : FireJob(j)
  BY <1>3, BeginRecords DEF Serve, CallHook, FireJob, store, history
<1>4. CASE UNCHANGED vars
  <2>1. UNCHANGED <<saved, current, sound, pass, stack, pc>>
    BY <1>4 DEF vars, store, walking, history
  <2> QED
    BY <2>1 DEF RecordInv, Keys, Durably, Top, Key
<1> QED
  BY <1>1, <1>2, <1>3, <1>4 DEF Next

\* The records of the runs, as the promise speaks of them.
Log == [r \in Runs |-> [k \in {c \in current : c[1] = r} |-> saved[k].chat]]

\* A run is answered, with whatever.
Told(r) == answer' = [answer EXCEPT ![r] = answer'[r]] /\ UNCHANGED <<Log, sound>>

\* What may happen to what is recorded.
RecordStays == \E r \in Runs : Promise!Record(r) \/ Promise!Forget(r) \/ Promise!Doubt(r) \/ Told(r)

\* The log is what is saved and current.
LEMMA LogIs ==
  /\ DOMAIN Log = Runs
  /\ \A r \in Runs : DOMAIN Log[r] = {c \in current : c[1] = r}
  /\ \A r \in Runs, k \in current : k[1] = r => Log[r][k] = saved[k].chat
BY DEF Log

\* The log is told by the store.
LEMMA LogStays == UNCHANGED <<saved, current>> => Log' = Log
BY DEF Log

\* A Durable that resumes nothing forgets; nothing else does.
LEMMA ActivateKeeps ==
  ASSUME HistoryOK, TypeInv, RecordInv, ActivateDurable
  PROVE  RecordStays \/ UNCHANGED <<Log, answer, sound>>
<1> USE DEF TypeInv
<1>1. /\ saved' = saved /\ answer' = answer /\ pass.run \in Runs
  BY DEF ActivateDurable, Durably, ProcessOK
<1>2. CASE Live /\ StoreOK
  BY <1>1, <1>2, LogStays DEF Live, StoreOK
<1>3. CASE Stale /\ (StoreOK \/ StoreFails)
  <2>1. current' = {k \in current : ~(k[1] = pass.run /\ Under(k, Top.path))}
    BY <1>3 DEF Stale
  <2>2. \E b \in BOOLEAN : sound' = [sound EXCEPT ![pass.run] = @ /\ b]
    <3>1. CASE StoreOK
      <4>1. sound' = [sound EXCEPT ![pass.run] = @ /\ TRUE]
        BY <1>1, <3>1 DEF StoreOK, HistoryOK
      <4> QED
        BY <4>1
    <3>2. CASE StoreFails
      <4>1. sound' = [sound EXCEPT ![pass.run] = @ /\ FALSE]
        BY <1>1, <3>2, RequestAssumption DEF StoreFails, Durably, HistoryOK
      <4> QED
        BY <4>1
    <3> QED
      BY <1>3, <3>1, <3>2
  <2>3. /\ \A r \in Runs : DOMAIN Log'[r] = {c \in current' : c[1] = r}
        /\ \A r \in Runs, k \in current' : k[1] = r => Log'[r][k] = saved'[k].chat
        /\ DOMAIN Log' = Runs
    BY DEF Log
  <2>4. /\ DOMAIN Log'[pass.run] \subseteq DOMAIN Log[pass.run]
        /\ \A k \in DOMAIN Log'[pass.run] : Log'[pass.run][k] = Log[pass.run][k]
    BY <1>1, <2>1, <2>3, LogIs
  <2>5. ASSUME NEW q \in Runs \ {pass.run} PROVE Log'[q] = Log[q]
    <3>1. {c \in current' : c[1] = q} = {c \in current : c[1] = q}
      BY <2>1, <2>5
    <3> QED
      BY <1>1, <3>1 DEF Log
  <2>6. PICK r \in Runs : r = pass.run
    BY <1>1
  <2>7. Promise!Forget(r)
    BY <1>1, <2>2, <2>4, <2>5, <2>6 DEF Promise!Forget, Log
  <2> QED
    BY <2>7 DEF RecordStays
<1> QED
  BY <1>2, <1>3 DEF ActivateDurable, Stale, Live

\* A leaf that is saved is recorded.
LEMMA SaveKeeps ==
  ASSUME HistoryOK, TypeInv, RecordInv, Save
  PROVE  RecordStays \/ UNCHANGED <<Log, answer, sound>>
<1> USE DEF TypeInv
<1>1. answer' = answer /\ pc = "save" /\ stack # <<>>
  BY TopIs DEF Save
<1>2. CASE Top.cp = "none" /\ StoreOK /\ UNCHANGED <<saved, current>>
  BY <1>1, <1>2, LogStays DEF StoreOK
<1>3. ASSUME Top.cp # "none" PROVE pass.run \in Runs /\ Durably
  <2>1. 1 \in DOMAIN stack
    BY <1>1 DEF StandOK, StackOK
  <2>2. Durably
    BY <1>3, <2>1 DEF RecordInv, Undurable, Top
  <2> QED
    BY <2>2 DEF Durably, ProcessOK
<1>4. CASE Top.cp # "none" /\ StoreFails /\ UNCHANGED <<saved, current>>
  <2>1. sound' = [sound EXCEPT ![pass.run] = FALSE] /\ Log' = Log
    BY <1>3, <1>4, LogStays DEF StoreFails
  <2>2. PICK r \in Runs : r = pass.run
    BY <1>3, <1>4
  <2>3. Promise!Doubt(r)
    BY <1>1, <2>1, <2>2 DEF Promise!Doubt, Log
  <2> QED
    BY <2>3 DEF RecordStays
<1>5. CASE Top.cp # "none" /\ StoreOK /\ saved' = Write(saved, Key, st) /\ current' = current \cup {Key}
  <2>1. pass.run \in Runs /\ Durably /\ Key = <<pass.run, Top.path>> /\ sound' = sound /\ Key[1] = pass.run
    BY <1>3, <1>5 DEF Key, StoreOK
  <2>2. /\ \A r \in Runs : DOMAIN Log'[r] = {c \in current' : c[1] = r}
        /\ \A r \in Runs, k \in current' : k[1] = r => Log'[r][k] = saved'[k].chat
        /\ DOMAIN Log' = Runs
    BY DEF Log
  <2>3. \A k \in current : k # Key => saved'[k] = saved[k]
    BY <1>5 DEF Write, KeptOK
  <2>4. DOMAIN Log[pass.run] \subseteq DOMAIN Log'[pass.run]
    BY <1>5, <2>1, <2>2, LogIs
  <2>5. ASSUME sound[pass.run] PROVE Key \notin current
    <3>1. CASE Top.cp = "live"
      BY <1>1, <2>5, <3>1 DEF RecordInv, KeptOK
    <3>2. CASE Top.cp # "live"
      <4>1. Top \in Frames /\ 1 \in DOMAIN stack /\ Top.path \in Paths /\ Top.flow.kind = "basic"
        <5>1. Top \in Frames /\ 1 \in DOMAIN stack
          BY <1>1, TopIs
        <5> QED
          BY <1>1, <5>1 DEF Frames, RecordInv
      <4>2. Top.cp = "stale"
        BY <1>5, <3>2, <4>1 DEF Frames
      <4>3. ~Behind(Top.path, stack, 1)
        BY <4>1 DEF Behind, Starts, Top, Paths
      <4> QED
        BY <2>1, <4>1, <4>2, <4>3 DEF RecordInv, NotAhead, Top
    <3> QED
      BY <3>1, <3>2
  <2>6. ASSUME sound[pass.run], NEW k \in DOMAIN Log[pass.run] PROVE Log'[pass.run][k] = Log[pass.run][k]
    <3>1. k \in current /\ k[1] = pass.run /\ k # Key /\ k \in current'
      BY <1>5, <2>1, <2>5, <2>6, LogIs
    <3> QED
      BY <2>1, <2>2, <2>3, <3>1, LogIs
  <2>7. ASSUME NEW q \in Runs \ {pass.run} PROVE Log'[q] = Log[q]
    <3>1. {c \in current' : c[1] = q} = {c \in current : c[1] = q}
      BY <1>5, <2>1, <2>7
    <3>2. \A c \in {c \in current : c[1] = q} : saved'[c] = saved[c]
      BY <2>1, <2>3, <2>7
    <3> QED
      BY <3>1, <3>2 DEF Log
  <2>8. PICK r \in Runs : r = pass.run
    BY <2>1
  <2>9. Promise!Record(r)
    BY <1>1, <2>1, <2>4, <2>6, <2>7, <2>8 DEF Promise!Record, Log
  <2> QED
    BY <2>9 DEF RecordStays
<1> QED
  BY <1>2, <1>4, <1>5 DEF Save

\* What neither records nor forgets.
LEMMA OtherKeeps ==
  ASSUME UNCHANGED <<saved, current>>, answer' = answer,
         sound' = sound \/ (pass.run \in Runs /\ sound' = [sound EXCEPT ![pass.run] = FALSE])
  PROVE  RecordStays \/ UNCHANGED <<Log, answer, sound>>
<1>1. Log' = Log
  BY LogStays
<1>2. ASSUME pass.run \in Runs, sound' = [sound EXCEPT ![pass.run] = FALSE] PROVE RecordStays
  <2>1. PICK r \in Runs : r = pass.run
    BY <1>2
  <2>2. Promise!Doubt(r)
    BY <1>1, <1>2, <2>1 DEF Promise!Doubt, Log
  <2> QED
    BY <2>2 DEF RecordStays
<1> QED
  BY <1>1, <1>2

\* Every step is one of the promise's, but for what an answer tells.
LEMMA RecordsKept ==
  HistoryOK /\ TypeInv /\ RecordInv /\ [Next]_vars => [RecordStays]_(<<Log, answer, sound>>)
<1> SUFFICES ASSUME HistoryOK, TypeInv, RecordInv, [Next]_vars
             PROVE  RecordStays \/ UNCHANGED <<Log, answer, sound>>
  OBVIOUS
<1>1. ASSUME Cut PROVE sound' = sound \/ (pass.run \in Runs /\ sound' = [sound EXCEPT ![pass.run] = FALSE])
  BY <1>1 DEF Cut, RecordInv, Durably, TypeInv, ProcessOK
<1>2. CASE Walk
  <2>1. ASSUME NEW i \in DOMAIN replies,
               \/ AgentFails(i)
               \/ \E x \in Agents[i].exits \cup {None} :
                    Streams(x) \/ \E silent \in BOOLEAN : Reply(i, x, silent)
        PROVE  RecordStays \/ UNCHANGED <<Log, answer, sound>>
    BY <1>1, <2>1, OtherKeeps DEF AgentFails, Fail, Streams, Reply, store, history
  <2>2. CASE ActivateDurable \/ Save
    BY <2>2, ActivateKeeps, SaveKeeps
  <2>3. CASE Miss
    <3>1. UNCHANGED <<saved, current, answer>>
      BY <2>3 DEF Miss, store
    <3>2. sound' = sound \/ (Durably /\ sound' = [sound EXCEPT ![pass.run] = FALSE])
      BY <2>3 DEF Miss, StoreOK, StoreFails
    <3> QED
      BY <3>1, <3>2, OtherKeeps DEF Durably, TypeInv, ProcessOK
  <2>4. CASE SelectConflict \/ Collect \/ Load \/ RunAtStartup \/ Booted \/ Ended
    BY <1>1, <2>4, OtherKeeps DEF SelectConflict, Collect, Load, RunAtStartup, Booted, Ended, Fail, store, history
  <2>5. CASE Finish
    <3>1. UNCHANGED <<saved, current, sound>> /\ Log' = Log
      BY <2>5, LogStays DEF Finish, store
    <3>2. CASE pass.run \in Runs
      <4>1. PICK r \in Runs : r = pass.run
        BY <3>2
      <4>2. answer' = [answer EXCEPT ![r] = answer'[r]]
        <5>1. Durably
          BY <4>1, RequestAssumption DEF Durably
        <5>2. answer' = [answer EXCEPT ![r] = st.chat]
          BY <2>5, <4>1, <5>1 DEF Finish
        <5>3. answer'[r] = st.chat
          BY <4>1, <5>2 DEF HistoryOK
        <5> QED
          BY <5>2, <5>3
      <4> QED
        BY <3>1, <4>2 DEF RecordStays, Told
    <3>3. CASE pass.run \notin Runs
      BY <2>5, <3>1, <3>3 DEF Finish, Durably, TypeInv, ProcessOK
    <3> QED
      BY <3>2, <3>3
  <2>6. CASE \/ EnterDecorated \/ SeqStep \/ SeqEnds \/ SelectNone \/ SelectEnter \/ UnknownSelect \/ NotifySends
             \/ BareTrigger \/ NothingToDefer \/ DeferFails \/ DeferBody \/ RegisterWebhook \/ RespondRuns
    <3>1. UNCHANGED <<saved, current, answer>> /\ (Cut \/ sound' = sound)
      BY <2>6
      DEF EnterDecorated, SeqStep, SeqEnds, SelectNone, SelectEnter, UnknownSelect, NotifySends, BareTrigger,
          NothingToDefer, DeferFails, DeferBody, RegisterWebhook, RespondRuns, Fail, store, history
    <3> QED
      BY <1>1, <3>1, OtherKeeps
  <2> QED
    BY <1>2, <2>1, <2>2, <2>3, <2>4, <2>5, <2>6 DEF Walk
<1>3. CASE (\E b \in DOMAIN Binaries : Deploy(b)) \/ Crash
  BY <1>1, <1>3, OtherKeeps DEF Deploy, Crash, store, history
<1>4. CASE \/ \E r \in Clients, live \in BOOLEAN : Serve(r, live)
           \/ \E e \in DOMAIN hooks : CallHook(e)
           \/ \E j \in jobs : FireJob(j)
  BY <1>4, OtherKeeps DEF Serve, CallHook, FireJob, store, history
<1>5. CASE UNCHANGED vars
  BY <1>5, OtherKeeps DEF vars, store, history
<1> QED
  BY <1>2, <1>3, <1>4, <1>5 DEF Next

\* For every brain, and whatever is deployed, crashes or fails: a step that is
\* recorded for a run is not recorded again and stays as it was recorded, until a
\* Durable finds another structure and forgets what is below it, or the run's records
\* have lost one (Transcript, but for what an answer tells).
THEOREM RecordsStay == Spec => Promise!Init /\ [][RecordStays]_(<<Log, answer, sound>>)
<1>1. Init => Promise!Init
  BY DEF Init, Promise!Init
<1> QED
  BY <1>1, TypeInit, TypeStep, RecordInit, RecordStep, HistoryStep, RecordsKept, PTL DEF Spec
=============================================================================
