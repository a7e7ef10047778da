---------------------------- MODULE FanOutProofs ----------------------------
(***************************************************************************)
(* Theorems about FanOut, for every tree.                                  *)
(***************************************************************************)
EXTENDS FanOut, FiniteSetTheorems, SequenceTheorems, WellFoundedInduction, TLAPS

\* What the proofs need of the types: which functions there are, not the chats.
Shape ==
  /\ tree \in Trees
  /\ st \in [Nodes -> Statuses]
  /\ won \in [Nodes -> Nodes \cup {None}]
  /\ merge = [n \in Nodes |-> [sel |-> merge[n].sel, conflict |-> merge[n].conflict]]
  /\ out = [n \in Nodes |-> [chat |-> out[n].chat, sel |-> out[n].sel]]
  /\ faults \in Nat

\* A tree's paths: a node below another is a member of it or below one.
LEMMA TreePaths ==
  ASSUME tree \in Trees
  PROVE  <<>> \in Nodes /\ \A n \in Nodes : n \in Seq(Nat)
  BY FanOutAssumption DEF Nodes

\* What is above a node of the tree is in the tree.
LEMMA AboveInTree ==
  ASSUME tree \in Trees, NEW n \in Nodes, NEW g \in Above(n)
  PROVE  g \in Nodes /\ ~Leaf(g)
<1>1. n \in Seq(Nat)
  BY TreePaths
<1>2. PICK k \in 0..Len(n) - 1 : g = SubSeq(n, 1, k)
  BY DEF Above
<1>3. n # <<>>
  BY <1>1, <1>2
<1> QED
  BY <1>2, <1>3, FanOutAssumption DEF Nodes, Leaf

\* What is above a node: its parent, and what is above that.
LEMMA AboveParent ==
  ASSUME tree \in Trees, NEW n \in Nodes, n # <<>>
  PROVE  /\ Above(n) = Above(Parent(n)) \cup {Parent(n)}
         /\ Parent(n) # n
<1>1. n \in Seq(Nat)
  BY TreePaths
<1>2. Len(n) \in Nat /\ Len(n) > 0
  BY <1>1
<1>3. Parent(n) = SubSeq(n, 1, Len(n) - 1)
  BY DEF Parent, Front
<1>4. \A i \in 1..Len(n) - 1 : n[i] \in Nat
  BY <1>1, <1>2
<1>5. Len(Parent(n)) = Len(n) - 1
  <2>1. Len(n) - 1 \in Int /\ 1 \in Int
    BY <1>2
  <2>2. Len(SubSeq(n, 1, Len(n) - 1)) = IF 1 <= Len(n) - 1 THEN (Len(n) - 1) - 1 + 1 ELSE 0
    BY <1>4, <2>1, SubSeqProperties
  <2>3. Len(Parent(n)) = IF 1 <= Len(n) - 1 THEN (Len(n) - 1) - 1 + 1 ELSE 0
    BY <1>3, <2>2, Zenon
  <2> QED
    BY <1>2, <2>3
<1>6. ASSUME NEW k \in 0..Len(n) - 2
      PROVE  SubSeq(Parent(n), 1, k) = SubSeq(n, 1, k)
  <2>1. CASE k = 0
    BY <2>1, SubSeqEmpty
  <2>2. CASE k # 0
    <3>1. 1 \in 1..Len(n) /\ Len(n) - 1 \in 1..Len(n) /\ 1 \in 1..(Len(n) - 1) - 1 + 1 /\ k \in 1..(Len(n) - 1) - 1 + 1
      BY <1>2, <2>2
    <3>2. SubSeq(SubSeq(n, 1, Len(n) - 1), 1, k) = SubSeq(n, 1 + 1 - 1, 1 + k - 1)
      BY <1>1, <3>1, SubSeqOfSubSeq
    <3> QED
      BY <1>2, <1>3, <3>2
  <2> QED
    BY <2>1, <2>2
<1>7. Above(n) = {SubSeq(n, 1, k) : k \in 0..Len(n) - 1}
  BY DEF Above
<1>8. Above(Parent(n)) = {SubSeq(Parent(n), 1, k) : k \in 0..Len(n) - 2}
  <2>1. Len(Parent(n)) - 1 = Len(n) - 2
    BY <1>2, <1>5
  <2> QED
    BY <2>1 DEF Above
<1>9. Above(Parent(n)) = {SubSeq(n, 1, k) : k \in 0..Len(n) - 2}
  BY <1>6, <1>8, Zenon
<1>10. \A k : k \in 0..Len(n) - 1 <=> k \in 0..Len(n) - 2 \/ k = Len(n) - 1
  BY <1>2
<1>11. Above(n) = Above(Parent(n)) \cup {Parent(n)}
  BY <1>3, <1>7, <1>9, <1>10, Zenon
<1>12. Parent(n) # n
  BY <1>2, <1>5
<1> QED
  BY <1>11, <1>12

\* A node below another is that one's kid, or below one of its kids.
LEMMA AboveKid ==
  ASSUME tree \in Trees, NEW n \in Nodes, NEW g \in Above(n)
  PROVE  n \in Kids(g) \/ \E m \in Kids(g) : m \in Above(n)
<1>1. n \in Seq(Nat) /\ Len(n) \in Nat
  BY TreePaths
<1>2. PICK k \in 0..Len(n) - 1 : g = SubSeq(n, 1, k)
  BY DEF Above
<1>3. n # <<>>
  BY <1>1, <1>2
<1>4. CASE k = Len(n) - 1
  <2>1. Front(n) = g
    BY <1>2, <1>4 DEF Front
  <2> QED
    BY <1>3, <2>1 DEF Kids
<1>5. CASE k # Len(n) - 1
  <2> DEFINE m == SubSeq(n, 1, k + 1)
  <2>1. k + 1 \in 1..Len(n) - 1 /\ k \in Nat
    BY <1>1, <1>5
  <2>2. m \in Above(n)
    BY <2>1 DEF Above
  <2>3. m \in Nodes
    BY <2>2, AboveInTree
  <2>4. \A i \in 1..k + 1 : n[i] \in Nat
    BY <1>1, <2>1
  <2>5. Len(m) = k + 1
    <3>1. Len(m) = IF 1 <= k + 1 THEN (k + 1) - 1 + 1 ELSE 0
      BY <2>1, <2>4, SubSeqProperties
    <3> HIDE DEF m
    <3> QED
      BY <2>1, <3>1
  <2>6. SubSeq(m, 1, k) = SubSeq(n, 1, k)
    <3>1. CASE k = 0
      BY <3>1, SubSeqEmpty
    <3>2. CASE k # 0
      <4>1. 1 \in 1..Len(n) /\ k + 1 \in 1..Len(n) /\ 1 \in 1..(k + 1) - 1 + 1 /\ k \in 1..(k + 1) - 1 + 1
        BY <1>1, <2>1, <3>2
      <4>2. SubSeq(SubSeq(n, 1, k + 1), 1, k) = SubSeq(n, 1 + 1 - 1, 1 + k - 1)
        BY <1>1, <4>1, SubSeqOfSubSeq
      <4>3. 1 + 1 - 1 = 1 /\ 1 + k - 1 = k
        BY <2>1
      <4> QED
        BY <4>2, <4>3
    <3> QED
      BY <3>1, <3>2
  <2>7. Front(m) = g
    <3>1. Len(m) - 1 = k
      BY <2>1, <2>5
    <3> QED
      BY <1>2, <2>6, <3>1 DEF Front
  <2>8. m # <<>>
    BY <2>1, <2>5
  <2> QED
    BY <2>2, <2>3, <2>7, <2>8 DEF Kids
<1> QED
  BY <1>4, <1>5

-----------------------------------------------------------------------------
(* Every step keeps the tree. *)

\* No step changes the tree.
LEMMA TreeKept ==
  ASSUME [Next]_vars
  PROVE  tree' = tree /\ Nodes' = Nodes
  BY DEF Next, vars, Step, Start, Speak, Return, Defer, Fail, Settle, GroupFails, GroupEnds,
         Accept, Commit, Committed, Nodes

\* Every variable keeps its shape.
LEMMA ShapeInit == Init => Shape
<1> SUFFICES ASSUME Init PROVE Shape
  OBVIOUS
<1>1. won \in [Nodes -> Nodes \cup {None}] /\ st \in [Nodes -> Statuses]
  BY DEF Init, Statuses
<1>2. merge = [n \in Nodes |-> [sel |-> merge[n].sel, conflict |-> merge[n].conflict]]
  BY DEF Init
<1>3. out = [n \in Nodes |-> [chat |-> out[n].chat, sel |-> out[n].sel]]
  BY DEF Init
<1> QED
  BY <1>1, <1>2, <1>3 DEF Init, Shape

\* Every step keeps the shape of the state.
LEMMA ShapeNext == Shape /\ [Next]_vars => Shape'
<1> SUFFICES ASSUME Shape, [Next]_vars PROVE Shape'
  OBVIOUS
<1>0. tree' = tree /\ Nodes' = Nodes
  BY TreeKept
<1>1. CASE UNCHANGED vars
  BY <1>0, <1>1 DEF Shape, vars
<1> SUFFICES ASSUME NEW n \in Nodes, Step(n) \/ Fail(n) PROVE Shape'
  BY <1>1 DEF Next
<1> USE DEF Shape, Statuses, Become, group, commits
<1>2. CASE Start(n)
  BY <1>0, <1>2 DEF Start
<1>3. CASE Speak(n)
  BY <1>0, <1>3 DEF Speak
<1>4. CASE \E sel \in Sels \cup {None} : Return(n, sel)
  <2>1. PICK chat, sel : out' = [out EXCEPT ![n] = [chat |-> chat, sel |-> sel]]
    BY <1>4 DEF Return, Answer
  <2>2. st' \in [Nodes -> Statuses] /\ UNCHANGED <<won, merge, faults>>
    BY <1>4 DEF Return
  <2> QED
    BY <1>0, <2>1, <2>2
<1>5. CASE Defer(n)
  <2>1. CASE UNCHANGED out
    BY <1>0, <1>5, <2>1 DEF Defer, DeferFails
  <2>2. CASE Answer(n, None)
    <3>1. PICK chat, sel : out' = [out EXCEPT ![n] = [chat |-> chat, sel |-> sel]]
      BY <2>2 DEF Answer
    <3>2. UNCHANGED <<won, merge>>
      BY <1>5 DEF Defer
    <3>3. faults' \in Nat
      BY <1>5 DEF Defer, DeferFails
    <3>4. st' \in [Nodes -> Statuses]
      BY <1>5 DEF Defer
    <3> QED
      BY <1>0, <3>1, <3>2, <3>3, <3>4
  <2> QED
    BY <1>5, <2>1, <2>2 DEF Defer
<1>6. CASE Fail(n)
  BY <1>0, <1>6 DEF Fail
<1>7. CASE Settle(n)
  <2>0. \E g : SettleError(n, g) \/ SettleOne(n, g) \/ SettleAll(n, g)
    BY <1>7 DEF Settle
  <2>1. won' \in [Nodes -> Nodes \cup {None}]
    <3>1. won' = won \/ \E g : won' = [won EXCEPT ![g] = n]
      BY <2>0 DEF SettleError, SettleOne, SettleAll
    <3> QED
      BY <3>1
  <2>2. merge' = [g \in Nodes |-> [sel |-> merge'[g].sel, conflict |-> merge'[g].conflict]]
    <3>1. merge' = merge \/ \E g : merge' = [merge EXCEPT ![g] = Add(@, out[n].sel)]
      BY <2>0 DEF SettleError, SettleOne, SettleAll
    <3> QED
      BY <3>1 DEF Add
  <2>3. st' \in [Nodes -> Statuses] /\ out' = out /\ faults' = faults
    BY <1>7 DEF Settle
  <2> QED
    BY <1>0, <2>1, <2>2, <2>3
<1>8. CASE GroupFails(n)
  BY <1>0, <1>8 DEF GroupFails
<1>9. CASE GroupEnds(n)
  BY <1>0, <1>9 DEF GroupEnds, Result
<1>10. CASE Accept(n)
  <2>1. out' = out \/ out' = [out EXCEPT ![n] = Result(n)]
    BY <1>10 DEF Accept
  <2>2. st' \in [Nodes -> Statuses] /\ UNCHANGED <<won, merge, faults>>
    BY <1>10 DEF Accept
  <2> QED
    BY <1>0, <2>1, <2>2 DEF Result
<1>11. CASE Commit(n)
  <2>1. st' \in [Nodes -> Statuses] /\ faults' \in Nat
    BY <1>11 DEF Commit, DeferFails
  <2> QED
    BY <1>0, <1>11, <2>1 DEF Commit
<1>12. CASE Committed(n)
  BY <1>0, <1>12 DEF Committed, Result
<1> QED
  BY <1>2, <1>3, <1>4, <1>5, <1>6, <1>7, <1>8, <1>9, <1>10, <1>11, <1>12 DEF Step

\* The ways a node's status moves.
LEMMA StatusStep ==
  ASSUME Shape, NEW n \in Nodes, Step(n) \/ Fail(n)
  PROVE  /\ st' = [st EXCEPT ![n] = st'[n]]
         /\ \/ st[n] = "off" /\ n # <<>> /\ st[Parent(n)] = "on" /\ st'[n] = "on"
            \/ Leaf(n) /\ st[n] \in {"on", "said"} /\ st'[n] \in {"said", "done", "failed"}
            \/ st[n] \in {"done", "failed"} /\ n # <<>> /\ st'[n] = "settled"
            \/ AllSettled(n) /\ st'[n] \in {"commit", "done", "failed"}
            \/ st[n] = "commit" /\ st'[n] \in {"commit", "done", "failed"}
<1> USE DEF Shape, Become, Leaf, Leaves
<1>1. CASE Start(n)
  BY <1>1 DEF Start
<1>2. CASE Speak(n)
  BY <1>2 DEF Speak
<1>3. CASE \E sel \in Sels \cup {None} : Return(n, sel)
  BY <1>3 DEF Return
<1>4. CASE Defer(n)
  BY <1>4 DEF Defer
<1>5. CASE Fail(n)
  BY <1>5 DEF Fail
<1>6. CASE Settle(n)
  BY <1>6 DEF Settle, SettleError, SettleOne, SettleAll
<1>7. CASE GroupFails(n)
  BY <1>7 DEF GroupFails
<1>8. CASE GroupEnds(n)
  BY <1>8 DEF GroupEnds
<1>9. CASE Accept(n)
  BY <1>9 DEF Accept
<1>10. CASE Commit(n)
  BY <1>10 DEF Commit
<1>11. CASE Committed(n)
  BY <1>11 DEF Committed
<1> QED
  BY <1>1, <1>2, <1>3, <1>4, <1>5, <1>6, <1>7, <1>8, <1>9, <1>10, <1>11 DEF Step

-----------------------------------------------------------------------------
(* No goroutine outlives its group. *)

\* At the start no group has ended, so nothing outlives one.
LEMMA OrphansInit == Init => NoOrphans
<1> SUFFICES ASSUME Init, NEW n \in Nodes, NEW g \in Above(n), Over(g) PROVE FALSE
  BY DEF NoOrphans
<1>1. g \in Nodes
  BY AboveInTree DEF Init
<1> QED
  BY <1>1 DEF Init, Over

\* A group that ends has settled members, and what is below those had ended
\* before they did; a node that starts has nothing above it that is over.
LEMMA OrphansNext == Shape /\ NoOrphans /\ [Next]_vars => NoOrphans'
<1> SUFFICES ASSUME Shape, NoOrphans, [Next]_vars PROVE NoOrphans'
  OBVIOUS
<1>0. tree' = tree /\ Nodes' = Nodes /\ tree \in Trees
  BY TreeKept DEF Shape
<1>1. CASE UNCHANGED vars
  BY <1>0, <1>1 DEF NoOrphans, Over, vars
<1> SUFFICES ASSUME NEW k \in Nodes, Step(k) \/ Fail(k) PROVE NoOrphans'
  BY <1>1 DEF Next
<1> SUFFICES ASSUME NEW n \in Nodes, NEW g \in Above(n), Over(g)' PROVE st'[n] = "settled"
  BY <1>0 DEF NoOrphans
<1>2. g \in Nodes /\ ~Leaf(g)
  BY <1>0, AboveInTree
<1>3. st' = [st EXCEPT ![k] = st'[k]]
  BY StatusStep
<1>4. st \in [Nodes -> Statuses]
  BY DEF Shape
<1>5. CASE Over(g)
  <2>1. st[n] = "settled"
    BY <1>5 DEF NoOrphans
  <2>2. n # k
    BY <2>1, StatusStep DEF AllSettled
  <2> QED
    BY <1>3, <1>4, <2>1, <2>2
<1>6. CASE ~Over(g)
  <2>1. g = k
    BY <1>2, <1>3, <1>4, <1>6 DEF Over
  <2>2. AllSettled(g)
    BY <1>2, <1>6, <2>1, StatusStep DEF Over
  <2>3. n \in Kids(g) \/ \E m \in Kids(g) : m \in Above(n)
    BY <1>0, AboveKid
  <2>4. \A m \in Kids(g) : st[m] = "settled"
    BY <2>2 DEF AllSettled
  <2>5. st[n] = "settled"
    BY <2>3, <2>4 DEF NoOrphans, Over
  <2>6. n # k
    BY <2>1, <2>2, <2>5 DEF AllSettled
  <2> QED
    BY <1>3, <1>4, <2>5, <2>6
<1> QED
  BY <1>5, <1>6

\* NoOrphans holds for every tree: no goroutine of a group is left when the
\* group ends, at any depth (groups.go:154 and :241).
THEOREM NothingOutlivesItsGroup == Spec => []NoOrphans
<1>1. Init => Shape /\ NoOrphans
  BY ShapeInit, OrphansInit
<1>2. Shape /\ NoOrphans /\ [Next]_vars => (Shape /\ NoOrphans)'
  BY ShapeNext, OrphansNext
<1> QED
  BY <1>1, <1>2, PTL DEF Spec

-----------------------------------------------------------------------------
(* A winner stands. *)

\* A member hands its result over while its group is still waiting.
LEMMA SettleWhileOn ==
  ASSUME Shape, NoOrphans, NEW m \in Nodes, Settle(m)
  PROVE  /\ m # <<>> /\ Parent(m) \in Above(m) /\ Parent(m) \in Nodes /\ Parent(m) # m
         /\ ~Over(Parent(m)) /\ st[m] \in {"done", "failed"}
<1>1. m # <<>> /\ st[m] \in {"done", "failed"}
  BY DEF Settle, SettleError, SettleOne, SettleAll
<1>2. Parent(m) \in Above(m) /\ Parent(m) # m
  BY <1>1, AboveParent DEF Shape
<1>3. Parent(m) \in Nodes
  BY <1>2, AboveInTree DEF Shape
<1>4. ~Over(Parent(m))
  BY <1>1, <1>2 DEF NoOrphans
<1> QED
  BY <1>1, <1>2, <1>3, <1>4

\* Every step keeps a winner: a member settles only while its group waits.
LEMMA WinnerNext == Shape /\ NoOrphans /\ WinnerStands /\ [Next]_vars => WinnerStands'
<1> SUFFICES ASSUME Shape, NoOrphans, WinnerStands, [Next]_vars PROVE WinnerStands'
  OBVIOUS
<1>0. tree' = tree /\ Nodes' = Nodes
  BY TreeKept
<1>1. CASE UNCHANGED vars
  BY <1>0, <1>1 DEF WinnerStands, vars
<1> SUFFICES ASSUME NEW k \in Nodes, Step(k) \/ Fail(k) PROVE WinnerStands'
  BY <1>1 DEF Next
<1> SUFFICES ASSUME NEW g \in Nodes, tree[g] = "one", st'[g] = "failed", faults' = 0
             PROVE  won'[g] = None
  BY <1>0 DEF WinnerStands
<1>2. st \in [Nodes -> Statuses] /\ faults \in Nat /\ won \in [Nodes -> Nodes \cup {None}]
  BY DEF Shape
<1>3. CASE Settle(k)
  <2>1. ~Over(Parent(k)) /\ Parent(k) \in Nodes
    BY <1>3, SettleWhileOn
  <2>2. st' = [st EXCEPT ![k] = "settled"]
    BY <1>3 DEF Settle, Become
  <2>3. st[g] = "failed"
    BY <1>2, <2>2
  <2>4. g # Parent(k)
    BY <2>1, <2>3 DEF Over
  <2>5. won'[g] = won[g] /\ faults' = faults
    BY <1>2, <1>3, <2>4 DEF Settle, SettleError, SettleOne, SettleAll, commits
  <2> QED
    BY <2>3, <2>5 DEF WinnerStands
<1>4. CASE ~Settle(k)
  <2>1. won' = won
    BY <1>4 DEF Step, Start, Speak, Return, Defer, Fail, GroupFails, GroupEnds, Accept, Commit,
                Committed, group
  <2>2. CASE st[g] = "failed"
    <3>1. faults = 0
      <4>1. CASE Defer(k)
        BY <1>2, <4>1 DEF Defer, DeferFails
      <4>2. CASE Commit(k)
        BY <1>2, <4>2 DEF Commit, DeferFails
      <4>3. CASE ~Defer(k) /\ ~Commit(k)
        BY <4>3 DEF Step, Start, Speak, Return, Settle, Fail, GroupFails, GroupEnds, Accept,
                    Committed, commits
      <4> QED
        BY <4>1, <4>2, <4>3
    <3> QED
      BY <2>1, <2>2, <3>1 DEF WinnerStands
  <2>3. CASE st[g] # "failed"
    <3>1. g = k
      BY <1>2, <2>3, StatusStep
    <3>2. CASE GroupFails(g)
      BY <2>1, <3>2 DEF GroupFails, Fails
    <3>3. CASE Commit(g)
      <4>1. faults' = faults + 1
        BY <1>2, <2>3, <3>3 DEF Commit, DeferFails
      <4> QED
        BY <1>2, <4>1
    <3>4. CASE ~GroupFails(g) /\ ~Commit(g)
      BY <1>2, <1>4, <2>3, <3>1, <3>4
         DEF Step, Start, Speak, Return, Defer, Fail, GroupEnds, Accept, Committed, Become, Leaf, Leaves
    <3> QED
      BY <3>2, <3>3, <3>4
  <2> QED
    BY <2>2, <2>3
<1> QED
  BY <1>3, <1>4

\* WinnerStands holds for every tree: an error of another member, before or
\* after the winner, never makes One fail (groups.go:243).
THEOREM WinnersStand == Spec => []WinnerStands
<1>1. Init => Shape /\ NoOrphans /\ WinnerStands
  BY ShapeInit, OrphansInit DEF Init, WinnerStands
<1>2. Shape /\ NoOrphans /\ WinnerStands /\ [Next]_vars => (Shape /\ NoOrphans /\ WinnerStands)'
  BY ShapeNext, OrphansNext, WinnerNext
<1> QED
  BY <1>1, <1>2, PTL DEF Spec

-----------------------------------------------------------------------------
(* selMerge sees every disagreement. *)

\* A member settled in g selected s.
Chose(m, s, g) == m \in Kids(g) /\ st[m] = "settled" /\ s # None /\ out[m].sel = s

\* What selMerge knows, for any order in which members settle: its selection is
\* a member's, every member's selection is that one or the flag is up, and the
\* flag is up only when two members disagree.  Only finished members have one.
MergeInv ==
  /\ \A n \in Nodes : st[n] \notin {"done", "settled"} => out[n].sel = None
  /\ \A g \in Nodes : ~Leaf(g) /\ tree[g] # "one" =>
       /\ merge[g].sel # None => \E m \in Kids(g) : Chose(m, merge[g].sel, g)
       /\ \A m \in Kids(g) : \A s : Chose(m, s, g) => merge[g].sel # None /\ (s = merge[g].sel \/ merge[g].conflict)
       /\ merge[g].conflict \in BOOLEAN /\ (merge[g].conflict => Disagree(g))

\* At the start no member has settled and every selMerge is empty.
LEMMA MergeInit == Init => MergeInv
<1> SUFFICES ASSUME Init PROVE MergeInv
  OBVIOUS
<1>1. \A n \in Nodes : st[n] # "settled" /\ out[n].sel = None /\ merge[n].sel = None /\ merge[n].conflict = FALSE
  BY DEF Init
<1>2. \A g : Kids(g) \subseteq Nodes
  BY DEF Kids
<1> QED
  BY <1>1, <1>2 DEF MergeInv, Chose

\* MergeInv is strong enough for ConflictSeen.
LEMMA MergeSeesConflict == MergeInv => ConflictSeen
<1> SUFFICES ASSUME MergeInv, NEW g \in Nodes, ~Leaf(g), tree[g] # "one", Disagree(g)
             PROVE  merge[g].conflict
  BY DEF MergeInv, ConflictSeen
<1>1. PICK m \in Kids(g), n \in Kids(g) :
        /\ st[m] = "settled" /\ st[n] = "settled"
        /\ out[m].sel # None /\ out[n].sel # None /\ out[m].sel # out[n].sel
  BY DEF Disagree
<1>2. Chose(m, out[m].sel, g) /\ Chose(n, out[n].sel, g)
  BY <1>1 DEF Chose
<1> QED
  BY <1>1, <1>2 DEF MergeInv

\* Steps that settle no member leave what the members chose.
LEMMA ChoicesKept ==
  ASSUME Shape, MergeInv, NEW k \in Nodes, Step(k) \/ Fail(k), ~Settle(k)
  PROVE  /\ merge' = merge
         /\ \A m \in Nodes : st[m] = "settled" <=> st'[m] = "settled"
         /\ \A m \in Nodes : st[m] = "settled" => out'[m] = out[m]
         /\ \A m \in Nodes : st'[m] \notin {"done", "settled"} => out'[m].sel = None
<1>1. merge' = merge
  BY DEF Step, Start, Speak, Return, Defer, Fail, GroupFails, GroupEnds, Accept, Commit, Committed, group
<1>2. st' = [st EXCEPT ![k] = st'[k]] /\ st \in [Nodes -> Statuses]
  BY StatusStep DEF Shape
<1>3. st[k] # "settled" /\ st'[k] # "settled"
  <2>1. CASE Start(k) \/ Speak(k) \/ Fail(k) \/ GroupFails(k) \/ GroupEnds(k) \/ Accept(k)
    BY <1>2, <2>1 DEF Start, Speak, Fail, GroupFails, GroupEnds, Accept, AllSettled, Become
  <2>2. CASE Defer(k) \/ Commit(k) \/ Committed(k)
    BY <1>2, <2>2 DEF Defer, Commit, Committed, Become
  <2>3. CASE \E sel \in Sels \cup {None} : Return(k, sel)
    BY <1>2, <2>3 DEF Return, Become
  <2> QED
    BY <2>1, <2>2, <2>3 DEF Step
<1>4. out' = out \/ (st'[k] = "done" /\ \E r : out' = [out EXCEPT ![k] = r])
  <2>1. CASE Start(k) \/ Speak(k) \/ Fail(k) \/ GroupFails(k) \/ Commit(k)
    BY <2>1 DEF Start, Speak, Fail, GroupFails, Commit
  <2>2. CASE Defer(k)
    BY <1>2, <2>2 DEF Defer, Answer, Become
  <2>3. CASE \E sel \in Sels \cup {None} : Return(k, sel)
    BY <1>2, <2>3 DEF Return, Answer, Become
  <2>4. CASE GroupEnds(k) \/ Accept(k) \/ Committed(k)
    BY <1>2, <2>4 DEF GroupEnds, Accept, Committed, Become
  <2> QED
    BY <2>1, <2>2, <2>3, <2>4 DEF Step
<1>5. \A m \in Nodes : m # k => out'[m] = out[m] /\ st'[m] = st[m]
  BY <1>2, <1>4 DEF Shape
<1>6. st[k] # "done"
  BY <1>2, StatusStep, <1>3 DEF AllSettled, Leaf, Leaves
<1>7. st'[k] # "done" => out'[k].sel = None
  BY <1>3, <1>4, <1>6 DEF MergeInv
<1> QED
  BY <1>1, <1>3, <1>5, <1>7 DEF MergeInv

\* Every step keeps MergeInv: only Settle changes a selMerge.
LEMMA MergeNext == Shape /\ NoOrphans /\ MergeInv /\ [Next]_vars => MergeInv'
<1> SUFFICES ASSUME Shape, NoOrphans, MergeInv, [Next]_vars PROVE MergeInv'
  OBVIOUS
<1>0. tree' = tree /\ Nodes' = Nodes
  BY TreeKept
<1>a. \A g : Kids(g)' = Kids(g) /\ Kids(g) \subseteq Nodes
  BY <1>0 DEF Kids
<1>b. \A g : Leaf(g)' <=> Leaf(g)
  BY <1>0 DEF Leaf
<1>1. CASE UNCHANGED vars
  BY <1>0, <1>1, <1>a, <1>b DEF MergeInv, Chose, Disagree, vars
<1> SUFFICES ASSUME NEW k \in Nodes, Step(k) \/ Fail(k) PROVE MergeInv'
  BY <1>1 DEF Next
<1>2. CASE ~Settle(k)
  <2>1. \A g : \A m \in Kids(g) : \A s : Chose(m, s, g)' <=> Chose(m, s, g)
    BY <1>2, <1>a, ChoicesKept DEF Chose
  <2>2. \A g : Disagree(g) => Disagree(g)'
    BY <1>2, <1>a, ChoicesKept DEF Disagree
  <2>3. merge' = merge
    BY <1>2, ChoicesKept
  <2>4. \A m \in Nodes : st'[m] \notin {"done", "settled"} => out'[m].sel = None
    BY <1>2, ChoicesKept
  <2> QED
    BY <1>0, <1>a, <1>b, <2>1, <2>2, <2>3, <2>4 DEF MergeInv
<1>3. CASE Settle(k)
  <2> DEFINE p == Parent(k)
             Now(m, s, g) == m \in Kids(g) /\ st'[m] = "settled" /\ s # None /\ out'[m].sel = s
  <2>1. p \in Nodes /\ k # <<>> /\ st[k] \in {"done", "failed"} /\ k \in Kids(p)
    BY <1>3, SettleWhileOn DEF Kids, Parent
  <2>2. \A g : g # p => k \notin Kids(g)
    BY DEF Kids, Parent
  <2>3. st' = [st EXCEPT ![k] = "settled"] /\ out' = out /\ st \in [Nodes -> Statuses]
    BY <1>3 DEF Settle, Become, Shape
  <2>4. \A m \in Nodes : st'[m] \notin {"done", "settled"} => out'[m].sel = None
    BY <2>3 DEF MergeInv
  <2>5. \A g : \A m \in Kids(g) : \A s : m # k => (Now(m, s, g) <=> Chose(m, s, g))
    BY <1>a, <2>3 DEF Chose
  <2>6. \A g : Disagree(g) => Disagree(g)'
    BY <1>a, <2>1, <2>3 DEF Disagree
  <2>7. \A g \in Nodes : g # p => merge'[g] = merge[g]
    BY <1>3 DEF Settle, SettleError, SettleOne, SettleAll, Shape
  <2> SUFFICES ASSUME NEW g \in Nodes, ~Leaf(g), tree[g] # "one"
               PROVE  /\ merge'[g].sel # None => \E m \in Kids(g) : Now(m, merge'[g].sel, g)
                      /\ \A m \in Kids(g) : \A s : Now(m, s, g) =>
                           merge'[g].sel # None /\ (s = merge'[g].sel \/ merge'[g].conflict)
                      /\ merge'[g].conflict \in BOOLEAN /\ (merge'[g].conflict => Disagree(g)')
    BY <1>0, <1>a, <1>b, <2>4 DEF MergeInv, Chose
  <2> HIDE DEF Now
  <2>8. \A s : ~Chose(k, s, g)
    BY <2>1 DEF Chose
  <2>9. CASE g # p
    BY <2>2, <2>5, <2>6, <2>7, <2>9 DEF MergeInv
  <2>10. CASE g = p /\ st[k] = "failed"
    <3>1. \A s : ~Now(k, s, g)
      BY <2>1, <2>3, <2>10 DEF Chose, MergeInv, Now
    <3>2. merge' = merge
      BY <1>3, <2>10 DEF Settle, SettleError, SettleOne, SettleAll
    <3> QED
      BY <2>5, <2>6, <2>8, <3>1, <3>2 DEF MergeInv
  <2>11. CASE g = p /\ st[k] = "done"
    <3>1. merge' = [merge EXCEPT ![p] = Add(@, out[k].sel)]
      BY <1>3, <2>11 DEF Settle, SettleError, SettleOne, SettleAll
    <3>2. merge'[g] = Add(merge[g], out[k].sel)
      BY <2>11, <3>1 DEF Shape
    <3>3. \A s : Now(k, s, g) <=> (s # None /\ out[k].sel = s)
      BY <1>a, <2>1, <2>3, <2>11 DEF Chose, Now
    <3>4. CASE out[k].sel = None
      <4>1. merge'[g] = merge[g]
        BY <3>2, <3>4 DEF Add
      <4> QED
        BY <2>5, <2>6, <2>8, <3>3, <3>4, <4>1 DEF MergeInv
    <3>5. CASE out[k].sel # None
      <4>1. merge'[g].sel = out[k].sel
        BY <3>2, <3>5 DEF Add
      <4>2. merge'[g].conflict = (merge[g].conflict \/ (merge[g].sel # None /\ merge[g].sel # out[k].sel))
        BY <3>2, <3>5 DEF Add
      <4>3. Now(k, merge'[g].sel, g)
        BY <3>3, <3>5, <4>1
      <4>4. ASSUME NEW m \in Kids(g), NEW s, Now(m, s, g)
            PROVE  s = merge'[g].sel \/ merge'[g].conflict
        <5>1. CASE m = k
          BY <3>3, <4>1, <4>4, <5>1
        <5>2. CASE m # k
          <6>1. Chose(m, s, g)
            BY <2>5, <4>4, <5>2
          <6>2. merge[g].sel # None /\ (s = merge[g].sel \/ merge[g].conflict)
            BY <6>1 DEF MergeInv
          <6> QED
            BY <4>1, <4>2, <6>2
        <5> QED
          BY <5>1, <5>2
      <4>5. merge'[g].conflict \in BOOLEAN
        BY <4>2 DEF MergeInv
      <4>6. ASSUME merge[g].sel # None, merge[g].sel # out[k].sel
            PROVE  Disagree(g)'
        <5>1. PICK m \in Kids(g) : Chose(m, merge[g].sel, g)
          BY <4>6 DEF MergeInv
        <5>2. m # k
          BY <2>8, <5>1
        <5>3. st'[m] = "settled" /\ out'[m].sel = merge[g].sel
          BY <2>3, <5>1, <5>2, <1>a DEF Chose, Now
        <5>4. st'[k] = "settled" /\ out'[k].sel = out[k].sel /\ k \in Kids(g)
          BY <2>1, <2>3, <2>11
        <5> QED
          BY <1>a, <3>5, <4>6, <5>3, <5>4 DEF Disagree
      <4>7. merge'[g].conflict => Disagree(g)'
        BY <2>6, <4>2, <4>6 DEF MergeInv
      <4> QED
        BY <2>1, <2>11, <3>5, <4>1, <4>3, <4>4, <4>5, <4>7
    <3> QED
      BY <3>4, <3>5
  <2> QED
    BY <2>1, <2>9, <2>10, <2>11
<1> QED
  BY <1>2, <1>3

\* ConflictSeen holds for every tree and every set of selections: in whatever
\* order members settle, the flag says whether two of them disagree
\* (groups.go:55-65).
THEOREM ConflictsSeen == Spec => []ConflictSeen
<1>1. Init => Shape /\ NoOrphans /\ MergeInv
  BY ShapeInit, OrphansInit, MergeInit
<1>2. Shape /\ NoOrphans /\ MergeInv /\ [Next]_vars => (Shape /\ NoOrphans /\ MergeInv)'
  BY ShapeNext, OrphansNext, MergeNext
<1> QED
  BY <1>1, <1>2, MergeSeesConflict, PTL DEF Spec

-----------------------------------------------------------------------------
(***************************************************************************)
(* TriggersOnce: work that a leaf schedules inside nested Ones is handed   *)
(* to the Scheduler once, and only for accepted branches.                  *)
(*                                                                         *)
(* The argument: a call waits in the queue of one member of a One, and all *)
(* Ones between that member and the leaf have ended with the leaf's branch *)
(* (QueuedInv, KeptInv).  A One hands its winner's calls one member further*)
(* out, and an outermost One makes them, each leaving the queue as it does *)
(* (OnceInv, SchedInv).  A call that is not made leaves an error behind    *)
(* that reaches the root (LostInv, BrokenInv, Doomed).                     *)
(***************************************************************************)

(* Paths: what Above and Pending say of where a node stands. *)

\* A node and all the groups around it.
Path(n) == Above(n) \cup {n}

\* n is in the member m of a One, or is that member.
Inside(m, n) == m # <<>> /\ m \in Path(n) /\ tree[Parent(m)] = "one"

\* The Ones around n, and those of them within the member m.
Ones(n)      == {g \in Above(n) : tree[g] = "one"}
Within(m, n) == {h \in Ones(n) : m \in Path(h)}

\* A set of numbers has a least element.
LEMMA LeastNumber ==
  ASSUME NEW S \in SUBSET Nat, S # {}
  PROVE  \E k \in S : \A j \in S : k <= j
<1>1. PICK k \in S : \A j \in S : ~(<<j, k>> \in OpToRel(<, Nat))
  BY NatLessThanWellFounded, WFMin, Zenon
<1>2. ASSUME NEW j \in S PROVE k <= j
  <2>1. <<j, k>> \notin OpToRel(<, Nat)
    BY <1>1, Zenon
  <2>2. j \in Nat /\ k \in Nat
    OBVIOUS
  <2>3. ~(j < k)
    BY <2>1, <2>2, Zenon DEF OpToRel
  <2> QED
    BY <2>2, <2>3
<1> QED
  BY <1>2

\* The beginnings of a sequence, and the beginnings of those.
LEMMA Beginnings ==
  ASSUME NEW n \in Seq(Nat), NEW k \in 0..Len(n)
  PROVE  /\ Len(SubSeq(n, 1, k)) = k
         /\ SubSeq(n, 1, k) \in Seq(Nat)
         /\ SubSeq(n, 1, Len(n)) = n
         /\ \A j \in 0..k : SubSeq(SubSeq(n, 1, k), 1, j) = SubSeq(n, 1, j)
<1>0. Len(n) \in Nat /\ \A i \in 1..Len(n) : n[i] \in Nat
  OBVIOUS
<1>1. Len(SubSeq(n, 1, k)) = k /\ SubSeq(n, 1, k) \in Seq(Nat)
  <2>1. \A i \in 1..k : n[i] \in Nat
    BY <1>0
  <2>2. 1 \in Int /\ k \in Int
    BY <1>0
  <2>3. Len(SubSeq(n, 1, k)) = (IF 1 <= k THEN k - 1 + 1 ELSE 0) /\ SubSeq(n, 1, k) \in Seq(Nat)
    BY <2>1, <2>2, SubSeqProperties
  <2>4. (IF 1 <= k THEN k - 1 + 1 ELSE 0) = k
    BY <1>0
  <2> QED
    BY <2>3, <2>4
<1>2. SubSeq(n, 1, Len(n)) = n
  BY SubSeqFull
<1>3. ASSUME NEW j \in 0..k PROVE SubSeq(SubSeq(n, 1, k), 1, j) = SubSeq(n, 1, j)
  <2>1. CASE j = 0
    BY <2>1, SubSeqEmpty
  <2>2. CASE j # 0
    <3>1. 1 \in 1..Len(n) /\ k \in 1..Len(n) /\ 1 \in 1..k - 1 + 1 /\ j \in 1..k - 1 + 1
      BY <1>0, <2>2
    <3>2. SubSeq(SubSeq(n, 1, k), 1, j) = SubSeq(n, 1 + 1 - 1, 1 + j - 1)
      BY <3>1, SubSeqOfSubSeq
    <3>3. 1 + 1 - 1 = 1 /\ 1 + j - 1 = j
      BY <1>0
    <3> QED
      BY <3>2, <3>3
  <2> QED
    BY <2>1, <2>2
<1> QED
  BY <1>1, <1>2, <1>3

\* A path holds the beginnings of a node, and Above the shorter ones.
LEMMA PathIs ==
  ASSUME tree \in Trees, NEW n \in Nodes, NEW g
  PROVE  /\ g \in Above(n) <=> \E k \in 0..Len(n) - 1 : g = SubSeq(n, 1, k)
         /\ g \in Path(n) <=> \E k \in 0..Len(n) : g = SubSeq(n, 1, k)
<1>1. n \in Seq(Nat) /\ Len(n) \in Nat
  BY TreePaths
<1>2. g \in Above(n) <=> \E k \in 0..Len(n) - 1 : g = SubSeq(n, 1, k)
  BY DEF Above
<1>3. n = SubSeq(n, 1, Len(n)) /\ Len(n) \in 0..Len(n)
  BY <1>1, SubSeqFull
<1>4. \A k : k \in 0..Len(n) <=> k \in 0..Len(n) - 1 \/ k = Len(n)
  BY <1>1
<1> QED
  BY <1>2, <1>3, <1>4 DEF Path

\* Above is a strict order, total on what is above one node, with the root first.
LEMMA AboveOrder ==
  ASSUME tree \in Trees, NEW n \in Nodes
  PROVE  /\ n \notin Above(n)
         /\ Above(<<>>) = {}
         /\ n # <<>> => <<>> \in Above(n)
         /\ \A g \in Path(n) : g \in Nodes
         /\ \A g \in Above(n) : Len(g) < Len(n) /\ g # n
         /\ \A g \in Path(n) : \A h \in Above(g) : h \in Above(n)
         /\ \A g, h \in Path(n) : g = h \/ g \in Above(h) \/ h \in Above(g)
<1>1. n \in Seq(Nat) /\ Len(n) \in Nat
  BY TreePaths
<1>2. \A g \in Path(n) : g \in Nodes
  BY AboveInTree DEF Path
<1>3. \A g \in Above(n) : Len(g) < Len(n) /\ g # n
  <2> TAKE g \in Above(n)
  <2>1. PICK k \in 0..Len(n) - 1 : g = SubSeq(n, 1, k)
    BY PathIs
  <2>2. k \in 0..Len(n) /\ k < Len(n)
    BY <1>1
  <2>3. Len(g) = k
    BY <1>1, <2>1, <2>2, Beginnings
  <2> QED
    BY <2>2, <2>3
<1>4. n \notin Above(n)
  BY <1>3
<1>5. Above(<<>>) = {}
  BY DEF Above
<1>6. n # <<>> => <<>> \in Above(n)
  <2>1. SubSeq(n, 1, 0) = <<>>
    BY SubSeqEmpty
  <2>2. n # <<>> => 0 \in 0..Len(n) - 1
    BY <1>1
  <2> QED
    BY <2>1, <2>2, PathIs
<1>7. ASSUME NEW g \in Path(n), NEW h \in Above(g) PROVE h \in Above(n)
  <2>1. PICK k \in 0..Len(n) : g = SubSeq(n, 1, k)
    BY PathIs
  <2>2. g \in Nodes /\ Len(g) = k
    BY <1>1, <1>2, <2>1, Beginnings
  <2>3. PICK j \in 0..Len(g) - 1 : h = SubSeq(g, 1, j)
    BY <2>2, PathIs
  <2>4. j \in 0..k /\ j \in 0..Len(n) - 1
    BY <1>1, <2>2
  <2>5. h = SubSeq(n, 1, j)
    BY <1>1, <2>1, <2>3, <2>4, Beginnings
  <2> QED
    BY <2>4, <2>5, PathIs
<1>8. ASSUME NEW g \in Path(n), NEW h \in Path(n) PROVE g = h \/ g \in Above(h) \/ h \in Above(g)
  <2>1. PICK k \in 0..Len(n) : g = SubSeq(n, 1, k)
    BY PathIs
  <2>2. PICK j \in 0..Len(n) : h = SubSeq(n, 1, j)
    BY PathIs
  <2>3. g \in Nodes /\ Len(g) = k /\ h \in Nodes /\ Len(h) = j
    BY <1>1, <1>2, <2>1, <2>2, Beginnings
  <2>4. k = j \/ k < j \/ j < k
    BY <1>1
  <2>5. CASE k = j
    BY <2>1, <2>2, <2>5
  <2>6. CASE k < j
    <3>1. k \in 0..Len(h) - 1 /\ k \in 0..j
      BY <1>1, <2>3, <2>6
    <3>2. g = SubSeq(h, 1, k)
      BY <1>1, <2>1, <2>2, <3>1, Beginnings
    <3> QED
      BY <2>3, <3>1, <3>2, PathIs
  <2>7. CASE j < k
    <3>1. j \in 0..Len(g) - 1 /\ j \in 0..k
      BY <1>1, <2>3, <2>7
    <3>2. h = SubSeq(g, 1, j)
      BY <1>1, <2>1, <2>2, <3>1, Beginnings
    <3> QED
      BY <2>3, <3>1, <3>2, PathIs
  <2> QED
    BY <2>4, <2>5, <2>6, <2>7
<1> QED
  BY <1>2, <1>3, <1>4, <1>5, <1>6, <1>7, <1>8

\* The group a member is in is above it, and so is all that is above the group.
LEMMA InsideOne ==
  ASSUME tree \in Trees, NEW n \in Nodes, NEW m, Inside(m, n)
  PROVE  /\ m \in Nodes /\ Parent(m) \in Nodes
         /\ Above(m) = Above(Parent(m)) \cup {Parent(m)}
         /\ Parent(m) \in Ones(n) /\ Parent(m) \notin Above(Parent(m))
<1>1. m \in Nodes /\ m # <<>> /\ m \in Path(n) /\ tree[Parent(m)] = "one"
  BY AboveOrder DEF Inside
<1>2. Above(m) = Above(Parent(m)) \cup {Parent(m)}
  BY <1>1, AboveParent
<1>3. Parent(m) \in Above(n)
  BY <1>1, <1>2, AboveOrder
<1>4. Parent(m) \in Nodes /\ Parent(m) \notin Above(Parent(m))
  BY <1>1, <1>3, AboveInTree, AboveOrder
<1> QED
  BY <1>1, <1>2, <1>3, <1>4 DEF Ones

\* One member of a group leads to a node below it.
LEMMA OneMember ==
  ASSUME tree \in Trees, NEW n \in Nodes, NEW l, NEW m, Inside(l, n), Inside(m, n),
         Parent(l) = Parent(m)
  PROVE  l = m
<1>1. l \in Path(n) /\ m \in Path(n)
  BY DEF Inside
<1>2. l = m \/ l \in Above(m) \/ m \in Above(l)
  BY <1>1, AboveOrder
<1>3. Parent(m) \in Above(l) /\ Parent(m) \in Above(m) /\ Parent(m) \notin Above(Parent(m)) /\ Parent(m) \in Nodes
  BY InsideOne
<1>4. l \notin Above(m)
  <2> SUFFICES ASSUME l \in Above(m) PROVE FALSE
    OBVIOUS
  <2>1. l \in Path(Parent(m))
    BY InsideOne DEF Path
  <2> QED
    BY <1>3, <2>1, AboveOrder
<1>5. m \notin Above(l)
  <2> SUFFICES ASSUME m \in Above(l) PROVE FALSE
    OBVIOUS
  <2>1. m \in Path(Parent(m))
    BY InsideOne DEF Path
  <2> QED
    BY <1>3, <2>1, AboveOrder
<1> QED
  BY <1>2, <1>4, <1>5

\* Each One around a node has a member that leads to it.
LEMMA MemberOf ==
  ASSUME tree \in Trees, NEW n \in Nodes, NEW g \in Ones(n)
  PROVE  \E m \in Kids(g) : Inside(m, n) /\ Parent(m) = g
<1>1. g \in Above(n) /\ tree[g] = "one"
  BY DEF Ones
<1>2. n \in Kids(g) \/ \E m \in Kids(g) : m \in Above(n)
  BY <1>1, AboveKid
<1>3. PICK m \in Kids(g) : m \in Path(n)
  BY <1>2 DEF Path
<1>4. m # <<>> /\ Parent(m) = g
  BY <1>3 DEF Kids, Parent
<1> QED
  BY <1>1, <1>3, <1>4 DEF Inside

\* Two members on the path to a node are one within the other.
LEMMA MembersNest ==
  ASSUME tree \in Trees, NEW n \in Nodes, NEW l, NEW m, Inside(l, n), Inside(m, n), l # m
  PROVE  \/ Parent(m) \in Within(l, n) /\ Parent(l) \in Ones(Parent(m)) /\ Len(l) < Len(m)
         \/ Parent(l) \in Within(m, n) /\ Parent(m) \in Ones(Parent(l)) /\ Len(m) < Len(l)
<1> SUFFICES ASSUME NEW a, NEW b, Inside(a, n), Inside(b, n), a \in Above(b)
             PROVE  Parent(b) \in Within(a, n) /\ Parent(a) \in Ones(Parent(b)) /\ Len(a) < Len(b)
  <2>1. l \in Above(m) \/ m \in Above(l)
    BY AboveOrder DEF Inside
  <2> QED
    BY <2>1
<1>1. a \in Path(Parent(b)) /\ b \in Nodes /\ Parent(b) \in Nodes /\ Parent(b) \in Ones(n)
  BY InsideOne DEF Path
<1>2. Parent(a) \in Above(Parent(b)) /\ tree[Parent(a)] = "one"
  BY <1>1, InsideOne, AboveOrder DEF Inside
<1>3. Len(a) < Len(b)
  BY <1>1, AboveOrder
<1> QED
  BY <1>1, <1>2, <1>3 DEF Within, Ones

\* Pending is the member of the nearest One around a node, if there is one.
LEMMA PendingIs ==
  ASSUME tree \in Trees, NEW n \in Nodes, NEW m
  PROVE  m \in Pending(n) <=> Inside(m, n) /\ Within(m, n) = {}
<1> DEFINE S == {l \in (Above(n) \cup {n}) \ {<<>>} : tree[Parent(l)] = "one"}
<1>1. \A l : l \in S <=> Inside(l, n)
  BY DEF Inside, Path
<1>2. m \in Pending(n) <=> m \in S /\ \A l \in S : Len(l) <= Len(m)
  BY DEF Pending, Deepest
<1>3. ASSUME Inside(m, n), \A l \in S : Len(l) <= Len(m), NEW h \in Within(m, n)
      PROVE  FALSE
  <2>1. PICK l : Inside(l, n) /\ Parent(l) = h
    BY MemberOf DEF Within
  <2>2. l # m
    <3>1. m \in Path(Parent(l))
      BY <2>1 DEF Within
    <3>2. Parent(l) \in Above(l) /\ l \in Nodes /\ Parent(l) \in Nodes
      BY <2>1, InsideOne
    <3> QED
      BY <3>1, <3>2, AboveOrder DEF Path
  <2>3. Len(l) <= Len(m)
    BY <1>1, <1>3, <2>1
  <2>4. l \in Nodes /\ m \in Nodes /\ Len(l) \in Nat /\ Len(m) \in Nat
    <3>1. l \in Nodes /\ m \in Nodes
      BY <1>3, <2>1, InsideOne
    <3>2. l \in Seq(Nat) /\ m \in Seq(Nat)
      BY <3>1, TreePaths
    <3> QED
      BY <3>1, <3>2
  <2>5. Parent(l) \in Within(m, n)
    BY <2>1
  <2>6. m \in Above(l)
    <3>1. Above(l) = Above(Parent(l)) \cup {Parent(l)}
      BY <2>1, InsideOne
    <3> QED
      BY <2>5, <3>1 DEF Within, Path
  <2>7. Len(m) < Len(l)
    BY <2>4, <2>6, AboveOrder
  <2> QED
    BY <2>3, <2>4, <2>7
<1>4. ASSUME Inside(m, n), Within(m, n) = {}, NEW l \in S
      PROVE  Len(l) <= Len(m)
  <2>1. Inside(l, n)
    BY <1>1
  <2>2. l \in Nodes /\ m \in Nodes
    BY <1>4, <2>1, InsideOne
  <2>3. l \in Seq(Nat) /\ m \in Seq(Nat)
    BY <2>2, TreePaths
  <2>4. Len(l) \in Nat /\ Len(m) \in Nat
    BY <2>3
  <2>5. l = m \/ Len(l) < Len(m)
    BY <1>4, <2>1, MembersNest
  <2> QED
    BY <2>4, <2>5
<1> QED
  BY <1>1, <1>2, <1>3, <1>4

\* Outside every One there is no Pending, inside one there is; and the outermost
\* One around a node has a member that leads to it.
LEMMA PendingExists ==
  ASSUME tree \in Trees, NEW n \in Nodes
  PROVE  /\ Pending(n) = {} <=> Ones(n) = {}
         /\ Ones(n) # {} => \E m : Inside(m, n) /\ Ones(Parent(m)) = {}
<1> DEFINE S == {m \in Nodes : Inside(m, n)}
<1>1. \A m : m \in S <=> Inside(m, n)
  BY InsideOne
<1>2. n \in Seq(Nat) /\ Len(n) \in Nat /\ \A m \in S : Len(m) \in Nat /\ Len(m) <= Len(n)
  <2>1. \A m \in Nodes : m \in Seq(Nat)
    BY TreePaths
  <2>2. \A m \in S : Len(m) < Len(n) \/ m = n
    BY AboveOrder DEF Inside, Path
  <2> QED
    BY <2>1, <2>2
<1>3. Ones(n) = {} <=> S = {}
  BY MemberOf, InsideOne, <1>1
<1>4. ASSUME S # {} PROVE \E m \in S : \A l \in S : Len(l) <= Len(m)
  <2> DEFINE D == {Len(n) - Len(m) : m \in S}
  <2>1. D \subseteq Nat /\ D # {}
    BY <1>2, <1>4
  <2>2. PICK d \in D : \A e \in D : d <= e
    BY <2>1, LeastNumber
  <2>3. PICK m \in S : d = Len(n) - Len(m)
    BY <2>2
  <2>4. ASSUME NEW l \in S PROVE Len(l) <= Len(m)
    <3>1. Len(n) - Len(l) \in D
      OBVIOUS
    <3>2. Len(n) - Len(m) <= Len(n) - Len(l)
      BY <2>2, <2>3, <3>1
    <3> QED
      BY <1>2, <3>2
  <2> QED
    BY <2>4
<1>5. ASSUME S # {} PROVE \E m \in S : \A l \in S : Len(m) <= Len(l)
  <2> DEFINE D == {Len(m) : m \in S}
  <2>1. D \subseteq Nat /\ D # {}
    BY <1>2, <1>5
  <2>2. PICK d \in D : \A e \in D : d <= e
    BY <2>1, LeastNumber
  <2> QED
    BY <2>2
<1>6. Pending(n) = {} <=> S = {}
  <2>1. Pending(n) = {m \in S : \A l \in S : Len(l) <= Len(m)}
    <3>1. S = {l \in (Above(n) \cup {n}) \ {<<>>} : tree[Parent(l)] = "one"}
      BY <1>1 DEF Inside, Path
    <3> HIDE DEF S
    <3> QED
      BY <3>1 DEF Pending, Deepest
  <2> QED
    BY <1>4, <2>1
<1>7. ASSUME S # {} PROVE \E m : Inside(m, n) /\ Ones(Parent(m)) = {}
  <2>1. PICK m \in S : \A l \in S : Len(m) <= Len(l)
    BY <1>5, <1>7
  <2>2. ASSUME NEW h \in Ones(Parent(m)) PROVE FALSE
    <3>1. Inside(m, n) /\ Parent(m) \in Nodes /\ Parent(m) \in Above(n)
      BY InsideOne DEF Ones
    <3>2. PICK l : Inside(l, Parent(m)) /\ Parent(l) = h
      BY <2>2, <3>1, MemberOf
    <3>3. l \in Above(n)
      BY <3>1, <3>2, AboveOrder DEF Inside, Path
    <3>4. Inside(l, n)
      BY <3>2, <3>3 DEF Inside, Path
    <3>5. l \in Above(m) /\ m \in Nodes
      BY <3>1, <3>2, InsideOne DEF Inside, Path
    <3>6. Len(l) < Len(m)
      BY <3>5, AboveOrder
    <3>7. Len(m) <= Len(l)
      BY <1>1, <2>1, <3>4
    <3> QED
      BY <1>1, <1>2, <3>4, <3>6, <3>7
  <2> QED
    BY <2>1, <2>2
<1> QED
  BY <1>3, <1>6, <1>7

\* won is a beginning of a node just when it is on the node's path.
LEMMA PrefixIs ==
  ASSUME tree \in Trees, NEW n \in Nodes, NEW m \in Nodes
  PROVE  IsPrefix(m, n) <=> m \in Path(n)
<1>1. m \in Seq(Nat) /\ n \in Seq(Nat) /\ Len(m) \in Nat /\ Len(n) \in Nat
  BY TreePaths
<1>2. SubSeq(m, 1, Len(m)) = m
  BY <1>1, SubSeqFull
<1>3. ASSUME IsPrefix(m, n) PROVE m \in Path(n)
  <2>1. Len(m) \in 0..Len(n) /\ m = SubSeq(n, 1, Len(m))
    BY <1>1, <1>2, <1>3 DEF IsPrefix
  <2> QED
    BY <2>1, PathIs
<1>4. ASSUME m \in Path(n) PROVE IsPrefix(m, n)
  <2>1. PICK k \in 0..Len(n) : m = SubSeq(n, 1, k)
    BY <1>4, PathIs
  <2>2. Len(m) = k
    BY <1>1, <2>1, Beginnings
  <2> QED
    BY <1>1, <1>2, <2>1, <2>2 DEF IsPrefix
<1> QED
  BY <1>3, <1>4

-----------------------------------------------------------------------------
(* Queues: what a sequence without repetitions holds. *)

\* What a sequence holds after Append.
LEMMA AppendHolds ==
  ASSUME NEW S, NEW s \in Seq(S), NEW e \in S
  PROVE  /\ Range(Append(s, e)) = Range(s) \cup {e}
         /\ IsInjective(s) /\ e \notin Range(s) => IsInjective(Append(s, e))
<1>1. /\ Append(s, e) \in Seq(S) /\ Len(Append(s, e)) = Len(s) + 1 /\ Len(s) \in Nat
      /\ \A i \in 1..Len(s) : Append(s, e)[i] = s[i]
      /\ Append(s, e)[Len(s) + 1] = e
  BY AppendProperties
<1>2. DOMAIN Append(s, e) = 1..Len(s) + 1 /\ DOMAIN s = 1..Len(s)
  BY <1>1
<1>3. \A i : i \in 1..Len(s) + 1 <=> i \in 1..Len(s) \/ i = Len(s) + 1
  BY <1>1
<1>4. Range(Append(s, e)) = Range(s) \cup {e}
  <2>1. \A x : x \in Range(Append(s, e)) <=> \E i \in 1..Len(s) + 1 : Append(s, e)[i] = x
    BY <1>2 DEF Range
  <2>2. \A x : x \in Range(s) <=> \E i \in 1..Len(s) : s[i] = x
    BY <1>2 DEF Range
  <2> QED
    BY <1>1, <1>3, <2>1, <2>2
<1>5. ASSUME IsInjective(s), e \notin Range(s) PROVE IsInjective(Append(s, e))
  <2>1. \A i \in 1..Len(s) : s[i] # e
    BY <1>2, <1>5 DEF Range
  <2>2. \A i, j \in 1..Len(s) : s[i] = s[j] => i = j
    BY <1>2, <1>5 DEF IsInjective
  <2>3. \A i, j \in 1..Len(s) + 1 : Append(s, e)[i] = Append(s, e)[j] => i = j
    BY <1>1, <1>3, <2>1, <2>2
  <2> QED
    BY <1>2, <2>3 DEF IsInjective
<1> QED
  BY <1>4, <1>5

\* What two sequences hold together.
LEMMA ConcatHolds ==
  ASSUME NEW S, NEW s \in Seq(S), NEW t \in Seq(S)
  PROVE  /\ Range(s \o t) = Range(s) \cup Range(t)
         /\ IsInjective(s) /\ IsInjective(t) /\ Range(s) \cap Range(t) = {} => IsInjective(s \o t)
<1>1. Range(s \o t) = Range(s) \cup Range(t)
  BY RangeConcatenation
<1>2. ASSUME IsInjective(s), IsInjective(t), Range(s) \cap Range(t) = {} PROVE IsInjective(s \o t)
  <2>1. /\ s \o t \in Seq(S) /\ Len(s \o t) = Len(s) + Len(t) /\ Len(s) \in Nat /\ Len(t) \in Nat
        /\ \A i \in 1..Len(s) + Len(t) : (s \o t)[i] = IF i <= Len(s) THEN s[i] ELSE t[i - Len(s)]
    BY ConcatProperties
  <2>2. DOMAIN (s \o t) = 1..Len(s) + Len(t) /\ DOMAIN s = 1..Len(s) /\ DOMAIN t = 1..Len(t)
    BY <2>1
  <2>3. /\ \A i, j \in 1..Len(s) : s[i] = s[j] => i = j
        /\ \A i, j \in 1..Len(t) : t[i] = t[j] => i = j
    BY <1>2, <2>2 DEF IsInjective
  <2>4. \A i \in 1..Len(s), j \in 1..Len(t) : s[i] # t[j]
    <3>1. \A i \in 1..Len(s) : s[i] \in Range(s)
      BY <2>2 DEF Range
    <3>2. \A j \in 1..Len(t) : t[j] \in Range(t)
      BY <2>2 DEF Range
    <3> QED
      BY <1>2, <3>1, <3>2
  <2>5. \A i \in 1..Len(s) + Len(t) : i \in 1..Len(s) \/ (i > Len(s) /\ i - Len(s) \in 1..Len(t))
    BY <2>1
  <2> SUFFICES ASSUME NEW i \in 1..Len(s) + Len(t), NEW j \in 1..Len(s) + Len(t), (s \o t)[i] = (s \o t)[j]
               PROVE  i = j
    BY <2>2 DEF IsInjective
  <2>6. CASE i <= Len(s) /\ j <= Len(s)
    BY <2>1, <2>3, <2>6
  <2>7. CASE i > Len(s) /\ j > Len(s)
    <3>1. i - Len(s) = j - Len(s)
      BY <2>1, <2>3, <2>5, <2>7
    <3> QED
      BY <2>1, <3>1
  <2>8. CASE (i <= Len(s) /\ j > Len(s)) \/ (i > Len(s) /\ j <= Len(s))
    BY <2>1, <2>4, <2>5, <2>8
  <2> QED
    BY <2>1, <2>6, <2>7, <2>8
<1> QED
  BY <1>1, <1>2

\* Taking the head off a sequence without repetitions takes it away for good.
LEMMA TailHolds ==
  ASSUME NEW S, NEW s \in Seq(S), s # <<>>, IsInjective(s)
  PROVE  /\ Head(s) \in Range(s) /\ Tail(s) \in Seq(S)
         /\ Range(Tail(s)) = Range(s) \ {Head(s)} /\ IsInjective(Tail(s))
<1>1. /\ Tail(s) \in Seq(S) /\ Len(Tail(s)) = Len(s) - 1 /\ Len(s) \in Nat /\ Len(s) > 0
      /\ \A i \in 1..Len(s) - 1 : Tail(s)[i] = s[i + 1]
  <2>1. Tail(s) \in Seq(S) /\ Len(Tail(s)) = Len(s) - 1 /\ \A i \in 1..Len(Tail(s)) : Tail(s)[i] = s[i + 1]
    BY HeadTailProperties
  <2> QED
    BY <2>1
<1>2. DOMAIN Tail(s) = 1..Len(s) - 1 /\ DOMAIN s = 1..Len(s)
  BY <1>1
<1>3. Head(s) = s[1] /\ 1 \in 1..Len(s)
  BY <1>1
<1>4. \A i, j \in 1..Len(s) : s[i] = s[j] => i = j
  BY <1>2 DEF IsInjective
<1>5. \A x : x \in Range(s) <=> \E i \in 1..Len(s) : s[i] = x
  BY <1>2 DEF Range
<1>6. \A x : x \in Range(Tail(s)) <=> \E i \in 1..Len(s) - 1 : s[i + 1] = x
  BY <1>1, <1>2 DEF Range
<1>7. Range(Tail(s)) = Range(s) \ {Head(s)}
  <2>1. ASSUME NEW x \in Range(Tail(s)) PROVE x \in Range(s) /\ x # Head(s)
    <3>1. PICK i \in 1..Len(s) - 1 : s[i + 1] = x
      BY <1>6
    <3>2. i + 1 \in 1..Len(s) /\ i + 1 # 1
      BY <1>1
    <3> QED
      BY <1>3, <1>4, <1>5, <3>1, <3>2
  <2>2. ASSUME NEW x \in Range(s), x # Head(s) PROVE x \in Range(Tail(s))
    <3>1. PICK i \in 1..Len(s) : s[i] = x
      BY <1>5
    <3>2. i - 1 \in 1..Len(s) - 1 /\ (i - 1) + 1 = i
      BY <1>1, <1>3, <2>2, <3>1
    <3> QED
      BY <1>6, <3>1, <3>2
  <2> QED
    BY <2>1, <2>2
<1>8. IsInjective(Tail(s))
  <2>1. \A i, j \in 1..Len(s) - 1 : s[i + 1] = s[j + 1] => i = j
    BY <1>1, <1>4
  <2>2. \A i, j \in 1..Len(s) - 1 : Tail(s)[i] = Tail(s)[j] => i = j
    BY <1>1, <2>1
  <2> QED
    BY <1>2, <2>2 DEF IsInjective
<1> QED
  BY <1>1, <1>3, <1>5, <1>7, <1>8

\* The empty sequence holds nothing.
LEMMA EmptyHolds == Range(<<>>) = {} /\ IsInjective(<<>>)
  BY DEF Range, IsInjective

-----------------------------------------------------------------------------
(* The invariant. *)

Queued(n, m) == n \in Range(queue[m])

QueueShape ==
  /\ queue \in [Nodes -> Seq(Nodes)] /\ scheduled \in [Nodes -> Nat]
  /\ wanted \subseteq Nodes /\ err \subseteq Nodes

\* A winner is a member of its One.
WonInv == \A g \in Nodes : won[g] # None => tree[g] = "one" /\ won[g] \in Kids(g)

\* A leaf that reached its trigger has returned.
WantedInv == \A n \in wanted : tree[n] = "trigger" /\ st[n] \in {"done", "failed", "settled"}

\* Only an outermost One with a winner makes the winner's calls.
CommitInv == \A g \in Nodes : st[g] = "commit" => tree[g] = "one" /\ Ones(g) = {} /\ won[g] # None

\* What a member's queue holds was reached inside it, and every One between the
\* two has ended well with the branch it was reached in.
QueuedInv ==
  \A m, n \in Nodes : Queued(n, m) =>
    /\ n \in wanted /\ Inside(m, n)
    /\ \A h \in Within(m, n) : st[h] \in {"done", "settled"} /\ won[h] \in Path(n)

OnceInv == \A m \in Nodes : IsInjective(queue[m])

\* What was scheduled was reached, is accepted by every One around it, all of them
\* over, and is out of the outermost member's queue.
SchedInv ==
  \A n \in Nodes : scheduled[n] # 0 =>
    /\ scheduled[n] = 1 /\ n \in wanted
    /\ \A g \in Ones(n) : Over(g) /\ won[g] \in Path(n)
    /\ \A m \in Nodes : Inside(m, n) /\ Ones(Parent(m)) = {} => ~Queued(n, m)

\* A node outside every One has failed, and its error is on its way to the root.
Doomed(x) ==
  /\ st[x] = "failed" \/ (st[x] = "settled" /\ Parent(x) \in err)
  /\ \A g \in Above(x) : st[g] \notin {"done", "commit"} /\ (st[g] = "settled" => Parent(g) \in err)

\* A trigger that was reached is scheduled unless the run fails, or is still in
\* the queue of the member it was reached in.
LostInv == \A n \in wanted : Ones(n) = {} /\ scheduled[n] = 0 => Doomed(n)
BrokenInv ==
  \A g \in Nodes : Ones(g) = {} /\ Over(g) /\ st[g] # "commit" /\ won[g] # None =>
    queue[won[g]] = <<>> \/ Doomed(g)
KeptInv ==
  \A n \in wanted : \A m \in Nodes :
    Inside(m, n) /\ (\A h \in Within(m, n) : Over(h) /\ won[h] \in Path(n)) =>
      Queued(n, m) \/ scheduled[n] # 0

Basics == Shape /\ NoOrphans /\ QueueShape /\ WonInv /\ WantedInv /\ CommitInv
TrigInv == Basics /\ QueuedInv /\ OnceInv /\ SchedInv /\ LostInv /\ BrokenInv /\ KeptInv

\* The places of the tree stay as they are.
LEMMA PlacesKept ==
  ASSUME [Next]_vars
  PROVE  /\ tree' = tree /\ Nodes' = Nodes
         /\ \A n : Ones(n)' = Ones(n) /\ Pending(n)' = Pending(n) /\ Kids(n)' = Kids(n)
         /\ \A m, n : (Inside(m, n)' <=> Inside(m, n)) /\ Within(m, n)' = Within(m, n)
<1>1. tree' = tree /\ Nodes' = Nodes
  BY TreeKept
<1>2. \A n : Ones(n)' = Ones(n) /\ Kids(n)' = Kids(n)
  BY <1>1 DEF Ones, Kids
<1>3. \A n : Pending(n)' = Pending(n)
  BY <1>1 DEF Pending
<1>4. \A m, n : (Inside(m, n)' <=> Inside(m, n)) /\ Within(m, n)' = Within(m, n)
  BY <1>1, <1>2 DEF Inside, Within
<1> QED
  BY <1>1, <1>2, <1>3, <1>4

\* Nothing that is over starts again, and no member of it moves.
LEMMA OverKept ==
  ASSUME Shape, NoOrphans, NEW k \in Nodes, Step(k) \/ Fail(k)
  PROVE  /\ \A n \in Nodes : Over(n) => Over(n)'
         /\ \A n \in Nodes : st[n] \in {"done", "settled"} => st'[n] \in {"done", "settled"}
         /\ \A n \in Nodes : n # k => st'[n] = st[n]
         /\ \A g \in Above(k) : ~Over(g)
<1>1. st' = [st EXCEPT ![k] = st'[k]] /\ st \in [Nodes -> Statuses]
  BY StatusStep DEF Shape
<1>2. \A n \in Nodes : n # k => st'[n] = st[n]
  BY <1>1
<1>3. st[k] \in {"done", "settled"} => st'[k] \in {"done", "settled"}
  BY StatusStep DEF AllSettled
<1>4. Over(k) => Over(k)'
  BY StatusStep DEF AllSettled, Over
<1>5. st[k] # "settled"
  BY StatusStep DEF AllSettled
<1> QED
  BY <1>2, <1>3, <1>4, <1>5 DEF NoOrphans, Over

\* Steps that are neither a trigger's, a settling nor a One's leave the queues alone.
LEMMA QuietStep ==
  ASSUME NEW k \in Nodes, Step(k) \/ Fail(k), ~Defer(k), ~Settle(k), ~Accept(k), ~Commit(k)
  PROVE  UNCHANGED <<won, queue, scheduled, wanted, err>>
  BY DEF Step, Start, Speak, Return, Fail, GroupFails, GroupEnds, Committed, group, commits

\* A member that has returned can only be settled, and a failure is then noted.
LEMMA SettleOnly ==
  ASSUME Shape, NEW k \in Nodes, Step(k) \/ Fail(k), st[k] \in {"done", "failed", "settled"}
  PROVE  Settle(k) /\ (st[k] = "failed" => Parent(k) \in err')
<1>1. Settle(k)
  BY DEF Step, Start, Speak, Return, Defer, Fail, GroupFails, GroupEnds, Accept, AllSettled, Commit, Committed
<1>2. st[k] = "failed" => Parent(k) \in err'
  BY <1>1 DEF Settle, SettleError, SettleOne, SettleAll
<1> QED
  BY <1>1, <1>2

\* Every step keeps the types of the queues.
LEMMA QueueShapeNext == Shape /\ NoOrphans /\ QueueShape /\ WonInv /\ CommitInv /\ [Next]_vars => QueueShape'
<1> SUFFICES ASSUME Shape, NoOrphans, QueueShape, WonInv, CommitInv, [Next]_vars PROVE QueueShape'
  OBVIOUS
<1>0. tree' = tree /\ Nodes' = Nodes /\ tree \in Trees
  BY TreeKept DEF Shape
<1>1. CASE UNCHANGED vars
  BY <1>0, <1>1 DEF QueueShape, vars, group, commits
<1> SUFFICES ASSUME NEW k \in Nodes, Step(k) \/ Fail(k) PROVE QueueShape'
  BY <1>1 DEF Next
<1> USE DEF QueueShape
<1>2. CASE Defer(k)
  <2>1. queue' = queue \/ queue' = [m \in Nodes |-> IF m \in Pending(k) THEN Append(queue[m], k) ELSE queue[m]]
    BY <1>2 DEF Defer
  <2>2. queue' \in [Nodes -> Seq(Nodes)]
    <3>1. \A m \in Nodes : Append(queue[m], k) \in Seq(Nodes)
      BY AppendProperties
    <3> QED
      BY <2>1, <3>1
  <2>3. scheduled' = scheduled \/ scheduled' = [scheduled EXCEPT ![k] = @ + 1]
    BY <1>2 DEF Defer
  <2>4. wanted' \subseteq Nodes /\ err' = err
    BY <1>2 DEF Defer, group
  <2> QED
    BY <1>0, <2>2, <2>3, <2>4
<1>3. CASE Settle(k)
  <2>1. Parent(k) \in Nodes
    BY <1>3, SettleWhileOn
  <2>2. err' \subseteq Nodes
    BY <1>3, <2>1 DEF Settle, SettleError, SettleOne, SettleAll
  <2> QED
    BY <1>0, <1>3, <2>2 DEF Settle, commits
<1>4. CASE Accept(k)
  <2>1. won[k] \in Nodes
    BY <1>4 DEF Accept, Fails, WonInv, Kids
  <2>2. queue' \in [Nodes -> Seq(Nodes)]
    <3>1. \A m \in Nodes : queue[m] \o queue[won[k]] \in Seq(Nodes)
      BY <2>1, ConcatProperties
    <3> QED
      BY <1>4, <3>1 DEF Accept
  <2> QED
    BY <1>0, <1>4, <2>2 DEF Accept, group
<1>5. CASE Commit(k)
  <2>1. won[k] \in Nodes /\ queue[won[k]] # <<>>
    BY <1>5 DEF Commit, WonInv, CommitInv, Kids
  <2>2. Head(queue[won[k]]) \in Nodes /\ Tail(queue[won[k]]) \in Seq(Nodes)
    BY <2>1, HeadTailProperties
  <2>3. \/ UNCHANGED <<queue, scheduled>>
        \/ /\ queue' = [queue EXCEPT ![won[k]] = Tail(queue[won[k]])]
           /\ scheduled' = [scheduled EXCEPT ![Head(queue[won[k]])] = scheduled[Head(queue[won[k]])] + 1]
    BY <1>5 DEF Commit
  <2>4. queue' \in [Nodes -> Seq(Nodes)] /\ scheduled' \in [Nodes -> Nat]
    <3> DEFINE t == Tail(queue[won[k]])
               h == Head(queue[won[k]])
    <3>1. t \in Seq(Nodes) /\ h \in Nodes
      BY <2>2
    <3>2. \/ UNCHANGED <<queue, scheduled>>
          \/ queue' = [queue EXCEPT ![won[k]] = t] /\ scheduled' = [scheduled EXCEPT ![h] = scheduled[h] + 1]
      BY <2>3
    <3> HIDE DEF t, h
    <3>3. scheduled[h] + 1 \in Nat
      BY <3>1
    <3> QED
      BY <3>1, <3>2, <3>3
  <2> QED
    BY <1>0, <1>5, <2>4 DEF Commit, group
<1>6. CASE ~Defer(k) /\ ~Settle(k) /\ ~Accept(k) /\ ~Commit(k)
  BY <1>0, <1>6, QuietStep
<1> QED
  BY <1>2, <1>3, <1>4, <1>5, <1>6

\* Every step keeps who won and who wants to schedule.
LEMMA BasicsNext == Basics /\ [Next]_vars => Basics'
<1> SUFFICES ASSUME Basics, [Next]_vars PROVE Basics'
  OBVIOUS
<1>0. tree' = tree /\ Nodes' = Nodes /\ \A n : Ones(n)' = Ones(n) /\ Kids(n)' = Kids(n)
  BY PlacesKept
<1>1. Shape' /\ NoOrphans' /\ QueueShape'
  BY ShapeNext, OrphansNext, QueueShapeNext DEF Basics
<1>2. CASE UNCHANGED vars
  BY <1>0, <1>1, <1>2 DEF Basics, WonInv, WantedInv, CommitInv, vars, group, commits
<1> SUFFICES ASSUME NEW k \in Nodes, Step(k) \/ Fail(k) PROVE WonInv' /\ WantedInv' /\ CommitInv'
  BY <1>1, <1>2 DEF Next, Basics
<1> USE DEF Basics
<1>3. tree \in Trees /\ st \in [Nodes -> Statuses] /\ won \in [Nodes -> Nodes \cup {None}]
  BY DEF Shape
<1>4. WonInv' /\ \A g \in Nodes : won[g] # None => won'[g] = won[g]
  <2>1. CASE Settle(k)
    <3>1. won' = won \/ (tree[Parent(k)] = "one" /\ won[Parent(k)] = None /\ won' = [won EXCEPT ![Parent(k)] = k])
      BY <2>1 DEF Settle, SettleError, SettleOne, SettleAll
    <3>2. k \in Kids(Parent(k)) /\ Parent(k) \in Nodes
      BY <2>1, SettleWhileOn DEF Kids, Parent
    <3> QED
      BY <1>0, <1>3, <3>1, <3>2 DEF WonInv
  <2>2. CASE ~Settle(k)
    <3>1. won' = won
      BY <2>2 DEF Step, Start, Speak, Return, Defer, Fail, GroupFails, GroupEnds, Accept, Commit,
                  Committed, group
    <3> QED
      BY <1>0, <3>1 DEF WonInv
  <2> QED
    BY <2>1, <2>2
<1>5. WantedInv'
  <2>1. CASE Defer(k)
    <3>1. wanted' = wanted \cup {k} /\ tree[k] = "trigger" /\ st'[k] \in {"done", "failed"}
      BY <1>3, <2>1 DEF Defer, Become
    <3>2. k \notin wanted
      BY <2>1 DEF Defer, WantedInv
    <3>3. \A n \in wanted : st'[n] = st[n]
      BY <3>2, OverKept DEF QueueShape
    <3> QED
      BY <1>0, <3>1, <3>3 DEF WantedInv
  <2>2. CASE ~Defer(k)
    <3>1. wanted' = wanted
      BY <2>2 DEF Step, Start, Speak, Return, Settle, Fail, GroupFails, GroupEnds, Accept, Commit,
                  Committed, commits
    <3>2. \A n \in wanted : n = k => st'[n] = "settled"
      BY SettleOnly, <1>3 DEF WantedInv, Settle, Become
    <3>3. \A n \in wanted : n # k => st'[n] = st[n]
      BY OverKept DEF QueueShape
    <3> QED
      BY <1>0, <3>1, <3>2, <3>3 DEF WantedInv
  <2> QED
    BY <2>1, <2>2
<1>6. CommitInv'
  <2> SUFFICES ASSUME NEW g \in Nodes, st'[g] = "commit" PROVE tree[g] = "one" /\ Ones(g) = {} /\ won[g] # None
    BY <1>0, <1>3, <1>4 DEF CommitInv
  <2>1. CASE st[g] = "commit"
    BY <2>1 DEF CommitInv
  <2>2. CASE st[g] # "commit"
    <3>1. g = k
      BY <2>2, OverKept
    <3>2. Accept(k)
      BY <1>3, <2>2, <3>1 DEF Step, Start, Speak, Return, Defer, Settle, Fail, GroupFails, GroupEnds, Commit,
                  Committed, Become
    <3>3. tree[k] = "one" /\ won[k] # None /\ (Pending(k) # {} => st'[k] = "done")
      BY <1>3, <3>2 DEF Accept, Fails, Become
    <3>4. Pending(k) = {}
      BY <3>1, <3>3
    <3> QED
      BY <1>3, <3>1, <3>3, <3>4, PendingExists
  <2> QED
    BY <2>1, <2>2
<1> QED
  BY <1>4, <1>5, <1>6

\* The error of a doomed node outside every One goes on to the root.
LEMMA DoomedKept ==
  ASSUME Basics, NEW k \in Nodes, Step(k) \/ Fail(k), NEW x \in Nodes, Ones(x) = {}, Doomed(x)
  PROVE  Doomed(x)'
<1> USE DEF Basics
<1>1. tree \in Trees /\ st \in [Nodes -> Statuses]
  BY DEF Shape
<1>2. err \subseteq err'
  BY DEF Step, Start, Speak, Return, Defer, Settle, SettleError, SettleOne, SettleAll, Fail, GroupFails,
         GroupEnds, Accept, Commit, Committed, group
<1>3. \A n \in Nodes : n # k => st'[n] = st[n]
  BY OverKept
<1>4. st'[x] = "failed" \/ (st'[x] = "settled" /\ Parent(x) \in err')
  <2>1. CASE x # k
    BY <1>2, <1>3, <2>1 DEF Doomed
  <2>2. CASE x = k
    <3>1. Settle(k) /\ (st[k] = "failed" => Parent(k) \in err')
      BY <2>2, SettleOnly DEF Doomed
    <3>2. st'[k] = "settled"
      BY <1>1, <3>1 DEF Settle, Become
    <3> QED
      BY <1>2, <2>2, <3>1, <3>2 DEF Doomed
  <2> QED
    BY <2>1, <2>2
<1>5. ASSUME NEW g \in Above(x)
      PROVE  st'[g] \notin {"done", "commit"} /\ (st'[g] = "settled" => Parent(g) \in err')
  <2>1. g \in Nodes /\ ~Leaf(g) /\ tree[g] # "one"
    BY <1>1, AboveInTree DEF Ones
  <2>2. st[g] \notin {"done", "commit"} /\ (st[g] = "settled" => Parent(g) \in err)
    BY DEF Doomed
  <2>3. CASE g # k
    BY <1>2, <1>3, <2>1, <2>2, <2>3
  <2>4. CASE g = k /\ st[g] \in {"failed", "settled"}
    <3>1. Settle(k) /\ (st[k] = "failed" => Parent(k) \in err')
      BY <2>4, SettleOnly
    <3>2. st'[k] = "settled"
      BY <1>1, <3>1 DEF Settle, Become
    <3> QED
      BY <1>2, <2>2, <2>4, <3>1, <3>2
  <2>5. CASE g = k /\ st[g] \notin {"failed", "settled"}
    <3>1. ~GroupEnds(k)
      <4> SUFFICES ASSUME GroupEnds(k) PROVE FALSE
        OBVIOUS
      <4>1. PICK c \in Kids(k) : c \in Path(x)
        BY <1>1, <2>5, AboveKid DEF Path
      <4>2. st[c] = "settled" /\ Parent(c) = k
        BY DEF GroupEnds, AllSettled, Kids, Parent
      <4>3. k \in err
        BY <4>1, <4>2 DEF Doomed, Path
      <4> QED
        BY <4>3 DEF GroupEnds, Fails
    <3>2. Start(k) \/ GroupFails(k)
      BY <2>1, <2>2, <2>5, <3>1 DEF Step, Speak, Return, Defer, Settle, SettleError, SettleOne, SettleAll, Fail,
                  Accept, Commit, Committed, Leaf, Leaves
    <3>3. st'[k] \in {"on", "failed"}
      BY <1>1, <3>2 DEF Start, GroupFails, Become
    <3> QED
      BY <2>5, <3>3
  <2> QED
    BY <2>3, <2>4, <2>5
<1> QED
  BY <1>4, <1>5 DEF Doomed

\* The Ones around a node, seen from a member it is in: the member's own, those
\* further in and those further out.
LEMMA OnesSplit ==
  ASSUME tree \in Trees, NEW n \in Nodes, NEW w, Inside(w, n), NEW h \in Ones(n)
  PROVE  h = Parent(w) \/ h \in Within(w, n) \/ h \in Ones(Parent(w))
<1>1. w \in Path(n) /\ h \in Path(n) /\ tree[h] = "one"
  BY DEF Inside, Ones, Path
<1>2. w = h \/ w \in Above(h) \/ h \in Above(w)
  BY <1>1, AboveOrder
<1>3. Above(w) = Above(Parent(w)) \cup {Parent(w)}
  BY InsideOne
<1> QED
  BY <1>1, <1>2, <1>3 DEF Within, Ones, Path

\* What is within a member of an inner One is within the outer member as well,
\* and the inner One itself is; from the inner One nothing else lies between.
LEMMA WithinOuter ==
  ASSUME tree \in Trees, NEW n \in Nodes, NEW w, Inside(w, n), NEW m, Inside(m, Parent(w))
  PROVE  /\ Inside(m, n) /\ Parent(w) \in Within(m, n)
         /\ Parent(w) \notin Within(w, n)
         /\ Within(w, n) \subseteq Within(m, n)
         /\ Within(m, Parent(w)) \subseteq Within(m, n)
         /\ Within(m, n) \subseteq Within(w, n) \cup {Parent(w)} \cup Within(m, Parent(w))
<1> DEFINE g == Parent(w)
<1>1. /\ w \in Nodes /\ g \in Nodes /\ g \in Ones(n) /\ g \in Above(n) /\ g \in Above(w)
      /\ Above(w) = Above(g) \cup {g} /\ g \notin Above(g)
  BY InsideOne DEF Ones
<1>2. m # <<>> /\ m \in Path(g) /\ tree[Parent(m)] = "one"
  BY DEF Inside
<1>3. Inside(m, n)
  <2>1. m \in Path(n)
    BY <1>1, <1>2, AboveOrder DEF Path
  <2> QED
    BY <1>2, <2>1 DEF Inside
<1>4. g \in Within(m, n)
  BY <1>1, <1>2 DEF Within
<1>5. g \notin Within(w, n)
  <2>1. w \notin Path(g)
    <3>1. w # g
      BY <1>1
    <3>2. w \in Above(g) => g \in Above(g)
      BY <1>1, AboveOrder DEF Path
    <3> QED
      BY <1>1, <3>1, <3>2 DEF Path
  <2> QED
    BY <2>1 DEF Within
<1>6. ASSUME NEW h \in Within(w, n) PROVE h \in Within(m, n)
  <2>1. h \in Ones(n) /\ w \in Path(h) /\ h \in Nodes
    BY AboveOrder DEF Within, Ones, Path
  <2>2. g \in Above(h)
    BY <1>1, <2>1, AboveOrder
  <2>3. m \in Path(h)
    BY <1>2, <2>1, <2>2, AboveOrder DEF Path
  <2> QED
    BY <2>1, <2>3 DEF Within
<1>7. ASSUME NEW h \in Within(m, g) PROVE h \in Within(m, n)
  <2>1. h \in Above(g) /\ tree[h] = "one" /\ m \in Path(h)
    BY DEF Within, Ones
  <2>2. h \in Above(n)
    BY <1>1, <2>1, AboveOrder DEF Path
  <2> QED
    BY <2>1, <2>2 DEF Within, Ones
<1>8. ASSUME NEW h \in Within(m, n) PROVE h \in Within(w, n) \/ h = g \/ h \in Within(m, g)
  <2>1. h \in Ones(n) /\ m \in Path(h)
    BY DEF Within
  <2>2. h = g \/ h \in Within(w, n) \/ h \in Ones(g)
    BY <2>1, OnesSplit
  <2> QED
    BY <2>1, <2>2 DEF Within
<1> QED
  BY <1>3, <1>4, <1>5, <1>6, <1>7, <1>8

\* No node stands for "none", and a winner is a member of its One.
LEMMA Winner ==
  ASSUME Basics, NEW g \in Nodes
  PROVE  /\ None \notin Nodes
         /\ \A n \in Nodes : None \notin Path(n)
         /\ won[g] # None =>
              /\ tree[g] = "one" /\ won[g] \in Nodes /\ won[g] # <<>> /\ Parent(won[g]) = g
              /\ \A n : won[g] \in Path(n) => Inside(won[g], n)
<1>1. tree \in Trees
  BY DEF Basics, Shape
<1>2. None \notin Nodes
  BY <1>1, FanOutAssumption DEF Nodes
<1>3. \A n \in Nodes : None \notin Path(n)
  BY <1>1, <1>2, AboveOrder
<1> QED
  BY <1>2, <1>3 DEF Basics, WonInv, Kids, Parent, Inside

\* A One with a winner is over only by accepting it.
LEMMA OverByAccept ==
  ASSUME Basics, NEW k \in Nodes, Step(k) \/ Fail(k), NEW g \in Nodes, won[g] # None, ~Over(g), Over(g)'
  PROVE  g = k /\ Accept(k)
<1>1. g = k
  BY OverKept DEF Basics, Over
<1>2. tree[k] = "one" /\ ~Leaf(k)
  BY <1>1, Winner DEF Leaf, Leaves
<1>3. st \in [Nodes -> Statuses]
  BY DEF Basics, Shape
<1>4. ~Start(k)
  BY <1>1, <1>3 DEF Start, Become, Over
<1>5. ~Settle(k) /\ ~Commit(k) /\ ~Committed(k)
  BY <1>1 DEF Settle, SettleError, SettleOne, SettleAll, Commit, Committed, Over
<1>6. ~GroupFails(k) /\ ~GroupEnds(k)
  BY <1>1, <1>2 DEF GroupFails, GroupEnds, Fails
<1>7. ~Speak(k) /\ ~Defer(k) /\ ~Fail(k) /\ ~(\E sel \in Sels \cup {None} : Return(k, sel))
  BY <1>2 DEF Speak, Defer, Fail, Return, Leaf, Leaves
<1> QED
  BY <1>1, <1>4, <1>5, <1>6, <1>7 DEF Step

\* A doomed node stays one, so what is lost or broken stays so.
LEMMA LostKept ==
  ASSUME Basics, LostInv, [Next]_vars, NEW k \in Nodes, Step(k) \/ Fail(k), NEW n \in wanted,
         Ones(n) = {}, scheduled[n] = 0
  PROVE  Doomed(n)'
<1>1. n \in Nodes /\ Doomed(n)
  BY DEF Basics, QueueShape, LostInv
<1> QED
  BY <1>1, DoomedKept

\* Steps that touch no queue keep the invariant.
LEMMA QuietKeeps ==
  ASSUME TrigInv, [Next]_vars, NEW k \in Nodes, Step(k) \/ Fail(k),
         ~Defer(k), ~Settle(k), ~Accept(k), ~Commit(k)
  PROVE  QueuedInv' /\ OnceInv' /\ SchedInv' /\ LostInv' /\ BrokenInv' /\ KeptInv'
<1> USE DEF TrigInv, Basics
<1>0. /\ tree' = tree /\ Nodes' = Nodes /\ \A n : Ones(n)' = Ones(n)
      /\ \A m, n : (Inside(m, n)' <=> Inside(m, n)) /\ Within(m, n)' = Within(m, n)
  BY PlacesKept
<1>1. UNCHANGED <<won, queue, scheduled, wanted, err>>
  BY QuietStep
<1>2. \A m, n : Queued(n, m)' <=> Queued(n, m)
  BY <1>1 DEF Queued
<1>3. /\ \A n \in Nodes : Over(n) => Over(n)'
      /\ \A n \in Nodes : st[n] \in {"done", "settled"} => st'[n] \in {"done", "settled"}
      /\ \A n \in Nodes : n # k => st'[n] = st[n]
  BY OverKept
<1>4. tree \in Trees /\ \A n \in Nodes : Ones(n) \subseteq Nodes /\ \A m : Within(m, n) \subseteq Ones(n)
  BY AboveInTree DEF Shape, Ones, Within
<1>5. QueuedInv'
  BY <1>0, <1>1, <1>2, <1>3, <1>4 DEF QueuedInv
<1>6. OnceInv'
  BY <1>0, <1>1 DEF OnceInv
<1>7. SchedInv'
  BY <1>0, <1>1, <1>2, <1>3, <1>4 DEF SchedInv
<1>8. LostInv'
  BY <1>0, <1>1, LostKept DEF LostInv
<1>9. BrokenInv'
  <2> SUFFICES ASSUME NEW g \in Nodes, Ones(g) = {}, Over(g)', st'[g] # "commit", won[g] # None,
                      queue[won[g]] # <<>>
               PROVE  Doomed(g)'
    BY <1>0, <1>1 DEF BrokenInv
  <2>1. Over(g)
    BY OverByAccept
  <2>2. st[g] # "commit"
    <3> SUFFICES ASSUME st[g] = "commit" PROVE FALSE
      OBVIOUS
    <3>1. g = k
      BY <1>3
    <3>2. ~Committed(k)
      BY <3>1 DEF Committed
    <3> QED
      BY <3>1, <3>2 DEF Step, Start, Speak, Return, Fail, GroupFails, GroupEnds, AllSettled
  <2> QED
    BY <2>1, <2>2, DoomedKept DEF BrokenInv
<1>10. KeptInv'
  <2> SUFFICES ASSUME NEW n \in wanted, NEW m \in Nodes, Inside(m, n),
                      \A h \in Within(m, n) : Over(h)' /\ won[h] \in Path(n)
               PROVE  Queued(n, m) \/ scheduled[n] # 0
    BY <1>0, <1>1, <1>2 DEF KeptInv
  <2>1. n \in Nodes
    BY DEF QueueShape
  <2>2. \A h \in Within(m, n) : Over(h)
    BY <1>4, <2>1, OverByAccept, Winner
  <2> QED
    BY <2>2 DEF KeptInv
<1> QED
  BY <1>5, <1>6, <1>7, <1>8, <1>9, <1>10

\* A member that settles keeps the invariant: its One is not over, so no queue
\* and no call rests on who won it.
LEMMA SettleKeeps ==
  ASSUME TrigInv, [Next]_vars, NEW k \in Nodes, Settle(k)
  PROVE  QueuedInv' /\ OnceInv' /\ SchedInv' /\ LostInv' /\ BrokenInv' /\ KeptInv'
<1> USE DEF TrigInv, Basics
<1>0. /\ tree' = tree /\ Nodes' = Nodes /\ \A n : Ones(n)' = Ones(n)
      /\ \A m, n : (Inside(m, n)' <=> Inside(m, n)) /\ Within(m, n)' = Within(m, n)
  BY PlacesKept
<1>s. Step(k) \/ Fail(k)
  BY DEF Step
<1>1. UNCHANGED <<queue, scheduled, wanted>>
  BY DEF Settle, commits
<1>2. \A m, n : Queued(n, m)' <=> Queued(n, m)
  BY <1>1 DEF Queued
<1>3. st \in [Nodes -> Statuses] /\ won \in [Nodes -> Nodes \cup {None}] /\ tree \in Trees
  BY DEF Shape
<1>4. \A n \in Nodes : \/ st'[n] = st[n]
                       \/ n = k /\ st[n] \in {"done", "failed"} /\ st'[n] = "settled"
  BY <1>3, SettleWhileOn DEF Settle, Become
<1>5. \A n \in Nodes : /\ Over(n)' <=> Over(n)
                       /\ st[n] \in {"done", "settled"} => st'[n] \in {"done", "settled"}
                       /\ st'[n] = "commit" <=> st[n] = "commit"
  BY <1>4 DEF Over
<1>6. \A n \in Nodes : Over(n) => won'[n] = won[n]
  <2>1. ~Over(Parent(k))
    BY SettleWhileOn
  <2>2. \A n \in Nodes : n # Parent(k) => won'[n] = won[n]
    BY <1>3 DEF Settle, SettleError, SettleOne, SettleAll
  <2> QED
    BY <2>1, <2>2
<1>7. \A n \in Nodes : Ones(n) \subseteq Nodes /\ \A m : Within(m, n) \subseteq Ones(n)
  BY <1>3, AboveInTree DEF Ones, Within
<1>8. QueuedInv'
  <2>1. \A n \in Nodes : st[n] \in {"done", "settled"} => won'[n] = won[n]
    BY <1>6 DEF Over
  <2> QED
    BY <1>0, <1>1, <1>2, <1>5, <1>7, <2>1 DEF QueuedInv
<1>9. OnceInv'
  BY <1>0, <1>1 DEF OnceInv
<1>10. SchedInv'
  BY <1>0, <1>1, <1>2, <1>5, <1>6, <1>7 DEF SchedInv
<1>11. LostInv'
  BY <1>0, <1>1, <1>s, LostKept DEF LostInv
<1>12. BrokenInv'
  BY <1>0, <1>1, <1>5, <1>6, <1>s, DoomedKept DEF BrokenInv
<1>13. KeptInv'
  <2>1. \A n \in wanted : n \in Nodes
    BY DEF QueueShape
  <2> QED
    BY <1>0, <1>1, <1>2, <1>5, <1>6, <1>7, <2>1 DEF KeptInv
<1> QED
  BY <1>8, <1>9, <1>10, <1>11, <1>12, <1>13

\* A leaf that reaches its trigger keeps the invariant: the call goes into the
\* queue of the nearest One's member, which is the only thing between the two.
LEMMA DeferKeeps ==
  ASSUME TrigInv, [Next]_vars, NEW k \in Nodes, Defer(k)
  PROVE  QueuedInv' /\ OnceInv' /\ SchedInv' /\ LostInv' /\ BrokenInv' /\ KeptInv'
<1> USE DEF TrigInv, Basics
<1>0. /\ tree' = tree /\ Nodes' = Nodes /\ \A n : Ones(n)' = Ones(n)
      /\ \A m, n : (Inside(m, n)' <=> Inside(m, n)) /\ Within(m, n)' = Within(m, n)
  BY PlacesKept
<1>s. Step(k) \/ Fail(k)
  BY DEF Step
<1>1. st \in [Nodes -> Statuses] /\ tree \in Trees
  BY DEF Shape
<1>2. won' = won /\ err' = err /\ wanted' = wanted \cup {k} /\ tree[k] = "trigger"
  BY DEF Defer, group
<1>3. /\ k \notin wanted /\ scheduled[k] = 0 /\ \A m \in Nodes : ~Queued(k, m)
  <2>1. k \notin wanted
    BY DEF Defer, WantedInv
  <2> QED
    BY <2>1 DEF SchedInv, QueuedInv
<1>4. \/ /\ Pending(k) # {} /\ scheduled' = scheduled
         /\ queue' = [m \in Nodes |-> IF m \in Pending(k) THEN Append(queue[m], k) ELSE queue[m]]
      \/ /\ Pending(k) = {} /\ queue' = queue /\ scheduled' = [scheduled EXCEPT ![k] = 1]
      \/ /\ Pending(k) = {} /\ queue' = queue /\ scheduled' = scheduled /\ st'[k] = "failed"
  <2>1. \/ Pending(k) # {} /\ scheduled' = scheduled
           /\ queue' = [m \in Nodes |-> IF m \in Pending(k) THEN Append(queue[m], k) ELSE queue[m]]
        \/ Pending(k) = {} /\ queue' = queue /\ scheduled' = [scheduled EXCEPT ![k] = scheduled[k] + 1]
        \/ Pending(k) = {} /\ queue' = queue /\ scheduled' = scheduled /\ Become(k, "failed")
    BY DEF Defer
  <2>2. scheduled[k] + 1 = 1
    BY <1>3
  <2> QED
    BY <1>1, <2>1, <2>2 DEF Become
<1>5. \A n \in Nodes : n # k => st'[n] = st[n] /\ (Over(n)' <=> Over(n)) /\ scheduled'[n] = scheduled[n]
  <2>1. \A n \in Nodes : n # k => st'[n] = st[n]
    BY <1>s, OverKept
  <2> QED
    BY <1>4, <2>1 DEF Over, QueueShape
<1>6. \A m, n \in Nodes : Queued(n, m)' <=> Queued(n, m) \/ (n = k /\ m \in Pending(k))
  <2> TAKE m, n \in Nodes
  <2>1. queue[m] \in Seq(Nodes)
    BY DEF QueueShape
  <2>2. Range(Append(queue[m], k)) = Range(queue[m]) \cup {k}
    BY <2>1, AppendHolds
  <2>3. queue'[m] = IF m \in Pending(k) THEN Append(queue[m], k) ELSE queue[m]
    BY <1>4
  <2> QED
    BY <2>2, <2>3 DEF Queued
<1>7. \A n \in Nodes : \A h \in Ones(n) : h \in Nodes /\ h # k /\ tree[h] = "one"
  BY <1>1, <1>2, AboveInTree DEF Ones
<1>8. \A n \in Nodes : \A m : Within(m, n) \subseteq Ones(n)
  BY DEF Within
<1>9. \A h \in Above(k) : h \in Nodes /\ h # k /\ ~Over(h)
  BY <1>1, <1>s, OverKept, AboveOrder, AboveInTree
<1>10. QueuedInv'
  <2> SUFFICES ASSUME NEW m \in Nodes, NEW n \in Nodes, Queued(n, m)'
               PROVE  /\ n \in wanted' /\ Inside(m, n)
                      /\ \A h \in Within(m, n) : st'[h] \in {"done", "settled"} /\ won[h] \in Path(n)
    BY <1>0, <1>2 DEF QueuedInv
  <2>1. CASE Queued(n, m)
    BY <1>2, <1>5, <1>7, <1>8, <2>1 DEF QueuedInv
  <2>2. CASE n = k /\ m \in Pending(k)
    BY <1>1, <1>2, <2>2, PendingIs
  <2> QED
    BY <1>6, <2>1, <2>2
<1>11. OnceInv'
  <2> SUFFICES ASSUME NEW m \in Nodes PROVE IsInjective(queue'[m])
    BY <1>0 DEF OnceInv
  <2>1. queue[m] \in Seq(Nodes) /\ IsInjective(queue[m]) /\ k \notin Range(queue[m])
    BY <1>3 DEF QueueShape, OnceInv, Queued
  <2>2. IsInjective(Append(queue[m], k))
    BY <2>1, AppendHolds
  <2> QED
    BY <1>4, <2>1, <2>2
<1>12. SchedInv'
  <2> SUFFICES ASSUME NEW n \in Nodes, scheduled'[n] # 0
               PROVE  /\ scheduled'[n] = 1 /\ n \in wanted'
                      /\ \A g \in Ones(n) : Over(g)' /\ won[g] \in Path(n)
                      /\ \A m \in Nodes : Inside(m, n) /\ Ones(Parent(m)) = {} => ~Queued(n, m)'
    BY <1>0, <1>2 DEF SchedInv
  <2>1. CASE n # k
    BY <1>2, <1>5, <1>6, <1>7, <2>1 DEF SchedInv
  <2>2. CASE n = k
    <3>1. Pending(k) = {} /\ scheduled'[k] = 1
      BY <1>3, <1>4, <2>2 DEF QueueShape
    <3>2. Ones(k) = {}
      BY <1>1, <3>1, PendingExists
    <3>3. \A m : ~Inside(m, k)
      BY <1>1, <3>2, InsideOne
    <3> QED
      BY <1>2, <2>2, <3>1, <3>2, <3>3
  <2> QED
    BY <2>1, <2>2
<1>13. LostInv'
  <2> SUFFICES ASSUME NEW n \in wanted', Ones(n) = {}, scheduled'[n] = 0 PROVE Doomed(n)'
    BY <1>0 DEF LostInv
  <2>1. CASE n # k
    <3>1. n \in wanted /\ n \in Nodes /\ scheduled[n] = 0
      BY <1>2, <1>5, <2>1 DEF QueueShape
    <3> QED
      BY <1>s, <3>1, LostKept
  <2>2. CASE n = k
    <3>1. Pending(k) = {}
      BY <1>1, <2>2, PendingExists
    <3>2. st'[k] = "failed"
      BY <1>4, <2>2, <3>1 DEF QueueShape
    <3>3. \A g \in Above(k) : st'[g] \notin {"done", "commit", "settled"}
      BY <1>5, <1>9 DEF Over
    <3> QED
      BY <2>2, <3>2, <3>3 DEF Doomed
  <2> QED
    BY <2>1, <2>2
<1>14. BrokenInv'
  <2> SUFFICES ASSUME NEW g \in Nodes, Ones(g) = {}, Over(g)', st'[g] # "commit", won[g] # None,
                      queue'[won[g]] # <<>>
               PROVE  Doomed(g)'
    BY <1>0, <1>2 DEF BrokenInv
  <2>1. tree[g] = "one" /\ won[g] \in Nodes /\ Parent(won[g]) = g
    BY Winner
  <2>2. g # k /\ Over(g) /\ st[g] # "commit"
    BY <1>2, <1>5, <2>1
  <2>3. won[g] \notin Pending(k)
    <3> SUFFICES ASSUME won[g] \in Pending(k) PROVE FALSE
      OBVIOUS
    <3>1. Inside(won[g], k)
      BY <1>1, PendingIs
    <3>2. g \in Above(k)
      BY <1>1, <2>1, <3>1, InsideOne DEF Ones
    <3> QED
      BY <1>9, <2>2, <3>2
  <2>4. queue[won[g]] # <<>>
    BY <1>4, <2>1, <2>3
  <2> QED
    BY <1>s, <2>2, <2>4, DoomedKept DEF BrokenInv
<1>15. KeptInv'
  <2> SUFFICES ASSUME NEW n \in wanted', NEW m \in Nodes, Inside(m, n),
                      \A h \in Within(m, n) : Over(h)' /\ won[h] \in Path(n)
               PROVE  Queued(n, m)' \/ scheduled'[n] # 0
    BY <1>0, <1>2 DEF KeptInv
  <2>1. CASE n # k
    <3>1. n \in wanted /\ n \in Nodes
      BY <1>2, <2>1 DEF QueueShape
    <3>2. \A h \in Within(m, n) : Over(h)
      BY <1>5, <1>7, <1>8, <3>1
    <3> QED
      BY <1>5, <1>6, <2>1, <3>1, <3>2 DEF KeptInv
  <2>2. CASE n = k
    <3>1. Within(m, k) = {}
      BY <1>5, <1>8, <1>9, <2>2 DEF Ones
    <3>2. m \in Pending(k)
      BY <1>1, <2>2, <3>1, PendingIs
    <3> QED
      BY <1>6, <2>2, <3>2
  <2> QED
    BY <2>1, <2>2
<1> QED
  BY <1>10, <1>11, <1>12, <1>13, <1>14, <1>15

\* A One that accepts its winner keeps the invariant: what it hands outwards lies
\* within no other One on the way, and was in no other queue of that member.
LEMMA AcceptKeeps ==
  ASSUME TrigInv, [Next]_vars, NEW k \in Nodes, Accept(k)
  PROVE  QueuedInv' /\ OnceInv' /\ SchedInv' /\ LostInv' /\ BrokenInv' /\ KeptInv'
<1> USE DEF TrigInv, Basics
<1> DEFINE w == won[k]
<1>0. /\ tree' = tree /\ Nodes' = Nodes /\ \A n : Ones(n)' = Ones(n)
      /\ \A m, n : (Inside(m, n)' <=> Inside(m, n)) /\ Within(m, n)' = Within(m, n)
  BY PlacesKept
<1>s. Step(k) \/ Fail(k)
  BY DEF Step
<1>1. st \in [Nodes -> Statuses] /\ tree \in Trees
  BY DEF Shape
<1>2. UNCHANGED <<won, err, scheduled, wanted>> /\ tree[k] = "one" /\ st[k] = "on"
  BY DEF Accept, AllSettled, group
<1>3. w # None /\ w \in Nodes /\ w # <<>> /\ Parent(w) = k /\ \A n : w \in Path(n) => Inside(w, n)
  <2>1. won[k] # None
    BY DEF Accept, Fails
  <2> QED
    BY <2>1, Winner
<1> HIDE DEF w
<1>4. \/ /\ Pending(k) # {} /\ st'[k] = "done"
         /\ queue' = [m \in Nodes |-> IF m \in Pending(k) THEN queue[m] \o queue[w] ELSE queue[m]]
      \/ Pending(k) = {} /\ st'[k] = "commit" /\ queue' = queue
  BY <1>1 DEF Accept, Become, w
<1>5. /\ \A n \in Nodes : n # k => st'[n] = st[n]
      /\ \A n \in Nodes : st[n] \in {"done", "settled"} => st'[n] \in {"done", "settled"}
      /\ \A n \in Nodes : Over(n) => Over(n)'
      /\ \A h \in Above(k) : h \in Nodes /\ ~Over(h)
  BY <1>1, <1>s, OverKept, AboveInTree
<1>6. \A n \in Nodes : Over(n)' /\ n # k => Over(n)
  BY <1>5 DEF Over
<1>7. ~Over(k)
  BY <1>2 DEF Over
<1>8. \A m, n \in Nodes : Queued(n, m)' <=> Queued(n, m) \/ (m \in Pending(k) /\ Queued(n, w))
  <2> TAKE m, n \in Nodes
  <2>1. queue[m] \in Seq(Nodes) /\ queue[w] \in Seq(Nodes)
    BY <1>3 DEF QueueShape
  <2>2. Range(queue[m] \o queue[w]) = Range(queue[m]) \cup Range(queue[w])
    BY <2>1, ConcatHolds
  <2> QED
    BY <1>4, <2>2 DEF Queued
<1>9. \A n \in Nodes : \A h \in Ones(n) : h \in Nodes /\ tree[h] = "one"
  BY <1>1, AboveInTree DEF Ones
<1>10. \A n \in Nodes : \A m : Within(m, n) \subseteq Ones(n)
  BY DEF Within
<1>11. \A n \in Nodes : Queued(n, w) =>
         /\ n \in wanted /\ Inside(w, n) /\ k \in Ones(n)
         /\ \A h \in Within(w, n) : st[h] \in {"done", "settled"} /\ won[h] \in Path(n)
  BY <1>1, <1>3, InsideOne DEF QueuedInv
<1>12. ASSUME NEW m \in Nodes, NEW n \in Nodes, m \in Pending(k), Queued(n, w)
       PROVE  /\ Inside(m, n) /\ k \in Within(m, n)
              /\ Within(m, n) \subseteq Within(w, n) \cup {k}
  <2>1. Inside(m, Parent(w)) /\ Within(m, Parent(w)) = {}
    BY <1>1, <1>3, <1>12, PendingIs
  <2> QED
    BY <1>1, <1>3, <1>11, <1>12, <2>1, WithinOuter
<1>13. QueuedInv'
  <2> SUFFICES ASSUME NEW m \in Nodes, NEW n \in Nodes, Queued(n, m)'
               PROVE  /\ n \in wanted /\ Inside(m, n)
                      /\ \A h \in Within(m, n) : st'[h] \in {"done", "settled"} /\ won[h] \in Path(n)
    BY <1>0, <1>2 DEF QueuedInv
  <2>1. CASE Queued(n, m)
    BY <1>5, <1>9, <1>10, <2>1 DEF QueuedInv
  <2>2. CASE m \in Pending(k) /\ Queued(n, w)
    <3>1. n \in wanted /\ Inside(m, n) /\ w \in Path(n)
      BY <1>11, <1>12, <2>2 DEF Inside
    <3>2. ASSUME NEW h \in Within(m, n) PROVE st'[h] \in {"done", "settled"} /\ won[h] \in Path(n)
      <4>1. CASE h = k
        BY <1>4, <2>2, <3>1, <4>1 DEF w
      <4>2. CASE h \in Within(w, n)
        BY <1>5, <1>9, <1>10, <1>11, <2>2, <4>2
      <4> QED
        BY <1>12, <2>2, <4>1, <4>2
    <3> QED
      BY <3>1, <3>2
  <2> QED
    BY <1>8, <2>1, <2>2
<1>14. OnceInv'
  <2> SUFFICES ASSUME NEW m \in Nodes PROVE IsInjective(queue'[m])
    BY <1>0 DEF OnceInv
  <2>1. queue[m] \in Seq(Nodes) /\ IsInjective(queue[m]) /\ queue[w] \in Seq(Nodes) /\ IsInjective(queue[w])
    BY <1>3 DEF QueueShape, OnceInv
  <2>2. CASE m \in Pending(k)
    <3>1. ASSUME NEW n \in Nodes, Queued(n, w), Queued(n, m) PROVE FALSE
      <4>1. k \in Within(m, n)
        BY <1>12, <2>2, <3>1
      <4>2. st[k] \in {"done", "settled"}
        BY <3>1, <4>1 DEF QueuedInv
      <4> QED
        BY <1>2, <4>2
    <3>2. Range(queue[m]) \subseteq Nodes
      BY <2>1, RangeOfSeq
    <3>3. Range(queue[m]) \cap Range(queue[w]) = {}
      BY <3>1, <3>2 DEF Queued
    <3>4. IsInjective(queue[m] \o queue[w])
      BY <2>1, <3>3, ConcatHolds
    <3> QED
      BY <1>4, <2>2, <3>4
  <2>3. CASE m \notin Pending(k)
    BY <1>4, <2>1, <2>3
  <2> QED
    BY <2>2, <2>3
<1>15. SchedInv'
  <2> SUFFICES ASSUME NEW n \in Nodes, scheduled[n] # 0
               PROVE  /\ \A g \in Ones(n) : Over(g)'
                      /\ \A m \in Nodes : Inside(m, n) /\ Ones(Parent(m)) = {} => ~Queued(n, m)'
    BY <1>0, <1>2 DEF SchedInv
  <2>1. \A g \in Ones(n) : Over(g) /\ Over(g)'
    BY <1>5, <1>9 DEF SchedInv
  <2>2. ~Queued(n, w)
    BY <1>7, <1>11, <2>1
  <2> QED
    BY <1>8, <2>1, <2>2 DEF SchedInv
<1>16. LostInv'
  BY <1>0, <1>2, <1>s, LostKept DEF LostInv
<1>17. BrokenInv'
  <2> SUFFICES ASSUME NEW g \in Nodes, Ones(g) = {}, Over(g)', st'[g] # "commit", won[g] # None,
                      queue'[won[g]] # <<>>
               PROVE  Doomed(g)'
    BY <1>0, <1>2 DEF BrokenInv
  <2>1. tree[g] = "one" /\ won[g] \in Nodes /\ Parent(won[g]) = g
    BY Winner
  <2>2. g # k
    BY <1>1, <1>4, PendingExists
  <2>3. Over(g) /\ st[g] # "commit"
    BY <1>5, <1>6, <2>2
  <2>4. won[g] \notin Pending(k)
    <3> SUFFICES ASSUME won[g] \in Pending(k) PROVE FALSE
      OBVIOUS
    <3>1. Inside(won[g], k)
      BY <1>1, PendingIs
    <3>2. g \in Above(k)
      BY <1>1, <2>1, <3>1, InsideOne DEF Ones
    <3> QED
      BY <1>5, <2>3, <3>2
  <2>5. queue[won[g]] # <<>>
    BY <1>4, <2>1, <2>4
  <2> QED
    BY <1>s, <2>3, <2>5, DoomedKept DEF BrokenInv
<1>18. KeptInv'
  <2> SUFFICES ASSUME NEW n \in wanted, NEW m \in Nodes, Inside(m, n),
                      \A h \in Within(m, n) : Over(h)' /\ won[h] \in Path(n), scheduled[n] = 0
               PROVE  Queued(n, m)'
    BY <1>0, <1>2 DEF KeptInv
  <2>1. n \in Nodes
    BY DEF QueueShape
  <2>2. CASE k \notin Within(m, n)
    <3>1. \A h \in Within(m, n) : Over(h)
      BY <1>6, <1>9, <1>10, <2>1, <2>2
    <3> QED
      BY <1>8, <2>1, <3>1 DEF KeptInv
  <2>3. CASE k \in Within(m, n)
    <3>1. Inside(w, n)
      BY <1>3, <2>3 DEF w
    <3>2. Inside(m, Parent(w))
      BY <1>3, <2>3 DEF Within, Inside
    <3>3. /\ Within(w, n) \subseteq Within(m, n) /\ k \notin Within(w, n)
          /\ Within(m, k) \subseteq Within(m, n)
      BY <1>1, <1>3, <2>1, <3>1, <3>2, WithinOuter
    <3>4. \A h \in Within(w, n) : Over(h) /\ won[h] \in Path(n)
      BY <1>6, <1>9, <1>10, <2>1, <3>3
    <3>5. Queued(n, w)
      BY <1>3, <3>1, <3>4 DEF KeptInv
    <3>6. Within(m, k) = {}
      <4> SUFFICES ASSUME NEW h \in Within(m, k) PROVE FALSE
        OBVIOUS
      <4>1. h \in Above(k) /\ h \in Nodes /\ ~Over(h) /\ h # k
        BY <1>1, <1>5, AboveOrder DEF Within, Ones
      <4> QED
        BY <1>6, <3>3, <4>1
    <3>7. m \in Pending(k)
      BY <1>1, <1>3, <3>2, <3>6, PendingIs
    <3> QED
      BY <1>8, <2>1, <3>5, <3>7
  <2> QED
    BY <2>2, <2>3
<1> QED
  BY <1>13, <1>14, <1>15, <1>16, <1>17, <1>18

\* A One that makes its winner's calls keeps the invariant: each leaves the queue
\* as it is made, and no other outermost One has it in a queue.
LEMMA CommitKeeps ==
  ASSUME TrigInv, [Next]_vars, NEW k \in Nodes, Commit(k)
  PROVE  QueuedInv' /\ OnceInv' /\ SchedInv' /\ LostInv' /\ BrokenInv' /\ KeptInv'
<1> USE DEF TrigInv, Basics
<1> DEFINE w == won[k]
           c == Head(queue[w])
<1>0. /\ tree' = tree /\ Nodes' = Nodes /\ \A n : Ones(n)' = Ones(n)
      /\ \A m, n : (Inside(m, n)' <=> Inside(m, n)) /\ Within(m, n)' = Within(m, n)
  BY PlacesKept
<1>s. Step(k) \/ Fail(k)
  BY DEF Step
<1>1. st \in [Nodes -> Statuses] /\ tree \in Trees
  BY DEF Shape
<1>2. UNCHANGED <<won, err, wanted>> /\ st[k] = "commit" /\ queue[w] # <<>>
  BY DEF Commit, group
<1>3. /\ tree[k] = "one" /\ Ones(k) = {}
      /\ w # None /\ w \in Nodes /\ w # <<>> /\ Parent(w) = k
  BY <1>2, Winner DEF CommitInv
<1>4. \/ /\ queue' = [queue EXCEPT ![w] = Tail(queue[w])] /\ st' = st
         /\ scheduled' = [scheduled EXCEPT ![c] = scheduled[c] + 1]
      \/ queue' = queue /\ scheduled' = scheduled /\ st' = [st EXCEPT ![k] = "failed"]
  BY DEF Commit, Become
<1> HIDE DEF w, c
<1>5. /\ \A n \in Nodes : n # k => st'[n] = st[n]
      /\ \A n \in Nodes : st[n] \in {"done", "settled"} => st'[n] \in {"done", "settled"}
      /\ \A n \in Nodes : Over(n)' <=> Over(n)
  <2>1. st'[k] \in {"commit", "failed"}
    BY <1>1, <1>2, <1>4
  <2> QED
    BY <1>1, <1>2, <1>s, <2>1, OverKept DEF Over
<1>6. queue[w] \in Seq(Nodes) /\ IsInjective(queue[w])
  BY <1>3 DEF QueueShape, OnceInv
<1>7. /\ Queued(c, w) /\ c \in Nodes /\ Tail(queue[w]) \in Seq(Nodes) /\ IsInjective(Tail(queue[w]))
      /\ Range(Tail(queue[w])) = Range(queue[w]) \ {c}
  <2>1. /\ c \in Range(queue[w]) /\ Tail(queue[w]) \in Seq(Nodes) /\ IsInjective(Tail(queue[w]))
        /\ Range(Tail(queue[w])) = Range(queue[w]) \ {c}
    BY <1>2, <1>6, TailHolds DEF c
  <2>2. c \in Nodes
    BY <1>6, <2>1, RangeOfSeq
  <2> QED
    BY <2>1, <2>2 DEF Queued
<1>8. /\ c \in wanted /\ Inside(w, c)
      /\ \A h \in Within(w, c) : st[h] \in {"done", "settled"} /\ won[h] \in Path(c)
  BY <1>3, <1>7 DEF QueuedInv
<1>9. scheduled[c] = 0
  BY <1>3, <1>7, <1>8 DEF SchedInv
<1>10. \A m, n \in Nodes : Queued(n, m)' <=> Queued(n, m) /\ ~(m = w /\ n = c /\ queue' # queue)
  <2> TAKE m, n \in Nodes
  <2>1. CASE queue' = queue
    BY <2>1 DEF Queued
  <2>2. CASE queue' # queue
    <3>1. queue'[m] = IF m = w THEN Tail(queue[w]) ELSE queue[m]
      BY <1>3, <1>4, <2>2 DEF QueueShape
    <3> QED
      BY <1>7, <2>2, <3>1 DEF Queued
  <2> QED
    BY <2>1, <2>2
<1>11. queue' # queue => scheduled'[c] = 1
  BY <1>4, <1>7, <1>9 DEF QueueShape
<1>12. \A n \in Nodes : scheduled'[n] = scheduled[n] \/ (n = c /\ scheduled'[n] = 1)
  BY <1>4, <1>7, <1>9 DEF QueueShape
<1>13. \A n \in Nodes : \A h \in Ones(n) : h \in Nodes /\ tree[h] = "one"
  BY <1>1, AboveInTree DEF Ones
<1>14. \A n \in Nodes : \A m : Within(m, n) \subseteq Ones(n)
  BY DEF Within
<1>15. QueuedInv'
  BY <1>0, <1>2, <1>5, <1>10, <1>13, <1>14 DEF QueuedInv
<1>16. OnceInv'
  <2> SUFFICES ASSUME NEW m \in Nodes PROVE IsInjective(queue'[m])
    BY <1>0 DEF OnceInv
  <2>1. queue'[m] = queue[m] \/ queue'[m] = Tail(queue[w])
    BY <1>3, <1>4 DEF QueueShape
  <2> QED
    BY <1>7, <2>1 DEF OnceInv
<1>17. SchedInv'
  <2> SUFFICES ASSUME NEW n \in Nodes, scheduled'[n] # 0
               PROVE  /\ scheduled'[n] = 1 /\ n \in wanted
                      /\ \A g \in Ones(n) : Over(g) /\ won[g] \in Path(n)
                      /\ \A m \in Nodes : Inside(m, n) /\ Ones(Parent(m)) = {} => ~Queued(n, m)'
    BY <1>0, <1>2, <1>5, <1>13 DEF SchedInv
  <2>1. CASE scheduled[n] # 0
    <3>1. scheduled'[n] = 1
      BY <1>12, <2>1 DEF SchedInv
    <3> QED
      BY <1>10, <2>1, <3>1 DEF SchedInv
  <2>2. CASE scheduled[n] = 0
    <3>1. n = c /\ scheduled'[n] = 1 /\ queue' # queue
      <4>1. n = c /\ scheduled'[n] = 1
        BY <1>12, <2>2
      <4>2. CASE queue' = queue
        <5>1. Range(Tail(queue[w])) = Range(queue[w]) \/ scheduled' = scheduled
          BY <1>3, <1>4, <4>2 DEF QueueShape
        <5>2. c \in Range(queue[w])
          BY <1>7 DEF Queued
        <5> QED
          BY <1>7, <2>2, <5>1, <5>2
      <4> QED
        BY <4>1, <4>2
    <3>2. ASSUME NEW g \in Ones(n) PROVE Over(g) /\ won[g] \in Path(n)
      <4>1. g = k \/ g \in Within(w, n)
        BY <1>1, <1>3, <1>8, <3>1, OnesSplit
      <4>2. CASE g = k
        BY <1>2, <1>8, <3>1, <4>2 DEF Over, Inside, w
      <4>3. CASE g \in Within(w, n)
        BY <1>8, <3>1, <4>3 DEF Over
      <4> QED
        BY <4>1, <4>2, <4>3
    <3>3. ASSUME NEW m \in Nodes, Inside(m, n), Ones(Parent(m)) = {} PROVE ~Queued(n, m)'
      <4>1. m = w
        BY <1>1, <1>3, <1>8, <3>1, <3>3, MembersNest
      <4> QED
        BY <1>10, <3>1, <4>1
    <3> QED
      BY <1>8, <3>1, <3>2, <3>3
  <2> QED
    BY <2>1, <2>2
<1>18. LostInv'
  <2> SUFFICES ASSUME NEW n \in wanted, Ones(n) = {}, scheduled'[n] = 0 PROVE Doomed(n)'
    BY <1>0, <1>2 DEF LostInv
  <2>1. n \in Nodes
    BY DEF QueueShape
  <2>2. scheduled[n] = 0
    BY <1>12, <2>1
  <2> QED
    BY <1>s, <2>2, LostKept
<1>19. BrokenInv'
  <2> SUFFICES ASSUME NEW g \in Nodes, Ones(g) = {}, Over(g), st'[g] # "commit", won[g] # None,
                      queue'[won[g]] # <<>>
               PROVE  Doomed(g)'
    BY <1>0, <1>2, <1>5 DEF BrokenInv
  <2>1. tree[g] = "one" /\ won[g] \in Nodes /\ Parent(won[g]) = g
    BY Winner
  <2>2. CASE g # k
    <3>1. st[g] # "commit" /\ won[g] # w
      BY <1>3, <1>5, <2>1, <2>2
    <3>2. queue[won[g]] # <<>>
      BY <1>3, <1>4, <2>1, <3>1 DEF QueueShape
    <3> QED
      BY <1>s, <3>1, <3>2, DoomedKept DEF BrokenInv
  <2>3. CASE g = k
    <3>1. st'[k] = "failed"
      BY <1>1, <1>2, <1>4, <2>3
    <3>2. \A h \in Above(k) : h \in Nodes /\ h # k /\ ~Over(h)
      BY <1>1, <1>s, OverKept, AboveOrder, AboveInTree
    <3>3. \A h \in Above(k) : st'[h] \notin {"done", "commit", "settled"}
      BY <1>5, <3>2 DEF Over
    <3> QED
      BY <2>3, <3>1, <3>3 DEF Doomed
  <2> QED
    BY <2>2, <2>3
<1>20. KeptInv'
  <2> SUFFICES ASSUME NEW n \in wanted, NEW m \in Nodes, Inside(m, n),
                      \A h \in Within(m, n) : Over(h)' /\ won[h] \in Path(n)
               PROVE  Queued(n, m)' \/ scheduled'[n] # 0
    BY <1>0, <1>2 DEF KeptInv
  <2>1. n \in Nodes
    BY DEF QueueShape
  <2>2. \A h \in Within(m, n) : Over(h)
    BY <1>5, <1>13, <1>14, <2>1
  <2>3. Queued(n, m) \/ scheduled[n] # 0
    BY <2>2 DEF KeptInv
  <2> QED
    BY <1>10, <1>11, <1>12, <2>1, <2>3
<1> QED
  BY <1>15, <1>16, <1>17, <1>18, <1>19, <1>20

\* At the start nothing has been reached, queued or scheduled.
LEMMA TrigInit == Init => TrigInv
<1> SUFFICES ASSUME Init PROVE TrigInv
  OBVIOUS
<1>1. Shape /\ NoOrphans
  BY ShapeInit, OrphansInit
<1>2. /\ queue = [n \in Nodes |-> <<>>] /\ scheduled = [n \in Nodes |-> 0] /\ wanted = {} /\ err = {}
      /\ won = [n \in Nodes |-> None] /\ \A n \in Nodes : st[n] \in {"on", "off"}
  BY DEF Init
<1>3. QueueShape
  BY <1>2 DEF QueueShape
<1>4. \A m, n \in Nodes : ~Queued(n, m)
  BY <1>2, EmptyHolds DEF Queued
<1>5. OnceInv
  BY <1>2, EmptyHolds DEF OnceInv
<1> QED
  BY <1>1, <1>2, <1>3, <1>4, <1>5 DEF TrigInv, Basics, WonInv, WantedInv, CommitInv, QueuedInv, SchedInv,
     LostInv, BrokenInv, KeptInv

\* Every step keeps the invariant.
LEMMA TrigNext == TrigInv /\ [Next]_vars => TrigInv'
<1> SUFFICES ASSUME TrigInv, [Next]_vars PROVE TrigInv'
  OBVIOUS
<1>1. Basics'
  BY BasicsNext DEF TrigInv
<1>2. CASE UNCHANGED vars
  <2>1. UNCHANGED <<tree, st, won, queue, scheduled, wanted, err>>
    BY <1>2 DEF vars
  <2>2. /\ Nodes' = Nodes /\ \A n : Ones(n)' = Ones(n)
        /\ \A m, n : (Inside(m, n)' <=> Inside(m, n)) /\ Within(m, n)' = Within(m, n)
    BY PlacesKept
  <2>3. /\ \A m, n : Queued(n, m)' <=> Queued(n, m)
        /\ \A n : (Over(n)' <=> Over(n)) /\ (Doomed(n)' <=> Doomed(n))
    BY <2>1 DEF Queued, Over, Doomed
  <2>4. QueuedInv' /\ OnceInv' /\ SchedInv'
    BY <2>1, <2>2, <2>3 DEF TrigInv, QueuedInv, OnceInv, SchedInv
  <2>5. LostInv' /\ BrokenInv' /\ KeptInv'
    BY <2>1, <2>2, <2>3 DEF TrigInv, LostInv, BrokenInv, KeptInv
  <2> QED
    BY <1>1, <2>4, <2>5 DEF TrigInv
<1>3. CASE \E k \in Nodes : Step(k) \/ Fail(k)
  <2>1. PICK k \in Nodes : Step(k) \/ Fail(k)
    BY <1>3
  <2>2. CASE Defer(k)
    BY <1>1, <2>2, DeferKeeps DEF TrigInv
  <2>3. CASE Settle(k)
    BY <1>1, <2>3, SettleKeeps DEF TrigInv
  <2>4. CASE Accept(k)
    BY <1>1, <2>4, AcceptKeeps DEF TrigInv
  <2>5. CASE Commit(k)
    BY <1>1, <2>5, CommitKeeps DEF TrigInv
  <2>6. CASE ~Defer(k) /\ ~Settle(k) /\ ~Accept(k) /\ ~Commit(k)
    BY <1>1, <2>1, <2>6, QuietKeeps DEF TrigInv
  <2> QED
    BY <2>2, <2>3, <2>4, <2>5, <2>6
<1> QED
  BY <1>2, <1>3 DEF Next

\* The invariant is strong enough: in a run that has succeeded every One is over
\* and no error is left, so what was reached and accepted has been scheduled.
LEMMA TrigImplies == TrigInv => TriggersOnce
<1> SUFFICES ASSUME TrigInv PROVE TriggersOnce
  OBVIOUS
<1> USE DEF TrigInv, Basics
<1>1. tree \in Trees /\ <<>> \in Nodes
  BY TreePaths DEF Shape
<1>2. \A n \in Nodes : Accepted(n) <=> \A g \in Ones(n) : won[g] \in Path(n)
  <2> TAKE n \in Nodes
  <2>1. ASSUME NEW g \in Ones(n) PROVE (won[g] # None /\ IsPrefix(won[g], n)) <=> won[g] \in Path(n)
    <3>1. g \in Nodes
      BY <1>1, AboveInTree DEF Ones
    <3>2. CASE won[g] = None
      BY <3>1, <3>2, Winner
    <3>3. CASE won[g] # None
      BY <1>1, <3>1, <3>3, Winner, PrefixIs
    <3> QED
      BY <3>2, <3>3
  <2>2. Accepted(n) <=> \A g \in Ones(n) : won[g] # None /\ IsPrefix(won[g], n)
    BY DEF Accepted, Ones
  <2> QED
    BY <2>1, <2>2
<1>3. \A n \in Nodes : scheduled[n] > 0 <=> scheduled[n] # 0
  BY DEF QueueShape
<1>4. AcceptedAloneSchedule
  BY <1>2, <1>3 DEF AcceptedAloneSchedule, SchedInv, Ones
<1>5. \A n \in Nodes : scheduled[n] <= 1
  <2> TAKE n \in Nodes
  <2>1. scheduled[n] = 0 \/ scheduled[n] = 1
    BY DEF SchedInv
  <2> QED
    BY <2>1
<1>6. ASSUME st[<<>>] = "done", NEW n \in wanted
      PROVE  scheduled[n] = 1 <=> Accepted(n)
  <2>1. n \in Nodes
    BY DEF QueueShape
  <2>2. scheduled[n] = 1 => Accepted(n)
    BY <1>2, <2>1 DEF SchedInv
  <2>3. \A x \in Nodes : x = <<>> \/ st[x] = "settled"
    BY <1>1, <1>6, AboveOrder DEF NoOrphans, Over
  <2>4. \A x \in Nodes : ~Doomed(x)
    <3> SUFFICES ASSUME NEW x \in Nodes, Doomed(x) PROVE FALSE
      OBVIOUS
    <3>1. CASE x = <<>>
      BY <1>6, <3>1 DEF Doomed
    <3>2. CASE x # <<>>
      BY <1>1, <1>6, <3>2, AboveOrder DEF Doomed
    <3> QED
      BY <3>1, <3>2
  <2>5. ASSUME Accepted(n), scheduled[n] = 0 PROVE FALSE
    <3>1. Ones(n) # {}
      BY <2>1, <2>4, <2>5 DEF LostInv
    <3>2. PICK m : Inside(m, n) /\ Ones(Parent(m)) = {}
      BY <1>1, <2>1, <3>1, PendingExists
    <3> DEFINE g == Parent(m)
    <3>3. m \in Nodes /\ g \in Nodes /\ g \in Ones(n)
      BY <1>1, <2>1, <3>2, InsideOne
    <3>4. \A h \in Ones(n) : h \in Nodes /\ Over(h) /\ won[h] \in Path(n)
      <4>1. \A h \in Ones(n) : h \in Nodes
        BY <1>1, <2>1, AboveInTree DEF Ones
      <4> QED
        BY <1>2, <1>6, <2>1, <2>3, <2>5, <4>1 DEF Over
    <3>5. Queued(n, m)
      BY <2>5, <3>2, <3>3, <3>4 DEF KeptInv, Within
    <3>6. won[g] # None /\ won[g] \in Path(n)
      BY <2>1, <3>3, <3>4, Winner
    <3>7. won[g] = m
      <4>1. Inside(won[g], n) /\ Parent(won[g]) = g
        BY <3>3, <3>6, Winner
      <4> QED
        BY <1>1, <2>1, <3>2, <4>1, OneMember
    <3>8. queue[m] # <<>>
      BY <3>5, EmptyHolds DEF Queued
    <3>9. st[g] # "commit"
      BY <1>6, <2>3, <3>3
    <3> QED
      BY <2>4, <3>2, <3>3, <3>4, <3>6, <3>7, <3>8, <3>9 DEF BrokenInv
  <2>6. scheduled[n] = 0 \/ scheduled[n] = 1
    BY <2>1 DEF SchedInv
  <2> QED
    BY <2>2, <2>5, <2>6
<1> QED
  BY <1>4, <1>5, <1>6 DEF TriggersOnce

\* TriggersOnce holds for every tree, however Ones and other groups are nested:
\* a losing member's triggers are never scheduled, an accepted one's once, and
\* none of them is lost when the run succeeds (trigger.go:155-204, groups.go:250-262).
THEOREM TriggersAreScheduledOnce == Spec => []TriggersOnce
<1> QED
  BY TrigInit, TrigNext, TrigImplies, PTL DEF Spec

-----------------------------------------------------------------------------
(* Several sequences put one after another. *)

\* Induction over the naturals, for a set of them.
LEMMA AllNumbers ==
  ASSUME NEW S, 0 \in S, \A n \in Nat : n \in S => n + 1 \in S
  PROVE  Nat \subseteq S
<1> SUFFICES ASSUME ~(Nat \subseteq S) PROVE FALSE
  OBVIOUS
<1>1. PICK k \in Nat \ S : \A j \in Nat \ S : k <= j
  <2>1. Nat \ S # {} /\ Nat \ S \in SUBSET Nat
    OBVIOUS
  <2> QED
    BY <2>1, LeastNumber
<1>2. k # 0 /\ k - 1 \in Nat
  BY <1>1
<1>3. k - 1 \in S
  BY <1>1, <1>2
<1> QED
  BY <1>1, <1>2, <1>3

\* at says of each place of f which entry of which of the first k sequences of s
\* stands there; entries stand in the order of the sequences, and as there.
Lays(f, s, k, at) ==
  /\ \A p \in 1..Len(f) : \E i \in 1..k : \E j \in 1..Len(s[i]) : at[p] = <<i, j>> /\ f[p] = s[i][j]
  /\ \A i \in 1..k : \A j \in 1..Len(s[i]) : \E p \in 1..Len(f) : at[p] = <<i, j>>
  /\ \A p, q \in 1..Len(f) : p < q => at[p][1] < at[q][1] \/ (at[p][1] = at[q][1] /\ at[p][2] < at[q][2])

\* One more sequence at the end.
LEMMA LaysOn ==
  ASSUME NEW T, NEW k \in Nat, NEW f \in Seq(T), NEW s, NEW at, Lays(f, s, k, at),
         \A i \in 1..k + 1 : s[i] \in Seq(T)
  PROVE  f \o s[k + 1] \in Seq(T) /\ \E b : Lays(f \o s[k + 1], s, k + 1, b)
<1> DEFINE e == s[k + 1]
           g == f \o e
           n == Len(f)
           b == [p \in 1..n + Len(e) |-> IF p <= n THEN at[p] ELSE <<k + 1, p - n>>]
<1>1. e \in Seq(T) /\ e = s[k + 1] /\ n \in Nat /\ Len(e) \in Nat /\ k + 1 \in 1..k + 1 /\ 1..k \subseteq 1..k + 1
  BY LenProperties
<1>2. /\ g \in Seq(T) /\ Len(g) = n + Len(e)
      /\ \A p \in 1..n + Len(e) : g[p] = IF p <= n THEN f[p] ELSE e[p - n]
  BY <1>1, ConcatProperties
<1>3. \A p \in 1..n + Len(e) : b[p] = IF p <= n THEN at[p] ELSE <<k + 1, p - n>>
  OBVIOUS
<1>4. \A i \in 1..k : Len(s[i]) \in Nat
  BY <1>1, LenProperties
<1> HIDE DEF g, b, n, e
<1>10. ASSUME NEW p \in 1..Len(g), p <= n
       PROVE  p \in 1..n /\ b[p] = at[p] /\ g[p] = f[p]
  <2>1. p \in 1..n + Len(e) /\ p \in 1..n
    BY <1>1, <1>2, <1>10
  <2> QED
    BY <1>2, <1>3, <1>10, <2>1
<1>11. ASSUME NEW p \in 1..Len(g), ~(p <= n)
       PROVE  p - n \in 1..Len(e) /\ b[p] = <<k + 1, p - n>> /\ g[p] = e[p - n]
  <2>1. p \in 1..n + Len(e) /\ p - n \in 1..Len(e)
    BY <1>1, <1>2, <1>11
  <2> QED
    BY <1>2, <1>3, <1>11, <2>1
<1>5. ASSUME NEW p \in 1..Len(g)
      PROVE  \E i \in 1..k + 1 : \E j \in 1..Len(s[i]) : b[p] = <<i, j>> /\ g[p] = s[i][j]
  <2>1. CASE p <= n
    <3>1. PICK i \in 1..k : \E j \in 1..Len(s[i]) : at[p] = <<i, j>> /\ f[p] = s[i][j]
      BY <1>1, <1>2, <1>5, <2>1 DEF Lays, n
    <3> QED
      BY <1>1, <1>2, <1>3, <1>5, <2>1, <3>1
  <2>2. CASE ~(p <= n)
    <3>1. p - n \in 1..Len(e) /\ b[p] = <<k + 1, p - n>> /\ g[p] = e[p - n]
      BY <1>11, <2>2
    <3> QED
      BY <1>1, <3>1
  <2> QED
    BY <2>1, <2>2
<1>6. ASSUME NEW i \in 1..k + 1, NEW j \in 1..Len(s[i])
      PROVE  \E p \in 1..Len(g) : b[p] = <<i, j>>
  <2>1. CASE i \in 1..k
    <3>1. PICK p \in 1..n : at[p] = <<i, j>>
      BY <1>6, <2>1 DEF Lays, n
    <3>2. p \in 1..n + Len(e) /\ p <= n
      BY <1>1
    <3> QED
      BY <1>2, <1>3, <3>1, <3>2
  <2>2. CASE i = k + 1
    <3>1. j + n \in 1..n + Len(e) /\ ~(j + n <= n) /\ (j + n) - n = j
      BY <1>1, <1>6, <2>2
    <3> QED
      BY <1>2, <1>3, <2>2, <3>1
  <2> QED
    BY <1>6, <2>1, <2>2
<1>7. ASSUME NEW p \in 1..Len(g), NEW q \in 1..Len(g), p < q
      PROVE  b[p][1] < b[q][1] \/ (b[p][1] = b[q][1] /\ b[p][2] < b[q][2])
  <2>1. CASE q <= n
    <3>1. b[p] = at[p] /\ b[q] = at[q] /\ p \in 1..n /\ q \in 1..n
      <4>1. p <= n
        BY <1>1, <1>2, <1>7, <2>1
      <4> QED
        BY <1>10, <2>1, <4>1
    <3>2. at[p][1] < at[q][1] \/ (at[p][1] = at[q][1] /\ at[p][2] < at[q][2])
      BY <1>7, <3>1 DEF Lays, n
    <3> QED
      BY <3>1, <3>2, Zenon
  <2>2. CASE p <= n /\ ~(q <= n)
    <3>1. b[p] = at[p] /\ b[q] = <<k + 1, q - n>> /\ p \in 1..n
      BY <1>10, <1>11, <2>2
    <3>2. \E i \in 1..k : \E j \in 1..Len(s[i]) : at[p] = <<i, j>>
      BY <3>1 DEF Lays, n
    <3> QED
      BY <3>1, <3>2
  <2>3. CASE ~(p <= n)
    <3>1. ~(q <= n) /\ p - n < q - n
      BY <1>1, <1>2, <1>7, <2>3
    <3>2. b[p] = <<k + 1, p - n>> /\ b[q] = <<k + 1, q - n>>
      BY <1>11, <2>3, <3>1
    <3> QED
      BY <3>1, <3>2
  <2> QED
    BY <2>1, <2>2, <2>3
<1>8. Lays(g, s, k + 1, b)
  BY <1>5, <1>6, <1>7 DEF Lays
<1>9. \E x : Lays(g, s, k + 1, x)
  BY <1>8
<1> QED
  BY <1>2, <1>9 DEF g, e

\* The recursion that FlattenSeq is defined by, and what it has put together.
Flattens(f, s) == f = [i \in 1..Len(s) |-> IF i = 1 THEN s[i] ELSE f[i - 1] \o s[i]]

\* It has a solution.
LEMMA FlattensExists ==
  ASSUME NEW s, Len(s) \in Nat
  PROVE  \E f : Flattens(f, s)
<1> DEFINE Upto(k, f) == f = [i \in 1..k |-> IF i = 1 THEN s[i] ELSE f[i - 1] \o s[i]]
           S == {k \in Nat : \E f : Upto(k, f)}
<1>1. 0 \in S
  <2>1. Upto(0, [i \in 1..0 |-> <<>>])
    OBVIOUS
  <2> HIDE DEF Upto
  <2> QED
    BY <2>1
<1>2. ASSUME NEW k \in Nat, k \in S PROVE k + 1 \in S
  <2>1. PICK f : Upto(k, f)
    BY <1>2
  <2> DEFINE h == [j \in 1..k + 1 |-> IF j = k + 1 THEN (IF j = 1 THEN s[j] ELSE f[k] \o s[k + 1]) ELSE f[j]]
  <2>2. ASSUME NEW j \in 1..k + 1
        PROVE  h[j] = IF j = 1 THEN s[j] ELSE h[j - 1] \o s[j]
    <3>1. CASE j = k + 1
      BY <3>1
    <3>2. CASE j \in 1..k
      <4>1. h[j] = f[j] /\ (j # 1 => h[j - 1] = f[j - 1])
        BY <3>2
      <4>2. f[j] = IF j = 1 THEN s[j] ELSE f[j - 1] \o s[j]
        BY <2>1, <3>2
      <4> QED
        BY <4>1, <4>2
    <3> QED
      BY <3>1, <3>2
  <2>3. Upto(k + 1, h)
    <3>1. h = [j \in 1..k + 1 |-> h[j]]
      OBVIOUS
    <3> HIDE DEF h
    <3> QED
      BY <2>2, <3>1
  <2>4. \E e : Upto(k + 1, e)
    <3> HIDE DEF h, Upto
    <3> QED
      BY <2>3, Zenon
  <2> HIDE DEF Upto
  <2> QED
    BY <2>4
<1>3. Len(s) \in S
  <2> HIDE DEF S
  <2> QED
    BY <1>1, <1>2, AllNumbers
<1>4. PICK f : Upto(Len(s), f)
  BY <1>3
<1> QED
  BY <1>4 DEF Flattens

\* FlattenSeq lays the entries of all its sequences, in order.
LEMMA FlattenLays ==
  ASSUME NEW T, NEW s \in Seq(Seq(T))
  PROVE  FlattenSeq(s) \in Seq(T) /\ \E at : Lays(FlattenSeq(s), s, Len(s), at)
<1> DEFINE n == Len(s)
<1>0. n \in Nat /\ \A i \in 1..n : s[i] \in Seq(T)
  BY LenProperties, ElementOfSeq
<1> HIDE DEF n
<1>1. CASE n = 0
  <2>1. FlattenSeq(s) = s /\ s = <<>>
    BY <1>1, EmptySeq DEF FlattenSeq, n
  <2>2. Len(<<>>) = 0 /\ <<>> \in Seq(T)
    OBVIOUS
  <2>3. Lays(<<>>, s, 0, <<>>)
    BY <2>2 DEF Lays
  <2> QED
    BY <1>1, <2>1, <2>2, <2>3 DEF n
<1>2. CASE n # 0
  <2> DEFINE g == CHOOSE f : Flattens(f, s)
  <2>1. Flattens(g, s)
    BY <1>0, FlattensExists DEF n
  <2>2. FlattenSeq(s) = g[n]
    BY <1>2 DEF FlattenSeq, Flattens, n
  <2> HIDE DEF g
  <2>3. g[1] = s[1]
    <3>1. 1 \in 1..Len(s)
      BY <1>0, <1>2 DEF n
    <3> QED
      BY <2>1, <3>1 DEF Flattens
  <2>4. ASSUME NEW k \in Nat, k # 0, k + 1 <= n PROVE g[k + 1] = g[k] \o s[k + 1]
    <3>1. k + 1 \in 1..n /\ k + 1 # 1 /\ (k + 1) - 1 = k
      BY <1>0, <2>4
    <3>2. \A j \in 1..n : g[j] = IF j = 1 THEN s[j] ELSE g[j - 1] \o s[j]
      BY <2>1 DEF Flattens, n
    <3> QED
      BY <3>1, <3>2
  <2> DEFINE Q(k) == g[k + 1] \in Seq(T) /\ \E at : Lays(g[k + 1], s, k + 1, at)
             S == {k \in Nat : k + 1 <= n => Q(k)}
  <2>5. 0 \in S
    <3>1. Len(<<>>) = 0 /\ <<>> \in Seq(T) /\ 1 \in 1..n /\ 0 + 1 = 1
      BY <1>0, <1>2
    <3>2. Lays(<<>>, s, 0, <<>>)
      BY <3>1 DEF Lays
    <3>3. \A i \in 1..0 + 1 : s[i] \in Seq(T)
      BY <1>0, <3>1
    <3>4. <<>> \o s[0 + 1] \in Seq(T) /\ \E b : Lays(<<>> \o s[0 + 1], s, 0 + 1, b)
      BY <3>1, <3>2, <3>3, LaysOn
    <3>5. <<>> \o s[1] = s[1]
      BY <3>1, ConcatEmptySeq
    <3> QED
      BY <2>3, <3>1, <3>4, <3>5
  <2>6. ASSUME NEW k \in Nat, k \in S PROVE k + 1 \in S
    <3> HIDE DEF Q
    <3> SUFFICES ASSUME (k + 1) + 1 <= n PROVE Q(k + 1)
      OBVIOUS
    <3>1. k + 1 # 0 /\ k + 1 \in Nat /\ k + 1 <= n
      BY <1>0
    <3>2. Q(k)
      BY <2>6, <3>1
    <3>3. PICK at : g[k + 1] \in Seq(T) /\ Lays(g[k + 1], s, k + 1, at)
      BY <3>2 DEF Q
    <3>4. \A i \in 1..(k + 1) + 1 : s[i] \in Seq(T)
      BY <1>0, <3>1
    <3>5. g[(k + 1) + 1] = g[k + 1] \o s[(k + 1) + 1]
      BY <2>4, <3>1
    <3> DEFINE f == g[k + 1]
               m == k + 1
    <3>6. f \in Seq(T) /\ Lays(f, s, m, at) /\ m \in Nat /\ \A i \in 1..m + 1 : s[i] \in Seq(T)
      BY <3>1, <3>3, <3>4
    <3> HIDE DEF f, m
    <3>7. f \o s[m + 1] \in Seq(T) /\ \E b : Lays(f \o s[m + 1], s, m + 1, b)
      BY <3>6, LaysOn
    <3> QED
      BY <3>5, <3>7 DEF Q, f, m
  <2>7. n - 1 \in S
    <3> HIDE DEF S
    <3>1. n - 1 \in Nat
      BY <1>0, <1>2
    <3> QED
      BY <2>5, <2>6, <3>1, AllNumbers
  <2>8. n - 1 \in Nat /\ (n - 1) + 1 = n /\ n <= n
    BY <1>0, <1>2
  <2>9. Q(n - 1)
    <3> HIDE DEF Q
    <3> QED
      BY <2>7, <2>8
  <2> QED
    BY <2>2, <2>8, <2>9 DEF n
<1> QED
  BY <1>1, <1>2

-----------------------------------------------------------------------------
(* The members of a group are numbered from 1. *)

\* A function on the first numbers is a sequence.
LEMMA SeqIs ==
  ASSUME NEW T, NEW n \in Nat, NEW f \in [1..n -> T]
  PROVE  f \in Seq(T) /\ Len(f) = n
<1>1. f \in Seq(T)
  BY SeqDef
<1>2. Len(f) \in Nat /\ DOMAIN f = 1..Len(f) /\ DOMAIN f = 1..n
  BY <1>1, LenProperties
<1> QED
  BY <1>1, <1>2

\* What Append makes of a path, and what Front and Last make of that.
LEMMA AppendPath ==
  ASSUME NEW g \in Seq(Nat), NEW i \in Nat
  PROVE  /\ Append(g, i) \in Seq(Nat) /\ Len(Append(g, i)) = Len(g) + 1 /\ Append(g, i) # <<>>
         /\ Front(Append(g, i)) = g /\ Last(Append(g, i)) = i
         /\ Append(g, i)[Len(g) + 1] = i
<1> DEFINE a == Append(g, i)
<1>1. /\ a \in Seq(Nat) /\ Len(a) = Len(g) + 1 /\ a # <<>> /\ a[Len(g) + 1] = i /\ Len(g) \in Nat
      /\ \A j \in 1..Len(g) : a[j] = g[j]
  BY AppendProperties, LenProperties
<1> HIDE DEF a
<1>2. Last(a) = i
  BY <1>1 DEF Last
<1>3. Front(a) = SubSeq(a, 1, Len(g))
  <2>1. Len(a) - 1 = Len(g)
    BY <1>1
  <2> QED
    BY <2>1 DEF Front
<1>4. SubSeq(a, 1, Len(g)) = g
  <2>1. /\ SubSeq(a, 1, Len(g)) \in Seq(Nat) /\ Len(SubSeq(a, 1, Len(g))) = Len(g)
    BY <1>1, Beginnings
  <2>2. \A j \in 1..Len(g) : SubSeq(a, 1, Len(g))[j] = a[j]
    <3>1. 1 \in Int /\ Len(g) \in Int /\ \A j \in 1..Len(g) : a[j] \in Nat
      BY <1>1
    <3>2. \A j \in 1..Len(g) - 1 + 1 : SubSeq(a, 1, Len(g))[j] = a[1 + j - 1]
      BY <3>1, SubSeqProperties
    <3> QED
      BY <1>1, <3>2
  <2> QED
    BY <1>1, <2>1, <2>2, SeqEqual
<1> QED
  BY <1>1, <1>2, <1>3, <1>4 DEF a

\* A path that is not empty is what Append makes of its front.
LEMMA FrontLast ==
  ASSUME NEW n \in Seq(Nat), n # <<>>
  PROVE  Front(n) \in Seq(Nat) /\ Last(n) \in Nat /\ n = Append(Front(n), Last(n))
<1>1. PICK s \in Seq(Nat), e \in Nat : n = Append(s, e)
  BY SequenceEmptyOrAppend
<1>2. Front(n) = s /\ Last(n) = e
  BY <1>1, AppendPath
<1> QED
  BY <1>1, <1>2

\* The members of g are Append(g, 1) to Append(g, Cardinality(Kids(g))).
LEMMA KidsAre ==
  ASSUME tree \in Trees, NEW g \in Nodes
  PROVE  /\ Cardinality(Kids(g)) \in Nat
         /\ \A m : m \in Kids(g) <=> \E i \in 1..Cardinality(Kids(g)) : m = Append(g, i)
<1>1. g \in Seq(Nat) /\ \A n \in Nodes : n \in Seq(Nat)
  BY TreePaths
<1>2. /\ IsFiniteSet(Nodes)
      /\ \A n \in Nodes \ {<<>>} : Last(n) > 0 /\ \A i \in 1..Last(n) : Append(Front(n), i) \in Nodes
  BY FanOutAssumption DEF Nodes
<1>3. ASSUME NEW i \in Nat, NEW j \in Nat, Append(g, i) = Append(g, j) PROVE i = j
  BY <1>1, <1>3, AppendPath
<1> DEFINE U == {u \in Nat : Append(g, u + 1) \notin Nodes}
<1>4. U # {}
  <2> SUFFICES ASSUME \A u \in Nat : Append(g, u + 1) \in Nodes PROVE FALSE
    OBVIOUS
  <2> DEFINE c == Cardinality(Nodes)
             f == [i \in 1..c + 1 |-> Append(g, i)]
  <2>1. c \in Nat
    BY <1>2, FS_CardinalityType
  <2> HIDE DEF c
  <2>2. ASSUME NEW i \in 1..c + 1 PROVE Append(g, i) \in Nodes
    <3>1. i - 1 \in Nat /\ (i - 1) + 1 = i
      BY <2>1
    <3> QED
      BY <3>1
  <2>3. f \in [1..c + 1 -> Nodes]
    BY <2>2
  <2>4. \A a, b \in 1..c + 1 : f[a] = f[b] => a = b
    BY <1>3, <2>1
  <2>5. f \in Injection(1..c + 1, Nodes)
    <3> HIDE DEF f
    <3> QED
      BY <2>3, <2>4 DEF Injection, IsInjective
  <2>6. Cardinality(1..c + 1) <= c
    <3> HIDE DEF f
    <3> QED
      BY <1>2, <2>5, FS_Injection DEF c
  <2>7. Cardinality(1..c + 1) = c + 1
    <3>1. 1 \in Int /\ c + 1 \in Int
      BY <2>1
    <3>2. Cardinality(1..c + 1) = IF 1 > c + 1 THEN 0 ELSE (c + 1) - 1 + 1
      BY <3>1, FS_Interval
    <3> QED
      BY <2>1, <3>2
  <2> QED
    BY <2>1, <2>6, <2>7
<1>5. PICK u \in U : \A v \in U : u <= v
  BY <1>4, LeastNumber
<1>6. ASSUME NEW i \in 1..u PROVE Append(g, i) \in Kids(g)
  <2>1. i \in Nat /\ i - 1 \in Nat /\ (i - 1) + 1 = i /\ ~(u <= i - 1)
    BY <1>5
  <2>2. Append(g, i) \in Nodes
    BY <1>5, <2>1
  <2> QED
    BY <1>1, <2>1, <2>2, AppendPath DEF Kids
<1>7. ASSUME NEW m \in Kids(g) PROVE \E i \in 1..u : m = Append(g, i)
  <2>1. m \in Nodes /\ m # <<>> /\ Front(m) = g
    BY DEF Kids
  <2>2. Last(m) \in Nat /\ m = Append(g, Last(m)) /\ Last(m) > 0
    BY <1>1, <1>2, <2>1, FrontLast
  <2>3. ASSUME Last(m) > u PROVE FALSE
    <3>1. u + 1 \in 1..Last(m)
      BY <2>2, <2>3
    <3> QED
      BY <1>2, <2>1, <3>1
  <2> QED
    BY <2>2, <2>3
<1>8. Cardinality(Kids(g)) = u
  <2> DEFINE h == [i \in 1..u |-> Append(g, i)]
  <2>1. h \in [1..u -> Kids(g)]
    BY <1>6
  <2>2. \A a, b \in 1..u : h[a] = h[b] => a = b
    BY <1>3
  <2>3. \A m \in Kids(g) : \E i \in 1..u : h[i] = m
    BY <1>7
  <2> HIDE DEF h
  <2>4. h \in Bijection(1..u, Kids(g))
    BY <2>1, <2>2, <2>3 DEF Bijection, Injection, Surjection, IsInjective
  <2>5. ExistsBijection(1..u, Kids(g))
    BY <2>4 DEF ExistsBijection
  <2>6. IsFiniteSet(1..u) /\ Cardinality(1..u) = u
    <3>1. 1 \in Int /\ u \in Int
      OBVIOUS
    <3>2. IsFiniteSet(1..u) /\ Cardinality(1..u) = IF 1 > u THEN 0 ELSE u - 1 + 1
      BY <3>1, FS_Interval
    <3> QED
      BY <3>2
  <2> QED
    BY <2>5, <2>6, FS_Bijection
<1> QED
  BY <1>6, <1>7, <1>8

-----------------------------------------------------------------------------
(* Types. *)

\* The chats, what selMerge holds, and the rest.
ChatTypes ==
  /\ given \in [Nodes -> Seq(Nodes)] /\ shared \in [Nodes -> Seq(Nodes)]
  /\ out \in [Nodes -> [chat : Seq(Nodes), sel : Sels \cup {None}]]
  /\ merge \in [Nodes -> [sel : Sels \cup {None}, conflict : BOOLEAN]]
  /\ cut \subseteq Nodes /\ broke \subseteq Nodes /\ faults \in 0..MaxFaults

\* What c has after its first l entries.
LEMMA RestIs ==
  ASSUME NEW T, NEW c \in Seq(T), NEW l \in Nat
  PROVE  /\ SubSeq(c, l + 1, Len(c)) \in Seq(T)
         /\ Len(SubSeq(c, l + 1, Len(c))) = IF l <= Len(c) THEN Len(c) - l ELSE 0
         /\ \A j \in 1..Len(c) - l : SubSeq(c, l + 1, Len(c))[j] = c[l + j]
<1>1. Len(c) \in Nat /\ \A i \in 1..Len(c) : c[i] \in T
  BY LenProperties, ElementOfSeq
<1>2. l + 1 \in Int /\ Len(c) \in Int /\ \A i \in l + 1..Len(c) : c[i] \in T
  BY <1>1
<1>3. /\ SubSeq(c, l + 1, Len(c)) \in Seq(T)
      /\ Len(SubSeq(c, l + 1, Len(c))) = IF l + 1 <= Len(c) THEN Len(c) - (l + 1) + 1 ELSE 0
      /\ \A j \in 1..Len(c) - (l + 1) + 1 : SubSeq(c, l + 1, Len(c))[j] = c[l + 1 + j - 1]
  BY <1>2, SubSeqProperties
<1>4. \A j \in 1..Len(c) - l : j \in 1..Len(c) - (l + 1) + 1 /\ l + 1 + j - 1 = l + j
  BY <1>1
<1> QED
  BY <1>1, <1>3, <1>4

\* What a member added is a sequence of nodes.
LEMMA AddedType ==
  ASSUME ChatTypes, NEW m \in Nodes, NEW g \in Nodes
  PROVE  Added(m, g) \in Seq(Nodes)
<1>1. out[m].chat \in Seq(Nodes) /\ given[g] \in Seq(Nodes)
  BY DEF ChatTypes
<1>2. Len(given[g]) \in Nat
  BY <1>1, LenProperties
<1> QED
  BY <1>1, <1>2, RestIs DEF Added

\* What All merges is what its members added, laid one after another.
LEMMA MergedIs ==
  ASSUME tree \in Trees, ChatTypes, NEW g \in Nodes
  PROVE  \E f, s, at :
           /\ Merged(g) = given[g] \o f /\ f \in Seq(Nodes) /\ Merged(g) \in Seq(Nodes)
           /\ \A i \in 1..Cardinality(Kids(g)) : s[i] = Added(Append(g, i), g)
           /\ Lays(f, s, Cardinality(Kids(g)), at)
<1> DEFINE n == Cardinality(Kids(g))
           s == [i \in 1..n |-> Added(Append(g, i), g)]
           f == FlattenSeq(s)
<1>1. n \in Nat /\ \A i \in 1..n : Append(g, i) \in Nodes
  BY KidsAre DEF Kids
<1>2. s \in [1..n -> Seq(Nodes)]
  BY <1>1, AddedType
<1>3. \A i \in 1..n : s[i] = Added(Append(g, i), g)
  OBVIOUS
<1>4. Merged(g) = given[g] \o f
  BY DEF Merged
<1> HIDE DEF s, n
<1>5. s \in Seq(Seq(Nodes)) /\ Len(s) = n
  BY <1>1, <1>2, SeqIs
<1>6. f \in Seq(Nodes) /\ \E at : Lays(f, s, n, at)
  BY <1>5, FlattenLays
<1>7. given[g] \in Seq(Nodes)
  BY DEF ChatTypes
<1> HIDE DEF f
<1>8. given[g] \o f \in Seq(Nodes)
  BY <1>6, <1>7, ConcatProperties
<1> QED
  BY <1>3, <1>4, <1>6, <1>8 DEF n

\* What a group returns is a State.
LEMMA ResultType ==
  ASSUME tree \in Trees, ChatTypes, NEW g \in Nodes, ~Leaf(g), tree[g] = "one" => won[g] \in Nodes
  PROVE  Result(g) \in [chat : Seq(Nodes), sel : Sels \cup {None}]
<1>1. tree[g] \in {"all", "one", "group"}
  BY FanOutAssumption DEF Leaf, Leaves, Kinds, Nodes
<1>2. given[g] \in Seq(Nodes) /\ shared[g] \in Seq(Nodes) /\ merge[g].sel \in Sels \cup {None}
      /\ \A m \in Nodes : out[m].sel \in Sels \cup {None}
  BY DEF ChatTypes
<1>3. CASE tree[g] = "one"
  <2>1. Added(won[g], g) \in Seq(Nodes)
    BY <1>3, AddedType
  <2>2. given[g] \o Added(won[g], g) \in Seq(Nodes)
    BY <1>2, <2>1, ConcatProperties
  <2> QED
    BY <1>2, <1>3, <2>2 DEF Result
<1>4. CASE tree[g] = "all"
  <2>1. Merged(g) \in Seq(Nodes)
    BY MergedIs
  <2> QED
    BY <1>2, <1>4, <2>1 DEF Result
<1>5. CASE tree[g] = "group"
  BY <1>2, <1>5 DEF Result
<1> QED
  BY <1>1, <1>3, <1>4, <1>5

\* What is deepest is one of them, and nothing is only if there are none.
LEMMA SharedIs ==
  ASSUME tree \in Trees, NEW n \in Nodes
  PROVE  SharedOf(n) \subseteq {g \in Above(n) : tree[g] = "group"} /\ SharedOf(n) \subseteq Nodes
BY AboveInTree DEF SharedOf, Deepest

\* What an agent answers is a State.
LEMMA AnswerType ==
  ASSUME tree \in Trees, ChatTypes, NEW n \in Nodes, NEW sel \in Sels \cup {None}, Answer(n, sel)
  PROVE  out' \in [Nodes -> [chat : Seq(Nodes), sel : Sels \cup {None}]]
<1>1. given[n] \in Seq(Nodes) /\ \A g \in Nodes : shared[g] \in Seq(Nodes)
  BY DEF ChatTypes
<1>2. Append(given[n], n) \in Seq(Nodes)
  BY <1>1, AppendProperties
<1>3. PICK c \in Seq(Nodes) : out' = [out EXCEPT ![n] = [chat |-> c, sel |-> sel]]
  <2>1. CASE SharedOf(n) = {}
    BY <1>2, <2>1 DEF Answer
  <2>2. CASE SharedOf(n) # {}
    <3> DEFINE g == CHOOSE g \in SharedOf(n) : TRUE
    <3>1. g \in Nodes
      BY <2>2, SharedIs
    <3> QED
      BY <1>1, <2>2, <3>1 DEF Answer
  <2> QED
    BY <2>1, <2>2
<1> QED
  BY <1>3 DEF ChatTypes

\* Every step keeps the types.
LEMMA ChatTypesNext == Basics /\ ChatTypes /\ [Next]_vars => ChatTypes'
<1> SUFFICES ASSUME Basics, ChatTypes, [Next]_vars PROVE ChatTypes'
  OBVIOUS
<1>0. tree' = tree /\ Nodes' = Nodes /\ tree \in Trees
  BY TreeKept DEF Basics, Shape
<1>1. CASE UNCHANGED vars
  BY <1>0, <1>1 DEF ChatTypes, vars, group
<1> SUFFICES ASSUME NEW k \in Nodes, Step(k) \/ Fail(k) PROVE ChatTypes'
  BY <1>1 DEF Next
<1>2. MaxFaults \in Nat
  BY FanOutAssumption
<1>3. CASE Start(k)
  <2>1. Parent(k) \in Nodes
    <3>1. Parent(k) \in Above(k)
      BY <1>0, <1>3, AboveParent DEF Start
    <3> QED
      BY <1>0, <3>1, AboveInTree
  <2>2. UNCHANGED <<out, merge, cut, broke, faults>>
    BY <1>3 DEF Start, group, commits
  <2>3. \E c \in Seq(Nodes) :
          given' = [given EXCEPT ![k] = c] /\ (shared' = shared \/ shared' = [shared EXCEPT ![k] = c])
    BY <1>3, <2>1 DEF Start, ChatTypes
  <2> QED
    BY <1>0, <2>2, <2>3 DEF ChatTypes
<1>4. CASE Speak(k)
  <2>1. \A g \in Nodes : shared[g] \in Seq(Nodes) /\ Append(shared[g], k) \in Seq(Nodes)
    BY AppendProperties DEF ChatTypes
  <2>2. shared' \in [Nodes -> Seq(Nodes)]
    BY <1>4, <2>1 DEF Speak
  <2> QED
    BY <1>0, <1>4, <2>2 DEF Speak, ChatTypes, group, commits
<1>5. CASE Defer(k)
  <2>1. out' \in [Nodes -> [chat : Seq(Nodes), sel : Sels \cup {None}]]
    BY <1>0, <1>5, AnswerType DEF Defer, ChatTypes
  <2>2. faults' \in 0..MaxFaults
    BY <1>2, <1>5 DEF Defer, DeferFails, ChatTypes
  <2> QED
    BY <1>0, <1>5, <2>1, <2>2 DEF Defer, ChatTypes, group
<1>6. ASSUME NEW sel \in Sels \cup {None}, Return(k, sel) PROVE ChatTypes'
  <2>1. out' \in [Nodes -> [chat : Seq(Nodes), sel : Sels \cup {None}]]
    BY <1>0, <1>6, AnswerType DEF Return
  <2> QED
    BY <1>0, <1>6, <2>1 DEF Return, ChatTypes, group, commits
<1>7. CASE Settle(k)
  <2>1. Parent(k) \in Nodes
    BY <1>7, SettleWhileOn DEF Basics
  <2>2. cut' \subseteq Nodes
    BY <1>7, <2>1 DEF Settle, SettleError, SettleOne, SettleAll, ChatTypes
  <2>3. merge' \in [Nodes -> [sel : Sels \cup {None}, conflict : BOOLEAN]]
    <3>1. merge' = merge \/ merge' = [merge EXCEPT ![Parent(k)] = Add(@, out[k].sel)]
      BY <1>7 DEF Settle, SettleError, SettleOne, SettleAll
    <3>2. Add(merge[Parent(k)], out[k].sel) \in [sel : Sels \cup {None}, conflict : BOOLEAN]
      <4>1. merge[Parent(k)] \in [sel : Sels \cup {None}, conflict : BOOLEAN] /\ out[k].sel \in Sels \cup {None}
        BY <2>1 DEF ChatTypes
      <4> QED
        BY <4>1 DEF Add
    <3> QED
      BY <2>1, <3>1, <3>2 DEF ChatTypes
  <2> QED
    BY <1>0, <1>7, <2>2, <2>3 DEF Settle, ChatTypes, commits
<1>8. ASSUME ~Leaf(k), out' = [out EXCEPT ![k] = Result(k)], tree[k] = "one" => won[k] # None
      PROVE  out' \in [Nodes -> [chat : Seq(Nodes), sel : Sels \cup {None}]]
  <2>1. tree[k] = "one" => won[k] \in Nodes
    BY <1>8, Winner
  <2> QED
    BY <1>0, <1>8, <2>1, ResultType DEF ChatTypes
<1>9. CASE GroupFails(k) \/ Fail(k)
  <2>1. broke' \subseteq Nodes
    BY <1>9 DEF GroupFails, Fail, ChatTypes
  <2> QED
    BY <1>0, <1>9, <2>1 DEF GroupFails, Fail, ChatTypes, group, commits
<1>10. CASE GroupEnds(k)
  BY <1>0, <1>8, <1>10 DEF GroupEnds, AllSettled, ChatTypes, group, commits
<1>11. CASE Accept(k)
  <2>1. out' \in [Nodes -> [chat : Seq(Nodes), sel : Sels \cup {None}]]
    <3>1. ~Leaf(k) /\ (tree[k] = "one" => won[k] # None) /\ (out' = out \/ out' = [out EXCEPT ![k] = Result(k)])
      BY <1>11 DEF Accept, AllSettled, Fails
    <3> QED
      BY <1>8, <3>1 DEF ChatTypes
  <2> QED
    BY <1>0, <1>11, <2>1 DEF Accept, ChatTypes, group
<1>12. CASE Commit(k)
  <2>1. faults' \in 0..MaxFaults
    BY <1>2, <1>12 DEF Commit, DeferFails, ChatTypes
  <2> QED
    BY <1>0, <1>12, <2>1 DEF Commit, ChatTypes, group
<1>13. CASE Committed(k)
  <2>1. ~Leaf(k) /\ (tree[k] = "one" => won[k] # None)
    BY <1>13 DEF Committed, Basics, CommitInv, Leaf, Leaves
  <2> QED
    BY <1>0, <1>8, <1>13, <2>1 DEF Committed, ChatTypes, group, commits
<1> QED
  BY <1>3, <1>4, <1>5, <1>6, <1>7, <1>9, <1>10, <1>11, <1>12, <1>13 DEF Step

\* At the start every chat is the user's message, or is not there yet.
LEMMA ChatTypesInit == Init => ChatTypes
<1> SUFFICES ASSUME Init PROVE ChatTypes
  OBVIOUS
<1>1. <<>> \in Nodes /\ MaxFaults \in Nat
  BY TreePaths, FanOutAssumption DEF Init
<1>2. <<User>> \in Seq(Nodes) /\ <<>> \in Seq(Nodes)
  BY <1>1 DEF User
<1> QED
  BY <1>1, <1>2 DEF Init, ChatTypes

\* FanOutTypeOK holds for every tree; its telling part is that a winner is a
\* member of the One it won, and that chats hold replies of the tree's leaves
\* alone, whatever is merged, shared or lost.
THEOREM FanOutTypes == Spec => []FanOutTypeOK
<1>1. Init => Basics /\ ChatTypes
  BY TrigInit, ChatTypesInit DEF TrigInv
<1>2. Basics /\ ChatTypes /\ [Next]_vars => (Basics /\ ChatTypes)'
  BY BasicsNext, ChatTypesNext
<1>3. Basics /\ ChatTypes => FanOutTypeOK
  BY DEF Basics, ChatTypes, Shape, QueueShape, WonInv, FanOutTypeOK
<1> QED
  BY <1>1, <1>2, <1>3, PTL DEF Spec

-----------------------------------------------------------------------------
(***************************************************************************)
(* RepliesInOrder: what a node returns is the user's message and the       *)
(* replies of the leaves below it that the Ones on the way took.           *)
(***************************************************************************)

\* The Groups around n; a node in none has a chat of its own.
Groups(n) == {g \in Above(n) : tree[g] = "group"}

Told(n) == out[n].chat # <<>>

\* m is below n (or is n), and every One from n down to m took the way to m.
Taken(n, m) == n \in Path(m) /\ \A h \in Within(n, m) : won[h] \in Path(m)

\* The chat c is what n has to tell.
Replies(n, c) ==
  /\ c # <<>> /\ c[1] = User
  /\ \A i \in 2..Len(c) : Leaf(c[i]) /\ Taken(n, c[i])
  /\ \A m \in Nodes : Leaf(m) /\ Taken(n, m) => \E i \in 2..Len(c) : c[i] = m
  /\ \A i, j \in 2..Len(c) : i < j =>
       c[i] # c[j] /\ (Groups(c[i]) \cap Groups(c[j]) = {} => Before(c[i], c[j]))

\* Who has returned a chat, and who may not have: a member settles without one
\* only by its error, and a group with an error, other than One, returns none.
TellInv ==
  /\ \A n \in Nodes : st[n] = "done" => Told(n)
  /\ \A n \in Nodes : Told(n) => st[n] \in {"done", "settled"}
  /\ \A n \in Nodes : st[n] = "settled" => Told(n) \/ Parent(n) \in err
  /\ \A n \in Nodes : won[n] # None => Told(won[n])
  /\ \A n \in Nodes : Told(n) /\ ~Leaf(n) /\ tree[n] # "one" => n \notin err
  /\ \A n \in Nodes : st[n] # "off" => given[n] # <<>> /\ (tree[n] = "group" => shared[n] # <<>>)

\* What is below a node that has not started has not started.
OffInv == \A n \in Nodes : \A g \in Above(n) : st[g] = "off" => st[n] = "off"

\* A node with no Group above it begins with the user's message.
GivenInv == \A n \in Nodes : Groups(n) = {} /\ st[n] # "off" => given[n] = <<User>>

\* The conversation of a Group holds what leaves below it have said, once each.
Spoken(g, c) ==
  /\ c # <<>> /\ c[1] = User
  /\ \A i \in 2..Len(c) : Leaf(c[i]) /\ g \in Above(c[i]) /\ st[c[i]] \notin {"off", "on"}
  /\ \A i, j \in 2..Len(c) : i < j => c[i] # c[j]
  /\ \A n \in Nodes : Leaf(n) /\ g \in Above(n) /\ (st[n] = "said" \/ Told(n)) => \E i \in 2..Len(c) : c[i] = n
SpokenInv == \A g \in Nodes : tree[g] = "group" /\ st[g] # "off" => Spoken(g, shared[g])

ChatInv == \A n \in Nodes : Groups(n) = {} /\ Told(n) => Replies(n, out[n].chat)

ReplyInv ==
  /\ Basics /\ ChatTypes /\ TellInv /\ OffInv
  /\ Plain => GivenInv /\ SpokenInv /\ ChatInv

\* At most one Group is above a node of a plain tree, and it is the one that a
\* reply of the node goes to; in a Group there are only All's and leaves.
LEMMA PlainGroups ==
  ASSUME tree \in Trees, Plain, NEW n \in Nodes
  PROVE  /\ SharedOf(n) = Groups(n)
         /\ \A g, h \in Groups(n) : g = h
         /\ Groups(n) # {} => tree[n] \in Leaves \cup {"all"}
         /\ \A p \in Above(n) : Groups(p) \subseteq Groups(n)
<1>1. \A x \in Nodes : x \in Seq(Nat) /\ Len(x) \in Nat
  BY TreePaths
<1>2. ASSUME NEW x \in Nodes, Groups(x) # {} PROVE tree[x] \in Leaves \cup {"all"}
  <2> DEFINE L == {Len(x) - Len(g) : g \in Groups(x)}
  <2>1. \A g \in Groups(x) : g \in Nodes /\ Len(g) \in Nat /\ Len(g) < Len(x)
    BY <1>1, AboveOrder, AboveInTree DEF Groups
  <2>2. L \in SUBSET Nat /\ L # {}
    BY <1>1, <1>2, <2>1
  <2>3. PICK k \in L : \A j \in L : k <= j
    BY <2>2, LeastNumber
  <2>4. PICK g \in Groups(x) : k = Len(x) - Len(g)
    BY <2>3
  <2>5. ASSUME NEW h \in Groups(x) PROVE Len(h) <= Len(g)
    <3>1. Len(x) - Len(h) \in L
      OBVIOUS
    <3>2. Len(x) - Len(g) <= Len(x) - Len(h)
      BY <2>3, <2>4, <3>1
    <3> QED
      BY <1>1, <2>1, <3>2
  <2>6. g \in SharedOf(x)
    BY <2>5 DEF SharedOf, Deepest, Groups
  <2> QED
    BY <2>6 DEF Plain
<1>3. ASSUME NEW g \in Groups(n), NEW h \in Groups(n) PROVE g = h
  <2>1. g \in Path(n) /\ h \in Path(n) /\ g \in Nodes /\ h \in Nodes /\ tree[g] = "group" /\ tree[h] = "group"
    BY AboveInTree DEF Groups, Path
  <2>2. g = h \/ g \in Groups(h) \/ h \in Groups(g)
    BY <2>1, AboveOrder DEF Groups
  <2> QED
    BY <1>2, <2>1, <2>2 DEF Leaves
<1>4. SharedOf(n) = Groups(n)
  <2>1. \A g \in Groups(n) : Len(g) <= Len(g)
    <3>1. \A g \in Groups(n) : Len(g) \in Nat
      BY <1>1, AboveInTree DEF Groups
    <3> QED
      BY <3>1
  <2>2. SharedOf(n) = {g \in Groups(n) : \A m \in Groups(n) : Len(m) <= Len(g)}
    BY DEF SharedOf, Deepest, Groups
  <2> QED
    BY <1>3, <2>1, <2>2
<1>5. \A p \in Above(n) : Groups(p) \subseteq Groups(n)
  BY AboveOrder DEF Groups, Path
<1> QED
  BY <1>2, <1>3, <1>4, <1>5

\* What is below a node, and how its members lead there.
LEMMA KidPlace ==
  ASSUME tree \in Trees, NEW g \in Nodes, NEW w \in Kids(g)
  PROVE  /\ w \in Nodes /\ w # <<>> /\ Parent(w) = g /\ g \in Above(w) /\ ~Leaf(g)
         /\ Above(w) = Above(g) \cup {g}
         /\ Groups(w) = Groups(g) \cup (IF tree[g] = "group" THEN {g} ELSE {})
         /\ \A m \in Nodes : w \in Path(m) => g \in Above(m)
         /\ \A m \in Nodes : \A h \in Above(m) : w \in Path(m) /\ g \in Above(h) => w \in Path(h)
<1>1. w \in Nodes /\ w # <<>> /\ Parent(w) = g
  BY DEF Kids, Parent
<1>2. Above(w) = Above(g) \cup {g} /\ g \in Above(w)
  BY <1>1, AboveParent
<1>3. ~Leaf(g)
  BY <1>1, <1>2, AboveInTree
<1>4. Groups(w) = Groups(g) \cup (IF tree[g] = "group" THEN {g} ELSE {})
  BY <1>2 DEF Groups
<1>5. \A m \in Nodes : w \in Path(m) => g \in Above(m)
  BY <1>2, AboveOrder
<1>6. ASSUME NEW m \in Nodes, NEW h \in Above(m), w \in Path(m), g \in Above(h) PROVE w \in Path(h)
  <2>1. h \in Path(m) /\ h \in Nodes
    BY AboveInTree DEF Path
  <2>2. w = h \/ w \in Above(h) \/ h \in Above(w)
    BY <1>6, <2>1, AboveOrder
  <2>3. h \notin Above(w)
    <3> SUFFICES ASSUME h \in Above(w) PROVE FALSE
      OBVIOUS
    <3>1. h \in Path(g)
      BY <1>2 DEF Path
    <3>2. g \in Above(g)
      BY <1>6, <3>1, AboveOrder
    <3> QED
      BY <3>2, AboveOrder
  <2> QED
    BY <2>2, <2>3 DEF Path
<1> QED
  BY <1>1, <1>2, <1>3, <1>4, <1>5, <1>6

\* A leaf that All took is one that one of its members took, and One's is the winner's.
LEMMA TakenKid ==
  ASSUME Basics, NEW g \in Nodes, NEW w \in Kids(g), tree[g] = "one" => won[g] = w, NEW m \in Nodes
  PROVE  /\ Taken(w, m) => Taken(g, m)
         /\ Taken(g, m) /\ w \in Path(m) => Taken(w, m)
<1>1. tree \in Trees
  BY DEF Basics, Shape
<1>2. ASSUME Taken(w, m) PROVE Taken(g, m)
  <2>1. w \in Path(m) /\ g \in Above(m)
    BY <1>1, <1>2, KidPlace DEF Taken
  <2>2. ASSUME NEW h \in Within(g, m) PROVE won[h] \in Path(m)
    <3>1. h \in Above(m) /\ tree[h] = "one" /\ g \in Path(h)
      BY DEF Within, Ones
    <3>2. CASE h = g
      BY <2>1, <3>1, <3>2
    <3>3. CASE h # g
      <4>1. w \in Path(h)
        BY <1>1, <2>1, <3>1, <3>3, KidPlace DEF Path
      <4> QED
        BY <1>2, <3>1, <4>1 DEF Taken, Within, Ones
    <3> QED
      BY <3>2, <3>3
  <2> QED
    BY <2>1, <2>2 DEF Taken, Path
<1>3. ASSUME Taken(g, m), w \in Path(m) PROVE Taken(w, m)
  <2>1. Within(w, m) \subseteq Within(g, m)
    <3> SUFFICES ASSUME NEW h \in Within(w, m) PROVE h \in Within(g, m)
      OBVIOUS
    <3>1. h \in Ones(m) /\ w \in Path(h) /\ h \in Nodes
      BY <1>1, AboveInTree DEF Within, Ones
    <3>2. g \in Path(h)
      BY <1>1, <3>1, KidPlace DEF Path
    <3> QED
      BY <3>1, <3>2 DEF Within
  <2> QED
    BY <1>3, <2>1 DEF Taken
<1> QED
  BY <1>2, <1>3

\* What All's earlier member leads to comes before what a later one leads to.
LEMMA KidsBefore ==
  ASSUME tree \in Trees, NEW g \in Nodes, NEW i \in Nat, NEW j \in Nat, i < j,
         Append(g, i) \in Nodes, Append(g, j) \in Nodes,
         NEW m \in Nodes, NEW n \in Nodes, Append(g, i) \in Path(m), Append(g, j) \in Path(n)
  PROVE  Before(m, n) /\ m # n
<1>1. g \in Seq(Nat) /\ Len(g) \in Nat
  BY TreePaths
<1>2. ASSUME NEW x \in Nodes, NEW a \in Nat, Append(g, a) \in Path(x)
      PROVE  Len(g) + 1 \in DOMAIN x /\ x[Len(g) + 1] = a /\ SubSeq(x, 1, (Len(g) + 1) - 1) = g
  <2> DEFINE p == Append(g, a)
  <2>0. x \in Seq(Nat) /\ Len(x) \in Nat
    BY TreePaths
  <2>1. p \in Seq(Nat) /\ Len(p) = Len(g) + 1 /\ p[Len(g) + 1] = a /\ Front(p) = g
    BY <1>1, AppendPath
  <2>2. PICK k \in 0..Len(x) : p = SubSeq(x, 1, k)
    BY <1>2, PathIs
  <2>3. k = Len(g) + 1
    BY <2>0, <2>1, <2>2, Beginnings
  <2> HIDE DEF p
  <2>4. Len(g) + 1 \in DOMAIN x
    BY <1>1, <2>0, <2>3
  <2>5. x[Len(g) + 1] = a
    <3>1. 1 \in Int /\ k \in Int /\ \A y \in 1..k : x[y] \in Nat
      BY <2>0
    <3>2. \A y \in 1..k - 1 + 1 : SubSeq(x, 1, k)[y] = x[1 + y - 1]
      BY <3>1, SubSeqProperties
    <3>3. k \in 1..k - 1 + 1 /\ 1 + k - 1 = k
      BY <1>1, <2>3
    <3> QED
      BY <2>1, <2>2, <2>3, <3>2, <3>3
  <2>6. SubSeq(x, 1, (Len(g) + 1) - 1) = g
    <3>1. g = SubSeq(p, 1, Len(p) - 1)
      BY <2>1 DEF Front
    <3>2. Len(p) - 1 = Len(g) /\ (Len(g) + 1) - 1 = Len(g) /\ Len(g) \in 0..k
      BY <1>1, <2>1, <2>3
    <3>3. SubSeq(SubSeq(x, 1, k), 1, Len(g)) = SubSeq(x, 1, Len(g))
      BY <2>0, <3>2, Beginnings
    <3> QED
      BY <2>2, <3>1, <3>2, <3>3
  <2> QED
    BY <2>4, <2>5, <2>6
<1>3. /\ Len(g) + 1 \in (DOMAIN m) \cap (DOMAIN n) /\ m[Len(g) + 1] = i /\ n[Len(g) + 1] = j
      /\ SubSeq(m, 1, (Len(g) + 1) - 1) = SubSeq(n, 1, (Len(g) + 1) - 1)
  BY <1>2
<1> QED
  BY <1>3 DEF Before

-----------------------------------------------------------------------------
(* Who has returned a chat. *)

\* What a node must be to return its chat now.
Tells(k) ==
  /\ st[k] \in {"on", "said", "commit"}
  /\ \/ /\ Leaf(k) /\ st[k] = "said"
        /\ out'[k].chat = (IF SharedOf(k) = {} THEN Append(given[k], k) ELSE shared[CHOOSE g \in SharedOf(k) : TRUE])
     \/ /\ ~Leaf(k) /\ out'[k].chat = Result(k).chat
        /\ \A m \in Kids(k) : st[m] = "settled"
        /\ IF tree[k] = "one" THEN won[k] # None ELSE k \notin err
  /\ st'[k] = "done"
  /\ UNCHANGED <<won, err, given, shared>>

\* Only a node that ends well returns a chat, and it does so once.
LEMMA TellStep ==
  ASSUME Basics, NEW k \in Nodes, Step(k) \/ Fail(k)
  PROVE  \/ out' = out /\ st'[k] # "done"
         \/ Tells(k) /\ \A n \in Nodes : n # k => out'[n] = out[n]
<1> USE DEF Basics, Shape, Become
<1>0. \A r : out' = [out EXCEPT ![k] = r] => out'[k] = r /\ \A n \in Nodes : n # k => out'[n] = out[n]
  OBVIOUS
<1>1. CASE Start(k) \/ Speak(k) \/ Fail(k) \/ GroupFails(k) \/ Settle(k) \/ Commit(k)
  <2>1. out' = out
    BY <1>1 DEF Start, Speak, Fail, GroupFails, Settle, Commit
  <2>2. \/ st' = [st EXCEPT ![k] = st'[k]] /\ st'[k] # "done"
        \/ st' = st /\ st[k] = "commit"
    <3>1. \/ \E s \in {"on", "said", "failed", "settled"} : st' = [st EXCEPT ![k] = s]
          \/ st' = st /\ st[k] = "commit"
      BY <1>1 DEF Start, Speak, Fail, GroupFails, Settle, Commit
    <3> QED
      BY <3>1
  <2> QED
    BY <2>1, <2>2
<1>2. CASE (\E sel \in Sels \cup {None} : Return(k, sel)) \/ Defer(k)
  <2>1. Leaf(k) /\ st[k] = "said"
    BY <1>2 DEF Return, Defer, Leaf, Leaves
  <2>2. UNCHANGED <<won, err, given, shared>>
    BY <1>2 DEF Return, Defer, group
  <2>3. \/ out' = out /\ st' = [st EXCEPT ![k] = "failed"]
        \/ st' = [st EXCEPT ![k] = "done"] /\ \E sel : Answer(k, sel)
    BY <1>2 DEF Return, Defer
  <2>4. CASE out' = out /\ st' = [st EXCEPT ![k] = "failed"]
    BY <2>1, <2>4
  <2>5. CASE st' = [st EXCEPT ![k] = "done"] /\ \E sel : Answer(k, sel)
    BY <1>0, <2>1, <2>2, <2>5 DEF Answer, Tells
  <2> QED
    BY <2>3, <2>4, <2>5
<1>3. CASE GroupEnds(k) \/ Accept(k) \/ Committed(k)
  <2>1. ~Leaf(k) /\ UNCHANGED <<won, err, given, shared>> /\ st[k] \in {"on", "commit"}
    BY <1>3 DEF GroupEnds, Accept, Committed, AllSettled, CommitInv, Leaf, Leaves, group
  <2>2. IF tree[k] = "one" THEN won[k] # None ELSE k \notin err
    BY <1>3 DEF GroupEnds, Accept, Committed, Fails, CommitInv
  <2>3. \A m \in Kids(k) : st[m] = "settled"
    <3>1. CASE AllSettled(k)
      BY <3>1 DEF AllSettled
    <3>2. CASE Committed(k)
      BY <3>2, KidPlace DEF Committed, NoOrphans, Over
    <3> QED
      BY <1>3, <3>1, <3>2 DEF GroupEnds, Accept
  <2>4. \/ out' = out /\ st' = [st EXCEPT ![k] = "commit"]
        \/ st' = [st EXCEPT ![k] = "done"] /\ out' = [out EXCEPT ![k] = Result(k)]
    BY <1>3 DEF GroupEnds, Accept, Committed
  <2>5. CASE out' = out /\ st' = [st EXCEPT ![k] = "commit"]
    BY <2>1, <2>5
  <2>6. CASE st' = [st EXCEPT ![k] = "done"] /\ out' = [out EXCEPT ![k] = Result(k)]
    BY <1>0, <2>1, <2>2, <2>3, <2>6 DEF Tells
  <2> QED
    BY <2>4, <2>5, <2>6
<1> QED
  BY <1>1, <1>2, <1>3 DEF Step

\* No step stops a node that has started, and none starts before what is above it.
LEMMA OffNext ==
  ASSUME Basics, OffInv, NEW k \in Nodes, Step(k) \/ Fail(k), tree' = tree, Nodes' = Nodes
  PROVE  OffInv' /\ \A n \in Nodes : st'[n] = "off" => st[n] = "off"
<1>1. tree \in Trees /\ st \in [Nodes -> Statuses]
  BY DEF Basics, Shape
<1>2. st'[k] # "off" /\ \A n \in Nodes : n # k => st'[n] = st[n]
  <2>1. st'[k] # "off"
    BY StatusStep DEF Basics
  <2> QED
    BY <2>1, OverKept DEF Basics
<1>3. \A g \in Above(k) : st[g] # "off"
  <2>1. CASE st[k] = "off"
    <3>1. k # <<>> /\ st[Parent(k)] = "on"
      BY <2>1, StatusStep DEF Basics, AllSettled
    <3>2. Parent(k) \in Above(k) /\ Above(k) = Above(Parent(k)) \cup {Parent(k)}
      BY <1>1, <3>1, AboveParent
    <3>3. Parent(k) \in Nodes
      BY <1>1, <3>2, AboveInTree
    <3> QED
      BY <3>1, <3>2, <3>3 DEF OffInv
  <2>2. CASE st[k] # "off"
    BY <2>2 DEF OffInv
  <2> QED
    BY <2>1, <2>2
<1>4. \A n \in Nodes : \A g \in Above(n) : g \in Nodes
  BY <1>1, AboveInTree
<1> QED
  BY <1>2, <1>3, <1>4 DEF OffInv

\* No step makes a chat shorter than it began, so what is returned is not empty.
LEMMA TellsSomething ==
  ASSUME Basics, ChatTypes, TellInv, OffInv, NEW k \in Nodes, Tells(k)
  PROVE  out'[k].chat # <<>>
<1>1. tree \in Trees
  BY DEF Basics, Shape
<1>2. given[k] \in Seq(Nodes) /\ given[k] # <<>>
  BY DEF ChatTypes, TellInv, Tells
<1>3. CASE Leaf(k)
  <2>1. CASE SharedOf(k) = {}
    <3>1. Append(given[k], k) # <<>>
      BY <1>2, AppendProperties
    <3> QED
      BY <1>3, <2>1, <3>1 DEF Tells
  <2>2. CASE SharedOf(k) # {}
    <3> DEFINE g == CHOOSE g \in SharedOf(k) : TRUE
    <3>1. g \in SharedOf(k)
      BY <2>2
    <3>2. g \in Nodes /\ g \in Above(k) /\ tree[g] = "group"
      BY <1>1, <3>1, SharedIs
    <3>3. shared[g] # <<>>
      BY <1>3, <3>2 DEF OffInv, TellInv, Tells
    <3> QED
      BY <1>3, <2>2, <3>3 DEF Tells
  <2> QED
    BY <2>1, <2>2
<1>4. CASE ~Leaf(k)
  <2>1. tree[k] \in {"all", "one", "group"}
    BY <1>1, <1>4, FanOutAssumption DEF Leaf, Leaves, Kinds, Nodes
  <2>2. CASE tree[k] = "one"
    <3>1. Added(won[k], k) \in Seq(Nodes)
      BY <1>4, <2>2, AddedType, Winner DEF Tells
    <3>2. given[k] \o Added(won[k], k) # <<>>
      BY <1>2, <3>1, ConcatEmptySeq, ConcatProperties, EmptySeq, LenProperties
    <3> QED
      BY <1>4, <2>2, <3>2 DEF Tells, Result
  <2>3. CASE tree[k] = "all"
    <3>1. PICK f \in Seq(Nodes) : Merged(k) = given[k] \o f
      BY <1>1, MergedIs
    <3>2. given[k] \o f # <<>>
      BY <1>2, <3>1, ConcatEmptySeq, ConcatProperties, EmptySeq, LenProperties
    <3> QED
      BY <1>4, <2>3, <3>1, <3>2 DEF Tells, Result
  <2>4. CASE tree[k] = "group"
    BY <1>4, <2>4 DEF Tells, Result, TellInv
  <2> QED
    BY <2>1, <2>2, <2>3, <2>4
<1> QED
  BY <1>3, <1>4

\* What has been returned stays, and so does the way that was taken to it.
LEMMA ToldKept ==
  ASSUME Basics, TellInv, NEW k \in Nodes, Step(k) \/ Fail(k), NEW n \in Nodes, Told(n)
  PROVE  /\ out'[n] = out[n]
         /\ won'[n] = won[n]
         /\ \A h \in Nodes : n \in Path(h) => won'[h] = won[h]
<1>1. st[n] \in {"done", "settled"}
  BY DEF TellInv
<1>2. out'[n] = out[n]
  BY <1>1, TellStep DEF Tells
<1>3. ASSUME NEW h \in Nodes, n \in Path(h) PROVE won'[h] = won[h]
  <2>1. Over(h)
    BY <1>1, <1>3 DEF Path, Over, Basics, NoOrphans
  <2>2. CASE Settle(k)
    <3>1. h # Parent(k)
      BY <2>1, <2>2, SettleWhileOn DEF Basics
    <3> QED
      BY <2>2, <3>1 DEF Settle, SettleError, SettleOne, SettleAll, Basics, Shape
  <2>3. CASE ~Settle(k)
    BY <2>3 DEF Step, Start, Speak, Return, Defer, Fail, GroupFails, GroupEnds, Accept, Commit,
                Committed, group
  <2> QED
    BY <2>2, <2>3
<1> QED
  BY <1>2, <1>3 DEF Path

\* What a step does to the chats that nodes begin with.
LEMMA BeginStep ==
  ASSUME Basics, ChatTypes, NEW k \in Nodes, Step(k) \/ Fail(k)
  PROVE  \/ /\ Start(k) /\ \A n \in Nodes : n # k => given'[n] = given[n] /\ shared'[n] = shared[n]
            /\ given'[k] = (IF tree[Parent(k)] = "group" THEN shared[Parent(k)] ELSE given[Parent(k)])
            /\ tree[k] = "group" => shared'[k] = given'[k]
         \/ /\ Speak(k) /\ given' = given
            /\ \A n \in Nodes : shared'[n] = IF n \in SharedOf(k) THEN Append(shared[n], k) ELSE shared[n]
         \/ ~Start(k) /\ ~Speak(k) /\ given' = given /\ shared' = shared
<1>1. CASE Start(k)
  BY <1>1 DEF Start, ChatTypes
<1>2. CASE Speak(k)
  BY <1>2 DEF Speak
<1>3. CASE ~Start(k) /\ ~Speak(k)
  BY <1>3 DEF Step, Return, Defer, Fail, Settle, GroupFails, GroupEnds, Accept, Commit, Committed
<1> QED
  BY <1>1, <1>2, <1>3

\* Every step keeps TellInv.
LEMMA TellNext ==
  ASSUME Basics, ChatTypes, TellInv, OffInv, [Next]_vars, NEW k \in Nodes, Step(k) \/ Fail(k)
  PROVE  TellInv'
<1>0. tree' = tree /\ Nodes' = Nodes /\ tree \in Trees
  BY TreeKept DEF Basics, Shape
<1>1. /\ \A n \in Nodes : n # k => st'[n] = st[n]
      /\ \A n \in Nodes : st[n] \in {"done", "settled"} => st'[n] \in {"done", "settled"}
  BY OverKept DEF Basics
<1>2. \A n \in Nodes : Told(n) => out'[n] = out[n]
  BY ToldKept
<1>3. \A n \in Nodes : n # k => out'[n] = out[n]
  BY TellStep
<1>4. \/ out'[k] = out[k] /\ st'[k] # "done"
      \/ Tells(k) /\ out'[k].chat # <<>> /\ st'[k] = "done"
  <2>1. CASE Tells(k)
    BY <2>1, TellsSomething DEF Tells
  <2>2. CASE ~Tells(k)
    BY <2>2, TellStep
  <2> QED
    BY <2>1, <2>2
<1>5. \/ Settle(k) /\ Parent(k) \in Nodes /\ ~Over(Parent(k)) /\ err' \in {err, err \cup {Parent(k)}}
      \/ ~Settle(k) /\ err' = err /\ won' = won
  <2>1. CASE Settle(k)
    BY <2>1, SettleWhileOn DEF Settle, SettleError, SettleOne, SettleAll, Basics
  <2>2. CASE ~Settle(k)
    BY <2>2 DEF Step, Start, Speak, Return, Defer, Fail, GroupFails, GroupEnds, Accept, Commit,
                Committed, group
  <2> QED
    BY <2>1, <2>2
<1>6. \A n \in Nodes : st'[n] = "done" => out'[n].chat # <<>>
  BY <1>1, <1>3, <1>4 DEF TellInv, Told
<1>7. \A n \in Nodes : out'[n].chat # <<>> => st'[n] \in {"done", "settled"}
  BY <1>1, <1>3, <1>4 DEF TellInv, Told
<1>8. ASSUME NEW n \in Nodes, st'[n] = "settled" PROVE out'[n].chat # <<>> \/ Parent(n) \in err'
  <2>1. CASE st[n] = "settled"
    BY <1>2, <1>5, <2>1 DEF TellInv, Told
  <2>2. CASE st[n] # "settled"
    <3>1. n = k /\ st[k] \in {"done", "failed"}
      BY <1>1, <1>8, <2>2, StatusStep DEF Basics
    <3>2. CASE st[k] = "done"
      BY <1>2, <3>1, <3>2 DEF TellInv, Told
    <3>3. CASE st[k] = "failed"
      BY <3>1, <3>3, SettleOnly DEF Basics
    <3> QED
      BY <3>1, <3>2, <3>3
  <2> QED
    BY <2>1, <2>2
<1>9. ASSUME NEW n \in Nodes, won'[n] # None PROVE out'[won'[n]].chat # <<>>
  <2>1. CASE won[n] # None
    <3>1. won[n] \in Nodes /\ Told(won[n])
      BY <2>1, Winner DEF TellInv
    <3>2. won'[n] = won[n]
      <4>1. CASE Settle(k)
        BY <2>1, <4>1 DEF Settle, SettleError, SettleOne, SettleAll, Basics, Shape
      <4> QED
        BY <1>5, <4>1
    <3> QED
      BY <1>2, <3>1, <3>2 DEF Told
  <2>2. CASE won[n] = None
    <3>1. Settle(k) /\ won' # won
      BY <1>5, <1>9, <2>2
    <3>2. won'[n] = k /\ st[k] = "done"
      BY <1>9, <2>2, <3>1 DEF Settle, SettleError, SettleOne, SettleAll, Basics, Shape
    <3> QED
      BY <1>2, <3>2 DEF TellInv, Told
  <2> QED
    BY <2>1, <2>2
<1>10. ASSUME NEW n \in Nodes, out'[n].chat # <<>>, ~Leaf(n), tree[n] # "one" PROVE n \notin err'
  <2>1. CASE Told(n)
    <3>1. n \notin err /\ Over(n)
      BY <1>10, <2>1 DEF TellInv, Over
    <3> QED
      BY <1>5, <3>1
  <2>2. CASE ~Told(n)
    BY <1>3, <1>4, <1>10, <2>2 DEF Told, Tells
  <2> QED
    BY <2>1, <2>2
<1>11. ASSUME NEW n \in Nodes, st'[n] # "off"
       PROVE  given'[n] # <<>> /\ (tree[n] = "group" => shared'[n] # <<>>)
  <2>1. CASE Start(k)
    <3>1. CASE n = k
      <4>1. /\ st[Parent(k)] = "on"
            /\ given'[k] = (IF tree[Parent(k)] = "group" THEN shared[Parent(k)] ELSE given[Parent(k)])
            /\ tree[k] = "group" => shared'[k] = given'[k]
        BY <2>1, BeginStep DEF Start, Speak
      <4>2. Parent(k) \in Nodes
        BY <1>0, <2>1, AboveParent, AboveInTree DEF Start
      <4> QED
        BY <3>1, <4>1, <4>2 DEF TellInv
    <3>2. CASE n # k
      <4>1. given'[n] = given[n] /\ shared'[n] = shared[n] /\ st[n] # "off"
        BY <1>1, <1>11, <2>1, <3>2, BeginStep DEF Start, Speak
      <4> QED
        BY <4>1 DEF TellInv
    <3> QED
      BY <3>1, <3>2
  <2>2. CASE Speak(k)
    <3>1. ~Start(k) /\ st[n] # "off"
      BY <1>1, <1>11, <2>2 DEF Speak, Start
    <3>2. shared[n] \in Seq(Nodes)
      BY DEF ChatTypes
    <3>3. Append(shared[n], k) # <<>>
      BY <3>2, AppendProperties
    <3> QED
      BY <2>2, <3>1, <3>3, BeginStep DEF TellInv
  <2>3. CASE ~Start(k) /\ ~Speak(k)
    <3>1. st[n] # "off"
      <4>1. st[k] # "off"
        BY <2>3 DEF Step, Return, Defer, Fail, Settle, SettleError, SettleOne, SettleAll, GroupFails,
                    GroupEnds, Accept, AllSettled, Commit, Committed
      <4> QED
        BY <1>1, <1>11, <4>1
    <3> QED
      BY <2>3, <3>1, BeginStep DEF TellInv
  <2> QED
    BY <2>1, <2>2, <2>3
<1>12. \A n : Leaf(n)' <=> Leaf(n)
  BY <1>0 DEF Leaf
<1> QED
  BY <1>0, <1>6, <1>7, <1>8, <1>9, <1>10, <1>11, <1>12 DEF TellInv, Told

-----------------------------------------------------------------------------
(* The chats. *)

\* Members begin with the chat of their group, so the user's message is handed down.
LEMMA GivenNext ==
  ASSUME Basics, ChatTypes, Plain, GivenInv, NEW k \in Nodes, Step(k) \/ Fail(k), tree' = tree, Nodes' = Nodes
  PROVE  GivenInv'
<1>1. tree \in Trees
  BY DEF Basics, Shape
<1>2. \A n : Groups(n)' = Groups(n)
  BY DEF Groups
<1> SUFFICES ASSUME NEW n \in Nodes, Groups(n) = {}, st'[n] # "off" PROVE given'[n] = <<User>>
  BY <1>2 DEF GivenInv
<1>3. CASE Start(k) /\ n = k
  <2>1. /\ given'[k] = (IF tree[Parent(k)] = "group" THEN shared[Parent(k)] ELSE given[Parent(k)])
        /\ st[Parent(k)] = "on" /\ k # <<>>
    BY <1>3, BeginStep DEF Start, Speak
  <2>2. Parent(k) \in Above(k) /\ Parent(k) \in Nodes
    BY <1>1, <2>1, AboveParent, AboveInTree
  <2>3. Groups(Parent(k)) = {} /\ tree[Parent(k)] # "group"
    BY <1>1, <1>3, <2>2, PlainGroups DEF Groups
  <2> QED
    BY <1>3, <2>1, <2>2, <2>3 DEF GivenInv
<1>4. CASE ~(Start(k) /\ n = k)
  <2>1. given'[n] = given[n]
    BY <1>4, BeginStep
  <2>2. st[n] # "off"
    <3>1. CASE n = k
      BY <1>4, <3>1 DEF Step, Speak, Return, Defer, Fail, Settle, SettleError, SettleOne, SettleAll,
                        GroupFails, GroupEnds, Accept, AllSettled, Commit, Committed
    <3>2. CASE n # k
      BY <3>2, OverKept DEF Basics
    <3> QED
      BY <3>1, <3>2
  <2> QED
    BY <2>1, <2>2 DEF GivenInv
<1> QED
  BY <1>3, <1>4

\* A conversation of the user's message alone.
LEMMA FirstWord ==
  ASSUME <<>> \in Nodes
  PROVE  <<User>> \in Seq(Nodes) /\ Len(<<User>>) = 1 /\ <<User>> # <<>> /\ <<User>>[1] = User
BY DEF User

\* One more reply in a conversation.
LEMMA OneMore ==
  ASSUME NEW c \in Seq(Nodes), c # <<>>, NEW n \in Nodes
  PROVE  /\ Append(c, n) # <<>> /\ Append(c, n)[1] = c[1] /\ Len(Append(c, n)) = Len(c) + 1
         /\ \A i \in 2..Len(Append(c, n)) :
              \/ i \in 2..Len(c) /\ Append(c, n)[i] = c[i]
              \/ i = Len(c) + 1 /\ Append(c, n)[i] = n
         /\ Len(c) + 1 \in 2..Len(Append(c, n)) /\ 2..Len(c) \subseteq 2..Len(Append(c, n))
         /\ \A i \in 2..Len(c) : Append(c, n)[i] = c[i]
         /\ Append(c, n)[Len(c) + 1] = n
<1>1. Len(c) \in Nat /\ Len(c) > 0
  BY LenProperties, EmptySeq
<1>2. /\ Append(c, n) \in Seq(Nodes) /\ Len(Append(c, n)) = Len(c) + 1
      /\ \A i \in 1..Len(c) : Append(c, n)[i] = c[i]
      /\ Append(c, n)[Len(c) + 1] = n /\ Append(c, n) # <<>>
  BY AppendProperties
<1> QED
  BY <1>1, <1>2

\* Every step keeps a Group's conversation.
LEMMA SpokenNext ==
  ASSUME Basics, ChatTypes, TellInv, OffInv, Plain, GivenInv, SpokenInv,
         NEW k \in Nodes, Step(k) \/ Fail(k), tree' = tree, Nodes' = Nodes
  PROVE  SpokenInv'
<1>1. tree \in Trees /\ st \in [Nodes -> Statuses] /\ <<>> \in Nodes
  BY TreePaths DEF Basics, Shape
<1>2. \A n : Leaf(n)' <=> Leaf(n)
  BY DEF Leaf
<1>3. /\ \A n \in Nodes : n # k => st'[n] = st[n] /\ out'[n] = out[n]
      /\ \A n \in Nodes : st'[n] = "off" => st[n] = "off"
  BY OverKept, TellStep, OffNext DEF Basics
<1>4. \A n \in Nodes : st[n] \notin {"off", "on"} => st'[n] \notin {"off", "on"}
  BY <1>3, StatusStep DEF Basics, AllSettled
<1>5. ASSUME NEW n \in Nodes, Leaf(n), ~Speak(k), st'[n] = "said" \/ out'[n].chat # <<>>
      PROVE  st[n] = "said" \/ Told(n)
  <2>1. CASE n # k
    BY <1>3, <1>5, <2>1 DEF Told
  <2>2. CASE n = k
    <3>1. st'[k] = "said" => st[k] = "said"
      <4> SUFFICES ASSUME st'[k] = "said", st[k] # "said" PROVE FALSE
        OBVIOUS
      <4>1. \E s \in Statuses \ {"said"} : st' = [st EXCEPT ![k] = s] \/ st' = st
        BY <1>5 DEF Step, Start, Return, Defer, Fail, Settle, GroupFails, GroupEnds, Accept, Commit,
                    Committed, Become, Statuses
      <4> QED
        BY <1>1, <4>1
    <3>2. out'[k].chat # <<>> => st[k] = "said" \/ Told(k)
      BY <1>5, <2>2, TellStep DEF Told, Tells
    <3> QED
      BY <1>5, <2>2, <3>1, <3>2
  <2> QED
    BY <2>1, <2>2
<1> SUFFICES ASSUME NEW g \in Nodes, tree[g] = "group", st'[g] # "off" PROVE Spoken(g, shared[g])'
  BY DEF SpokenInv
<1>9. \A i \in 2..Len(shared[g]) : shared[g][i] \in Nodes
  <2>1. shared[g] \in Seq(Nodes)
    BY DEF ChatTypes
  <2> QED
    BY <2>1, ElementOfSeq, LenProperties
<1>6. CASE ~Speak(k) /\ st[g] # "off"
  <2>1. shared'[g] = shared[g]
    BY <1>6, BeginStep DEF Start
  <2> QED
    BY <1>2, <1>4, <1>5, <1>6, <1>9, <2>1 DEF SpokenInv, Spoken, Told
<1>7. CASE st[g] = "off"
  <2>1. g = k /\ Start(k) /\ ~Speak(k)
    <3>1. g = k
      BY <1>3, <1>7
    <3> QED
      BY <1>7, <3>1 DEF Step, Speak, Return, Defer, Fail, Settle, SettleError, SettleOne, SettleAll,
                        GroupFails, GroupEnds, Accept, AllSettled, Commit, Committed
  <2>2. Groups(g) = {}
    BY <1>1, PlainGroups DEF Leaves
  <2>3. shared'[g] = <<User>>
    <3>1. given'[k] = <<User>>
      BY <2>1, <2>2, GivenNext DEF GivenInv, Groups
    <3> QED
      BY <2>1, <3>1, BeginStep
  <2>4. Len(<<User>>) = 1 /\ <<User>> # <<>> /\ <<User>>[1] = User
    BY <1>1, FirstWord
  <2>5. ASSUME NEW n \in Nodes, Leaf(n), g \in Above(n), st'[n] = "said" \/ out'[n].chat # <<>> PROVE FALSE
    <3>1. st[n] = "off"
      BY <1>7, <2>5 DEF OffInv
    <3> QED
      BY <1>5, <2>1, <2>5, <3>1 DEF TellInv
  <2> QED
    BY <1>2, <2>3, <2>4, <2>5 DEF Spoken, Told
<1>8. CASE Speak(k) /\ st[g] # "off"
  <2>1. /\ Leaf(k) /\ st[k] = "on" /\ st' = [st EXCEPT ![k] = "said"]
        /\ shared'[g] = IF g \in Groups(k) THEN Append(shared[g], k) ELSE shared[g]
        /\ out' = out
    <3>1. SharedOf(k) = Groups(k)
      BY <1>1, PlainGroups
    <3> QED
      BY <1>8, <3>1, BeginStep DEF Speak, Become, Leaf, Leaves, Start
  <2>2. Spoken(g, shared[g])
    BY <1>8 DEF SpokenInv
  <2>3. ASSUME NEW n \in Nodes, n # k, st'[n] = "said" \/ out'[n].chat # <<>> PROVE st[n] = "said" \/ Told(n)
    BY <1>3, <2>3 DEF Told
  <2>4. CASE g \in Groups(k)
    <3> DEFINE c == shared[g]
               d == Append(c, k)
    <3>1. c \in Seq(Nodes) /\ c # <<>> /\ c[1] = User
      BY <2>2 DEF ChatTypes, Spoken
    <3>2. /\ d # <<>> /\ d[1] = c[1] /\ Len(d) = Len(c) + 1
          /\ \A i \in 2..Len(d) : (i \in 2..Len(c) /\ d[i] = c[i]) \/ (i = Len(c) + 1 /\ d[i] = k)
          /\ Len(c) + 1 \in 2..Len(d) /\ 2..Len(c) \subseteq 2..Len(d)
          /\ \A i \in 2..Len(c) : d[i] = c[i]
          /\ d[Len(c) + 1] = k
      BY <3>1, OneMore
    <3>3. shared'[g] = d
      BY <2>1, <2>4
    <3> HIDE DEF d
    <3>4. /\ \A i \in 2..Len(c) : Leaf(c[i]) /\ g \in Above(c[i]) /\ st[c[i]] \notin {"off", "on"}
          /\ \A i, j \in 2..Len(c) : i < j => c[i] # c[j]
          /\ \A n \in Nodes : Leaf(n) /\ g \in Above(n) /\ (st[n] = "said" \/ Told(n)) => \E i \in 2..Len(c) : c[i] = n
      BY <2>2 DEF Spoken
    <3>5. \A i \in 2..Len(c) : c[i] \in Nodes /\ c[i] # k
      BY <2>1, <3>1, <3>4, ElementOfSeq
    <3>6. ASSUME NEW i \in 2..Len(d) PROVE Leaf(d[i]) /\ g \in Above(d[i]) /\ st'[d[i]] \notin {"off", "on"}
      <4>1. CASE i \in 2..Len(c) /\ d[i] = c[i]
        BY <1>4, <3>4, <3>5, <4>1
      <4>2. CASE d[i] = k
        BY <1>1, <2>1, <2>4, <4>2 DEF Groups
      <4> QED
        BY <3>2, <4>1, <4>2
    <3>7. ASSUME NEW i \in 2..Len(d), NEW j \in 2..Len(d), i < j PROVE d[i] # d[j]
      <4>1. i \in 2..Len(c) /\ d[i] = c[i]
        <5>1. Len(c) \in Nat
          BY <3>1, LenProperties
        <5> QED
          BY <3>2, <3>7, <5>1
      <4> QED
        BY <3>2, <3>4, <3>5, <3>7, <4>1
    <3>8. ASSUME NEW n \in Nodes, Leaf(n), g \in Above(n), st'[n] = "said" \/ out'[n].chat # <<>>
          PROVE  \E i \in 2..Len(d) : d[i] = n
      <4>1. CASE n = k
        BY <3>2, <4>1
      <4>2. CASE n # k
        <5>1. PICK i \in 2..Len(c) : c[i] = n
          BY <2>3, <3>4, <3>8, <4>2
        <5> QED
          BY <3>2, <5>1
      <4> QED
        BY <4>1, <4>2
    <3> QED
      BY <1>2, <3>1, <3>2, <3>3, <3>6, <3>7, <3>8 DEF Spoken, Told
  <2>5. CASE g \notin Groups(k)
    <3>1. shared'[g] = shared[g]
      BY <2>1, <2>5
    <3>2. \A n \in Nodes : g \in Above(n) => n # k
      BY <2>5 DEF Groups
    <3> QED
      BY <1>2, <1>4, <1>9, <2>2, <2>3, <3>1, <3>2 DEF Spoken, Told
  <2> QED
    BY <2>4, <2>5
<1> QED
  BY <1>6, <1>7, <1>8

-----------------------------------------------------------------------------
(* What a node returns is what it has to tell. *)

\* An agent's own reply.
LEMMA LeafReplies ==
  ASSUME tree \in Trees, NEW n \in Nodes, Leaf(n)
  PROVE  Replies(n, Append(<<User>>, n))
<1>1. /\ <<User>> \in Seq(Nodes) /\ Len(<<User>>) = 1 /\ <<User>> # <<>> /\ <<User>>[1] = User
  BY TreePaths, FirstWord
<1> DEFINE c == Append(<<User>>, n)
<1>2. c # <<>> /\ c[1] = User /\ Len(c) = 2 /\ 2 \in 2..Len(c) /\ \A i \in 2..Len(c) : i = 2 /\ c[i] = n
  <2>1. /\ c # <<>> /\ c[1] = <<User>>[1] /\ Len(c) = 1 + 1 /\ 1 + 1 \in 2..Len(c)
        /\ c[1 + 1] = n
    BY <1>1, OneMore
  <2> QED
    BY <1>1, <2>1
<1> HIDE DEF c
<1>3. Taken(n, n)
  <2>1. Within(n, n) = {}
    <3> SUFFICES ASSUME NEW h \in Within(n, n) PROVE FALSE
      OBVIOUS
    <3>1. h \in Above(n) /\ n \in Path(h) /\ h \in Path(n)
      BY DEF Within, Ones, Path
    <3>2. n \in Above(n)
      BY <3>1, AboveOrder DEF Path
    <3> QED
      BY <3>2, AboveOrder
  <2> QED
    BY <2>1 DEF Taken, Path
<1>4. ASSUME NEW m \in Nodes, Taken(n, m) PROVE m = n
  BY <1>4, AboveInTree DEF Taken, Path
<1>5. Replies(n, c)
  BY <1>2, <1>3, <1>4 DEF Replies
<1> QED
  BY <1>5 DEF c

\* What a member added is its chat without the user's message.
LEMMA AddedIs ==
  ASSUME tree \in Trees, NEW g \in Nodes, given[g] = <<User>>, NEW m, out[m].chat \in Seq(Nodes), Told(m)
  PROVE  /\ Len(out[m].chat) \in Nat \ {0}
         /\ Added(m, g) \in Seq(Nodes) /\ Len(Added(m, g)) = Len(out[m].chat) - 1
         /\ \A j \in 1..Len(out[m].chat) - 1 : Added(m, g)[j] = out[m].chat[j + 1]
<1> DEFINE c == out[m].chat
<1>1. c \in Seq(Nodes) /\ c # <<>> /\ Len(c) \in Nat \ {0}
  BY LenProperties, EmptySeq DEF Told
<1>2. Added(m, g) = SubSeq(c, 1 + 1, Len(c))
  <2>1. Len(given[g]) = 1
    BY TreePaths, FirstWord
  <2> QED
    BY <2>1 DEF Added
<1> HIDE DEF c
<1>3. /\ SubSeq(c, 1 + 1, Len(c)) \in Seq(Nodes)
      /\ Len(SubSeq(c, 1 + 1, Len(c))) = IF 1 <= Len(c) THEN Len(c) - 1 ELSE 0
      /\ \A j \in 1..Len(c) - 1 : SubSeq(c, 1 + 1, Len(c))[j] = c[1 + j]
  BY <1>1, RestIs
<1>4. \A j \in 1..Len(c) - 1 : 1 + j = j + 1
  OBVIOUS
<1> QED
  BY <1>1, <1>2, <1>3, <1>4 DEF c

\* One returns its winner's chat.
LEMMA OneReplies ==
  ASSUME Basics, ChatTypes, NEW g \in Nodes, given[g] = <<User>>, won[g] # None, Told(won[g]),
         Replies(won[g], out[won[g]].chat)
  PROVE  Replies(g, Result(g).chat)
<1> DEFINE w == won[g]
           c == out[w].chat
<1>1. tree \in Trees /\ w \in Nodes /\ w \in Kids(g) /\ tree[g] = "one"
  BY Winner DEF Basics, Shape, WonInv
<1>2. c \in Seq(Nodes)
  BY <1>1 DEF ChatTypes
<1>3. /\ Len(c) \in Nat \ {0}
      /\ Added(w, g) \in Seq(Nodes) /\ Len(Added(w, g)) = Len(c) - 1
      /\ \A j \in 1..Len(c) - 1 : Added(w, g)[j] = c[j + 1]
  BY <1>1, <1>2, AddedIs
<1>4. <<User>> \in Seq(Nodes) /\ Len(<<User>>) = 1 /\ <<User>>[1] = User /\ c[1] = User
  BY <1>1, TreePaths, FirstWord DEF Replies
<1>5. Result(g).chat = <<User>> \o Added(w, g)
  BY <1>1 DEF Result
<1> HIDE DEF c, w
<1>6. <<User>> \o Added(w, g) = c
  <2> DEFINE d == <<User>> \o Added(w, g)
  <2>1. /\ d \in Seq(Nodes) /\ Len(d) = 1 + (Len(c) - 1)
        /\ \A i \in 1..1 + (Len(c) - 1) : d[i] = IF i <= 1 THEN <<User>>[i] ELSE Added(w, g)[i - 1]
    <3>1. /\ d \in Seq(Nodes) /\ Len(d) = Len(<<User>>) + Len(Added(w, g))
          /\ \A i \in 1..Len(<<User>>) + Len(Added(w, g)) :
               d[i] = IF i <= Len(<<User>>) THEN <<User>>[i] ELSE Added(w, g)[i - Len(<<User>>)]
      BY <1>3, <1>4, ConcatProperties
    <3> HIDE DEF d
    <3> QED
      BY <1>3, <1>4, <3>1
  <2> HIDE DEF d
  <2>2. ASSUME NEW i \in 1..Len(c) PROVE d[i] = c[i]
    <3>1. CASE i = 1
      BY <1>3, <1>4, <2>1, <3>1
    <3>2. CASE i # 1
      <4>1. i - 1 \in 1..Len(c) - 1 /\ (i - 1) + 1 = i /\ i \in 1..1 + (Len(c) - 1) /\ ~(i <= 1)
        BY <1>3, <3>2
      <4> QED
        BY <1>3, <2>1, <4>1
    <3> QED
      BY <3>1, <3>2
  <2>3. Len(d) = Len(c)
    BY <1>3, <2>1
  <2>4. d = c
    BY <1>2, <2>1, <2>2, <2>3, SeqEqual
  <2> QED
    BY <2>4 DEF d
<1>7. \A i \in 2..Len(c) : c[i] \in Nodes
  BY <1>2, ElementOfSeq
<1>8. \A m \in Nodes : Taken(w, m) => Taken(g, m)
  BY <1>1, TakenKid DEF w
<1>9. ASSUME NEW m \in Nodes, Leaf(m), Taken(g, m) PROVE Taken(w, m)
  <2>1. m # g
    BY <1>1, <1>9 DEF Leaf, Leaves
  <2>2. g \in Within(g, m)
    BY <1>1, <1>9, <2>1 DEF Taken, Within, Ones, Path
  <2>3. w \in Path(m)
    BY <1>9, <2>2 DEF Taken, w
  <2> QED
    BY <1>1, <1>9, <2>3, TakenKid DEF w
<1>10. Replies(w, c)
  BY DEF w, c
<1>11. Replies(g, c)
  BY <1>7, <1>8, <1>9, <1>10 DEF Replies
<1> QED
  BY <1>5, <1>6, <1>11

\* All returns what its members told, one after another.
LEMMA AllReplies ==
  ASSUME Basics, ChatTypes, NEW g \in Nodes, tree[g] = "all", given[g] = <<User>>,
         \A w \in Kids(g) : Told(w) /\ Replies(w, out[w].chat)
  PROVE  Replies(g, Result(g).chat)
<1> DEFINE n == Cardinality(Kids(g))
           Kid(i) == Append(g, i)
           Chat(i) == out[Kid(i)].chat
<1>1. tree \in Trees /\ ~Leaf(g) /\ n \in Nat
  BY KidsAre DEF Basics, Shape, Leaf, Leaves
<1>2. \A i \in 1..n : Kid(i) \in Kids(g) /\ Kid(i) \in Nodes
  BY <1>1, KidsAre, KidPlace
<1>3. Result(g).chat = Merged(g)
  BY DEF Result
<1>4. PICK f, s, at :
        /\ Merged(g) = <<User>> \o f /\ f \in Seq(Nodes)
        /\ \A i \in 1..n : s[i] = Added(Kid(i), g)
        /\ Lays(f, s, n, at)
  BY <1>1, MergedIs
<1>5. ASSUME NEW i \in 1..n
      PROVE  /\ Told(Kid(i)) /\ Replies(Kid(i), Chat(i)) /\ Chat(i) \in Seq(Nodes)
             /\ Len(Chat(i)) \in Nat \ {0} /\ Len(s[i]) = Len(Chat(i)) - 1
             /\ \A j \in 1..Len(s[i]) : s[i][j] = Chat(i)[j + 1] /\ j + 1 \in 2..Len(Chat(i))
  <2>1. Told(Kid(i)) /\ Replies(Kid(i), Chat(i)) /\ Chat(i) \in Seq(Nodes)
    BY <1>2 DEF ChatTypes
  <2>2. /\ Len(Chat(i)) \in Nat \ {0} /\ Len(s[i]) = Len(Chat(i)) - 1
        /\ \A j \in 1..Len(Chat(i)) - 1 : s[i][j] = Chat(i)[j + 1]
    <3> DEFINE m == Kid(i)
    <3>1. Told(m) /\ out[m].chat \in Seq(Nodes) /\ s[i] = Added(m, g)
      BY <1>4, <2>1
    <3> HIDE DEF m
    <3>2. /\ Len(out[m].chat) \in Nat \ {0} /\ Len(Added(m, g)) = Len(out[m].chat) - 1
          /\ \A j \in 1..Len(out[m].chat) - 1 : Added(m, g)[j] = out[m].chat[j + 1]
      BY <1>1, <3>1, AddedIs
    <3> QED
      BY <3>1, <3>2 DEF m
  <2> HIDE DEF Chat
  <2>3. \A j \in 1..Len(s[i]) : j \in 1..Len(Chat(i)) - 1 /\ j + 1 \in 2..Len(Chat(i))
    BY <2>2
  <2> QED
    BY <2>1, <2>2, <2>3
<1> DEFINE c == <<User>> \o f
<1>6. /\ Len(f) \in Nat /\ c \in Seq(Nodes) /\ Len(c) = Len(f) + 1 /\ c # <<>> /\ c[1] = User
      /\ \A i \in 2..Len(c) : i - 1 \in 1..Len(f) /\ c[i] = f[i - 1]
      /\ \A p \in 1..Len(f) : p + 1 \in 2..Len(c) /\ c[p + 1] = f[p]
  <2>1. <<User>> \in Seq(Nodes) /\ Len(<<User>>) = 1 /\ <<User>>[1] = User
    BY <1>1, TreePaths, FirstWord
  <2>2. /\ c \in Seq(Nodes) /\ Len(c) = Len(<<User>>) + Len(f)
        /\ \A i \in 1..Len(<<User>>) + Len(f) :
             c[i] = IF i <= Len(<<User>>) THEN <<User>>[i] ELSE f[i - Len(<<User>>)]
    BY <1>4, <2>1, ConcatProperties
  <2>3. Len(f) \in Nat
    BY <1>4, LenProperties
  <2> HIDE DEF c
  <2>4. c[1] = User /\ Len(c) = 1 + Len(f)
    BY <2>1, <2>2, <2>3
  <2>5. c # <<>>
    BY <2>3, <2>4
  <2>6. ASSUME NEW p \in 1..Len(f) PROVE p + 1 \in 2..Len(c) /\ c[p + 1] = f[p]
    <3>1. p + 1 \in 1..1 + Len(f) /\ ~(p + 1 <= 1) /\ (p + 1) - 1 = p /\ p + 1 \in 2..1 + Len(f)
      BY <2>3
    <3> QED
      BY <2>1, <2>2, <2>4, <3>1
  <2>7. ASSUME NEW i \in 2..Len(c) PROVE i - 1 \in 1..Len(f) /\ c[i] = f[i - 1]
    <3>1. i - 1 \in 1..Len(f) /\ (i - 1) + 1 = i
      BY <2>3, <2>4
    <3> QED
      BY <2>6, <3>1
  <2> QED
    BY <2>2, <2>3, <2>4, <2>5, <2>6, <2>7
<1> HIDE DEF c, n, Chat
\* Where an entry comes from.
<1>7. ASSUME NEW p \in 1..Len(f)
      PROVE  \E i \in 1..n : \E j \in 1..Len(s[i]) :
               /\ at[p] = <<i, j>> /\ f[p] = Chat(i)[j + 1] /\ j + 1 \in 2..Len(Chat(i))
               /\ f[p] \in Nodes /\ Leaf(f[p]) /\ Taken(Kid(i), f[p])
  <2>1. PICK i \in 1..n : \E j \in 1..Len(s[i]) : at[p] = <<i, j>> /\ f[p] = s[i][j]
    BY <1>4 DEF Lays
  <2>2. PICK j \in 1..Len(s[i]) : at[p] = <<i, j>> /\ f[p] = s[i][j]
    BY <2>1
  <2>3. f[p] = Chat(i)[j + 1] /\ j + 1 \in 2..Len(Chat(i))
    BY <1>5, <2>2
  <2>4. Leaf(f[p]) /\ Taken(Kid(i), f[p])
    BY <1>5, <2>3 DEF Replies
  <2>5. f[p] \in Nodes
    BY <1>4, ElementOfSeq
  <2> QED
    BY <2>2, <2>3, <2>4, <2>5
<1>8. ASSUME NEW i \in 2..Len(c) PROVE Leaf(c[i]) /\ Taken(g, c[i])
  <2>1. PICK a \in 1..n : Leaf(c[i]) /\ Taken(Kid(a), c[i]) /\ c[i] \in Nodes
    BY <1>6, <1>7
  <2>2. Taken(g, c[i])
    BY <1>2, <2>1, TakenKid
  <2> QED
    BY <2>1, <2>2
<1>9. ASSUME NEW m \in Nodes, Leaf(m), Taken(g, m) PROVE \E i \in 2..Len(c) : c[i] = m
  <2>1. g \in Above(m)
    BY <1>1, <1>9 DEF Taken, Path
  <2>2. PICK w \in Kids(g) : w \in Path(m)
    BY <1>1, <2>1, AboveKid DEF Path
  <2>3. Taken(w, m)
    BY <1>9, <2>2, TakenKid
  <2>4. PICK a \in 1..n : w = Kid(a)
    BY <1>1, KidsAre DEF n
  <2>5. PICK j \in 2..Len(Chat(a)) : Chat(a)[j] = m
    BY <1>5, <1>9, <2>3, <2>4 DEF Replies
  <2>6. j - 1 \in 1..Len(s[a]) /\ (j - 1) + 1 = j
    BY <1>5, <2>5
  <2>7. PICK p \in 1..Len(f) : at[p] = <<a, j - 1>>
    BY <1>4, <2>6 DEF Lays
  <2>8. f[p] = m
    <3>1. PICK b \in 1..n : \E k \in 1..Len(s[b]) : at[p] = <<b, k>> /\ f[p] = Chat(b)[k + 1]
      BY <1>7
    <3>2. PICK k \in 1..Len(s[b]) : at[p] = <<b, k>> /\ f[p] = Chat(b)[k + 1]
      BY <3>1
    <3>3. b = a /\ k = j - 1
      BY <2>7, <3>2
    <3> QED
      BY <2>5, <2>6, <3>2, <3>3
  <2> QED
    BY <1>6, <2>8
<1>10. ASSUME NEW p \in 1..Len(f), NEW q \in 1..Len(f), p < q
       PROVE  f[p] # f[q] /\ (Groups(f[p]) \cap Groups(f[q]) = {} => Before(f[p], f[q]))
  <2>1. PICK i \in 1..n : \E j \in 1..Len(s[i]) :
               /\ at[p] = <<i, j>> /\ f[p] = Chat(i)[j + 1] /\ j + 1 \in 2..Len(Chat(i))
               /\ f[p] \in Nodes /\ Leaf(f[p]) /\ Taken(Kid(i), f[p])
    BY <1>7
  <2>2. PICK j \in 1..Len(s[i]) :
               /\ at[p] = <<i, j>> /\ f[p] = Chat(i)[j + 1] /\ j + 1 \in 2..Len(Chat(i))
               /\ f[p] \in Nodes /\ Leaf(f[p]) /\ Taken(Kid(i), f[p])
    BY <2>1
  <2>3. PICK a \in 1..n : \E b \in 1..Len(s[a]) :
               /\ at[q] = <<a, b>> /\ f[q] = Chat(a)[b + 1] /\ b + 1 \in 2..Len(Chat(a))
               /\ f[q] \in Nodes /\ Leaf(f[q]) /\ Taken(Kid(a), f[q])
    BY <1>7
  <2>4. PICK b \in 1..Len(s[a]) :
               /\ at[q] = <<a, b>> /\ f[q] = Chat(a)[b + 1] /\ b + 1 \in 2..Len(Chat(a))
               /\ f[q] \in Nodes /\ Leaf(f[q]) /\ Taken(Kid(a), f[q])
    BY <2>3
  <2>5. i < a \/ (i = a /\ j < b)
    <3>1. at[p][1] < at[q][1] \/ (at[p][1] = at[q][1] /\ at[p][2] < at[q][2])
      BY <1>4, <1>10 DEF Lays
    <3> QED
      BY <2>2, <2>4, <3>1
  <2>6. CASE i < a
    <3>1. /\ Append(g, i) \in Path(f[p]) /\ Append(g, a) \in Path(f[q])
          /\ Append(g, i) \in Nodes /\ Append(g, a) \in Nodes
      BY <1>2, <2>2, <2>4 DEF Taken
    <3> DEFINE x == f[p]
               y == f[q]
    <3>2. /\ x \in Nodes /\ y \in Nodes /\ i \in Nat /\ a \in Nat /\ i < a
          /\ Append(g, i) \in Path(x) /\ Append(g, a) \in Path(y)
      BY <1>1, <2>2, <2>4, <2>6, <3>1
    <3> HIDE DEF x, y, Kid
    <3>3. Before(x, y) /\ x # y
      BY <1>1, <3>1, <3>2, KidsBefore
    <3> QED
      BY <3>3 DEF x, y
  <2>7. CASE i = a /\ j < b
    <3>1. j + 1 < b + 1 /\ b + 1 \in 2..Len(Chat(i)) /\ f[q] = Chat(i)[b + 1]
      BY <1>5, <2>4, <2>7
    <3>2. Replies(Kid(i), Chat(i))
      BY <1>5
    <3> QED
      BY <2>2, <3>1, <3>2 DEF Replies
  <2> QED
    BY <2>5, <2>6, <2>7
<1>11. ASSUME NEW i \in 2..Len(c), NEW j \in 2..Len(c), i < j
       PROVE  c[i] # c[j] /\ (Groups(c[i]) \cap Groups(c[j]) = {} => Before(c[i], c[j]))
  <2> DEFINE p == i - 1
             q == j - 1
  <2>1. p < q
    BY <1>6, <1>11
  <2>2. p \in 1..Len(f) /\ q \in 1..Len(f) /\ c[i] = f[p] /\ c[j] = f[q]
    BY <1>6
  <2> HIDE DEF p, q
  <2>3. f[p] # f[q] /\ (Groups(f[p]) \cap Groups(f[q]) = {} => Before(f[p], f[q]))
    BY <1>10, <2>1, <2>2
  <2> QED
    BY <2>2, <2>3
<1>12. Replies(g, c)
  BY <1>6, <1>8, <1>9, <1>11 DEF Replies
<1> QED
  BY <1>3, <1>4, <1>12 DEF c

\* When a Group ends well, everything below it has returned a chat: the shortest
\* node that had not would have left its error with an All, or with the Group.
LEMMA AllBelowTold ==
  ASSUME Basics, TellInv, Plain, NEW g \in Nodes, tree[g] = "group", g \notin err,
         \A m \in Kids(g) : st[m] = "settled", NEW n \in Nodes, g \in Above(n)
  PROVE  Told(n)
<1> SUFFICES ASSUME ~Told(n) PROVE FALSE
  OBVIOUS
<1>1. tree \in Trees /\ \A x \in Nodes : Len(x) \in Nat
  BY TreePaths DEF Basics, Shape
<1> DEFINE B == {x \in Nodes : g \in Above(x) /\ ~Told(x)}
           L == {Len(x) : x \in B}
<1>2. L \in SUBSET Nat /\ L # {}
  BY <1>1
<1>3. PICK l \in L : \A j \in L : l <= j
  BY <1>2, LeastNumber
<1>4. PICK x \in B : l = Len(x)
  BY <1>3
<1>5. x \in Nodes /\ g \in Above(x) /\ ~Told(x) /\ x # <<>>
  BY <1>1, <1>4, AboveOrder
<1>6. st[x] = "settled"
  <2>1. x \in Kids(g) \/ \E m \in Kids(g) : m \in Above(x)
    BY <1>1, <1>5, AboveKid
  <2> QED
    BY <1>5, <2>1 DEF Basics, NoOrphans, Over
<1> DEFINE p == Parent(x)
<1>7. p \in err
  BY <1>5, <1>6 DEF TellInv
<1>8. p \in Nodes /\ p # g /\ p \in Above(x) /\ Above(x) = Above(p) \cup {p}
  BY <1>1, <1>5, <1>7, AboveParent, AboveInTree
<1> HIDE DEF p
<1>9. g \in Above(p) /\ ~Leaf(p)
  BY <1>1, <1>5, <1>8, AboveInTree
<1>10. tree[p] = "all"
  <2>1. Groups(p) # {}
    BY <1>9 DEF Groups
  <2> QED
    BY <1>1, <1>8, <1>9, <2>1, PlainGroups DEF Leaf
<1>11. ~Told(p)
  BY <1>7, <1>8, <1>9, <1>10 DEF TellInv
<1>12. Len(p) \in L /\ Len(p) < Len(x)
  BY <1>1, <1>5, <1>8, <1>9, <1>11, AboveOrder
<1> QED
  BY <1>1, <1>3, <1>4, <1>5, <1>8, <1>12

\* A Group returns its conversation.
LEMMA GroupReplies ==
  ASSUME Basics, ChatTypes, TellInv, Plain, SpokenInv, NEW g \in Nodes, tree[g] = "group", g \notin err,
         st[g] # "off", \A m \in Kids(g) : st[m] = "settled"
  PROVE  Replies(g, Result(g).chat)
<1> DEFINE c == shared[g]
<1>1. tree \in Trees
  BY DEF Basics, Shape
<1>2. Result(g).chat = c /\ c \in Seq(Nodes) /\ Spoken(g, c)
  BY DEF Result, ChatTypes, SpokenInv
<1> HIDE DEF c
<1>3. \A i \in 2..Len(c) : c[i] \in Nodes
  BY <1>2, ElementOfSeq
<1>4. ASSUME NEW m \in Nodes, g \in Above(m) PROVE Taken(g, m) /\ g \in Groups(m)
  <2>1. g \in Groups(m)
    BY <1>4 DEF Groups
  <2>2. Within(g, m) = {}
    <3> SUFFICES ASSUME NEW h \in Within(g, m) PROVE FALSE
      OBVIOUS
    <3>1. h \in Nodes /\ tree[h] = "one" /\ g \in Path(h)
      BY <1>1, AboveInTree DEF Within, Ones
    <3>2. g \in Groups(h)
      BY <3>1 DEF Groups, Path
    <3> QED
      BY <1>1, <3>1, <3>2, PlainGroups DEF Leaves
  <2> QED
    BY <1>4, <2>1, <2>2 DEF Taken, Path
<1>5. ASSUME NEW m \in Nodes, Leaf(m), Taken(g, m) PROVE \E i \in 2..Len(c) : c[i] = m
  <2>1. g \in Above(m)
    BY <1>5 DEF Taken, Path, Leaf, Leaves
  <2>2. Told(m)
    BY <2>1, AllBelowTold
  <2> QED
    BY <1>2, <1>5, <2>1, <2>2 DEF Spoken
<1>6. \A i \in 2..Len(c) : Leaf(c[i]) /\ g \in Above(c[i])
  BY <1>2 DEF Spoken
<1>7. \A i, j \in 2..Len(c) : i < j => c[i] # c[j] /\ Groups(c[i]) \cap Groups(c[j]) # {}
  BY <1>2, <1>3, <1>4, <1>6 DEF Spoken
<1>8. c # <<>> /\ c[1] = User
  BY <1>2 DEF Spoken
<1>9. Replies(g, c)
  BY <1>3, <1>4, <1>5, <1>6, <1>7, <1>8 DEF Replies
<1> QED
  BY <1>2, <1>9

\* Every step keeps what has been told, and tells what is to be told.
LEMMA ChatNext ==
  ASSUME Basics, ChatTypes, TellInv, Plain, GivenInv, SpokenInv, ChatInv, [Next]_vars,
         NEW k \in Nodes, Step(k) \/ Fail(k)
  PROVE  ChatInv'
<1>0. /\ tree' = tree /\ Nodes' = Nodes /\ tree \in Trees
      /\ \A m, n : Within(m, n)' = Within(m, n)
  BY PlacesKept DEF Basics, Shape
<1>1. /\ \A n : Groups(n)' = Groups(n) /\ (Leaf(n)' <=> Leaf(n)) /\ Path(n)' = Path(n)
      /\ \A m, n : Before(m, n)' <=> Before(m, n)
  BY <1>0 DEF Groups, Leaf, Path, Above, Before
<1>2. ASSUME NEW n \in Nodes, NEW c \in Seq(Nodes), Replies(n, c), \A h \in Nodes : n \in Path(h) => won'[h] = won[h]
      PROVE  Replies(n, c)'
  <2>1. \A m \in Nodes : Taken(n, m)' <=> Taken(n, m)
    <3> TAKE m \in Nodes
    <3>1. \A h \in Within(n, m) : won'[h] = won[h]
      BY <1>0, <1>2, AboveInTree DEF Within, Ones
    <3> QED
      BY <1>0, <1>1, <3>1 DEF Taken
  <2>2. \A i \in 2..Len(c) : c[i] \in Nodes
    BY <1>2, ElementOfSeq
  <2> QED
    BY <1>0, <1>1, <1>2, <2>1, <2>2 DEF Replies
<1> SUFFICES ASSUME NEW n \in Nodes, Groups(n) = {}, Told(n)' PROVE Replies(n, out[n].chat)'
  BY <1>0, <1>1 DEF ChatInv
<1>3. CASE Told(n)
  <2>1. Replies(n, out[n].chat) /\ out[n].chat \in Seq(Nodes)
    BY <1>3 DEF ChatInv, ChatTypes
  <2>2. out'[n] = out[n] /\ \A h \in Nodes : n \in Path(h) => won'[h] = won[h]
    BY <1>3, ToldKept
  <2>3. Replies(n, out'[n].chat) /\ out'[n].chat \in Seq(Nodes)
    BY <2>1, <2>2
  <2> QED
    BY <1>2, <2>2, <2>3
<1>4. CASE ~Told(n)
  <2>1. n = k /\ Tells(k)
    BY <1>4, TellStep DEF Told
  <2>2. given[n] = <<User>>
    BY <2>1 DEF GivenInv, Tells
  <2>3. Replies(n, out'[n].chat)
    <3>1. CASE Leaf(n)
      <4>1. SharedOf(n) = {}
        BY <1>0, PlainGroups
      <4> QED
        BY <1>0, <2>1, <2>2, <3>1, <4>1, LeafReplies DEF Tells
    <3>2. CASE ~Leaf(n)
      <4>1. tree[n] \in {"all", "one", "group"}
        BY <1>0, <3>2, FanOutAssumption DEF Leaf, Leaves, Kinds, Nodes
      <4>2. /\ out'[n].chat = Result(n).chat /\ \A m \in Kids(n) : st[m] = "settled"
            /\ IF tree[n] = "one" THEN won[n] # None ELSE n \notin err
        BY <2>1, <3>2 DEF Tells
      <4>3. ASSUME NEW m \in Kids(n), Told(m), tree[n] # "group" PROVE Replies(m, out[m].chat)
        <5>1. m \in Nodes /\ Groups(m) = {}
          BY <1>0, <4>3, KidPlace
        <5> QED
          BY <4>3, <5>1 DEF ChatInv
      <4>4. CASE tree[n] = "one"
        <5>1. won[n] # None /\ Told(won[n]) /\ won[n] \in Kids(n)
          BY <4>2, <4>4 DEF TellInv, Basics, WonInv
        <5>2. Replies(won[n], out[won[n]].chat)
          BY <4>3, <4>4, <5>1
        <5> QED
          BY <2>2, <4>2, <5>1, <5>2, OneReplies
      <4>5. CASE tree[n] = "all"
        <5>1. \A m \in Kids(n) : Told(m) /\ Replies(m, out[m].chat)
          <6> TAKE m \in Kids(n)
          <6>1. m \in Nodes /\ Parent(m) = n
            BY <1>0, KidPlace
          <6>2. Told(m)
            BY <4>2, <4>5, <6>1 DEF TellInv
          <6> QED
            BY <4>3, <4>5, <6>2
        <5> QED
          BY <2>2, <4>2, <4>5, <5>1, AllReplies
      <4>6. CASE tree[n] = "group"
        BY <2>1, <4>2, <4>6, GroupReplies DEF Tells
      <4> QED
        BY <4>1, <4>4, <4>5, <4>6
    <3> QED
      BY <3>1, <3>2
  <2>4. out'[n].chat \in Seq(Nodes) /\ won' = won
    <3>1. ChatTypes'
      BY ChatTypesNext
    <3> QED
      BY <1>0, <2>1, <3>1 DEF ChatTypes, Tells
  <2> QED
    BY <1>2, <2>3, <2>4
<1> QED
  BY <1>3, <1>4

\* At the start nothing has been said or returned.
LEMMA ReplyInit == Init => ReplyInv
<1> SUFFICES ASSUME Init PROVE ReplyInv
  OBVIOUS
<1>1. Basics /\ ChatTypes /\ tree \in Trees /\ <<>> \in Nodes
  BY TrigInit, ChatTypesInit, TreePaths DEF TrigInv, Init
<1>2. /\ \A n \in Nodes : ~Told(n) /\ won[n] = None /\ n \notin err
      /\ \A n \in Nodes : st[n] = (IF n = <<>> THEN "on" ELSE "off")
      /\ given[<<>>] = <<User>> /\ shared[<<>>] = <<User>>
  BY <1>1 DEF Init, Told
<1>3. Len(<<User>>) = 1 /\ <<User>> # <<>> /\ <<User>>[1] = User
  BY <1>1, FirstWord
<1>4. TellInv
  BY <1>2, <1>3 DEF TellInv
<1>5. OffInv
  <2> SUFFICES ASSUME NEW n \in Nodes, NEW g \in Above(n), st[n] # "off" PROVE FALSE
    BY DEF OffInv
  <2> QED
    BY <1>1, <1>2, AboveOrder
<1>6. GivenInv
  BY <1>2 DEF GivenInv
<1>7. SpokenInv
  <2> SUFFICES ASSUME NEW g \in Nodes, st[g] # "off" PROVE Spoken(g, shared[g])
    BY DEF SpokenInv
  <2>1. shared[g] = <<User>> /\ \A n \in Nodes : st[n] # "said" /\ ~Told(n)
    BY <1>2
  <2> QED
    BY <1>3, <2>1 DEF Spoken
<1>8. ChatInv
  BY <1>2 DEF ChatInv
<1> QED
  BY <1>1, <1>4, <1>5, <1>6, <1>7, <1>8 DEF ReplyInv

\* Every step keeps the invariant.
LEMMA ReplyNext == ReplyInv /\ [Next]_vars => ReplyInv'
<1> SUFFICES ASSUME ReplyInv, [Next]_vars PROVE ReplyInv'
  OBVIOUS
<1> USE DEF ReplyInv
<1>0. tree' = tree /\ Nodes' = Nodes
  BY TreeKept
<1>1. Basics' /\ ChatTypes'
  BY BasicsNext, ChatTypesNext
<1>2. Plain' <=> Plain
  BY <1>0 DEF Plain, SharedOf, Deepest, Above
<1>3. CASE UNCHANGED vars
  <2>1. TellInv' /\ OffInv'
    BY <1>3 DEF TellInv, OffInv, Told, Leaf, Nodes, vars
  <2>2. \A n \in Nodes : \A c : Replies(n, c)' <=> Replies(n, c)
    BY <1>3 DEF Replies, Taken, Within, Ones, Path, Above, Groups, Leaf, Nodes, Before, vars
  <2>3. \A g \in Nodes : \A c : Spoken(g, c)' <=> Spoken(g, c)
    BY <1>3 DEF Spoken, Told, Above, Leaf, Nodes, vars
  <2>4. Plain => GivenInv' /\ SpokenInv' /\ ChatInv'
    BY <1>3, <2>2, <2>3 DEF GivenInv, SpokenInv, ChatInv, Told, Groups, Nodes, vars
  <2> QED
    BY <1>1, <1>2, <2>1, <2>4
<1>4. CASE \E k \in Nodes : Step(k) \/ Fail(k)
  <2>1. PICK k \in Nodes : Step(k) \/ Fail(k)
    BY <1>4
  <2>2. TellInv' /\ OffInv'
    BY <1>0, <2>1, TellNext, OffNext
  <2>3. Plain => GivenInv' /\ SpokenInv' /\ ChatInv'
    BY <1>0, <2>1, GivenNext, SpokenNext, ChatNext
  <2> QED
    BY <1>1, <1>2, <2>2, <2>3
<1> QED
  BY <1>3, <1>4 DEF Next

\* The invariant is strong enough: what the root has to tell is the replies of the
\* accepted leaves.
LEMMA ReplyImplies == ReplyInv => RepliesInOrder
<1> SUFFICES ASSUME ReplyInv, st[<<>>] = "done", Plain PROVE RepliesInOrder
  BY DEF RepliesInOrder
<1> DEFINE c == out[<<>>].chat
<1>1. tree \in Trees /\ <<>> \in Nodes
  BY TreePaths DEF ReplyInv, Basics, Shape
<1>2. Groups(<<>>) = {}
  BY <1>1, AboveOrder DEF Groups
<1>3. Replies(<<>>, c) /\ c \in Seq(Nodes)
  BY <1>1, <1>2 DEF ReplyInv, TellInv, ChatInv, ChatTypes
<1> HIDE DEF c
<1>4. \A i \in 2..Len(c) : c[i] \in Nodes /\ SharedOf(c[i]) = Groups(c[i])
  BY <1>1, <1>3, ElementOfSeq, PlainGroups
<1>5. Head(c) = User
  BY <1>3 DEF Replies
<1>6. ASSUME NEW n \in Nodes PROVE Accepted(n) <=> Taken(<<>>, n)
  <2>1. <<>> \in Path(n) /\ \A h \in Ones(n) : <<>> \in Path(h)
    <3>1. \A h \in Path(n) : h \in Nodes /\ <<>> \in Path(h)
      BY <1>1, AboveOrder DEF Path
    <3> QED
      BY <3>1 DEF Ones, Path
  <2>2. Within(<<>>, n) = Ones(n)
    BY <2>1 DEF Within
  <2>3. ASSUME NEW g \in Ones(n) PROVE (won[g] # None /\ IsPrefix(won[g], n)) <=> won[g] \in Path(n)
    <3>1. g \in Nodes
      BY <1>1, AboveInTree DEF Ones
    <3>2. CASE won[g] = None
      BY <3>1, <3>2, Winner DEF ReplyInv
    <3>3. CASE won[g] # None
      BY <1>1, <3>1, <3>3, Winner, PrefixIs DEF ReplyInv
    <3> QED
      BY <3>2, <3>3
  <2>4. Accepted(n) <=> \A g \in Ones(n) : won[g] # None /\ IsPrefix(won[g], n)
    BY DEF Accepted, Ones
  <2> QED
    BY <2>1, <2>2, <2>3, <2>4 DEF Taken
<1>7. ASSUME NEW n \in Nodes, Leaf(n)
      PROVE  Cardinality({i \in 2..Len(c) : c[i] = n}) = (IF Accepted(n) THEN 1 ELSE 0)
  <2> DEFINE I == {i \in 2..Len(c) : c[i] = n}
  <2>1. CASE Accepted(n)
    <3>1. PICK i \in 2..Len(c) : c[i] = n
      BY <1>3, <1>6, <1>7, <2>1 DEF Replies
    <3>2. ASSUME NEW j \in 2..Len(c), c[j] = n PROVE j = i
      <4>1. i < j \/ j < i \/ i = j
        OBVIOUS
      <4> QED
        BY <1>3, <3>1, <3>2, <4>1 DEF Replies
    <3>3. I = {i}
      BY <3>1, <3>2
    <3>4. Cardinality({i}) = 1
      BY FS_Singleton
    <3> QED
      BY <2>1, <3>3, <3>4
  <2>2. CASE ~Accepted(n)
    <3>1. I = {}
      BY <1>3, <1>6, <2>2 DEF Replies
    <3> QED
      BY <2>2, <3>1, FS_EmptySet
  <2> QED
    BY <2>1, <2>2
<1>8. \A i, j \in 2..Len(c) : i < j /\ SharedOf(c[i]) \cap SharedOf(c[j]) = {} => Before(c[i], c[j])
  BY <1>3, <1>4 DEF Replies
<1> QED
  BY <1>5, <1>7, <1>8 DEF RepliesInOrder, c

\* RepliesInOrder holds for every tree: the chat of a run that succeeds holds the
\* reply of each accepted leaf once, no other, and in declaration order, whatever
\* the order in which the members ran and ended (groups.go:150-166, :226-279).
THEOREM RepliesStayInOrder == Spec => []RepliesInOrder
<1> QED
  BY ReplyInit, ReplyNext, ReplyImplies, PTL DEF Spec
==============================================================================
