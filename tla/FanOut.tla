------------------------------- MODULE FanOut -------------------------------
(***************************************************************************)
(* All, One and Group (internal/flow/groups.go): the members of a group    *)
(* run concurrently, each in a goroutine, over a private or a shared chat. *)
(* The first error, or One's first success, cancels the others; the work   *)
(* that members of One want to schedule is queued until One has a winner.  *)
(*                                                                         *)
(* A node of the tree is its index path, as in the source (members count   *)
(* from 1 here).  A leaf is an agent that replies once; a router is one    *)
(* that may also select, a trigger one followed by a Once or Every node,   *)
(* and a "wait" one waits for its context to be cancelled.  A reply is the *)
(* path of the leaf that made it.                                          *)
(***************************************************************************)
EXTENDS Integers, SequencesExt

CONSTANTS
  Trees,     \* the trees to run: functions from paths to kinds
  Sels,      \* the ids a leaf may select
  None,      \* no selection; no winner yet
  MaxFaults  \* bound on failing Scheduler.Defer calls

Leaves == {"agent", "router", "trigger", "wait"}
Kinds  == Leaves \cup {"all", "one", "group"}

ASSUME FanOutAssumption ==
  /\ None \notin Sels /\ None \notin UNION {DOMAIN t : t \in Trees} /\ MaxFaults \in Nat
  /\ \A t \in Trees :
       /\ t \in [DOMAIN t -> Kinds] /\ DOMAIN t \subseteq Seq(Nat) /\ <<>> \in DOMAIN t
       /\ IsFiniteSet(DOMAIN t)
       /\ \A n \in DOMAIN t \ {<<>>} :
            /\ \A k \in 0..Len(n) - 1 : SubSeq(n, 1, k) \in DOMAIN t /\ t[SubSeq(n, 1, k)] \notin Leaves
            /\ Last(n) > 0 /\ \A i \in 1..Last(n) : Append(Front(n), i) \in DOMAIN t

VARIABLES
  tree,      \* the tree of this run
  st,        \* how far each node is; a member is "settled" once its group took its result
  given,     \* the chat each node started with
  out,       \* the State each node returned: its chat and its selection
  shared,    \* the live conversation of each Group
  err,       \* the groups whose firstErr is set
  cut,       \* the groups that called their cancel
  won,       \* One's first successful member
  merge,     \* selMerge of each group: the last selection and the conflict flag
  queue,     \* pendingCommit.calls of each member of a One
  scheduled, \* how often each leaf's trigger has been handed to the Scheduler
  faults,
  (* history *)
  wanted,    \* the leaves that reached their trigger
  broke      \* the leaves that failed of their own accord

vars == <<tree, st, given, out, shared, err, cut, won, merge, queue, scheduled, faults, wanted, broke>>
group   == <<err, cut, won, merge>>
commits == <<queue, scheduled, faults, wanted>>

Nodes      == DOMAIN tree
Kids(n)    == {m \in Nodes \ {<<>>} : Front(m) = n}
Above(n)   == {SubSeq(n, 1, k) : k \in 0..Len(n) - 1}
Leaf(n)    == tree[n] \in Leaves
Parent(n)  == Front(n)
Statuses   == {"off", "on", "said", "commit", "done", "failed", "settled"}

\* The user's message, with which every run begins.
User == <<>>

FanOutTypeOK ==
  /\ tree \in Trees
  /\ st \in [Nodes -> Statuses]
  /\ given \in [Nodes -> Seq(Nodes)] /\ shared \in [Nodes -> Seq(Nodes)]
  /\ out \in [Nodes -> [chat : Seq(Nodes), sel : Sels \cup {None}]]
  /\ err \subseteq Nodes /\ cut \subseteq Nodes
  /\ won \in [Nodes -> Nodes \cup {None}]
  /\ \A g \in Nodes : won[g] # None => tree[g] = "one" /\ won[g] \in Kids(g)
  /\ merge \in [Nodes -> [sel : Sels \cup {None}, conflict : BOOLEAN]]
  /\ queue \in [Nodes -> Seq(Nodes)] /\ scheduled \in [Nodes -> Nat] /\ faults \in 0..MaxFaults
  /\ wanted \subseteq Nodes /\ broke \subseteq Nodes

Deepest(S) == {n \in S : \A m \in S : Len(m) <= Len(n)}

\* What a context carries: cancellation of any group above, the shared chat of
\* the nearest Group above, the pendingCommit of the nearest member of a One.
Cancelled(n) == Above(n) \cap cut # {}
SharedOf(n)  == Deepest({g \in Above(n) : tree[g] = "group"})
Pending(n)   == Deepest({m \in (Above(n) \cup {n}) \ {<<>>} : tree[Parent(m)] = "one"})

Become(n, s) == st' = [st EXCEPT ![n] = s]

-----------------------------------------------------------------------------
(* Leaves. *)

\* A member's goroutine starts: a Group's takes a snapshot of the shared chat,
\* which by then may hold what its siblings said; others get a private copy.
Start(m) ==
  /\ m # <<>> /\ st[m] = "off" /\ st[Parent(m)] = "on"
  /\ LET chat == IF tree[Parent(m)] = "group" THEN shared[Parent(m)] ELSE given[Parent(m)]
     IN /\ given' = [given EXCEPT ![m] = chat]
        /\ shared' = IF tree[m] = "group" THEN [shared EXCEPT ![m] = chat] ELSE shared
  /\ Become(m, "on")
  /\ UNCHANGED <<tree, out, group, commits, broke>>

\* Turn.Reply: in a Group it writes through to the shared chat at once.
Speak(n) ==
  /\ st[n] = "on" /\ tree[n] \in Leaves \ {"wait"}
  /\ shared' = [g \in Nodes |-> IF g \in SharedOf(n) THEN Append(shared[g], n) ELSE shared[g]]
  /\ Become(n, "said")
  /\ UNCHANGED <<tree, given, out, group, commits, broke>>

\* Basic.run builds its State: the chat it was given and its reply, or the
\* snapshot of the shared chat.
Answer(n, sel) ==
  out' = [out EXCEPT ![n] =
    [chat |-> IF SharedOf(n) = {} THEN Append(given[n], n)
              ELSE shared[CHOOSE g \in SharedOf(n) : TRUE],
     sel |-> sel]]

Return(n, sel) ==
  /\ st[n] = "said" /\ tree[n] \in {"agent", "router"} /\ (tree[n] = "agent" => sel = None)
  /\ Answer(n, sel) /\ Become(n, "done")
  /\ UNCHANGED <<tree, given, shared, group, commits, broke>>

DeferFails == faults < MaxFaults /\ faults' = faults + 1

\* FAULT (TriggersOnce): the trigger ignores the One around it.
DeferAtOnce(n) ==
  /\ st[n] = "said" /\ tree[n] = "trigger"
  /\ Answer(n, None) /\ Become(n, "done")
  /\ scheduled' = [scheduled EXCEPT ![n] = @ + 1]
  /\ wanted' = wanted \cup {n}
  /\ UNCHANGED <<tree, given, shared, group, queue, faults, broke>>

\* deferBody: a trigger inside a One is queued, elsewhere it is scheduled now,
\* and its failure is the leaf's.
Defer(n) ==
  /\ st[n] = "said" /\ tree[n] = "trigger"
  /\ wanted' = wanted \cup {n}
  /\ \/ /\ Pending(n) # {} /\ Answer(n, None) /\ Become(n, "done")
        /\ queue' = [m \in Nodes |-> IF m \in Pending(n) THEN Append(queue[m], n) ELSE queue[m]]
        /\ UNCHANGED <<scheduled, faults>>
     \/ /\ Pending(n) = {} /\ Answer(n, None) /\ Become(n, "done")
        /\ scheduled' = [scheduled EXCEPT ![n] = @ + 1]
        /\ UNCHANGED <<queue, faults>>
     \/ /\ Pending(n) = {} /\ DeferFails /\ Become(n, "failed")
        /\ UNCHANGED <<out, queue, scheduled>>
  /\ UNCHANGED <<tree, given, shared, group, broke>>

\* An agent fails, of its own accord or because its context is gone.
Fail(n) ==
  /\ Leaf(n) /\ st[n] \in {"on", "said"}
  /\ tree[n] = "wait" => Cancelled(n)
  /\ Become(n, "failed")
  /\ broke' = IF Cancelled(n) THEN broke ELSE broke \cup {n}
  /\ UNCHANGED <<tree, given, out, shared, group, commits>>

-----------------------------------------------------------------------------
(* Groups. *)

\* firstErr.set: the first error cancels the other members.
SettleError(m, g) ==
  /\ st[m] = "failed"
  /\ err' = err \cup {g} /\ cut' = IF g \in err THEN cut ELSE cut \cup {g}
  /\ UNCHANGED <<won, merge>>

\* FAULT (GroupEndsAtLast): the winner does not cancel the others.
SettleQuietly(m, g) ==
  /\ st[m] = "done" /\ tree[g] = "one"
  /\ won' = IF won[g] = None THEN [won EXCEPT ![g] = m] ELSE won
  /\ UNCHANGED <<err, cut, merge>>

\* FAULT (FanOutTypeOK): every group is taken for a One.
SettleFirst(m, g) ==
  /\ st[m] = "done"
  /\ IF won[g] = None THEN won' = [won EXCEPT ![g] = m] /\ cut' = cut \cup {g}
                      ELSE UNCHANGED <<won, cut>>
  /\ UNCHANGED <<err, merge>>

\* One: the first success wins and cancels the others.
SettleOne(m, g) ==
  /\ st[m] = "done" /\ tree[g] = "one"
  /\ IF won[g] = None THEN won' = [won EXCEPT ![g] = m] /\ cut' = cut \cup {g}
                      ELSE UNCHANGED <<won, cut>>
  /\ UNCHANGED <<err, merge>>

\* FAULT (ConflictSeen): the conflict flag follows the last member alone.
AddLast(s, sel) ==
  IF sel = None THEN s ELSE [sel |-> sel, conflict |-> s.sel # None /\ s.sel # sel]

\* selMerge.add.
Add(s, sel) ==
  IF sel = None THEN s
  ELSE [sel |-> sel, conflict |-> s.conflict \/ (s.sel # None /\ s.sel # sel)]

SettleAll(m, g) ==
  /\ st[m] = "done" /\ tree[g] # "one"
  /\ merge' = [merge EXCEPT ![g] = Add(@, out[m].sel)]
  /\ UNCHANGED <<err, cut, won>>

\* A member has returned and its goroutine hands the result to the group.
Settle(m) ==
  /\ m # <<>>
  /\ SettleError(m, Parent(m)) \/ SettleOne(m, Parent(m)) \/ SettleAll(m, Parent(m))
  /\ Become(m, "settled")
  /\ UNCHANGED <<tree, given, out, shared, commits, broke>>

\* FAULT (NoOrphans): One is over when it has a winner.
AllSettledOrWon(g) ==
  st[g] = "on" /\ ~Leaf(g) /\ ((tree[g] = "one" /\ won[g] # None) \/ \A m \in Kids(g) : st[m] = "settled")

\* wg.Wait() returns.
AllSettled(g) == st[g] = "on" /\ ~Leaf(g) /\ \A m \in Kids(g) : st[m] = "settled"

\* FAULT (RepliesInOrder): the members' copies of what the group was given stay.
AddedAll(m, g) == out[m].chat

\* The replies a member added to the chat its group was given.
Added(m, g) == SubSeq(out[m].chat, Len(given[g]) + 1, Len(out[m].chat))

\* Every member's new replies in declaration order.
Merged(g) ==
  given[g] \o FlattenSeq([i \in 1..Cardinality(Kids(g)) |-> Added(Append(g, i), g)])

Result(g) ==
  [chat |-> CASE tree[g] = "one"   -> given[g] \o Added(won[g], g)
              [] tree[g] = "all"   -> Merged(g)
              [] tree[g] = "group" -> shared[g],
   sel  |-> IF tree[g] = "one" THEN out[won[g]].sel ELSE merge[g].sel]

\* FAULT (WinnerStands): an error counts although a member has won.
FailsOnError(g) == g \in err \/ (IF tree[g] = "one" THEN won[g] = None ELSE merge[g].conflict)

\* The group as a whole fails: an error, unless One has a winner; no winner; or
\* members that disagree.
Fails(g) ==
  IF tree[g] = "one" THEN won[g] = None ELSE g \in err \/ merge[g].conflict

GroupFails(g) ==
  /\ AllSettled(g) /\ Fails(g) /\ Become(g, "failed")
  /\ UNCHANGED <<tree, given, out, shared, group, commits, broke>>

GroupEnds(g) ==
  /\ AllSettled(g) /\ ~Fails(g) /\ tree[g] # "one"
  /\ Become(g, "done") /\ out' = [out EXCEPT ![g] = Result(g)]
  /\ UNCHANGED <<tree, given, shared, group, commits, broke>>

\* FAULT (TriggersOnce): the inner winner's calls are not handed outwards.
AcceptAlone(g) ==
  /\ AllSettled(g) /\ ~Fails(g) /\ tree[g] = "one"
  /\ IF Pending(g) # {} THEN Become(g, "done") /\ out' = [out EXCEPT ![g] = Result(g)]
                        ELSE Become(g, "commit") /\ UNCHANGED out
  /\ UNCHANGED <<tree, given, shared, group, commits, broke>>

\* One accepts its winner: inside another One the winner's calls join the outer
\* member's, elsewhere they are now made.
Accept(g) ==
  /\ AllSettled(g) /\ ~Fails(g) /\ tree[g] = "one"
  /\ IF Pending(g) # {}
       THEN /\ queue' = [m \in Nodes |-> IF m \in Pending(g) THEN queue[m] \o queue[won[g]] ELSE queue[m]]
            /\ Become(g, "done") /\ out' = [out EXCEPT ![g] = Result(g)]
       ELSE Become(g, "commit") /\ UNCHANGED <<queue, out>>
  /\ UNCHANGED <<tree, given, shared, group, scheduled, faults, wanted, broke>>

\* The winner's calls are made one after another; the first failure ends One.
Commit(g) ==
  /\ st[g] = "commit" /\ queue[won[g]] # <<>>
  /\ \/ /\ queue' = [queue EXCEPT ![won[g]] = Tail(@)]
        /\ scheduled' = [scheduled EXCEPT ![Head(queue[won[g]])] = @ + 1]
        /\ UNCHANGED <<st, faults>>
     \/ /\ DeferFails /\ Become(g, "failed")
        /\ UNCHANGED <<queue, scheduled>>
  /\ UNCHANGED <<tree, given, out, shared, group, wanted, broke>>

Committed(g) ==
  /\ st[g] = "commit" /\ queue[won[g]] = <<>>
  /\ Become(g, "done") /\ out' = [out EXCEPT ![g] = Result(g)]
  /\ UNCHANGED <<tree, given, shared, group, commits, broke>>

Init ==
  /\ tree \in Trees
  /\ st = [n \in Nodes |-> IF n = <<>> THEN "on" ELSE "off"]
  /\ given = [n \in Nodes |-> IF n = <<>> THEN <<User>> ELSE <<>>]
  /\ shared = [n \in Nodes |-> IF n = <<>> THEN <<User>> ELSE <<>>]
  /\ out = [n \in Nodes |-> [chat |-> <<>>, sel |-> None]]
  /\ err = {} /\ cut = {} /\ won = [n \in Nodes |-> None]
  /\ merge = [n \in Nodes |-> [sel |-> None, conflict |-> FALSE]]
  /\ queue = [n \in Nodes |-> <<>>] /\ scheduled = [n \in Nodes |-> 0] /\ faults = 0
  /\ wanted = {} /\ broke = {}

Step(n) ==
  /\ n \in Nodes
  /\ \/ Start(n) \/ Speak(n) \/ Defer(n) \/ Settle(n)
     \/ \E sel \in Sels \cup {None} : Return(n, sel)
     \/ GroupFails(n) \/ GroupEnds(n) \/ Accept(n) \/ Commit(n) \/ Committed(n)

Next == \E n \in Nodes : Step(n) \/ Fail(n)

Spec == Init /\ [][Next]_vars

\* Goroutines run, and an agent whose context is gone returns.
FairSpec ==
  Spec /\ \A n \in UNION {DOMAIN t : t \in Trees} :
            WF_vars(Step(n)) /\ WF_vars(n \in Nodes /\ Cancelled(n) /\ Fail(n))

-----------------------------------------------------------------------------
Over(g) == st[g] \in {"commit", "done", "failed", "settled"}

\* Every One above a leaf took the member the leaf is in.
Accepted(n) ==
  \A g \in Above(n) : tree[g] = "one" => won[g] # None /\ IsPrefix(won[g], n)

AcceptedAloneSchedule ==
  \A n \in Nodes : scheduled[n] > 0 =>
    Accepted(n) /\ \A g \in Above(n) : tree[g] = "one" => Over(g)

\* A trigger reached in a One is scheduled only after every One around it has
\* ended with the branch it is in (authoring-guide.md:754-757), a losing member's
\* never; and when the run succeeds, each trigger that an accepted leaf reached
\* has been scheduled exactly once, however the Ones are nested.
TriggersOnce ==
  /\ AcceptedAloneSchedule
  /\ \A n \in Nodes : scheduled[n] <= 1
  /\ st[<<>>] = "done" => \A n \in wanted : scheduled[n] = 1 <=> Accepted(n)

\* No goroutine outlives the group that started it, winner or not.
NoOrphans == \A n \in Nodes : \A g \in Above(n) : Over(g) => st[n] = "settled"

\* An error of another member, before or after, does not undo One's winner.
WinnerStands ==
  \A g \in Nodes : tree[g] = "one" /\ st[g] = "failed" /\ faults = 0 => won[g] = None

\* The conflict flag is set exactly when two members have disagreed, in
\* whatever order they finished.
Disagree(g) ==
  \E m, n \in Kids(g) :
    /\ st[m] = "settled" /\ st[n] = "settled"
    /\ out[m].sel # None /\ out[n].sel # None /\ out[m].sel # out[n].sel

ConflictSeen == \A g \in Nodes : ~Leaf(g) /\ tree[g] # "one" => (merge[g].conflict <=> Disagree(g))

\* Declaration order.
Before(m, n) ==
  \E k \in (DOMAIN m) \cap (DOMAIN n) : m[k] < n[k] /\ SubSeq(m, 1, k - 1) = SubSeq(n, 1, k - 1)

\* Only All's members may stand below a Group: what the members of a nested One
\* or Group say is kept or lost otherwise.
Plain == \A n \in Nodes : SharedOf(n) # {} => tree[n] \in Leaves \cup {"all"}

\* When the run succeeds, its chat is the user's message and the reply of every
\* accepted leaf, once each, in declaration order unless they share a Group.
RepliesInOrder ==
  st[<<>>] = "done" /\ Plain =>
    LET chat == out[<<>>].chat
    IN /\ Head(chat) = User
       /\ \A n \in Nodes : Leaf(n) =>
            Cardinality({i \in 2..Len(chat) : chat[i] = n}) = (IF Accepted(n) THEN 1 ELSE 0)
       /\ \A i, j \in 2..Len(chat) :
            i < j /\ SharedOf(chat[i]) \cap SharedOf(chat[j]) = {} => Before(chat[i], chat[j])

\* A run ends although some agents return only when they are cancelled.
GroupEndsAtLast == <>(st[<<>>] \in {"done", "failed"})

-----------------------------------------------------------------------------
\* One ends with the first member to finish successfully (groups.go:94-95): it
\* fails only when every member has failed of its own accord.
OneOutlivesFailure ==
  \A g \in Nodes : tree[g] = "one" /\ st[g] = "failed" /\ faults = 0 =>
    \A m \in Kids(g) : Leaf(m) => m \in broke
=============================================================================
