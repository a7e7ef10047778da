------------------------------ MODULE MCFanOut ------------------------------
(***************************************************************************)
(* FanOut for TLC: the trees to run.                                       *)
(***************************************************************************)
EXTENDS FanOut

\* The tree of a group of kind k over the trees ts.
Tree(k, ts) ==
  [n \in {<<>>} \cup UNION {{<<i>> \o m : m \in DOMAIN ts[i]} : i \in DOMAIN ts} |->
     IF n = <<>> THEN k ELSE ts[n[1]][Tail(n)]]

One(t, u)   == Tree("one", <<t, u>>)
All(t, u)   == Tree("all", <<t, u>>)
Group(t, u) == Tree("group", <<t, u>>)

Leaf1(k) == [n \in {<<>>} |-> k]
A == Leaf1("agent")
R == Leaf1("router")
T == Leaf1("trigger")
W == Leaf1("wait")

\* Triggers under one and two Ones, under All inside and outside a One; Groups
\* inside All and One, All and One inside a Group; selections that may differ;
\* waiting agents beside others.
Various == {
  One(One(T, T), T), One(All(T, A), T), All(One(T, T), T), One(All(T, One(T, A)), A),
  One(Group(A, T), A), All(A, Group(A, A)), Group(A, All(R, R)), Group(One(A, T), A),
  Tree("all", <<R, R, R>>), One(All(R, R), R),
  One(T, W), One(All(T, W), A), Group(One(A, W), A)}

Race == {One(A, A)}
=============================================================================
