----------------------------- MODULE AnswerProofs -----------------------------
(***************************************************************************)
(* Proofs about what a served brain answers, where a client's flow is      *)
(* Durable as a whole: an answer tells all that is recorded for its run,   *)
(* each message of it was said by the flow that answers, and a client that *)
(* streams is sent, in order and once, what one that does not is answered. *)
(***************************************************************************)
EXTENDS RequestProofs

-----------------------------------------------------------------------------
(* What a flow tells of itself: its signature and its leaves.              *)

\* What f tells of itself, given what its parts tell: its signature, its leaves, and whether
\* it is a Respond.
Tells(g, f) ==
  [sig |-> CASE f.kind = "basic"     -> <<"basic", f.id, Len(f.agents)>>
             [] f.kind = "decorated" -> <<"dec", f.name, g[f.kids[1]].sig>>
             [] f.kind = "trigger"   -> <<"">>
             [] OTHER -> <<f.kind, [i \in DOMAIN f.kids |-> g[f.kids[i]].sig]>>,
   leaves |-> IF f.kind = "basic" THEN {f.id} ELSE UNION {g[f.kids[i]].leaves : i \in DOMAIN f.kids},
   responds |-> f.kind = "respond" \/ (f.kind = "decorated" /\ g[f.kids[1]].responds)]

\* g is what every flow tells; or the flows made before the k-th.
ToldByAll(g)          == g = [f \in Flows |-> Tells(g, f)]
ToldUpto(made, k, g)  == \A f \in Flows : made[f] < k => g[f] = Tells(g, f)

\* The parts of a flow are flows.
LEMMA PartsAre ==
  ASSUME NEW f \in Flows
  PROVE  /\ f.kids \in Seq(Flows) /\ DOMAIN f.kids \subseteq Nat
         /\ \A i \in DOMAIN f.kids : f.kids[i] \in Flows
         /\ f.kind = "decorated" => 1 \in DOMAIN f.kids /\ f.kids[1] \in Flows
<1>1. f.kids \in Seq(Flows) /\ (f.kind = "decorated" => f.kids # <<>>)
  BY FlowsAssumption
<1> QED
  BY <1>1

\* What f tells depends on its parts only.
LEMMA TellsParts ==
  ASSUME NEW f \in Flows, NEW g, NEW h, \A i \in DOMAIN f.kids : g[f.kids[i]] = h[f.kids[i]]
  PROVE  Tells(g, f) = Tells(h, f)
<1>1. f.kind = "decorated" => g[f.kids[1]] = h[f.kids[1]]
  BY PartsAre
<1>2. [i \in DOMAIN f.kids |-> g[f.kids[i]].sig] = [i \in DOMAIN f.kids |-> h[f.kids[i]].sig]
  OBVIOUS
<1>3. {g[f.kids[i]].leaves : i \in DOMAIN f.kids} = {h[f.kids[i]].leaves : i \in DOMAIN f.kids}
  OBVIOUS
<1> QED
  BY <1>1, <1>2, <1>3, Zenon DEF Tells

\* Something is told of the flows made before the k-th.
LEMMA ToldUptoExists ==
  ASSUME NEW made, BuiltUp(made), NEW k \in Nat
  PROVE  \E g : ToldUpto(made, k, g)
<1> DEFINE S == {n \in Nat : \E g : ToldUpto(made, n, g)}
<1>1. 0 \in S
  <2>1. ToldUpto(made, 0, <<>>)
    BY DEF ToldUpto, BuiltUp
  <2> QED
    BY <2>1
<1>2. ASSUME NEW n \in Nat, n \in S PROVE n + 1 \in S
  <2>1. PICK g : ToldUpto(made, n, g)
    BY <1>2
  <2> DEFINE h == [f \in Flows |-> IF made[f] < n THEN g[f] ELSE Tells(g, f)]
  <2>2. ASSUME NEW f \in Flows, made[f] < n + 1 PROVE h[f] = Tells(h, f)
    <3>1. h[f] = Tells(g, f)
      BY <2>1 DEF ToldUpto
    <3>2. ASSUME NEW i \in DOMAIN f.kids PROVE g[f.kids[i]] = h[f.kids[i]]
      <4>1. f.kids[i] \in Flows
        BY PartsAre
      <4>2. made[f.kids[i]] \in Nat /\ made[f] \in Nat /\ made[f.kids[i]] < made[f]
        BY <4>1 DEF BuiltUp
      <4>3. made[f.kids[i]] < n
        BY <2>2, <4>2
      <4> QED
        BY <4>1, <4>3
    <3> HIDE DEF h
    <3> QED
      BY <3>1, <3>2, TellsParts
  <2> HIDE DEF h
  <2>3. ToldUpto(made, n + 1, h)
    BY <2>2 DEF ToldUpto
  <2> QED
    BY <2>3
<1> HIDE DEF S
<1>3. k \in S
  BY <1>1, <1>2, Induction
<1> QED
  BY <1>3 DEF S

\* Two tellings agree as far as both go.
LEMMA ToldUptoAgree ==
  ASSUME NEW made, BuiltUp(made), NEW j \in Nat, NEW k \in Nat, NEW g, NEW h,
         ToldUpto(made, j, g), ToldUpto(made, k, h), NEW f \in Flows, made[f] < j, made[f] < k
  PROVE  g[f] = h[f]
<1> DEFINE S == {n \in Nat : \A x \in Flows :
                   made[x] < n /\ made[x] < j /\ made[x] < k => g[x] = h[x]}
<1>1. 0 \in S
  BY DEF BuiltUp
<1>2. ASSUME NEW n \in Nat, n \in S PROVE n + 1 \in S
  <2> SUFFICES ASSUME NEW x \in Flows, made[x] < n + 1, made[x] < j, made[x] < k PROVE g[x] = h[x]
    OBVIOUS
  <2>1. ASSUME NEW i \in DOMAIN x.kids PROVE g[x.kids[i]] = h[x.kids[i]]
    <3>1. x.kids[i] \in Flows
      BY PartsAre
    <3>2. made[x.kids[i]] \in Nat /\ made[x] \in Nat /\ made[x.kids[i]] < made[x]
      BY <3>1 DEF BuiltUp
    <3>3. made[x.kids[i]] < n /\ made[x.kids[i]] < j /\ made[x.kids[i]] < k
      BY <3>2
    <3> QED
      BY <1>2, <3>1, <3>3
  <2>2. g[x] = Tells(g, x) /\ h[x] = Tells(h, x)
    BY DEF ToldUpto
  <2> QED
    BY <2>1, <2>2, TellsParts
<1> HIDE DEF S
<1>3. made[f] + 1 \in Nat /\ made[f] < made[f] + 1
  BY DEF BuiltUp
<1>4. made[f] + 1 \in S
  BY <1>1, <1>2, <1>3, Induction
<1> QED
  BY <1>3, <1>4 DEF S

\* So something is told of all.
LEMMA ToldByAllExists ==
  ASSUME NEW made, BuiltUp(made)
  PROVE  \E g : ToldByAll(g)
<1> DEFINE p(f) == CHOOSE g : ToldUpto(made, made[f] + 1, g)
           w    == [f \in Flows |-> p(f)[f]]
<1>1. ASSUME NEW f \in Flows
      PROVE  made[f] + 1 \in Nat /\ made[f] < made[f] + 1 /\ ToldUpto(made, made[f] + 1, p(f))
  <2>1. made[f] + 1 \in Nat /\ made[f] < made[f] + 1
    BY DEF BuiltUp
  <2> QED
    BY <2>1, ToldUptoExists
<1>2. ASSUME NEW f \in Flows PROVE w[f] = Tells(w, f)
  <2>1. w[f] = Tells(p(f), f)
    BY <1>1 DEF ToldUpto
  <2>2. ASSUME NEW i \in DOMAIN f.kids PROVE p(f)[f.kids[i]] = w[f.kids[i]]
    <3>1. f.kids[i] \in Flows
      BY PartsAre
    <3>2. made[f.kids[i]] \in Nat /\ made[f] \in Nat /\ made[f.kids[i]] < made[f]
      BY <3>1 DEF BuiltUp
    <3>3. made[f.kids[i]] < made[f] + 1
      BY <3>2
    <3>4. /\ ToldUpto(made, made[f] + 1, p(f)) /\ made[f] + 1 \in Nat
          /\ ToldUpto(made, made[f.kids[i]] + 1, p(f.kids[i])) /\ made[f.kids[i]] + 1 \in Nat
          /\ made[f.kids[i]] < made[f.kids[i]] + 1
      BY <1>1, <3>1
    <3>5. w[f.kids[i]] = p(f.kids[i])[f.kids[i]]
      BY <3>1
    <3> HIDE DEF p, w
    <3>6. p(f)[f.kids[i]] = p(f.kids[i])[f.kids[i]]
      BY <3>1, <3>3, <3>4, ToldUptoAgree
    <3> QED
      BY <3>5, <3>6
  <2> HIDE DEF p, w
  <2> QED
    BY <2>1, <2>2, TellsParts
<1>3. w = [f \in Flows |-> w[f]]
  OBVIOUS
<1> HIDE DEF p, w
<1>4. w = [f \in Flows |-> Tells(w, f)]
  BY <1>2, <1>3, Zenon
<1> QED
  BY <1>4, Zenon DEF ToldByAll

\* The signature of a flow, its leaves, and whether it is a Respond, from those of its parts.
SigStep(s, f) ==
  CASE f.kind = "basic"     -> <<"basic", f.id, Len(f.agents)>>
    [] f.kind = "decorated" -> <<"dec", f.name, s[f.kids[1]]>>
    [] f.kind = "trigger"   -> <<"">>
    [] OTHER -> <<f.kind, [i \in DOMAIN f.kids |-> s[f.kids[i]]]>>
LeafStep(l, f)    == IF f.kind = "basic" THEN {f.id} ELSE UNION {l[f.kids[i]] : i \in DOMAIN f.kids}
RespondStep(t, f) == f.kind = "respond" \/ (f.kind = "decorated" /\ t[f.kids[1]])

\* structureSig is the signature of every flow.
LEMMA SigIs ==
  ASSUME NEW made, BuiltUp(made), NEW f \in Flows
  PROVE  structureSig[f] = SigStep(structureSig, f)
<1>1. PICK g : ToldByAll(g)
  BY ToldByAllExists
<1> DEFINE s == [x \in Flows |-> g[x].sig]
<1>2. ASSUME NEW x \in Flows PROVE s[x] = SigStep(s, x)
  <2>1. g[x].sig = Tells(g, x).sig
    BY <1>1, Zenon DEF ToldByAll
  <2>2. \A i \in DOMAIN x.kids : x.kids[i] \in Flows /\ s[x.kids[i]] = g[x.kids[i]].sig
    BY PartsAre
  <2>3. x.kind = "decorated" => s[x.kids[1]] = g[x.kids[1]].sig
    BY PartsAre
  <2>4. [i \in DOMAIN x.kids |-> s[x.kids[i]]] = [i \in DOMAIN x.kids |-> g[x.kids[i]].sig]
    BY <2>2, Zenon
  <2>5. s[x] = g[x].sig
    OBVIOUS
  <2> HIDE DEF s
  <2> QED
    BY <2>1, <2>3, <2>4, <2>5, Zenon DEF Tells, SigStep
<1>3. s = [x \in Flows |-> SigStep(s, x)]
  <2>1. s = [x \in Flows |-> s[x]]
    OBVIOUS
  <2> HIDE DEF s
  <2> QED
    BY <1>2, <2>1, Zenon
<1> HIDE DEF s
<1>4. structureSig = [x \in Flows |-> SigStep(structureSig, x)]
  BY <1>3, Zenon DEF structureSig, SigStep
<1> HIDE DEF structureSig
<1> QED
  BY <1>4, Zenon

\* Leaves are the leaves of every flow.
LEMMA LeavesAre ==
  ASSUME NEW made, BuiltUp(made), NEW f \in Flows
  PROVE  Leaves[f] = LeafStep(Leaves, f)
<1>1. PICK g : ToldByAll(g)
  BY ToldByAllExists
<1> DEFINE l == [x \in Flows |-> g[x].leaves]
<1>2. ASSUME NEW x \in Flows PROVE l[x] = LeafStep(l, x)
  <2>1. g[x].leaves = Tells(g, x).leaves
    BY <1>1, Zenon DEF ToldByAll
  <2>2. \A i \in DOMAIN x.kids : x.kids[i] \in Flows /\ l[x.kids[i]] = g[x.kids[i]].leaves
    BY PartsAre
  <2>3. {l[x.kids[i]] : i \in DOMAIN x.kids} = {g[x.kids[i]].leaves : i \in DOMAIN x.kids}
    BY <2>2
  <2>4. l[x] = g[x].leaves
    OBVIOUS
  <2> HIDE DEF l
  <2> QED
    BY <2>1, <2>3, <2>4, Zenon DEF Tells, LeafStep
<1>3. l = [x \in Flows |-> LeafStep(l, x)]
  <2>1. l = [x \in Flows |-> l[x]]
    OBVIOUS
  <2> HIDE DEF l
  <2> QED
    BY <1>2, <2>1, Zenon
<1> HIDE DEF l
<1>4. Leaves = [x \in Flows |-> LeafStep(Leaves, x)]
  BY <1>3, ZenonT(40) DEF Leaves, LeafStep
<1> HIDE DEF Leaves
<1> QED
  BY <1>4, Zenon

\* isRespond tells of every flow whether it is a Respond.
LEMMA RespondIs ==
  ASSUME NEW made, BuiltUp(made), NEW f \in Flows
  PROVE  isRespond[f] = RespondStep(isRespond, f)
<1>1. PICK g : ToldByAll(g)
  BY ToldByAllExists
<1> DEFINE t == [x \in Flows |-> g[x].responds]
<1>2. ASSUME NEW x \in Flows PROVE t[x] = RespondStep(t, x)
  <2>1. g[x].responds = Tells(g, x).responds
    BY <1>1, Zenon DEF ToldByAll
  <2>2. x.kind = "decorated" => t[x.kids[1]] = g[x.kids[1]].responds
    BY PartsAre
  <2>3. t[x] = g[x].responds
    OBVIOUS
  <2> HIDE DEF t
  <2> QED
    BY <2>1, <2>2, <2>3, Zenon DEF Tells, RespondStep
<1>3. t = [x \in Flows |-> RespondStep(t, x)]
  <2>1. t = [x \in Flows |-> t[x]]
    OBVIOUS
  <2> HIDE DEF t
  <2> QED
    BY <1>2, <2>1, Zenon
<1> HIDE DEF t
<1>4. isRespond = [x \in Flows |-> RespondStep(isRespond, x)]
  BY <1>3, Zenon DEF isRespond, RespondStep
<1> HIDE DEF isRespond
<1> QED
  BY <1>4, Zenon

\* Flows are as their builders make them: a wrapper wraps one flow, and has its own
\* name for an id or else that of what it wraps; a chain has the id of its only step
\* that has one; a Select, and what holds no flows, has none, and the members of a
\* Select have one.
WellMade ==
  \A f \in Flows :
    /\ f.kind \in Kinds
    /\ f.kind = "decorated" =>
         /\ Len(f.kids) = 1
         /\ f.id = IF f.name # None THEN f.name ELSE f.kids[1].id
    /\ f.kind = "seq" => f.id = seq(f.kids).id
    /\ f.kind \in {"select", "respond", "notify", "trigger"} => f.id = None
    /\ f.kind = "select" => \A i \in DOMAIN f.kids : f.kids[i].id # None
    /\ f.kind \in {"respond", "notify", "trigger"} => f.kids = <<>>

\* What the signature of a flow shows of it.
Shows(f) ==
  LET s == structureSig[f] IN
  /\ f.kind = "basic" <=> s[1] = "basic"
  /\ f.kind = "decorated" <=> s[1] = "dec"
  /\ f.kind = "seq" <=> s[1] = "seq"
  /\ f.kind = "select" <=> s[1] = "select"
  /\ f.kind = "trigger" <=> s[1] = ""
  /\ f.kind = "respond" <=> s[1] = "respond"
  /\ f.kind = "basic" => s[2] = f.id
  /\ f.kind = "decorated" => s[2] = f.name /\ s[3] = structureSig[f.kids[1]]
  /\ f.kind \in {"seq", "select"} => s[2] = [i \in DOMAIN f.kids |-> structureSig[f.kids[i]]]

\* And it shows that.
LEMMA SigShows ==
  ASSUME NEW made, BuiltUp(made), WellMade, NEW f \in Flows
  PROVE  f.kind \in Kinds /\ Shows(f)
<1> DEFINE kids == [i \in DOMAIN f.kids |-> structureSig[f.kids[i]]]
<1>1. structureSig[f] = SigStep(structureSig, f)
  BY SigIs
<1>2. f.kind \in Kinds
  BY DEF WellMade
<1> HIDE DEF structureSig
<1>3. CASE f.kind = "basic"
  <2>1. structureSig[f] = <<"basic", f.id, Len(f.agents)>>
    BY <1>1, <1>3 DEF SigStep
  <2>2. structureSig[f][1] = "basic" /\ structureSig[f][2] = f.id
    BY <2>1
  <2> QED
    BY <1>3, <2>2 DEF Shows, Kinds
<1>4. CASE f.kind = "decorated"
  <2>1. structureSig[f] = <<"dec", f.name, structureSig[f.kids[1]]>>
    BY <1>1, <1>4 DEF SigStep
  <2>2. structureSig[f][1] = "dec" /\ structureSig[f][2] = f.name /\ structureSig[f][3] = structureSig[f.kids[1]]
    BY <2>1
  <2> QED
    BY <1>4, <2>2 DEF Shows, Kinds
<1>5. CASE f.kind = "trigger"
  <2>1. structureSig[f] = <<"">>
    BY <1>1, <1>5 DEF SigStep
  <2>2. <<"">>[1] = ""
    OBVIOUS
  <2>3. structureSig[f][1] = ""
    BY <2>1, <2>2, Zenon
  <2> QED
    BY <1>5, <2>3 DEF Shows, Kinds
<1>6. CASE f.kind \in {"seq", "select", "respond", "notify"}
  <2>1. structureSig[f] = <<f.kind, kids>>
    BY <1>1, <1>6 DEF SigStep
  <2> HIDE DEF kids
  <2>2. structureSig[f][1] = f.kind /\ structureSig[f][2] = kids
    BY <2>1
  <2> QED
    BY <1>2, <1>6, <2>2 DEF kids, Shows
<1> QED
  BY <1>2, <1>3, <1>4, <1>5, <1>6 DEF Kinds

\* The signature tells the id and the leaves.
LEMMA SigTells ==
  ASSUME NEW made, BuiltUp(made), WellMade, NEW f \in Flows, NEW g \in Flows,
         structureSig[f] = structureSig[g]
  PROVE  f.id = g.id /\ Leaves[f] = Leaves[g]
<1> HIDE DEF structureSig, Leaves
<1> DEFINE S == {n \in Nat : \A x, y \in Flows :
                   made[x] < n /\ structureSig[x] = structureSig[y] => x.id = y.id /\ Leaves[x] = Leaves[y]}
<1>1. 0 \in S
  BY DEF BuiltUp
<1>2. ASSUME NEW n \in Nat, n \in S PROVE n + 1 \in S
  <2> SUFFICES ASSUME NEW x \in Flows, NEW y \in Flows, made[x] < n + 1, structureSig[x] = structureSig[y]
               PROVE  x.id = y.id /\ Leaves[x] = Leaves[y]
    OBVIOUS
  <2>1. ASSUME NEW i \in DOMAIN x.kids, NEW v \in Flows, structureSig[x.kids[i]] = structureSig[v]
        PROVE  x.kids[i].id = v.id /\ Leaves[x.kids[i]] = Leaves[v]
    <3>1. x.kids[i] \in Flows
      BY PartsAre
    <3>2. made[x.kids[i]] \in Nat /\ made[x] \in Nat /\ made[x.kids[i]] < made[x]
      BY <3>1 DEF BuiltUp
    <3>3. made[x.kids[i]] < n
      BY <3>2
    <3> QED
      BY <1>2, <2>1, <3>1, <3>3
  <2>2. /\ Leaves[x] = LeafStep(Leaves, x) /\ Leaves[y] = LeafStep(Leaves, y)
        /\ \A i \in DOMAIN y.kids : y.kids[i] \in Flows
        /\ x.kind = "decorated" => 1 \in DOMAIN x.kids
        /\ y.kind = "decorated" => 1 \in DOMAIN y.kids
    BY LeavesAre, PartsAre
  <2>8. /\ x.kind \in Kinds /\ y.kind \in Kinds /\ Shows(x) /\ Shows(y)
        /\ structureSig[x] = structureSig[y]
    BY SigShows
  <2>3. /\ x.kind \in {"basic", "decorated", "seq", "select", "trigger"} => y.kind = x.kind
        /\ y.kind \in {"basic", "decorated", "seq", "select", "trigger"} => y.kind = x.kind
    BY <2>8 DEF Shows
  <2>4. CASE x.kind = "basic"
    <3>1. y.kind = "basic" /\ structureSig[x][2] = x.id /\ (y.kind = "basic" => structureSig[y][2] = y.id)
      BY <2>3, <2>4, <2>8, Zenon DEF Shows
    <3>2. x.id = y.id
      BY <2>8, <3>1, Zenon
    <3> QED
      BY <2>2, <2>4, <3>1, <3>2 DEF LeafStep
  <2>5. CASE x.kind = "decorated"
    <3>1. y.kind = "decorated" /\ y.name = x.name /\ structureSig[x.kids[1]] = structureSig[y.kids[1]]
      <4>1. /\ y.kind = "decorated" /\ structureSig[x][2] = x.name /\ structureSig[x][3] = structureSig[x.kids[1]]
            /\ y.kind = "decorated" => structureSig[y][2] = y.name /\ structureSig[y][3] = structureSig[y.kids[1]]
        BY <2>3, <2>5, <2>8, Zenon DEF Shows
      <4> QED
        BY <2>8, <4>1, Zenon
    <3>2. x.kids[1].id = y.kids[1].id /\ Leaves[x.kids[1]] = Leaves[y.kids[1]]
      BY <2>1, <2>2, <2>5, <3>1
    <3>3. DOMAIN x.kids = {1} /\ DOMAIN y.kids = {1}
      <4>1. Len(x.kids) = 1 /\ Len(y.kids) = 1 /\ x.kids \in Seq(Flows) /\ y.kids \in Seq(Flows)
        BY <2>5, <3>1, PartsAre DEF WellMade
      <4> QED
        BY <4>1
    <3>4. Leaves[x] = UNION {Leaves[x.kids[1]]} /\ Leaves[y] = UNION {Leaves[y.kids[1]]}
      BY <2>2, <2>5, <3>1, <3>3 DEF LeafStep
    <3> QED
      BY <2>5, <3>1, <3>2, <3>4 DEF WellMade
  <2>6. CASE x.kind \in {"seq", "select"}
    <3>1. y.kind = x.kind
      BY <2>3, <2>6
    <3>2. [i \in DOMAIN x.kids |-> structureSig[x.kids[i]]] = [i \in DOMAIN y.kids |-> structureSig[y.kids[i]]]
      BY <2>6, <2>8, <3>1 DEF Shows
    <3>3. DOMAIN x.kids = DOMAIN y.kids /\ \A i \in DOMAIN x.kids : structureSig[x.kids[i]] = structureSig[y.kids[i]]
      <4> DEFINE u == [i \in DOMAIN x.kids |-> structureSig[x.kids[i]]]
                 w == [i \in DOMAIN y.kids |-> structureSig[y.kids[i]]]
      <4>1. u = w
        BY <3>2
      <4>2. DOMAIN u = DOMAIN x.kids /\ DOMAIN w = DOMAIN y.kids
        OBVIOUS
      <4>3. \A i \in DOMAIN x.kids : u[i] = structureSig[x.kids[i]]
        OBVIOUS
      <4>4. \A i \in DOMAIN y.kids : w[i] = structureSig[y.kids[i]]
        OBVIOUS
      <4> HIDE DEF u, w
      <4> QED
        BY <4>1, <4>2, <4>3, <4>4
    <3>4. ASSUME NEW i \in DOMAIN x.kids PROVE x.kids[i].id = y.kids[i].id /\ Leaves[x.kids[i]] = Leaves[y.kids[i]]
      BY <2>1, <2>2, <3>3
    <3>5. Leaves[x] = Leaves[y]
      <4>1. {Leaves[x.kids[i]] : i \in DOMAIN x.kids} = {Leaves[y.kids[i]] : i \in DOMAIN y.kids}
        BY <3>3, <3>4
      <4> QED
        BY <2>2, <2>6, <3>1, <4>1 DEF LeafStep
    <3>6. CASE x.kind = "select"
      BY <3>1, <3>5, <3>6 DEF WellMade
    <3>7. CASE x.kind = "seq"
      <4>1. [i \in DOMAIN x.kids |-> x.kids[i].id] = [i \in DOMAIN y.kids |-> y.kids[i].id]
        BY <3>3, <3>4
      <4>2. idsOf(x.kids) = idsOf(y.kids)
        BY <4>1, Zenon DEF idsOf
      <4>3. x.id = seq(x.kids).id /\ y.id = seq(y.kids).id
        BY <3>1, <3>7 DEF WellMade
      <4>4. \A k : seq(k).id = IF Len(idsOf(k)) = 1 THEN idsOf(k)[1] ELSE None
        BY DEF seq, Flow
      <4>5. x.id = (IF Len(idsOf(x.kids)) = 1 THEN idsOf(x.kids)[1] ELSE None)
            /\ y.id = (IF Len(idsOf(y.kids)) = 1 THEN idsOf(y.kids)[1] ELSE None)
        BY <4>3, <4>4, Zenon
      <4> QED
        BY <3>5, <4>2, <4>5, Zenon
    <3> QED
      BY <2>6, <3>6, <3>7
  <2>7. CASE x.kind \in {"respond", "notify", "trigger"}
    <3>1. y.kind \in {"respond", "notify", "trigger"}
      BY <2>3, <2>7, <2>8 DEF Kinds
    <3>2. x.id = None /\ y.id = None /\ x.kids = <<>> /\ y.kids = <<>>
      BY <2>7, <3>1 DEF WellMade
    <3>3. Leaves[x] = {} /\ Leaves[y] = {}
      BY <2>2, <2>7, <3>1, <3>2 DEF LeafStep
    <3> QED
      BY <3>2, <3>3
  <2> QED
    BY <2>8, <2>4, <2>5, <2>6, <2>7 DEF Kinds
<1> HIDE DEF S
<1>3. made[f] + 1 \in Nat /\ made[f] < made[f] + 1
  BY DEF BuiltUp
<1>4. made[f] + 1 \in S
  BY <1>1, <1>2, <1>3, Induction
<1> QED
  BY <1>3, <1>4 DEF S

-----------------------------------------------------------------------------
(* Where a pass stands, but for what the signature does not show.          *)

\* A Durable that wraps is what it wraps.
Inner(f)   == IF f.durable /\ f.kind = "decorated" THEN f.kids[1] ELSE f
FrameOf(x) == [sig |-> structureSig[Inner(x.flow)], path |-> x.path, pos |-> x.pos]

\* The standing of a stack and a State.
ConfOf(s, t) == [depth |-> Len(s), frames |-> [i \in 1..Len(s) |-> FrameOf(s[i])],
                 chat |-> t.chat, sel |-> t.sel, sent |-> t.sent]

\* The innermost flow returns, is replaced, is covered.
Back(C, chat, sel, sent) ==
  [depth  |-> C.depth - 1,
   frames |-> [i \in 1..C.depth - 1 |-> IF i = 1 THEN [C.frames[2] EXCEPT !.pos = @ + 1] ELSE C.frames[i + 1]],
   chat |-> chat, sel |-> sel, sent |-> sent]
Into(C, x, sel) ==
  [depth  |-> C.depth, frames |-> [i \in 1..C.depth |-> IF i = 1 THEN x ELSE C.frames[i]],
   chat |-> C.chat, sel |-> sel, sent |-> C.sent]
Down(C, x) ==
  [depth  |-> C.depth + 1, frames |-> [i \in 1..C.depth + 1 |-> IF i = 1 THEN x ELSE C.frames[i - 1]],
   chat |-> C.chat, sel |-> C.sel, sent |-> C.sent]

\* The standing when the innermost flow returns.
LEMMA ConfPopped ==
  ASSUME NEW s, StackOK(s), s # <<>>, NEW t, NEW u
  PROVE  ConfOf(IF Len(s) = 1 THEN <<>> ELSE Popped(s), t) = Back(ConfOf(s, u), t.chat, t.sel, t.sent)
<1> DEFINE n == IF Len(s) = 1 THEN <<>> ELSE Popped(s)
           C == ConfOf(s, u)
<1>1. s \in Seq(Frames) /\ Len(s) \in Nat \ {0}
  BY DEF StackOK
<1>2. C.depth = Len(s) /\ C.frames = [i \in 1..Len(s) |-> FrameOf(s[i])]
  BY DEF ConfOf
<1>3. Len(n) = Len(s) - 1
  <2>1. CASE Len(s) = 1
    BY <2>1
  <2>2. CASE Len(s) # 1
    BY <2>2, PoppedIs
  <2> QED
    BY <2>1, <2>2
<1>4. ASSUME NEW i \in 1..Len(s) - 1
      PROVE  FrameOf(n[i]) = IF i = 1 THEN [C.frames[2] EXCEPT !.pos = @ + 1] ELSE C.frames[i + 1]
  <2>1. /\ Len(s) # 1 /\ n = Popped(s)
        /\ s[2] \in Frames /\ 2 \in 1..Len(s) /\ n[1] = [s[2] EXCEPT !.pos = @ + 1]
        /\ i > 1 => i + 1 \in 1..Len(s) /\ n[i] = s[i + 1]
    BY <1>1, <1>3, <1>4, PoppedIs
  <2>2. CASE i = 1
    <3>1. C.frames[2] = FrameOf(s[2])
      BY <1>2, <2>1
    <3>2. n[1].flow = s[2].flow /\ n[1].path = s[2].path /\ n[1].pos = s[2].pos + 1
      BY <2>1 DEF Frames
    <3> HIDE DEF n, C
    <3> QED
      BY <2>2, <3>1, <3>2 DEF FrameOf
  <2>3. CASE i # 1
    <3>1. i > 1
      BY <1>4, <2>3
    <3>2. C.frames[i + 1] = FrameOf(s[i + 1]) /\ n[i] = s[i + 1]
      BY <1>2, <2>1, <3>1
    <3> QED
      BY <2>3, <3>2
  <2> QED
    BY <2>2, <2>3
<1> HIDE DEF n, C
<1>5. ConfOf(n, t).frames = Back(C, t.chat, t.sel, t.sent).frames
  BY <1>1, <1>2, <1>3, <1>4 DEF ConfOf, Back
<1>6. ConfOf(n, t) = Back(C, t.chat, t.sel, t.sent)
  BY <1>1, <1>2, <1>3, <1>5 DEF ConfOf, Back
<1> QED
  BY <1>6 DEF n, C

\* The standing when the innermost flow hands over.
LEMMA ConfReplaced ==
  ASSUME NEW s, StackOK(s), s # <<>>, NEW x \in Frames, NEW t, NEW u, t.chat = u.chat, t.sent = u.sent
  PROVE  ConfOf(Replaced(s, x), t) = Into(ConfOf(s, u), FrameOf(x), t.sel)
<1> DEFINE n == Replaced(s, x)
           C == ConfOf(s, u)
<1>1. /\ Len(n) = Len(s) /\ Len(s) \in Nat \ {0} /\ n[1] = x /\ DOMAIN n = 1..Len(s)
      /\ \A i \in DOMAIN n : i > 1 => i \in DOMAIN s /\ n[i] = s[i]
  BY ReplacedIs
<1>2. C.depth = Len(s) /\ C.frames = [i \in 1..Len(s) |-> FrameOf(s[i])] /\ C.chat = u.chat /\ C.sent = u.sent
  BY DEF ConfOf
<1> HIDE DEF n, C
<1>3. ASSUME NEW i \in 1..Len(s) PROVE FrameOf(n[i]) = IF i = 1 THEN FrameOf(x) ELSE C.frames[i]
  BY <1>1, <1>2
<1>4. ConfOf(n, t).frames = Into(C, FrameOf(x), t.sel).frames
  BY <1>1, <1>2, <1>3 DEF ConfOf, Into
<1>5. ConfOf(n, t) = Into(C, FrameOf(x), t.sel)
  BY <1>1, <1>2, <1>4 DEF ConfOf, Into
<1> QED
  BY <1>5 DEF n, C

\* The standing when a step of the innermost flow is entered.
LEMMA ConfPushed ==
  ASSUME NEW s, StackOK(s), NEW x \in Frames, NEW t, NEW u, t.chat = u.chat, t.sel = u.sel, t.sent = u.sent
  PROVE  ConfOf(Pushed(s, x), t) = Down(ConfOf(s, u), FrameOf(x))
<1> DEFINE n == Pushed(s, x)
           C == ConfOf(s, u)
<1>1. /\ Len(n) = Len(s) + 1 /\ Len(s) \in Nat /\ n[1] = x /\ DOMAIN n = 1..Len(s) + 1
      /\ \A i \in DOMAIN n : i > 1 => i - 1 \in DOMAIN s /\ n[i] = s[i - 1]
      /\ DOMAIN s = 1..Len(s)
  BY PushedIs DEF StackOK
<1>2. C.depth = Len(s) /\ C.frames = [i \in 1..Len(s) |-> FrameOf(s[i])] /\ C.chat = u.chat /\ C.sel = u.sel
      /\ C.sent = u.sent
  BY DEF ConfOf
<1> HIDE DEF n, C
<1>3. ASSUME NEW i \in 1..Len(s) + 1 PROVE FrameOf(n[i]) = IF i = 1 THEN FrameOf(x) ELSE C.frames[i - 1]
  BY <1>1, <1>2
<1>4. ConfOf(n, t).frames = Down(C, FrameOf(x)).frames
  BY <1>1, <1>2, <1>3 DEF ConfOf, Down
<1>5. ConfOf(n, t) = Down(C, FrameOf(x))
  BY <1>1, <1>2, <1>4 DEF ConfOf, Down
<1> QED
  BY <1>5 DEF n, C

\* The types of a standing.
ConfOK(C) ==
  /\ C.depth \in Nat
  /\ \A i \in 1..C.depth :
       C.frames[i].path \in Paths /\ C.frames[i].pos \in Nat /\ DOMAIN C.frames[i] = {"sig", "path", "pos"}

\* It is, of every stack.
LEMMA ConfTyped ==
  ASSUME NEW s, StackOK(s), NEW t
  PROVE  ConfOK(ConfOf(s, t))
<1>1. Len(s) \in Nat /\ \A i \in 1..Len(s) : s[i] \in Frames
  BY DEF StackOK
<1> QED
  BY <1>1 DEF ConfOK, ConfOf, FrameOf, Frames

\* The place p is behind the standing C: inside steps that are over, or were entered.
Past(p, C) ==
  \A i \in 1..C.depth : Starts(p, C.frames[i].path) =>
    /\ C.frames[i].sig[1] = "seq" /\ Len(p) > Len(C.frames[i].path)
    /\ p[Len(C.frames[i].path) + 1] \in 1..(IF i = 1 THEN C.frames[i].pos - 1 ELSE C.frames[i].pos)

\* What is behind stays behind.
LEMMA PastBack ==
  ASSUME NEW C, ConfOK(C), NEW p \in Paths, Past(p, C), NEW chat, NEW sel, NEW sent
  PROVE  Past(p, Back(C, chat, sel, sent))
<1> DEFINE D == Back(C, chat, sel, sent)
<1>1. C.depth \in Nat /\ D.depth = C.depth - 1
  BY DEF Back, ConfOK
<1>2. ASSUME NEW i \in 1..D.depth, Starts(p, D.frames[i].path)
      PROVE  /\ D.frames[i].sig[1] = "seq" /\ Len(p) > Len(D.frames[i].path)
             /\ p[Len(D.frames[i].path) + 1] \in 1..(IF i = 1 THEN D.frames[i].pos - 1 ELSE D.frames[i].pos)
  <2>1. i + 1 \in 1..C.depth /\ i + 1 # 1 /\ C.frames[i + 1].pos \in Nat
    BY <1>1 DEF ConfOK
  <2>2. /\ D.frames[i].sig = C.frames[i + 1].sig /\ D.frames[i].path = C.frames[i + 1].path
        /\ i = 1 => D.frames[i].pos = C.frames[i + 1].pos + 1
        /\ i # 1 => D.frames[i].pos = C.frames[i + 1].pos
    <3>1. D.frames[i] = IF i = 1 THEN [C.frames[2] EXCEPT !.pos = @ + 1] ELSE C.frames[i + 1]
      BY <1>1 DEF Back
    <3>2. DOMAIN C.frames[i + 1] = {"sig", "path", "pos"}
      BY <2>1 DEF ConfOK
    <3> HIDE DEF D
    <3> QED
      BY <3>1, <3>2
  <2> HIDE DEF D
  <2>3. IF i = 1 THEN D.frames[i].pos - 1 = C.frames[i + 1].pos ELSE D.frames[i].pos = C.frames[i + 1].pos
    BY <2>1, <2>2
  <2> QED
    BY <1>2, <2>1, <2>2, <2>3 DEF Past
<1> HIDE DEF D
<1>3. Past(p, D)
  BY <1>2 DEF Past
<1> QED
  BY <1>3 DEF D

\* It stays behind when the innermost flow, no chain, hands over.
LEMMA PastInto ==
  ASSUME NEW C, ConfOK(C), C.depth # 0, NEW p \in Paths, Past(p, C), NEW x, NEW sel,
         x.path \in Paths, Starts(x.path, C.frames[1].path), C.frames[1].sig[1] # "seq"
  PROVE  Past(p, Into(C, x, sel))
<1> DEFINE D == Into(C, x, sel)
<1>1. C.depth \in Nat /\ D.depth = C.depth /\ 1 \in 1..C.depth /\ C.frames[1].path \in Paths
      /\ \A i \in 1..C.depth : D.frames[i] = IF i = 1 THEN x ELSE C.frames[i]
  BY DEF Into, ConfOK
<1> HIDE DEF D
<1>2. ~Starts(p, x.path)
  BY <1>1, StartsOn DEF Past
<1>3. Past(p, D)
  BY <1>1, <1>2 DEF Past
<1> QED
  BY <1>3 DEF D

\* And when a step is entered.
LEMMA PastDown ==
  ASSUME NEW C, ConfOK(C), C.depth # 0, NEW p \in Paths, Past(p, C), NEW x,
         x.path = Append(C.frames[1].path, C.frames[1].pos)
  PROVE  Past(p, Down(C, x))
<1> DEFINE D == Down(C, x)
<1>1. C.depth \in Nat /\ D.depth = C.depth + 1 /\ 1 \in 1..C.depth /\ C.frames[1].path \in Paths
      /\ C.frames[1].pos \in Nat
      /\ \A i \in 1..C.depth + 1 : D.frames[i] = IF i = 1 THEN x ELSE C.frames[i - 1]
  BY DEF Down, ConfOK
<1> HIDE DEF D
<1>2. ~Starts(p, x.path)
  <2> SUFFICES ASSUME Starts(p, x.path) PROVE FALSE
    OBVIOUS
  <2>1. x.path \in Paths /\ Starts(x.path, C.frames[1].path) /\ Len(x.path) = Len(C.frames[1].path) + 1
        /\ x.path[Len(C.frames[1].path) + 1] = C.frames[1].pos /\ Len(C.frames[1].path) \in Nat
    <3>1. \A q \in Paths, n \in Nat : /\ Append(q, n) \in Paths /\ Starts(Append(q, n), q) /\ Len(q) \in Nat
                                      /\ Len(Append(q, n)) = Len(q) + 1 /\ Append(q, n)[Len(q) + 1] = n
      BY AppendIs, AppendStarts
    <3> DEFINE q == C.frames[1].path
               n == C.frames[1].pos
    <3>2. q \in Paths /\ n \in Nat /\ x.path = Append(q, n)
      BY <1>1
    <3> HIDE DEF q, n
    <3>3. x.path \in Paths /\ Starts(x.path, q) /\ Len(q) \in Nat /\ Len(x.path) = Len(q) + 1 /\ x.path[Len(q) + 1] = n
      BY <3>1, <3>2
    <3> QED
      BY <3>3 DEF q, n
  <2>2. Starts(p, C.frames[1].path) /\ p[Len(C.frames[1].path) + 1] = C.frames[1].pos
    <3>1. \A q, v \in Paths : Starts(p, q) /\ Starts(q, v) =>
            Starts(p, v) /\ (Len(q) > Len(v) => p[Len(v) + 1] = q[Len(v) + 1])
      BY StartsOn
    <3>2. Len(x.path) > Len(C.frames[1].path)
      BY <2>1, SMTT(40)
    <3> QED
      BY <1>1, <2>1, <3>1, <3>2
  <2>3. p[Len(C.frames[1].path) + 1] \in 1..C.frames[1].pos - 1
    BY <1>1, <2>2 DEF Past
  <2> QED
    BY <1>1, <2>2, <2>3
<1>3. ASSUME NEW i \in 1..D.depth, Starts(p, D.frames[i].path)
      PROVE  /\ D.frames[i].sig[1] = "seq" /\ Len(p) > Len(D.frames[i].path)
             /\ p[Len(D.frames[i].path) + 1] \in 1..(IF i = 1 THEN D.frames[i].pos - 1 ELSE D.frames[i].pos)
  <2>1. i # 1 /\ i - 1 \in 1..C.depth /\ D.frames[i] = C.frames[i - 1]
    <3>1. i \in 1..C.depth + 1 /\ D.frames[i] = IF i = 1 THEN x ELSE C.frames[i - 1]
      BY <1>1
    <3>2. i # 1
      BY <1>2, <1>3, <3>1
    <3> QED
      BY <1>1, <3>1, <3>2
  <2>2. /\ C.frames[i - 1].sig[1] = "seq" /\ Len(p) > Len(C.frames[i - 1].path)
        /\ p[Len(C.frames[i - 1].path) + 1] \in 1..(IF i - 1 = 1 THEN C.frames[i - 1].pos - 1 ELSE C.frames[i - 1].pos)
    BY <1>3, <2>1 DEF Past
  <2>3. C.frames[i - 1].pos \in Nat
    BY <2>1 DEF ConfOK
  <2>4. p[Len(C.frames[i - 1].path) + 1] \in 1..C.frames[i - 1].pos
    BY <2>2, <2>3
  <2> QED
    BY <2>1, <2>2, <2>4
<1>4. Past(p, D)
  BY <1>3 DEF Past
<1> QED
  BY <1>4 DEF D

\* The leaf that returns is behind.
LEMMA PastLeaf ==
  ASSUME NEW s, StackOK(s), s # <<>>, Pathed(s), NEW t, NEW chat, NEW sel, NEW sent,
         \A i \in DOMAIN s : ~s[i].flow.durable \/ i = 1,
         \A i \in DOMAIN s : s[i].flow.kind = "seq" => structureSig[s[i].flow][1] = "seq"
  PROVE  Past(s[1].path, Back(ConfOf(s, t), chat, sel, sent))
<1> DEFINE C == ConfOf(s, t)
           D == Back(C, chat, sel, sent)
           p == s[1].path
<1>1. s \in Seq(Frames) /\ Len(s) \in Nat \ {0} /\ DOMAIN s = 1..Len(s) /\ \A i \in 1..Len(s) : s[i] \in Frames
  BY DEF StackOK
<1>2. D.depth = Len(s) - 1 /\ C.depth = Len(s)
  BY DEF Back, ConfOf
<1>3. ASSUME NEW i \in 1..D.depth, Starts(p, D.frames[i].path)
      PROVE  /\ D.frames[i].sig[1] = "seq" /\ Len(p) > Len(D.frames[i].path)
             /\ p[Len(D.frames[i].path) + 1] \in 1..(IF i = 1 THEN D.frames[i].pos - 1 ELSE D.frames[i].pos)
  <2>1. i + 1 \in 1..Len(s) /\ i + 1 > 1 /\ i + 1 \in DOMAIN s /\ 1 \in DOMAIN s /\ i + 1 # 1
    BY <1>1, <1>2
  <2>2. C.frames[i + 1] = [sig |-> structureSig[s[i + 1].flow], path |-> s[i + 1].path, pos |-> s[i + 1].pos]
    <3>1. C.frames[i + 1] = FrameOf(s[i + 1])
      BY <2>1 DEF ConfOf
    <3>2. ~s[i + 1].flow.durable
      BY <2>1
    <3> HIDE DEF C
    <3> QED
      BY <3>1, <3>2 DEF FrameOf, Inner
  <2>3. D.frames[i] = IF i = 1 THEN [C.frames[2] EXCEPT !.pos = @ + 1] ELSE C.frames[i + 1]
    BY <1>2 DEF Back
  <2> HIDE DEF C, D
  <2>4. /\ D.frames[i].sig = structureSig[s[i + 1].flow] /\ D.frames[i].path = s[i + 1].path
        /\ D.frames[i].pos = IF i = 1 THEN s[i + 1].pos + 1 ELSE s[i + 1].pos
    BY <2>2, <2>3
  <2>5. s[i + 1].flow.kind = "seq" /\ structureSig[s[i + 1].flow][1] = "seq"
    BY <2>1 DEF StackOK
  <2>6. Len(p) > Len(s[i + 1].path) /\ p[Len(s[i + 1].path) + 1] = s[i + 1].pos /\ s[i + 1].pos # 0
    BY <2>1 DEF Pathed
  <2>7. s[i + 1].pos \in Nat
    BY <1>1, <2>1 DEF Frames
  <2>8. p[Len(s[i + 1].path) + 1] \in 1..(IF i = 1 THEN D.frames[i].pos - 1 ELSE D.frames[i].pos)
    BY <2>4, <2>6, <2>7
  <2> QED
    BY <2>4, <2>5, <2>6, <2>8
<1> HIDE DEF C, D
<1>4. Past(p, D)
  BY <1>3 DEF Past
<1> QED
  BY <1>4 DEF C, D

-----------------------------------------------------------------------------
(* A standing goes on by itself.                                           *)

\* The id that a signature tells.
IdOf(s) == CHOOSE i \in {f.id : f \in {g \in Flows : structureSig[g] = s}} : TRUE

\* It tells it of every flow.
LEMMA IdOfIs ==
  ASSUME NEW made, BuiltUp(made), WellMade, NEW f \in Flows
  PROVE  IdOf(structureSig[f]) = f.id
<1> DEFINE S == {g \in Flows : structureSig[g] = structureSig[f]}
           I == {g.id : g \in S}
<1>1. f \in S /\ f.id \in I
  OBVIOUS
<1>2. \A g \in S : g.id = f.id
  BY SigTells
<1> HIDE DEF S
<1>3. \A i \in I : i = f.id
  BY <1>2
<1> HIDE DEF I
<1>4. (CHOOSE i \in I : TRUE) = f.id
  BY <1>1, <1>3
<1> QED
  BY <1>4 DEF IdOf, I, S

\* The member of a Select that d names, by the signatures of its members.
FirstOf(kids, d) ==
  CHOOSE i \in DOMAIN kids : IdOf(kids[i]) = d /\ \A j \in DOMAIN kids : IdOf(kids[j]) = d => i <= j

\* A leaf; what is kept for it; and how anything else goes on, which nothing but
\* the standing decides.
Leaf(C)     == C.depth # 0 /\ C.frames[1].sig[1] = "basic"
Place(r, C) == <<r, C.frames[1].path>>
Delivered(C) == IF C.frames[1].sig[1] = "respond" THEN Len(C.chat) ELSE C.sent
Go(C) ==
  LET top  == C.frames[1]
      kind == top.sig[1]
  IN CASE kind = "dec" -> Into(C, [sig |-> top.sig[3], path |-> top.path, pos |-> top.pos], C.sel)
       [] kind = "seq" /\ top.pos \in DOMAIN top.sig[2] /\ top.sig[2][top.pos][1] # "" ->
            Down(C, [sig |-> top.sig[2][top.pos], path |-> Append(top.path, top.pos), pos |-> 1])
       [] kind = "select" /\ C.sel # None ->
            Into(C, [sig  |-> top.sig[2][FirstOf(top.sig[2], C.sel)], path |-> Append(top.path, C.sel),
                     pos |-> top.pos], None)
       [] OTHER -> Back(C, C.chat, C.sel, Delivered(C))

\* Where it goes, case by case.
LEMMA GoIs ==
  ASSUME NEW C
  PROVE  LET top == C.frames[1]
             sig == top.sig
         IN /\ sig[1] = "dec" => Go(C) = Into(C, [sig |-> sig[3], path |-> top.path, pos |-> top.pos], C.sel)
            /\ sig[1] = "seq" /\ top.pos \in DOMAIN sig[2] /\ sig[2][top.pos][1] # "" =>
                 Go(C) = Down(C, [sig |-> sig[2][top.pos], path |-> Append(top.path, top.pos), pos |-> 1])
            /\ sig[1] = "select" /\ C.sel # None =>
                 Go(C) = Into(C, [sig  |-> sig[2][FirstOf(sig[2], C.sel)], path |-> Append(top.path, C.sel),
                                  pos |-> top.pos], None)
            /\ \/ sig[1] \notin {"dec", "seq", "select"}
               \/ sig[1] = "seq" /\ ~(top.pos \in DOMAIN sig[2] /\ sig[2][top.pos][1] # "")
               \/ sig[1] = "select" /\ C.sel = None
               => Go(C) = Back(C, C.chat, C.sel, Delivered(C))
<1> DEFINE sig == C.frames[1].sig
<1>1. "dec" # "seq" /\ "dec" # "select" /\ "seq" # "select"
  OBVIOUS
<1>2. CASE sig[1] = "dec"
  BY <1>1, <1>2, Zenon DEF Go
<1>3. CASE sig[1] = "seq"
  BY <1>1, <1>3, Zenon DEF Go
<1>4. CASE sig[1] = "select"
  BY <1>1, <1>4, Zenon DEF Go
<1>5. CASE sig[1] \notin {"dec", "seq", "select"}
  <2>1. sig[1] # "dec" /\ sig[1] # "seq" /\ sig[1] # "select"
    BY <1>5
  <2> QED
    BY <2>1, Zenon DEF Go
<1> QED
  BY <1>2, <1>3, <1>4, <1>5

\* The standing of the pass.
Conf == ConfOf(stack, st)

\* A flow returns.
LEMMA ReturnConf ==
  ASSUME StandOK, stack # <<>>, NEW s, Return(s)
  PROVE  /\ Conf' = Back(Conf, s.chat, s.sel, s.sent)
         /\ Conf.depth = Len(stack) /\ Conf.depth # 0 /\ Conf'.depth = Len(stack) - 1
         /\ pc' = "done" <=> Len(stack) = 1
<1>1. StackOK(stack) /\ Len(stack) \in Nat \ {0}
  BY DEF StandOK, StackOK
<1>2. stack' = IF Len(stack) = 1 THEN <<>> ELSE Popped(stack)
  BY DEF Return, Popped
<1>3. st' = s /\ (pc' = "done" <=> Len(stack) = 1)
  BY DEF Return
<1>4. ConfOf(stack', st') = Back(ConfOf(stack, st), s.chat, s.sel, s.sent)
  BY <1>1, <1>2, <1>3, ConfPopped
<1>5. Conf' = ConfOf(stack', st')
  BY DEF Conf
<1>6. Conf.depth = Len(stack) /\ Back(Conf, s.chat, s.sel, s.sent).depth = Conf.depth - 1
  BY DEF Conf, ConfOf, Back
<1> QED
  BY <1>1, <1>3, <1>4, <1>5, <1>6 DEF Conf

\* The frame of a flow that is not durable.
LEMMA FrameIs ==
  ASSUME NEW x, x \in Frames, ~x.flow.durable
  PROVE  FrameOf(x) = [sig |-> structureSig[x.flow], path |-> x.path, pos |-> x.pos]
BY DEF FrameOf, Inner

\* What goes on silently goes on as its standing does.
LEMMA SilentGoes ==
  ASSUME NEW made, BuiltUp(made), WellMade, TypeInv, stack # <<>>, ~Top.flow.durable,
         \A i \in DOMAIN Top.flow.kids : ~Top.flow.kids[i].durable, pc' # "failed",
         \/ EnterDecorated \/ SeqStep \/ SeqEnds \/ SelectNone \/ SelectEnter \/ NotifySends
         \/ BareTrigger \/ NothingToDefer \/ DeferBody \/ RegisterWebhook \/ RespondRuns
  PROVE  /\ Conf' = Go(Conf) /\ Conf.depth # 0 /\ ~Leaf(Conf)
         /\ \A p \in Paths : Past(p, Conf) => Past(p, Go(Conf))
         /\ st'.chat = st.chat /\ pc' \in {"run", "done"} /\ (pc' = "done" => Conf'.depth = 0)
<1> DEFINE f == Top.flow
           C == Conf
<1>1. /\ pc \in {"run", "armed"} /\ StandOK /\ StackOK(stack) /\ Top \in Frames /\ Top.flow \in Flows
      /\ Len(stack) \in Nat \ {0} /\ Top = stack[1] /\ Top.path \in Paths /\ Top.pos \in Nat
  <2>1. pc \in {"run", "armed"}
    BY DEF EnterDecorated, SeqStep, SeqEnds, SelectNone, SelectEnter, NotifySends, BareTrigger, NothingToDefer,
           DeferBody, RegisterWebhook, RespondRuns, Splits, SeqAt, Ready
  <2> QED
    BY <2>1, TopIs DEF TypeInv, Top, Frames
<1>2. /\ C.depth = Len(stack) /\ C.depth # 0
      /\ C.frames[1].sig = structureSig[f] /\ C.frames[1].path = Top.path /\ C.frames[1].pos = Top.pos
      /\ C.chat = st.chat /\ C.sel = st.sel /\ C.sent = st.sent /\ ConfOK(C)
  <2>1. C.frames[1] = FrameOf(Top)
    BY <1>1 DEF Conf, ConfOf
  <2>2. ConfOK(C)
    BY <1>1, ConfTyped DEF Conf
  <2> QED
    BY <1>1, <2>1, <2>2, FrameIs DEF Conf, ConfOf
<1>3. /\ f \in Flows /\ f.kind \in Kinds /\ Shows(f) /\ DOMAIN f.kids \subseteq Nat
      /\ \A i \in DOMAIN f.kids : f.kids[i] \in Flows /\ Shows(f.kids[i]) /\ ~f.kids[i].durable
      /\ f.kind = "decorated" => 1 \in DOMAIN f.kids
  BY <1>1, PartsAre, SigShows
<1>14. Delivered(C) = IF f.kind = "respond" THEN Len(st.chat) ELSE st.sent
  <2>1. f.kind = "respond" <=> structureSig[f][1] = "respond"
    BY <1>3 DEF Shows
  <2> HIDE DEF C
  <2> QED
    BY <1>2, <2>1 DEF Delivered
<1>4. \A s : /\ Return(s) /\ s.chat = st.chat /\ s.sel = st.sel /\ s.sent = Delivered(C)
             /\ Go(C) = Back(C, C.chat, C.sel, Delivered(C)) /\ f.kind # "basic"
        => /\ C' = Go(C) /\ C.depth # 0 /\ ~Leaf(C) /\ \A p \in Paths : Past(p, C) => Past(p, Go(C))
           /\ st'.chat = st.chat /\ pc' \in {"run", "done"} /\ (pc' = "done" => C'.depth = 0)
  <2> SUFFICES ASSUME NEW s, Return(s), s.chat = st.chat, s.sel = st.sel, s.sent = Delivered(C),
                      Go(C) = Back(C, C.chat, C.sel, Delivered(C)), f.kind # "basic"
               PROVE  /\ C' = Go(C) /\ C.depth # 0 /\ ~Leaf(C) /\ \A p \in Paths : Past(p, C) => Past(p, Go(C))
                      /\ st'.chat = st.chat /\ pc' \in {"run", "done"} /\ (pc' = "done" => C'.depth = 0)
    OBVIOUS
  <2>1. C' = Back(C, s.chat, s.sel, s.sent) /\ C.depth # 0 /\ (pc' = "done" => C'.depth = 0)
    <3>1. /\ C' = Back(C, s.chat, s.sel, s.sent) /\ C.depth # 0 /\ C'.depth = Len(stack) - 1
          /\ pc' = "done" <=> Len(stack) = 1
      BY <1>1, ReturnConf, Zenon
    <3> HIDE DEF C
    <3> QED
      BY <3>1
  <2>2. st' = s /\ pc' \in {"run", "done"}
    BY DEF Return
  <2>3. ~Leaf(C)
    <3>1. structureSig[f][1] # "basic"
      BY <1>3, Zenon DEF Shows
    <3> HIDE DEF C
    <3> QED
      BY <1>2, <3>1, Zenon DEF Leaf
  <2>4. \A p \in Paths : Past(p, C) => Past(p, Back(C, C.chat, C.sel, Delivered(C)))
    BY <1>2, PastBack
  <2> QED
    BY <1>2, <2>1, <2>2, <2>3, <2>4
<1> HIDE DEF C
<1> DEFINE sig == structureSig[f]
<1>13. /\ sig[1] = "dec" => Go(C) = Into(C, [sig |-> sig[3], path |-> Top.path, pos |-> Top.pos], C.sel)
       /\ sig[1] = "seq" /\ Top.pos \in DOMAIN sig[2] /\ sig[2][Top.pos][1] # "" =>
            Go(C) = Down(C, [sig |-> sig[2][Top.pos], path |-> Append(Top.path, Top.pos), pos |-> 1])
       /\ sig[1] = "select" /\ C.sel # None =>
            Go(C) = Into(C, [sig |-> sig[2][FirstOf(sig[2], C.sel)], path |-> Append(Top.path, C.sel),
                             pos |-> Top.pos], None)
       /\ \/ sig[1] \notin {"dec", "seq", "select"}
          \/ sig[1] = "seq" /\ ~(Top.pos \in DOMAIN sig[2] /\ sig[2][Top.pos][1] # "")
          \/ sig[1] = "select" /\ C.sel = None
          => Go(C) = Back(C, C.chat, C.sel, Delivered(C))
  <2>1. C.frames[1].sig = sig /\ C.frames[1].path = Top.path /\ C.frames[1].pos = Top.pos
    BY <1>2
  <2> HIDE DEF sig
  <2> QED
    BY <2>1, GoIs
<1>5. CASE NotifySends \/ RespondRuns \/ BareTrigger
  <2>1. /\ f.kind \in {"notify", "respond", "trigger"}
        /\ \E s : Return(s) /\ s.chat = st.chat /\ s.sel = st.sel /\ s.sent = Delivered(C)
    <3>1. /\ [st EXCEPT !.sent = Len(st.chat)].chat = st.chat /\ [st EXCEPT !.sent = Len(st.chat)].sel = st.sel
          /\ [st EXCEPT !.sent = Len(st.chat)].sent = Len(st.chat)
      BY <1>1 DEF StandOK, StateOK
    <3> QED
      BY <1>5, <1>14, <3>1 DEF NotifySends, RespondRuns, BareTrigger, Ready, Fail
  <2>2. structureSig[f][1] \notin {"dec", "seq", "select"}
    BY <1>3, <2>1 DEF Shows
  <2>3. Go(C) = Back(C, C.chat, C.sel, Delivered(C))
    BY <1>13, <2>2, Zenon
  <2> QED
    BY <1>4, <2>1, <2>3 DEF C
<1>6. CASE SelectNone
  <2>1. f.kind = "select" /\ Return(st) /\ C.sel = None
    BY <1>2, <1>6 DEF SelectNone, Ready
  <2>2. structureSig[f][1] = "select"
    BY <1>3, <2>1 DEF Shows
  <2>3. Go(C) = Back(C, C.chat, C.sel, Delivered(C))
    BY <1>13, <2>1, <2>2, Zenon
  <2> QED
    BY <1>4, <1>14, <2>1, <2>3 DEF C
<1>7. CASE SeqEnds \/ NothingToDefer \/ DeferBody \/ RegisterWebhook
  <2>1. /\ f.kind = "seq" /\ Return(st)
        /\ \/ Top.pos > Len(f.kids)
           \/ Top.pos \in DOMAIN f.kids /\ f.kids[Top.pos].kind = "trigger"
    BY <1>7 DEF SeqEnds, NothingToDefer, DeferBody, RegisterWebhook, Splits, SeqAt, Ready
  <2>2. structureSig[f][1] = "seq" /\ structureSig[f][2] = [i \in DOMAIN f.kids |-> structureSig[f.kids[i]]]
    BY <1>3, <2>1 DEF Shows
  <2>3. ~(Top.pos \in DOMAIN structureSig[f][2] /\ structureSig[f][2][Top.pos][1] # "")
    <3>1. CASE Top.pos > Len(f.kids)
      <4>1. Top.pos \notin DOMAIN f.kids
        BY <1>1, <3>1, PartsAre
      <4> QED
        BY <2>2, <4>1
    <3>2. CASE Top.pos \in DOMAIN f.kids /\ f.kids[Top.pos].kind = "trigger"
      <4>1. structureSig[f.kids[Top.pos]][1] = ""
        BY <1>3, <3>2 DEF Shows
      <4>2. structureSig[f][2][Top.pos] = structureSig[f.kids[Top.pos]]
        BY <2>2, <3>2
      <4> QED
        BY <4>1, <4>2
    <3> QED
      BY <2>1, <3>1, <3>2
  <2>4. Go(C) = Back(C, C.chat, C.sel, Delivered(C))
    BY <1>13, <2>2, <2>3, Zenon
  <2> QED
    BY <1>4, <1>14, <2>1, <2>4 DEF C
<1>8. ASSUME NEW x \in Frames, stack' = Replaced(stack, x), st'.chat = st.chat, st'.sent = st.sent, pc' = "run", ~x.flow.durable,
             Go(C) = Into(C, [sig |-> structureSig[x.flow], path |-> x.path, pos |-> x.pos], st'.sel),
             Starts(x.path, Top.path), f.kind \notin {"basic", "seq"}
      PROVE  /\ C' = Go(C) /\ C.depth # 0 /\ ~Leaf(C) /\ \A p \in Paths : Past(p, C) => Past(p, Go(C))
             /\ st'.chat = st.chat /\ pc' \in {"run", "done"} /\ (pc' = "done" => C'.depth = 0)
  <2> DEFINE y == [sig |-> structureSig[x.flow], path |-> x.path, pos |-> x.pos]
  <2>1. FrameOf(x) = y
    BY <1>8, FrameIs
  <2>2. ConfOf(Replaced(stack, x), st') = Into(ConfOf(stack, st), FrameOf(x), st'.sel)
    BY <1>1, <1>8, ConfReplaced
  <2>3. C' = Go(C)
    BY <1>8, <2>1, <2>2 DEF C, Conf
  <2>4. C.frames[1].sig[1] # "seq" /\ ~Leaf(C)
    <3>1. f.kind # "seq" /\ f.kind # "basic"
      BY <1>8
    <3>2. structureSig[f][1] # "basic" /\ structureSig[f][1] # "seq"
      BY <1>3, <3>1, Zenon DEF Shows
    <3> QED
      BY <1>2, <3>2, Zenon DEF Leaf
  <2>5. y.path \in Paths /\ Starts(y.path, C.frames[1].path)
    BY <1>2, <1>8 DEF Frames
  <2> HIDE DEF y
  <2>6. \A p \in Paths : Past(p, C) => Past(p, Into(C, y, st'.sel))
    BY <1>2, <2>4, <2>5, PastInto
  <2> QED
    BY <1>2, <1>8, <2>3, <2>4, <2>6 DEF y
<1>9. CASE EnterDecorated
  <2> DEFINE x == [Top EXCEPT !.flow = f.kids[1], !.scope = IF f.model = None THEN @ ELSE f.model]
  <2>1. f.kind = "decorated" /\ stack' = Replaced(stack, x) /\ pc' = "run" /\ st' = st
    BY <1>9 DEF EnterDecorated, Ready, Descend, Replaced
  <2>2. f.kids[1] \in Flows /\ f.model \in Specs /\ ~f.kids[1].durable
    BY <1>1, <1>3, <2>1, FlowsAssumption
  <2>3. x \in Frames /\ x.path = Top.path /\ x.pos = Top.pos /\ x.flow = f.kids[1]
    BY <1>1, <2>2 DEF Frames
  <2>4. Starts(Top.path, Top.path)
    BY <1>1 DEF Starts, Paths
  <2>5. structureSig[f][1] = "dec" /\ structureSig[f][3] = structureSig[f.kids[1]]
    BY <1>3, <2>1 DEF Shows
  <2>6. Go(C) = Into(C, [sig |-> structureSig[f.kids[1]], path |-> Top.path, pos |-> Top.pos], C.sel)
    BY <1>13, <2>5
  <2> HIDE DEF x
  <2> QED
    BY <1>2, <1>8, <2>1, <2>2, <2>3, <2>4, <2>6 DEF C
<1>10. CASE SelectEnter
  <2>1. PICK i \in DOMAIN f.kids :
          /\ f.kids[i].id = st.sel
          /\ \A j \in DOMAIN f.kids : f.kids[j].id = st.sel => i <= j
          /\ stack' = Replaced(stack, [Top EXCEPT !.flow = f.kids[i], !.path = Append(@, st.sel)])
    BY <1>10 DEF SelectEnter, Replaced
  <2> DEFINE x == [Top EXCEPT !.flow = f.kids[i], !.path = Append(@, st.sel)]
             K == structureSig[f][2]
  <2>2. f.kind = "select" /\ stack' = Replaced(stack, x) /\ pc' = "run" /\ st' = [st EXCEPT !.sel = None]
    BY <1>10, <2>1 DEF SelectEnter, Ready
  <2>3. Append(Top.path, st.sel) \in Paths /\ Starts(Append(Top.path, st.sel), Top.path)
    <3>1. st.sel \in {g.id : g \in Flows}
      BY <1>3, <2>1
    <3>2. \A p \in Paths : Append(p, st.sel) \in Paths /\ Starts(Append(p, st.sel), p)
      BY <3>1, AppendStarts
    <3> QED
      BY <1>1, <3>2
  <2>4. x \in Frames /\ x.path = Append(Top.path, st.sel) /\ x.pos = Top.pos /\ x.flow = f.kids[i]
    BY <1>1, <1>3, <2>1, <2>3 DEF Frames
  <2>5. structureSig[f][1] = "select" /\ K = [j \in DOMAIN f.kids |-> structureSig[f.kids[j]]]
    BY <1>3, <2>2 DEF Shows
  <2>6. DOMAIN K = DOMAIN f.kids /\ \A j \in DOMAIN f.kids : K[j] = structureSig[f.kids[j]] /\ IdOf(K[j]) = f.kids[j].id
    BY <1>3, <2>5, IdOfIs
  <2> HIDE DEF x, K
  <2>7. FirstOf(K, st.sel) = i
    <3>1. i \in DOMAIN K /\ IdOf(K[i]) = st.sel /\ \A j \in DOMAIN K : IdOf(K[j]) = st.sel => i <= j
      BY <2>1, <2>6
    <3>2. DOMAIN K \subseteq Nat
      BY <1>3, <2>6
    <3>3. ASSUME NEW j \in DOMAIN K, IdOf(K[j]) = st.sel, \A l \in DOMAIN K : IdOf(K[l]) = st.sel => j <= l
          PROVE  j = i
      BY <3>1, <3>2, <3>3
    <3> QED
      BY <3>1, <3>3 DEF FirstOf
  <2>8. CASE st.sel = None
    BY <1>1, <2>1, <2>2, <2>8 DEF WellMade
  <2>9. CASE st.sel # None
    <3>1. Go(C) = Into(C, [sig |-> structureSig[f.kids[i]], path |-> Append(Top.path, st.sel), pos |-> Top.pos], None)
      BY <1>2, <1>13, <2>5, <2>6, <2>7, <2>9 DEF K
    <3>2. st'.chat = st.chat /\ st'.sent = st.sent /\ st'.sel = None
      BY <1>1, <2>2 DEF StandOK, StateOK
    <3> QED
      BY <1>3, <1>8, <2>2, <2>3, <2>4, <3>1, <3>2 DEF C
  <2> QED
    BY <2>8, <2>9
<1>11. CASE SeqStep
  <2>1. Top.sink \in BOOLEAN
    BY <1>1 DEF Frames
  <2>2. PICK s \in BOOLEAN :
          stack' = Pushed(stack, [Top EXCEPT !.flow = f.kids[Top.pos], !.path = Append(@, Top.pos),
                                             !.pos = 1, !.sink = s])
    BY <1>11, <2>1 DEF SeqStep, Pushed
  <2> DEFINE x == [Top EXCEPT !.flow = f.kids[Top.pos], !.path = Append(@, Top.pos), !.pos = 1, !.sink = s]
             y == [sig |-> structureSig[f.kids[Top.pos]], path |-> Append(Top.path, Top.pos), pos |-> 1]
  <2>3. f.kind = "seq" /\ Top.pos \in DOMAIN f.kids /\ f.kids[Top.pos].kind # "trigger" /\ pc' = "run" /\ st' = st
    BY <1>11 DEF SeqStep, SeqAt, Ready
  <2>4. Append(Top.path, Top.pos) \in Paths
    BY <1>1 DEF Paths
  <2>5. x \in Frames /\ x.path = Append(Top.path, Top.pos) /\ x.pos = 1 /\ x.flow = f.kids[Top.pos]
    BY <1>1, <1>3, <2>3, <2>4 DEF Frames
  <2>6. stack' = Pushed(stack, x)
    BY <2>2
  <2> HIDE DEF x
  <2>7. structureSig[f][1] = "seq" /\ structureSig[f][2] = [i \in DOMAIN f.kids |-> structureSig[f.kids[i]]]
        /\ structureSig[f.kids[Top.pos]][1] # ""
    BY <1>3, <2>3 DEF Shows
  <2>8. Top.pos \in DOMAIN structureSig[f][2] /\ structureSig[f][2][Top.pos] = structureSig[f.kids[Top.pos]]
    BY <2>3, <2>7
  <2>9. Go(C) = Down(C, y)
    BY <1>13, <2>7, <2>8, Zenon
  <2>10. FrameOf(x) = y
    BY <1>3, <2>3, <2>5, FrameIs
  <2>11. y.path = Append(C.frames[1].path, C.frames[1].pos)
    BY <1>2
  <2> HIDE DEF y
  <2>12. ConfOf(Pushed(stack, x), st') = Down(ConfOf(stack, st), y)
    <3>1. st'.chat = st.chat /\ st'.sel = st.sel /\ st'.sent = st.sent
      BY <2>3
    <3> QED
      BY <1>1, <2>5, <2>10, <3>1, ConfPushed
  <2>13. C' = Go(C)
    BY <2>6, <2>9, <2>12 DEF C, Conf
  <2>14. C.depth # 0 /\ ~Leaf(C)
    BY <1>2, <2>7 DEF Leaf
  <2>15. \A p \in Paths : Past(p, C) => Past(p, Down(C, y))
    BY <1>2, <2>11, PastDown
  <2> QED
    BY <2>3, <2>9, <2>13, <2>14, <2>15 DEF C
<1> QED
  BY <1>5, <1>6, <1>7, <1>9, <1>10, <1>11

-----------------------------------------------------------------------------
(* A Durable around the whole of what a client asks for.                   *)

\* What passes the startup walk can run.
Deployable(b) == \A f \in Served(Binaries[b].entries, Binaries[b].extra) : Validate(f)

\* There is no Durable in f.
Quiet(f) ==
  \E S \in SUBSET Flows : f \in S /\ \A x \in S : ~x.durable /\ \A i \in DOMAIN x.kids : x.kids[i] \in S

\* Whatever is deployed, a client's flow holds no Durable; or is one, with no other inside.
Quietly(r) == \A b \in DOMAIN Binaries : Deployable(b) => Quiet(ServedFlow(b, r))
Wholly(r)  == \A b \in DOMAIN Binaries : Deployable(b) =>
                ServedFlow(b, r).durable /\ \A i \in DOMAIN ServedFlow(b, r).kids : Quiet(ServedFlow(b, r).kids[i])

\* One or the other, for every client; and nothing is recorded at boot.
DurableAtRoot == (\A c \in Chains : Quiet(seqOf(c))) /\ \A r \in Clients : Quietly(r) \/ Wholly(r)
Recorded(r)   == r \in Clients /\ Wholly(r)

\* What the client of the pass asks for.
Asked == ServedFlow(binary, pass.run)

\* The pass is inside, and all of it resumes and records alike.
Within ==
  /\ pc # "armed"
  /\ \A i \in DOMAIN stack : Quiet(stack[i].flow) /\ stack[i].cp = Top.cp
  /\ Recorded(pass.run) <=> Top.cp # "none"

\* Or it is at the Durable around all of it.
AtRoot ==
  /\ Recorded(pass.run) /\ pass.kind = "request"
  /\ Len(stack) = 1 /\ Top.flow = Asked /\ Top.path = <<>> /\ Top.pos = 1
  /\ Top.cp = "none" <=> pc = "run"
  /\ pc \in {"run", "armed"} => st.chat = <<User>> /\ st.sel = None /\ st.sent = -1

\* What a pass is inside of is inside what was asked for.
Inside(s, F) == \A i \in DOMAIN s : Leaves[s[i].flow] \subseteq Leaves[F]

\* What a leaf replies, it said.
Replied == pc = "ask" => \A i \in DOMAIN replies : replies[i] # NotYet =>
             \A n \in DOMAIN replies[i].said : replies[i].said[n].leaf = Top.flow.id

\* Where a pass stands.
WalkInv ==
  /\ \A k \in DOMAIN saved : Recorded(k[1])
  /\ Replied
  /\ pass.run \in Clients => Inside(stack, Asked)
  /\ stack # <<>> /\ pass.run \in Runs => Within \/ AtRoot

\* What is quiet has quiet parts.
LEMMA QuietParts ==
  ASSUME NEW f, Quiet(f)
  PROVE  f \in Flows /\ ~f.durable /\ \A i \in DOMAIN f.kids : Quiet(f.kids[i]) /\ ~f.kids[i].durable
BY DEF Quiet

\* The leaves of a part are leaves of the whole.
LEMMA LeavesPart ==
  ASSUME NEW made, BuiltUp(made), NEW f \in Flows
  PROVE  /\ f.kind # "basic" => \A i \in DOMAIN f.kids : Leaves[f.kids[i]] \subseteq Leaves[f]
         /\ f.kind = "basic" => Leaves[f] = {f.id}
<1>1. Leaves[f] = LeafStep(Leaves, f)
  BY LeavesAre
<1> HIDE DEF Leaves
<1> QED
  BY <1>1 DEF LeafStep

\* What a client asks for is a flow.
LEMMA AskedIs ==
  ASSUME TypeInv, pc # "down", pass.run \in Clients, CheckInv
  PROVE  Asked \in Flows /\ binary \in DOMAIN Binaries /\ Deployable(binary) /\ pass.kind = "request"
<1>1. binary \in DOMAIN Binaries
  BY DEF TypeInv, ProcessOK
<1> QED
  BY <1>1, FlowsAssumption DEF Asked, ServedFlow, CheckInv, Validated, Deployable, Running

\* What is durable at the root holds no other, and is no chain.
LEMMA RootIs ==
  ASSUME TypeInv, CheckInv, stack # <<>>, AtRoot
  PROVE  /\ Top.flow \in Flows /\ Top.flow.durable /\ Top.flow.kind \in {"basic", "decorated"}
         /\ \A i \in DOMAIN Top.flow.kids : Quiet(Top.flow.kids[i])
         /\ pc \in {"run", "armed"} /\ (pc = "run" => ~(Top.flow.durable /\ Durably)) => pc = "armed"
<1>1. pass.run \in Clients /\ pc # "down"
  BY DEF AtRoot, Recorded, TypeInv, StandOK
<1>2. Asked \in Flows /\ binary \in DOMAIN Binaries /\ Deployable(binary)
  BY <1>1, AskedIs
<1>3. Asked.durable /\ \A i \in DOMAIN Asked.kids : Quiet(Asked.kids[i])
  BY <1>2 DEF Asked, AtRoot, Recorded, Wholly
<1>4. Durably
  BY <1>1, RequestAssumption DEF Durably, Runs
<1> QED
  BY <1>2, <1>3, <1>4, FlowsAssumption DEF AtRoot

\* A flow returns.
LEMMA ReturnWalks ==
  ASSUME TypeInv, WalkInv, stack # <<>>, NEW s, Return(s),
         UNCHANGED binary, pass'.run = pass.run, \A k \in DOMAIN saved' : Recorded(k[1])
  PROVE  WalkInv'
<1>1. StackOK(stack) /\ stack \in Seq(Frames) /\ Len(stack) \in Nat \ {0} /\ Top = stack[1]
  BY DEF TypeInv, StandOK, StackOK, Top
<1>2. pc' \in {"run", "done"}
  BY DEF Return
<1>3. CASE Len(stack) = 1
  <2>1. stack' = <<>> /\ pc' = "done"
    BY <1>3 DEF Return
  <2>2. Inside(stack', Asked')
    BY <2>1 DEF Inside
  <2> QED
    BY <2>1, <2>2 DEF WalkInv, Replied
<1>4. CASE Len(stack) # 1
  <2> DEFINE n == Popped(stack)
  <2>1. stack' = n /\ pc' = "run"
    BY <1>4 DEF Return, Popped
  <2>2. /\ stack[2] \in Frames /\ 2 \in DOMAIN stack /\ n \in Seq(Frames) /\ Len(n) = Len(stack) - 1 /\ Len(n) >= 1
        /\ n[1] = [stack[2] EXCEPT !.pos = @ + 1]
        /\ \A i \in DOMAIN n : i > 1 => i + 1 \in DOMAIN stack /\ n[i] = stack[i + 1]
    BY <1>1, <1>4, PoppedIs
  <2> HIDE DEF n
  <2>3. n[1].flow = stack[2].flow /\ n[1].cp = stack[2].cp
    BY <2>2 DEF Frames
  <2>4. ASSUME NEW i \in DOMAIN n PROVE \E j \in DOMAIN stack : n[i].flow = stack[j].flow /\ n[i].cp = stack[j].cp
    <3>1. i = 1 \/ i > 1
      BY <2>2
    <3> QED
      BY <2>2, <2>3, <3>1
  <2>5. pass.run \in Clients => Inside(stack', Asked')
    <3>1. Asked' = Asked
      BY DEF Asked
    <3> QED
      BY <2>1, <2>4, <3>1 DEF Inside, WalkInv
  <2>6. pass.run \in Runs => Within'
    <3> SUFFICES ASSUME pass.run \in Runs PROVE Within'
      OBVIOUS
    <3>1. Within
      BY <1>4 DEF WalkInv, AtRoot
    <3>2. Top' = n[1] /\ 1 \in DOMAIN n
      BY <2>1, <2>2 DEF Top
    <3>3. Top'.cp = Top.cp
      BY <2>4, <3>1, <3>2 DEF Within
    <3> QED
      BY <2>1, <2>4, <3>1, <3>3 DEF Within
  <2> QED
    BY <2>1, <2>5, <2>6 DEF WalkInv, Replied
<1> QED
  BY <1>3, <1>4

\* There is no flow that the pass is inside.
LEMMA EmptyWalks ==
  ASSUME WalkInv, stack' = <<>>, pc' # "ask", UNCHANGED saved
  PROVE  WalkInv'
<1>1. Inside(stack', Asked')
  BY DEF Inside
<1> QED
  BY <1>1 DEF WalkInv, Replied

\* The innermost flow hands over to a part of it.
LEMMA IntoWalks ==
  ASSUME NEW made, BuiltUp(made), TypeInv, CheckInv, WalkInv, stack # <<>>, NEW x \in Frames, stack' = Replaced(stack, x),
         x.cp = Top.cp, NEW i \in DOMAIN Top.flow.kids, x.flow = Top.flow.kids[i], Top.flow.kind # "basic",
         pc \in {"run", "armed"}, pc = "run" => ~(Top.flow.durable /\ Durably),
         UNCHANGED <<binary, saved, pass>>, pc' = "run"
  PROVE  WalkInv'
<1> DEFINE n == Replaced(stack, x)
<1>1. /\ StackOK(stack) /\ stack \in Seq(Frames) /\ Top = stack[1] /\ Top.flow \in Flows
      /\ n \in Seq(Frames) /\ Len(n) = Len(stack) /\ Len(stack) \in Nat \ {0} /\ n[1] = x
      /\ \A j \in DOMAIN n : j > 1 => j \in DOMAIN stack /\ n[j] = stack[j]
  <2>1. StackOK(stack) /\ stack \in Seq(Frames) /\ Top.flow \in Flows /\ Top = stack[1]
    BY TopIs DEF TypeInv, StandOK, StackOK, Top
  <2> QED
    BY <2>1, ReplacedIs
<1>2. stack' = n
  OBVIOUS
<1> HIDE DEF n
<1>3. Top' = x /\ 1 \in DOMAIN stack /\ DOMAIN n = DOMAIN stack
  BY <1>1, <1>2 DEF Top
<1>4. \A j \in DOMAIN n : j = 1 \/ (j > 1 /\ j \in DOMAIN stack /\ n[j] = stack[j])
  BY <1>1
<1>5. pass.run \in Clients => Inside(stack', Asked')
  <2>1. Asked' = Asked /\ Leaves[x.flow] \subseteq Leaves[Top.flow]
    BY <1>1, LeavesPart DEF Asked
  <2> QED
    BY <1>1, <1>2, <1>3, <1>4, <2>1 DEF Inside, WalkInv
<1>6. pass.run \in Runs => Within'
  <2> SUFFICES ASSUME pass.run \in Runs PROVE Within'
    OBVIOUS
  <2>1. CASE Within
    <3>1. Quiet(x.flow)
      BY <1>1, <1>3, <2>1, QuietParts DEF Within
    <3> QED
      BY <1>1, <1>2, <1>3, <1>4, <2>1, <3>1 DEF Within
  <2>2. CASE AtRoot
    <3>1. Quiet(x.flow) /\ pc = "armed"
      BY <2>2, RootIs
    <3>2. DOMAIN n = {1} /\ Top.cp # "none" /\ Recorded(pass.run)
      BY <1>1, <2>2, <3>1 DEF AtRoot
    <3> QED
      BY <1>1, <1>2, <1>3, <3>1, <3>2 DEF Within
  <2> QED
    BY <2>1, <2>2 DEF WalkInv
<1> QED
  BY <1>5, <1>6 DEF WalkInv, Replied

\* A chain enters a step.
LEMMA DownWalks ==
  ASSUME NEW made, BuiltUp(made), TypeInv, CheckInv, WalkInv, stack # <<>>, NEW x \in Frames, stack' = Pushed(stack, x),
         x.cp = Top.cp, NEW i \in DOMAIN Top.flow.kids, x.flow = Top.flow.kids[i], Top.flow.kind = "seq",
         pc \in {"run", "armed"}, UNCHANGED <<binary, saved, pass>>, pc' = "run"
  PROVE  WalkInv'
<1> DEFINE n == Pushed(stack, x)
<1>1. /\ StackOK(stack) /\ stack \in Seq(Frames) /\ Top = stack[1] /\ Top.flow \in Flows /\ 1 \in DOMAIN stack
      /\ n \in Seq(Frames) /\ Len(n) = Len(stack) + 1 /\ Len(stack) \in Nat \ {0} /\ n[1] = x
      /\ \A j \in DOMAIN n : j > 1 => j - 1 \in DOMAIN stack /\ n[j] = stack[j - 1]
  <2>1. StackOK(stack) /\ stack \in Seq(Frames) /\ Top.flow \in Flows /\ Top = stack[1] /\ 1 \in DOMAIN stack
        /\ Len(stack) \in Nat \ {0}
    BY TopIs DEF TypeInv, StandOK, StackOK, Top
  <2> QED
    BY <2>1, PushedIs
<1>2. stack' = n
  OBVIOUS
<1> HIDE DEF n
<1>3. Top' = x
  BY <1>1, <1>2 DEF Top
<1>4. \A j \in DOMAIN n : j = 1 \/ (j > 1 /\ j - 1 \in DOMAIN stack /\ n[j] = stack[j - 1])
  BY <1>1
<1>5. pass.run \in Clients => Inside(stack', Asked')
  <2>1. Asked' = Asked /\ Leaves[x.flow] \subseteq Leaves[Top.flow]
    BY <1>1, LeavesPart DEF Asked
  <2>2. ASSUME pass.run \in Clients, NEW j \in DOMAIN n PROVE Leaves[n[j].flow] \subseteq Leaves[Asked]
    <3>1. \A l \in DOMAIN stack : Leaves[stack[l].flow] \subseteq Leaves[Asked]
      BY <2>2 DEF WalkInv, Inside
    <3>2. CASE j = 1
      BY <1>1, <2>1, <3>1, <3>2
    <3>3. CASE j # 1
      BY <1>4, <3>1, <3>3
    <3> QED
      BY <3>2, <3>3
  <2> QED
    BY <1>2, <2>1, <2>2 DEF Inside
<1>6. pass.run \in Runs => Within'
  <2> SUFFICES ASSUME pass.run \in Runs PROVE Within'
    OBVIOUS
  <2>1. Within
    BY RootIs DEF WalkInv
  <2>2. Quiet(x.flow)
    BY <1>1, <2>1, QuietParts DEF Within
  <2> QED
    BY <1>1, <1>2, <1>3, <1>4, <2>1, <2>2 DEF Within
<1> QED
  BY <1>5, <1>6 DEF WalkInv, Replied

-----------------------------------------------------------------------------
(* Every step keeps where a pass stands.                                   *)

\* Walking: a Durable is entered.
LEMMA ActivateWalks ==
  ASSUME TypeInv, CheckInv, WalkInv, ActivateDurable
  PROVE  /\ WalkInv' /\ AtRoot /\ Asked' = Asked /\ stack # <<>> /\ pass'.run = pass.run
         /\ Top'.flow = Top.flow /\ Top'.path = Top.path /\ Top'.pos = Top.pos /\ Len(stack') = Len(stack)
<1>1. pc = "run" /\ pc' = "armed" /\ UNCHANGED <<binary, saved, st, replies>> /\ Top.flow.durable /\ pass.run \in Runs
  BY DEF ActivateDurable, process, Durably, TypeInv, ProcessOK
<1>2. PICK c \in {"live", "stale"} : stack' = [stack EXCEPT ![1].cp = c]
  BY DEF ActivateDurable, Live, Stale
<1>3. pass'.run = pass.run /\ pass'.kind = pass.kind
  BY DEF ActivateDurable, Live, Stale, TypeInv, ProcessOK, PassFields
<1>4. stack # <<>> /\ 1 \in DOMAIN stack /\ Top = stack[1] /\ Top \in Frames /\ stack \in Seq(Frames)
  BY <1>1, TopIs DEF TypeInv, Top, StandOK, StackOK
<1>5. AtRoot
  BY <1>1, <1>4, QuietParts DEF WalkInv, Within
<1>6. /\ Top'.flow = Top.flow /\ Top'.path = Top.path /\ Top'.pos = Top.pos /\ Top'.cp = c
      /\ DOMAIN stack' = DOMAIN stack /\ Len(stack') = Len(stack)
      /\ \A i \in DOMAIN stack : stack'[i].flow = stack[i].flow
  <2>1. stack'[1] = [stack[1] EXCEPT !.cp = c] /\ DOMAIN stack' = DOMAIN stack
        /\ \A i \in DOMAIN stack : i # 1 => stack'[i] = stack[i]
    BY <1>2, <1>4
  <2>2. Len(stack') = Len(stack)
    BY <1>2, <1>4
  <2> QED
    BY <1>4, <2>1, <2>2 DEF Top, Frames
<1>7. Asked' = Asked
  BY <1>1, <1>3 DEF Asked
<1>8. AtRoot'
  BY <1>1, <1>3, <1>5, <1>6, <1>7 DEF AtRoot
<1>9. pass.run \in Clients => Inside(stack', Asked')
  BY <1>6, <1>7 DEF WalkInv, Inside
<1> QED
  BY <1>1, <1>3, <1>4, <1>5, <1>6, <1>7, <1>8, <1>9 DEF WalkInv, Replied

\* Walking: a leaf is read back, is to be asked, or is saved.
LEMMA LeafWalks ==
  ASSUME TypeInv, CheckInv, RecordInv, WalkInv, Load \/ Miss \/ Save
  PROVE  WalkInv'
<1>1. /\ pc \in {"run", "armed", "save"} /\ UNCHANGED <<binary, pass>>
      /\ stack # <<>> /\ 1 \in DOMAIN stack /\ StackOK(stack)
  <2>1. pc \in {"run", "armed", "save"} /\ UNCHANGED <<binary, pass>>
    BY DEF Load, Miss, Save, Ready, process
  <2> QED
    BY <2>1, TopIs DEF TypeInv
<1>2. CASE Load
  BY <1>1, <1>2, ReturnWalks DEF Load, store, WalkInv
<1>3. CASE Miss
  <2>1. /\ pc' = "ask" /\ UNCHANGED <<stack, saved, st>> /\ replies' = [i \in DOMAIN Top.flow.agents |-> NotYet]
        /\ pc \in {"run", "armed"} /\ (pc = "run" => ~(Top.flow.durable /\ Durably))
    BY <1>3 DEF Miss, store, Ready
  <2>2. Asked' = Asked /\ Top' = Top
    BY <1>1, <2>1 DEF Asked, Top
  <2>3. Replied'
    BY <2>1 DEF Replied
  <2>4. ASSUME pass.run \in Runs PROVE Within' \/ AtRoot'
    <3>1. CASE Within
      BY <1>1, <2>1, <2>2, <3>1 DEF Within
    <3>2. CASE AtRoot
      <4>1. pc = "armed"
        BY <1>1, <2>1, <3>2, RootIs
      <4> QED
        BY <1>1, <2>1, <2>2, <3>2, <4>1 DEF AtRoot
    <3> QED
      BY <1>1, <2>4, <3>1, <3>2 DEF WalkInv
  <2> QED
    BY <1>1, <2>1, <2>2, <2>3, <2>4 DEF WalkInv
<1>4. CASE Save
  <2>1. Return(st) /\ pc = "save" /\ Key = <<pass.run, Top.path>>
        /\ \/ UNCHANGED saved
           \/ Top.cp # "none" /\ saved' = Write(saved, Key, st)
    BY <1>4 DEF Save, Key
  <2>2. ASSUME Top.cp # "none" PROVE Recorded(pass.run)
    <3>1. pass.run \in Runs
      <4>1. Durably
        BY <1>1, <2>2 DEF RecordInv, Undurable, Top
      <4> QED
        BY <4>1 DEF Durably, TypeInv, ProcessOK
    <3> QED
      BY <1>1, <2>2, <3>1 DEF WalkInv, Within, AtRoot
  <2>3. \A k \in DOMAIN saved' : Recorded(k[1])
    <3>1. CASE UNCHANGED saved
      BY <3>1 DEF WalkInv
    <3>2. CASE Top.cp # "none" /\ saved' = Write(saved, Key, st)
      <4>1. Key[1] = pass.run /\ DOMAIN saved' = DOMAIN saved \cup {Key}
        BY <2>1, <3>2 DEF Write
      <4> QED
        BY <2>2, <3>2, <4>1 DEF WalkInv
    <3> QED
      BY <2>1, <3>1, <3>2
  <2> QED
    BY <1>1, <2>1, <2>3, ReturnWalks
<1> QED
  BY <1>2, <1>3, <1>4

\* Walking: the agents of a leaf.
LEMMA AgentWalks ==
  ASSUME TypeInv, WalkInv,
         \/ SelectConflict \/ Collect
         \/ \E i \in DOMAIN replies :
              \/ AgentFails(i)
              \/ \E x \in Agents[i].exits \cup {None} :
                   Streams(x) \/ \E silent \in BOOLEAN : Reply(i, x, silent)
  PROVE  WalkInv'
<1>1. pc = "ask" /\ UNCHANGED <<saved, pass, binary>>
  BY DEF AgentFails, Streams, Reply, SelectConflict, Collect, store, process
<1>2. CASE SelectConflict \/ \E i \in DOMAIN replies : AgentFails(i)
  <2>1. stack' = <<>> /\ pc' = "failed"
    BY <1>2 DEF SelectConflict, AgentFails, Fail
  <2> QED
    BY <1>1, <2>1, EmptyWalks
<1>3. ASSUME UNCHANGED stack, pc' \in {"ask", "save"}, Replied' PROVE WalkInv'
  <2>1. Asked' = Asked /\ Top' = Top
    BY <1>1, <1>3 DEF Asked, Top
  <2>2. ASSUME AtRoot PROVE AtRoot'
    BY <1>1, <1>3, <2>1, <2>2 DEF AtRoot
  <2>3. ASSUME Within PROVE Within'
    BY <1>1, <1>3, <2>1, <2>3 DEF Within
  <2> QED
    BY <1>1, <1>3, <2>1, <2>2, <2>3 DEF WalkInv
<1>4. CASE Collect
  BY <1>3, <1>4 DEF Collect, Replied
<1>5. ASSUME NEW i \in DOMAIN replies, NEW x \in Agents[i].exits \cup {None},
             Streams(x) \/ \E silent \in BOOLEAN : Reply(i, x, silent)
      PROVE  WalkInv'
  <2>1. UNCHANGED stack /\ pc' = "ask"
    BY <1>1, <1>5 DEF Streams, Reply
  <2>2. Top' = Top /\ \A j : Said(j).leaf = Top.flow.id
    BY <2>1 DEF Top, Said
  <2>3. ASSUME NEW j \in DOMAIN replies', replies'[j] # NotYet, NEW n \in DOMAIN replies'[j].said
        PROVE  replies'[j].said[n].leaf = Top.flow.id
    <3>1. CASE Streams(x)
      <4>1. replies' = <<[said |-> <<Said(1)>>, sel |-> x]>>
        BY <3>1 DEF Streams
      <4>2. j = 1 /\ replies'[j] = [said |-> <<Said(1)>>, sel |-> x]
        BY <4>1
      <4>3. replies'[j].said = <<Said(1)>> /\ n = 1
        BY <4>2
      <4> QED
        BY <2>2, <4>3
    <3>2. CASE \E silent \in BOOLEAN : Reply(i, x, silent)
      <4>1. PICK silent \in BOOLEAN : replies' = [replies EXCEPT ![i] = [said |-> IF silent THEN <<>> ELSE <<Said(i)>>, sel |-> x]]
        BY <3>2 DEF Reply
      <4>2. CASE j = i
        <5>1. replies'[j].said = IF silent THEN <<>> ELSE <<Said(i)>>
          BY <4>1, <4>2
        <5>2. ~silent /\ n = 1 /\ replies'[j].said[n] = Said(i)
          BY <5>1
        <5> QED
          BY <2>2, <5>2
      <4>3. CASE j # i
        BY <1>1, <2>3, <4>1, <4>3 DEF WalkInv, Replied
      <4> QED
        BY <4>2, <4>3
    <3> QED
      BY <1>5, <3>1, <3>2
  <2> QED
    BY <1>3, <2>1, <2>2, <2>3 DEF Replied
<1> QED
  BY <1>2, <1>4, <1>5

\* Walking: the flows that hold others, Respond, triggers and webhooks.
LEMMA HolderWalks ==
  ASSUME NEW made, BuiltUp(made), TypeInv, CheckInv, WalkInv,
         \/ EnterDecorated \/ SeqStep \/ SeqEnds \/ SelectNone \/ SelectEnter \/ UnknownSelect \/ NotifySends
         \/ BareTrigger \/ NothingToDefer \/ DeferFails \/ DeferBody \/ RegisterWebhook \/ RespondRuns
  PROVE  WalkInv'
<1>1. /\ pc \in {"run", "armed"} /\ (pc = "run" => ~(Top.flow.durable /\ Durably)) /\ UNCHANGED <<saved, binary>>
      /\ pass' = pass \/ \E b : pass' = [pass EXCEPT !.mixed = b]
  BY DEF EnterDecorated, SeqStep, SeqEnds, SelectNone, SelectEnter, UnknownSelect, NotifySends, BareTrigger,
         NothingToDefer, DeferFails, DeferBody, RegisterWebhook, RespondRuns, Splits, SeqAt, Ready, process, store
<1>2. pass'.run = pass.run
  BY <1>1 DEF TypeInv, ProcessOK, PassFields
<1>3. /\ stack # <<>> /\ Top \in Frames /\ Top.flow \in Flows /\ StackOK(stack) /\ Top.path \in Paths /\ Top.pos \in Nat
      /\ \A i \in DOMAIN Top.flow.kids : Top.flow.kids[i] \in Flows /\ i \in Nat
      /\ Top.flow.kind = "decorated" => 1 \in DOMAIN Top.flow.kids
  <2>1. stack # <<>> /\ Top \in Frames /\ Top.flow \in Flows /\ StackOK(stack)
    BY <1>1, TopIs DEF TypeInv
  <2> QED
    BY <2>1, PartsAre DEF Frames
<1>4. CASE EnterDecorated
  <2> DEFINE x == [Top EXCEPT !.flow = Top.flow.kids[1],
                              !.scope = IF Top.flow.model = None THEN @ ELSE Top.flow.model]
  <2>1. Top.flow.kind = "decorated" /\ stack' = Replaced(stack, x) /\ pc' = "run" /\ pass' = pass
    BY <1>4 DEF EnterDecorated, Ready, Descend, Replaced
  <2>2. Top.flow.kids[1] \in Flows /\ Top.flow.model \in Specs /\ 1 \in DOMAIN Top.flow.kids
    BY <1>3, <2>1, FlowsAssumption
  <2>3. x \in Frames /\ x.cp = Top.cp /\ x.flow = Top.flow.kids[1]
    BY <1>3, <2>2 DEF Frames
  <2> HIDE DEF x
  <2> QED
    BY <1>1, <1>3, <2>1, <2>2, <2>3, IntoWalks
<1>5. CASE SelectEnter
  <2>1. PICK i \in DOMAIN Top.flow.kids :
          /\ Top.flow.kids[i].id = st.sel
          /\ stack' = Replaced(stack, [Top EXCEPT !.flow = Top.flow.kids[i], !.path = Append(@, st.sel)])
    BY <1>5 DEF SelectEnter, Replaced
  <2> DEFINE x == [Top EXCEPT !.flow = Top.flow.kids[i], !.path = Append(@, st.sel)]
  <2>2. Top.flow.kind = "select" /\ stack' = Replaced(stack, x) /\ pc' = "run" /\ pass' = pass
    BY <1>5, <2>1 DEF SelectEnter, Ready
  <2>3. Append(Top.path, st.sel) \in Paths
    <3>1. st.sel \in {f.id : f \in Flows}
      BY <1>3, <2>1
    <3>2. \A p \in Paths : Append(p, st.sel) \in Paths
      BY <3>1, AppendIs
    <3> QED
      BY <1>3, <3>2
  <2>4. x \in Frames /\ x.cp = Top.cp /\ x.flow = Top.flow.kids[i]
    BY <1>3, <2>1, <2>3 DEF Frames
  <2> HIDE DEF x
  <2> QED
    BY <1>1, <1>3, <2>2, <2>4, IntoWalks
<1>6. CASE SeqStep
  <2>1. Top.sink \in BOOLEAN
    BY <1>3 DEF Frames
  <2>2. PICK s \in BOOLEAN :
          stack' = Pushed(stack, [Top EXCEPT !.flow = Top.flow.kids[Top.pos], !.path = Append(@, Top.pos),
                                             !.pos = 1, !.sink = s])
    BY <1>6, <2>1 DEF SeqStep, Pushed
  <2> DEFINE x == [Top EXCEPT !.flow = Top.flow.kids[Top.pos], !.path = Append(@, Top.pos), !.pos = 1,
                              !.sink = s]
  <2>3. Top.flow.kind = "seq" /\ Top.pos \in DOMAIN Top.flow.kids /\ pc' = "run" /\ pass' = pass
    BY <1>6 DEF SeqStep, SeqAt, Ready
  <2>4. Append(Top.path, Top.pos) \in Paths
    BY <1>3 DEF Paths
  <2>5. x \in Frames /\ x.cp = Top.cp /\ x.flow = Top.flow.kids[Top.pos]
    BY <1>3, <2>3, <2>4 DEF Frames
  <2>6. stack' = Pushed(stack, x)
    BY <2>2
  <2> HIDE DEF x
  <2> QED
    BY <1>1, <1>3, <2>3, <2>5, <2>6, DownWalks
<1>7. CASE \/ SeqEnds \/ SelectNone \/ BareTrigger \/ NothingToDefer \/ DeferBody \/ RegisterWebhook
           \/ RespondRuns \/ NotifySends \/ UnknownSelect \/ DeferFails
  <2>1. Fail \/ \E s : Return(s)
    BY <1>7 DEF SeqEnds, SelectNone, BareTrigger, NothingToDefer, DeferBody, RegisterWebhook, RespondRuns,
                NotifySends, UnknownSelect, DeferFails
  <2>2. ASSUME Fail PROVE WalkInv'
    BY <1>1, <2>2, EmptyWalks DEF Fail
  <2>3. ASSUME NEW s, Return(s) PROVE WalkInv'
    <3>1. \A k \in DOMAIN saved' : Recorded(k[1])
      BY <1>1 DEF WalkInv
    <3> QED
      BY <1>1, <1>2, <1>3, <2>3, <3>1, ReturnWalks
  <2> QED
    BY <2>1, <2>2, <2>3
<1> QED
  BY <1>4, <1>5, <1>6, <1>7

\* Walking: a pass begins.
LEMMA BeginWalks ==
  ASSUME DurableAtRoot, TypeInv, CheckInv, WalkInv,
         \/ RunAtStartup
         \/ \E r \in Clients, live \in BOOLEAN : Serve(r, live)
         \/ \E e \in DOMAIN hooks : CallHook(e)
         \/ \E j \in jobs : FireJob(j)
  PROVE  WalkInv'
<1>1. UNCHANGED <<binary, saved>> /\ pc \in {"boot", "idle"}
  BY DEF RunAtStartup, Serve, CallHook, FireJob, NewPass, store, process
<1>2. ASSUME NEW kind, NEW f, NEW run, NEW live, NEW said, NEW depth, NEW lineage,
             Begin(kind, f, run, live, said, depth, lineage)
      PROVE  /\ pc' = "run" /\ pass'.run = run /\ pass'.kind = kind
             /\ Len(stack') = 1 /\ DOMAIN stack' = {1} /\ Top' = stack'[1] /\ stack' # <<>>
             /\ Top'.flow = f /\ Top'.path = <<>> /\ Top'.pos = 1 /\ Top'.cp = "none"
             /\ st'.chat = said /\ st'.sel = None /\ st'.sent = -1
  <2> DEFINE x == [Frame(f) EXCEPT !.sink = live]
  <2>1. stack' = <<x>> /\ pc' = "run" /\ pass'.run = run /\ pass'.kind = kind
        /\ st'.chat = said /\ st'.sel = None /\ st'.sent = -1
    BY <1>2 DEF Begin, Idle, NoState
  <2>2. x.flow = f /\ x.path = <<>> /\ x.pos = 1 /\ x.cp = "none"
    BY DEF Frame
  <2> HIDE DEF x
  <2> QED
    BY <2>1, <2>2 DEF Top
<1>3. CASE \/ \E e \in DOMAIN hooks : CallHook(e)
           \/ \E j \in jobs : FireJob(j)
  <2>1. pass'.run = Fresh /\ pc' = "run"
    BY <1>3 DEF CallHook, FireJob, Begin, Idle
  <2> QED
    BY <1>1, <2>1, RequestAssumption DEF WalkInv, Replied, Runs
<1>4. CASE RunAtStartup
  <2>1. Begin("boot", seqOf(Head(boot)), BootRun, FALSE, <<>>, 0, 0) /\ boot # <<>>
    BY <1>4 DEF RunAtStartup
  <2>2. Head(boot) \in Chains
    BY <2>1 DEF TypeInv, ProcessOK
  <2>3. Quiet(seqOf(Head(boot)))
    BY <2>2 DEF DurableAtRoot
  <2>4. pass'.run = BootRun /\ pc' = "run" /\ DOMAIN stack' = {1} /\ Top' = stack'[1]
        /\ Top'.flow = seqOf(Head(boot)) /\ Top'.cp = "none"
    BY <1>2, <2>1
  <2>5. BootRun \notin Clients /\ ~Recorded(BootRun)
    BY RequestAssumption DEF Recorded
  <2>6. Within'
    BY <2>3, <2>4, <2>5 DEF Within
  <2> QED
    BY <1>1, <2>4, <2>5, <2>6 DEF WalkInv, Replied
<1>5. ASSUME NEW r \in Clients, NEW live \in BOOLEAN, Serve(r, live) PROVE WalkInv'
  <2>1. Begin("request", ServedFlow(binary, r), r, live, <<User>>, 0, 0)
    BY <1>5 DEF Serve, ServedFlow, Running
  <2>2. /\ pass'.run = r /\ pass'.kind = "request" /\ pc' = "run" /\ DOMAIN stack' = {1} /\ Top' = stack'[1]
        /\ Len(stack') = 1 /\ Top'.flow = ServedFlow(binary, r) /\ Top'.path = <<>> /\ Top'.pos = 1
        /\ Top'.cp = "none" /\ st'.chat = <<User>> /\ st'.sel = None /\ st'.sent = -1
    BY <1>2, <2>1
  <2>3. Asked' = ServedFlow(binary, r)
    BY <1>1, <2>2 DEF Asked
  <2>4. Inside(stack', Asked')
    BY <2>2, <2>3 DEF Inside
  <2>5. Within' \/ AtRoot'
    <3>1. CASE Recorded(r)
      BY <2>2, <2>3, <3>1 DEF AtRoot
    <3>2. CASE ~Recorded(r)
      <4>1. Quietly(r)
        BY <3>2 DEF Recorded, DurableAtRoot
      <4>2. binary \in DOMAIN Binaries /\ Deployable(binary)
        BY <1>1 DEF TypeInv, ProcessOK, CheckInv, Validated, Deployable, Running
      <4>3. Quiet(ServedFlow(binary, r))
        BY <4>1, <4>2 DEF Quietly
      <4> QED
        BY <2>2, <3>2, <4>3 DEF Within
    <3> QED
      BY <3>1, <3>2
  <2> QED
    BY <1>1, <2>2, <2>4, <2>5 DEF WalkInv, Replied
<1> QED
  BY <1>3, <1>4, <1>5

\* Walking: the process starts, boots, ends a pass or crashes.
LEMMA ServerWalks ==
  ASSUME TypeInv, WalkInv,
         (\E b \in DOMAIN Binaries : Deploy(b)) \/ Booted \/ Finish \/ Ended \/ Crash
  PROVE  WalkInv'
<1>1. UNCHANGED saved
  BY DEF Deploy, Booted, Finish, Ended, Crash, store
<1>2. stack' = <<>> /\ pc' # "ask"
  BY DEF Deploy, Booted, Finish, Ended, Crash, Clear, TypeInv, StandOK
<1> QED
  BY <1>1, <1>2, EmptyWalks

\* Every step keeps where a pass stands.
LEMMA WalkStep ==
  ASSUME NEW made, BuiltUp(made), DurableAtRoot
  PROVE  TypeInv /\ CheckInv /\ RecordInv /\ WalkInv /\ [Next]_vars => WalkInv'
<1> SUFFICES ASSUME TypeInv, CheckInv, RecordInv, WalkInv, [Next]_vars PROVE WalkInv'
  OBVIOUS
<1>1. CASE Walk
  <2>1. CASE \/ SelectConflict \/ Collect
             \/ \E i \in DOMAIN replies :
                  \/ AgentFails(i)
                  \/ \E x \in Agents[i].exits \cup {None} :
                       Streams(x) \/ \E silent \in BOOLEAN : Reply(i, x, silent)
    BY <2>1, AgentWalks
  <2>2. CASE ActivateDurable \/ Load \/ Miss \/ Save
    BY <2>2, ActivateWalks, LeafWalks
  <2>3. CASE Booted \/ Finish \/ Ended
    BY <2>3, ServerWalks
  <2>4. CASE \/ EnterDecorated \/ SeqStep \/ SeqEnds \/ SelectNone \/ SelectEnter \/ UnknownSelect \/ NotifySends
             \/ BareTrigger \/ NothingToDefer \/ DeferFails \/ DeferBody \/ RegisterWebhook \/ RespondRuns
    BY <2>4, HolderWalks
  <2>5. CASE RunAtStartup
    BY <2>5, BeginWalks
  <2> QED
    BY <1>1, <2>1, <2>2, <2>3, <2>4, <2>5 DEF Walk
<1>2. CASE (\E b \in DOMAIN Binaries : Deploy(b)) \/ Crash
  BY <1>2, ServerWalks
<1>3. CASE \/ \E r \in Clients, live \in BOOLEAN : Serve(r, live)
           \/ \E e \in DOMAIN hooks : CallHook(e)
           \/ \E j \in jobs : FireJob(j)
  BY <1>3, BeginWalks
<1>4. CASE UNCHANGED vars
  <2>1. UNCHANGED <<saved, replies, pass, stack, pc, st, binary>>
    BY <1>4 DEF vars, store, walking, process
  <2> QED
    BY <2>1 DEF WalkInv, Replied, Inside, Within, AtRoot, Asked, Top
<1> QED
  BY <1>1, <1>2, <1>3, <1>4 DEF Next

-----------------------------------------------------------------------------
(* The trail of a run: what its passes went through, as far as it is recorded. *)

\* Where a pass over g is once it resumes and records.
Begun(g) == [depth |-> 1, frames |-> [i \in 1..1 |-> [sig |-> Signature(g), path |-> <<>>, pos |-> 1]],
             chat |-> <<User>>, sel |-> None, sent |-> -1]

\* All messages but the client's were said by leaves of L.
SaidBy(chat, L) == \A i \in DOMAIN chat \ {1} : chat[i].leaf \in L

\* The standings of T lead from the beginning of g to z, over what is recorded for r;
\* z tells all that is recorded, and has it behind.
Trail(r, T, z, g) ==
  /\ Begun(g) \in T /\ z \in T
  /\ \A C \in T : C.chat \in Chats /\ Promise!Extends(z.chat, C.chat)
  /\ \A C \in T \ {z} :
       /\ C.depth # 0
       /\ Leaf(C) => /\ Place(r, C) \in current
                     /\ Promise!Extends(saved[Place(r, C)].chat, C.chat) /\ saved[Place(r, C)].sent = C.sent
                     /\ Back(C, saved[Place(r, C)].chat, saved[Place(r, C)].sel, saved[Place(r, C)].sent) \in T
       /\ ~Leaf(C) => Go(C) \in T
  /\ \A k \in current : k[1] = r =>
       /\ Promise!Extends(z.chat, saved[k].chat) /\ Past(k[2], z)
       /\ SaidBy(saved[k].chat, Leaves[g])

\* Its structure is the one the guard lets through.
Guarded(r, g) ==
  \E b \in DOMAIN Binaries :
    /\ Deployable(b) /\ g = ServedFlow(b, r)
    /\ g.compatible \/ (<<r, <<>>>> \in DOMAIN ver /\ ver[<<r, <<>>>>] = Signature(g))

\* The pass of r resumes nothing, and there was something.
Overlaid(r) == pass.run = r /\ pass.over /\ stack # <<>> /\ Top.cp = "stale"

\* What is saved for r beyond its records is out of the way.
Resumable(r, z) == (\A k \in DOMAIN saved : k[1] = r => k \in current) \/ z.depth = 0 \/ Overlaid(r)

\* The pass of r has passed its Durable; it is on the trail.
OnTheWay(r) == pass.run = r /\ (pc = "done" \/ (stack # <<>> /\ Top.cp # "none"))
Here(T) == \E C \in T : C.depth = Conf.depth /\ C.frames = Conf.frames /\ C.sent = Conf.sent
                        /\ IF pc = "save" THEN Promise!Extends(st.chat, C.chat) ELSE C = Conf

\* What a run has left behind is a trail, and its pass is on it.
Followed(r) ==
  \/ (\A k \in DOMAIN saved : k[1] # r) /\ ~OnTheWay(r)
  \/ \E T, z, g : /\ Trail(r, T, z, g) /\ Guarded(r, g) /\ Resumable(r, z)
                  /\ OnTheWay(r) => Signature(g) = Signature(Asked) /\ Here(T)

TrailInv == \A r \in Clients : Recorded(r) /\ sound[r] => Followed(r)

\* What is being said is said by what was asked for.
SaidInv == pass.run \in Clients /\ sound[pass.run] /\ pc \in {"run", "armed", "ask", "save", "done"} =>
             SaidBy(st.chat, Leaves[Asked])

\* A conversation goes on from itself, and from what it goes on from.
LEMMA ExtendsOn ==
  ASSUME NEW c \in Chats, NEW d \in Chats, NEW e \in Chats
  PROVE  /\ Promise!Extends(c, c)
         /\ Promise!Extends(c, d) /\ Promise!Extends(d, e) => Promise!Extends(c, e)
<1>1. /\ DOMAIN c = 1..Len(c) /\ DOMAIN d = 1..Len(d) /\ DOMAIN e = 1..Len(e)
      /\ Len(c) \in Nat /\ Len(d) \in Nat /\ Len(e) \in Nat
  BY DEF Chats
<1> QED
  BY <1>1 DEF Promise!Extends

\* What is told of r stays, when what it is told by does.
LEMMA FollowedStays ==
  ASSUME NEW r, Followed(r),
         \A k : k[1] = r => /\ k \in DOMAIN saved' <=> k \in DOMAIN saved
                            /\ k \in current' <=> k \in current
                            /\ k \in current => saved'[k] = saved[k],
         <<r, <<>>>> \in DOMAIN ver => <<r, <<>>>> \in DOMAIN ver' /\ ver'[<<r, <<>>>>] = ver[<<r, <<>>>>],
         OnTheWay(r)' => OnTheWay(r) /\ Asked' = Asked /\ \A T : Here(T) => Here(T)',
         Overlaid(r) => Overlaid(r)'
  PROVE  Followed(r)'
<1>1. CASE (\A k \in DOMAIN saved : k[1] # r) /\ ~OnTheWay(r)
  BY <1>1 DEF Followed
<1>2. CASE \E T, z, g : /\ Trail(r, T, z, g) /\ Guarded(r, g) /\ Resumable(r, z)
                        /\ OnTheWay(r) => Signature(g) = Signature(Asked) /\ Here(T)
  <2>1. PICK T, z, g : /\ Trail(r, T, z, g) /\ Guarded(r, g) /\ Resumable(r, z)
                       /\ OnTheWay(r) => Signature(g) = Signature(Asked) /\ Here(T)
    BY <1>2
  <2>2. Trail(r, T, z, g)'
    <3>1. \A C : Place(r, C)[1] = r
      BY DEF Place
    <3> QED
      BY <2>1, <3>1 DEF Trail
  <2>3. Guarded(r, g)'
    BY <2>1 DEF Guarded
  <2>4. Resumable(r, z)'
    BY <2>1 DEF Resumable
  <2>5. OnTheWay(r)' => Signature(g) = Signature(Asked') /\ Here(T)'
    BY <2>1
  <2> QED
    BY <2>2, <2>3, <2>4, <2>5 DEF Followed
<1> QED
  BY <1>1, <1>2 DEF Followed

\* The pass of r goes on silently.
LEMMA FollowedOn ==
  ASSUME NEW r, pass.run = r, OnTheWay(r), Followed(r), pc \in {"run", "armed"}, Keys, current \subseteq DOMAIN saved,
         Conf' = Go(Conf), Conf.depth # 0, ~Leaf(Conf), \A p \in Paths : Past(p, Conf) => Past(p, Go(Conf)),
         st'.chat = st.chat, pc' \in {"run", "done"}, pc' = "done" => Conf'.depth = 0, stack' = <<>> => pc' = "done",
         UNCHANGED <<saved, current, ver, Asked>>, pass'.run = r, pass'.over = pass.over,
         stack' # <<>> => Top'.cp = Top.cp
  PROVE  Followed(r)'
<1>1. PICK T, z, g : /\ Trail(r, T, z, g) /\ Guarded(r, g) /\ Resumable(r, z)
                     /\ OnTheWay(r) => Signature(g) = Signature(Asked) /\ Here(T)
  BY DEF Followed
<1>2. PICK C : C = Conf
  OBVIOUS
<1>3. C \in T /\ Signature(g) = Signature(Asked') /\ C.depth # 0 /\ ~Leaf(C)
      /\ \A p \in Paths : Past(p, C) => Past(p, Go(C))
  BY <1>1, <1>2 DEF Here
<1>4. PICK D : D = Go(C)
  OBVIOUS
<1>5. Conf' = D /\ D.chat = C.chat
  <2>1. Conf'.chat = st'.chat /\ Conf.chat = st.chat
    BY DEF Conf, ConfOf
  <2> QED
    BY <1>2, <1>4, <2>1
<1>6. \A k \in current : k[2] \in Paths
  BY DEF Keys
<1>7. Guarded(r, g)'
  BY <1>1 DEF Guarded
<1>8. Overlaid(r) => Overlaid(r)' \/ D.depth = 0
  BY <1>5 DEF Overlaid
<1>9. CASE C # z
  <2>1. D \in T
    BY <1>1, <1>3, <1>4, <1>9 DEF Trail
  <2>2. Trail(r, T, z, g)'
    BY <1>1 DEF Trail
  <2>3. D.depth = 0 => z.depth = 0
    BY <1>1, <2>1 DEF Trail
  <2>4. Resumable(r, z)'
    BY <1>1, <1>8, <2>3 DEF Resumable
  <2>5. Here(T)'
    BY <1>5, <2>1 DEF Here
  <2> QED
    BY <1>3, <1>7, <2>2, <2>4, <2>5 DEF Followed
<1>10. CASE C = z
  <2>1. PICK U : U = T \cup {D}
    OBVIOUS
  <2>2. Trail(r, U, D, g)'
    <3>1. Begun(g) \in U /\ D \in U
      BY <1>1, <2>1 DEF Trail
    <3>2. \A B \in U : B.chat \in Chats /\ Promise!Extends(D.chat, B.chat)
      BY <1>1, <1>3, <1>5, <1>10, <2>1 DEF Trail
    <3>3. ASSUME NEW B \in U \ {D}
          PROVE  /\ B.depth # 0
                 /\ Leaf(B) => /\ Place(r, B) \in current
                               /\ Promise!Extends(saved[Place(r, B)].chat, B.chat) /\ saved[Place(r, B)].sent = B.sent
                               /\ Back(B, saved[Place(r, B)].chat, saved[Place(r, B)].sel, saved[Place(r, B)].sent) \in U
                 /\ ~Leaf(B) => Go(B) \in U
      <4>1. CASE B = z
        BY <1>3, <1>4, <1>10, <2>1, <4>1
      <4>2. CASE B # z
        BY <1>1, <2>1, <4>2 DEF Trail
      <4> QED
        BY <4>1, <4>2
    <3>4. ASSUME NEW k \in current, k[1] = r
          PROVE  /\ Promise!Extends(D.chat, saved[k].chat) /\ Past(k[2], D)
                 /\ SaidBy(saved[k].chat, Leaves[g])
      BY <1>1, <1>3, <1>4, <1>5, <1>6, <1>10, <3>4 DEF Trail
    <3> QED
      BY <3>1, <3>2, <3>3, <3>4 DEF Trail
  <2>3. Resumable(r, D)'
    BY <1>1, <1>3, <1>8, <1>10 DEF Resumable
  <2>4. Here(U)'
    BY <1>5, <2>1 DEF Here
  <2> QED
    BY <1>3, <1>7, <2>2, <2>3, <2>4 DEF Followed
<1> QED
  BY <1>9, <1>10

\* What is saved where the pass of r is, is recorded, and the trail goes on from it.
LEMMA LoadFollows ==
  ASSUME NEW r, pass.run = r, Followed(r), TypeInv, stack # <<>>, pc \in {"run", "armed"}, Top.cp = "live",
         Key \in DOMAIN saved, Keys,
         Leaf(Conf), Place(r, Conf) = Key, Conf.depth # 0
  PROVE  \E T, z, g : /\ Trail(r, T, z, g) /\ Guarded(r, g) /\ Resumable(r, z)
                      /\ Signature(g) = Signature(Asked)
                      /\ Back(Conf, saved[Key].chat, saved[Key].sel, saved[Key].sent) \in T
                      /\ SaidBy(saved[Key].chat, Leaves[g])
                      /\ Promise!Extends(saved[Key].chat, Conf.chat) /\ saved[Key].sent = Conf.sent
<1>1. OnTheWay(r)
  BY DEF OnTheWay
<1>2. PICK T, z, g : /\ Trail(r, T, z, g) /\ Guarded(r, g) /\ Resumable(r, z)
                     /\ OnTheWay(r) => Signature(g) = Signature(Asked) /\ Here(T)
  BY <1>1 DEF Followed
<1>3. Conf \in T /\ Signature(g) = Signature(Asked)
  BY <1>1, <1>2 DEF Here
<1>4. Conf # z
  <2> SUFFICES ASSUME Conf = z PROVE FALSE
    OBVIOUS
  <2>1. Key \in current /\ Key[1] = r
    BY <1>2 DEF Resumable, Overlaid, Key
  <2>2. Past(Conf.frames[1].path, Conf)
    BY <1>2, <2>1 DEF Trail, Place, Key
  <2>3. 1 \in 1..Conf.depth /\ Conf.frames[1].path \in Paths
    <3>1. ConfOK(Conf)
      BY ConfTyped DEF TypeInv, StandOK, Conf
    <3> QED
      BY <3>1 DEF ConfOK
  <2>4. Starts(Conf.frames[1].path, Conf.frames[1].path) /\ Len(Conf.frames[1].path) \in Nat
    BY <2>3 DEF Starts, Paths
  <2> QED
    BY <2>2, <2>3, <2>4 DEF Past
<1>5. Key \in current /\ Back(Conf, saved[Key].chat, saved[Key].sel, saved[Key].sent) \in T /\ Key[1] = r
      /\ Promise!Extends(saved[Key].chat, Conf.chat) /\ saved[Key].sent = Conf.sent
  BY <1>2, <1>3, <1>4 DEF Trail, Key
<1>6. SaidBy(saved[Key].chat, Leaves[g])
  BY <1>2, <1>5 DEF Trail
<1> QED
  BY <1>2, <1>3, <1>5, <1>6

\* The pass of r takes what is saved.
LEMMA FollowedLoad ==
  ASSUME NEW r, pass.run = r, Followed(r), TypeInv, stack # <<>>, pc \in {"run", "armed"}, Top.cp = "live",
         Key \in DOMAIN saved, Keys, Leaf(Conf), Place(r, Conf) = Key, Conf.depth # 0,
         Conf' = Back(Conf, saved[Key].chat, saved[Key].sel, saved[Key].sent),
         pc' \in {"run", "done"}, pc' = "done" => Conf'.depth = 0,
         UNCHANGED <<saved, current, ver, Asked>>
  PROVE  Followed(r)'
<1>1. PICK T, z, g : /\ Trail(r, T, z, g) /\ Guarded(r, g) /\ Resumable(r, z)
                     /\ Signature(g) = Signature(Asked)
                     /\ Back(Conf, saved[Key].chat, saved[Key].sel, saved[Key].sent) \in T
                     /\ SaidBy(saved[Key].chat, Leaves[g])
  BY LoadFollows
<1>2. Trail(r, T, z, g)' /\ Guarded(r, g)'
  BY <1>1 DEF Trail, Guarded
<1>3. Resumable(r, z)'
  BY <1>1 DEF Resumable, Overlaid
<1>4. Here(T)'
  BY <1>1 DEF Here
<1> QED
  BY <1>1, <1>2, <1>3, <1>4 DEF Followed

\* The pass of r records where it is.
LEMMA FollowedSave ==
  ASSUME NEW r, pass.run = r, OnTheWay(r), Followed(r), TypeInv, Keys, pc = "save", Key \notin current,
         Leaf(Conf), Place(r, Conf) = Key, Conf.depth # 0,
         ConfOK(Conf), Past(Top.path, Back(Conf, st.chat, st.sel, st.sent)),
         SaidBy(st.chat, Leaves[Asked]),
         \A g : Guarded(r, g) /\ Signature(g) = Signature(Asked) => Leaves[g] = Leaves[Asked],
         saved' = Write(saved, Key, st), current' = current \cup {Key},
         Conf' = Back(Conf, st.chat, st.sel, st.sent), pc' \in {"run", "done"}, pc' = "done" => Conf'.depth = 0,
         stack' = <<>> => pc' = "done",
         UNCHANGED <<ver, Asked, pass>>, stack' # <<>> => Top'.cp = Top.cp
  PROVE  Followed(r)'
<1>1. PICK T, z, g : /\ Trail(r, T, z, g) /\ Guarded(r, g) /\ Resumable(r, z)
                     /\ OnTheWay(r) => Signature(g) = Signature(Asked) /\ Here(T)
  BY DEF Followed
<1>2. PICK C \in T : C.depth = Conf.depth /\ C.frames = Conf.frames /\ C.sent = Conf.sent
                    /\ Promise!Extends(st.chat, C.chat)
  BY <1>1 DEF Here
<1>3. C.sent = st.sent /\ Leaf(C) /\ Place(r, C) = Key /\ C.depth # 0 /\ ConfOK(C) /\ Key = <<r, Top.path>> /\ st.chat \in Chats
  BY <1>2 DEF Leaf, Place, ConfOK, Key, TypeInv, StandOK, StateOK, Conf, ConfOf
<1>4. C = z
  BY <1>1, <1>2, <1>3 DEF Trail
<1>5. PICK D : D = Back(C, st.chat, st.sel, st.sent)
  OBVIOUS
<1>6. Conf' = D /\ D.chat = st.chat
  BY <1>2, <1>5 DEF Back
<1>7. /\ \A k \in current : k[2] \in Paths /\ k # Key /\ saved'[k] = saved[k]
      /\ saved'[Key] = st /\ DOMAIN saved' = DOMAIN saved \cup {Key}
  BY DEF Keys, Write, TypeInv, KeptOK
<1>8. Guarded(r, g)'
  BY <1>1 DEF Guarded
<1>9. PICK U : U = T \cup {D}
  OBVIOUS
<1>10. Trail(r, U, D, g)'
  <2>1. Begun(g) \in U /\ D \in U
    BY <1>1, <1>9 DEF Trail
  <2>2. \A B \in U : B.chat \in Chats /\ Promise!Extends(D.chat, B.chat)
    <3>1. ASSUME NEW B \in T PROVE B.chat \in Chats /\ Promise!Extends(D.chat, B.chat)
      BY <1>1, <1>2, <1>3, <1>4, <1>6, ExtendsOn DEF Trail
    <3>2. D.chat \in Chats /\ Promise!Extends(D.chat, D.chat)
      BY <1>3, <1>6, ExtendsOn
    <3> QED
      BY <1>9, <3>1, <3>2
  <2>3. ASSUME NEW B \in U \ {D}
        PROVE  /\ B.depth # 0
               /\ Leaf(B) => /\ Place(r, B) \in current'
                             /\ Promise!Extends(saved'[Place(r, B)].chat, B.chat) /\ saved'[Place(r, B)].sent = B.sent
                             /\ Back(B, saved'[Place(r, B)].chat, saved'[Place(r, B)].sel, saved'[Place(r, B)].sent) \in U
               /\ ~Leaf(B) => Go(B) \in U
    <3>1. CASE B = z
      BY <1>2, <1>3, <1>4, <1>5, <1>7, <1>9, <3>1
    <3>2. CASE B # z
      <4>1. /\ B.depth # 0 /\ B \in T
            /\ Leaf(B) => /\ Place(r, B) \in current
                          /\ Promise!Extends(saved[Place(r, B)].chat, B.chat) /\ saved[Place(r, B)].sent = B.sent
                          /\ Back(B, saved[Place(r, B)].chat, saved[Place(r, B)].sel, saved[Place(r, B)].sent) \in T
            /\ ~Leaf(B) => Go(B) \in T
        BY <1>1, <1>9, <2>3, <3>2 DEF Trail
      <4> QED
        BY <1>7, <1>9, <4>1
    <3> QED
      BY <3>1, <3>2
  <2>4. ASSUME NEW k \in current', k[1] = r
        PROVE  /\ Promise!Extends(D.chat, saved'[k].chat) /\ Past(k[2], D)
               /\ SaidBy(saved'[k].chat, Leaves[g])
    <3>1. CASE k = Key
      <4>1. saved'[k].chat = D.chat /\ Promise!Extends(D.chat, D.chat)
        BY <1>3, <1>6, <1>7, <3>1, ExtendsOn
      <4>2. Past(k[2], D)
        BY <1>3, <1>6, <3>1
      <4>3. SaidBy(D.chat, Leaves[g])
        BY <1>1, <1>6
      <4> QED
        BY <4>1, <4>2, <4>3
    <3>2. CASE k # Key
      <4>1. k \in current /\ saved'[k] = saved[k] /\ k[2] \in Paths
        BY <1>7, <3>2
      <4>2. Promise!Extends(z.chat, saved[k].chat) /\ Past(k[2], z) /\ SaidBy(saved[k].chat, Leaves[g])
        BY <1>1, <2>4, <4>1 DEF Trail
      <4>3. saved[k].chat \in Chats /\ z.chat \in Chats
        BY <1>1, <4>1 DEF Trail, TypeInv, KeptOK, StateOK
      <4>4. Promise!Extends(D.chat, saved[k].chat)
        BY <1>2, <1>3, <1>4, <1>6, <4>2, <4>3, ExtendsOn
      <4>5. Past(k[2], D)
        BY <1>3, <1>4, <1>5, <4>1, <4>2, PastBack
      <4> QED
        BY <4>1, <4>2, <4>4, <4>5
    <3> QED
      BY <3>1, <3>2
  <2> QED
    BY <2>1, <2>2, <2>3, <2>4 DEF Trail
<1>11. Resumable(r, D)'
  <2>1. CASE \A k \in DOMAIN saved : k[1] = r => k \in current
    BY <1>7, <2>1 DEF Resumable
  <2>2. CASE z.depth = 0
    BY <1>3, <1>4, <2>2
  <2>3. CASE Overlaid(r)
    BY <1>6, <2>3 DEF Overlaid, Resumable
  <2> QED
    BY <1>1, <2>1, <2>2, <2>3 DEF Resumable
<1>12. Here(U)'
  BY <1>6, <1>9 DEF Here
<1> QED
  BY <1>1, <1>8, <1>10, <1>11, <1>12 DEF Followed

-----------------------------------------------------------------------------
(* The trail goes on, whatever the pass or another does.                  *)

\* Whatever may be deployed, a compatible flow of a client has the structure of its others.
KeepsShape ==
  \A r \in Clients, b, c \in DOMAIN Binaries :
    Deployable(b) /\ Deployable(c) /\ ServedFlow(b, r).compatible =>
      Signature(ServedFlow(b, r)) = Signature(ServedFlow(c, r))

\* What the guard tells apart tells the leaves.
LEMMA SameLeaves ==
  ASSUME NEW made, BuiltUp(made), WellMade, NEW f \in Flows, NEW g \in Flows, Signature(f) = Signature(g)
  PROVE  Leaves[f] = Leaves[g]
<1> DEFINE in(h) == IF h.kind = "decorated" THEN h.kids[1] ELSE h
<1>1. ASSUME NEW h \in Flows PROVE in(h) \in Flows /\ Leaves[in(h)] = Leaves[h] /\ Signature(h) = structureSig[in(h)]
  <2>1. CASE h.kind = "decorated"
    <3>1. /\ 1 \in DOMAIN h.kids /\ h.kids[1] \in Flows /\ Len(h.kids) = 1 /\ h.kids \in Seq(Flows)
      BY <2>1, PartsAre DEF WellMade
    <3>2. DOMAIN h.kids = {1}
      BY <3>1
    <3>3. Leaves[h] = UNION {Leaves[h.kids[i]] : i \in DOMAIN h.kids}
      BY <2>1, LeavesAre DEF LeafStep
    <3> QED
      BY <2>1, <3>1, <3>2, <3>3 DEF Signature
  <2>2. CASE h.kind # "decorated"
    BY <2>2 DEF Signature
  <2> QED
    BY <2>1, <2>2
<1> HIDE DEF in
<1> QED
  BY <1>1, SigTells

\* What was once not whole stays so.
LEMMA SoundStays ==
  ASSUME HistoryOK, TypeInv, RecordInv, [Next]_vars, NEW r \in Runs, sound'[r]
  PROVE  sound[r]
<1>1. RecordStays \/ UNCHANGED <<Log, answer, sound>>
  BY RecordsKept
<1>2. CASE sound' = sound
  BY <1>2
<1>3. ASSUME NEW q \in Runs, NEW b \in BOOLEAN, sound' = [sound EXCEPT ![q] = @ /\ b] PROVE sound[r]
  BY <1>3 DEF HistoryOK
<1>4. ASSUME NEW q \in Runs, sound' = [sound EXCEPT ![q] = FALSE] PROVE sound[r]
  BY <1>4 DEF HistoryOK
<1> QED
  BY <1>1, <1>2, <1>3, <1>4 DEF RecordStays, Promise!Record, Promise!Forget, Promise!Doubt, Told

\* The guard lets a trail through only to the structure that left it.
LEMMA GuardTells ==
  ASSUME KeepsShape, TypeInv, CheckInv, AtRoot, pc # "down",
         NEW g, Guarded(pass.run, g), Asked.compatible \/ (Key \in DOMAIN ver /\ ver[Key] = Signature(Asked))
  PROVE  Signature(g) = Signature(Asked)
<1>1. pass.run \in Clients /\ binary \in DOMAIN Binaries /\ Deployable(binary) /\ Key = <<pass.run, <<>>>>
  BY AskedIs DEF AtRoot, Recorded, Key
<1>2. PICK b \in DOMAIN Binaries :
        /\ Deployable(b) /\ g = ServedFlow(b, pass.run)
        /\ g.compatible \/ (Key \in DOMAIN ver /\ ver[Key] = Signature(g))
  BY <1>1 DEF Guarded
<1> QED
  BY <1>1, <1>2 DEF KeepsShape, Asked

\* A pass resumes what the guard lets through, and else begins a trail.
LEMMA FollowedActivate ==
  ASSUME NEW r, pass.run = r, KeepsShape, TypeInv, CheckInv, RecordInv, HistoryOK, WalkInv, ActivateDurable,
         Followed(r), sound'[r]
  PROVE  Followed(r)'
<1>1. /\ WalkInv' /\ AtRoot /\ Asked' = Asked /\ stack # <<>> /\ pass'.run = pass.run
      /\ Top'.flow = Top.flow /\ Top'.path = Top.path /\ Top'.pos = Top.pos /\ Len(stack') = Len(stack)
  BY ActivateWalks
<1>2. r = pass.run
  OBVIOUS
<1>3. PICK F : F = Asked
  OBVIOUS
<1>4. /\ r \in Clients /\ r \in Runs /\ Top.flow = F /\ Key = <<r, <<>>>> /\ Top.path = <<>> /\ Len(stack) = 1
      /\ pc = "run" /\ pc' = "armed" /\ Top.cp = "none" /\ st.chat = <<User>> /\ st.sel = None /\ st.sent = -1 /\ st' = st
      /\ saved' = saved /\ F.durable /\ binary' = binary /\ pc # "down"
  BY <1>1, <1>2, <1>3 DEF ActivateDurable, AtRoot, Recorded, Key, Runs, process
<1>5. binary \in DOMAIN Binaries /\ Deployable(binary) /\ F = ServedFlow(binary, r)
  BY <1>2, <1>3, <1>4, AskedIs DEF Asked
<1>6. Conf' = Begun(F)
  <2>1. Len(stack') = 1 /\ FrameOf(stack'[1]) = [sig |-> Signature(F), path |-> <<>>, pos |-> 1]
    BY <1>1, <1>4 DEF AtRoot, FrameOf, Inner, Signature, Top
  <2>2. [i \in 1..1 |-> FrameOf(stack'[i])] = [i \in 1..1 |-> [sig |-> Signature(F), path |-> <<>>, pos |-> 1]]
    BY <2>1
  <2> QED
    BY <1>4, <2>1, <2>2 DEF Conf, ConfOf, Begun
<1>7. ~OnTheWay(r) /\ ~Overlaid(r)
  BY <1>4 DEF OnTheWay, Overlaid
<1>8. sound' # [sound EXCEPT ![r] = FALSE]
  BY <1>2, <1>4 DEF HistoryOK
<1>9. ~StoreFails
  BY <1>2, <1>4, <1>8, RequestAssumption DEF StoreFails, Durably
<1>10. ASSUME Guarded(r, F)', \A k \in current' : k[1] # r,
              (\A k \in DOMAIN saved : k[1] # r) \/ Overlaid(r)'
       PROVE  Followed(r)'
  <2>1. PICK z : z = Begun(F)
    OBVIOUS
  <2>2. PICK T : T = {z}
    OBVIOUS
  <2>3. Trail(r, T, z, F)'
    <3>1. <<User>> \in Chats /\ z.chat = <<User>>
      BY <2>1 DEF Chats, Msg, Begun
    <3>2. Promise!Extends(<<User>>, <<User>>)
      BY <3>1, ExtendsOn
    <3> QED
      BY <1>10, <2>1, <2>2, <3>1, <3>2 DEF Trail
  <2>4. Resumable(r, z)'
    BY <1>4, <1>10 DEF Resumable
  <2>5. Here(T)'
    BY <1>4, <1>6, <2>1, <2>2 DEF Here
  <2>6. Signature(F) = Signature(Asked')
    BY <1>1, <1>3
  <2> QED
    BY <1>10, <2>3, <2>4, <2>5, <2>6 DEF Followed
<1>11. CASE /\ Live /\ StoreOK /\ UNCHANGED ver
            /\ F.compatible \/ (Key \in DOMAIN ver /\ ver[Key] = Signature(F))
  <2>1. UNCHANGED <<current, ver, pass>>
    BY <1>11 DEF Live
  <2>2. CASE \A k \in DOMAIN saved : k[1] # r
    <3>1. Guarded(r, F)'
      BY <1>4, <1>5, <1>11, <2>1 DEF Guarded
    <3>2. \A k \in current' : k[1] # r
      BY <2>1, <2>2 DEF TypeInv, KeptOK
    <3> QED
      BY <1>10, <2>2, <3>1, <3>2, Zenon
  <2>3. CASE ~(\A k \in DOMAIN saved : k[1] # r)
    <3>1. PICK T, z, g : Trail(r, T, z, g) /\ Guarded(r, g) /\ Resumable(r, z)
      BY <1>2, <2>3 DEF Followed
    <3>2. Signature(g) = Signature(F)
      BY <1>1, <1>2, <1>3, <1>4, <1>11, <3>1, GuardTells
    <3>3. Trail(r, T, z, g)' /\ Guarded(r, g)'
      BY <1>4, <2>1, <3>1 DEF Trail, Guarded
    <3>4. Resumable(r, z)'
      BY <1>4, <1>7, <2>1, <3>1 DEF Resumable
    <3>5. Begun(g) = Begun(F)
      BY <3>2 DEF Begun
    <3>6. Here(T)'
      BY <1>4, <1>6, <3>1, <3>5 DEF Here, Trail
    <3> QED
      BY <1>1, <1>3, <3>2, <3>3, <3>4, <3>6 DEF Followed
  <2> QED
    BY <2>2, <2>3
<1>12. CASE Stale /\ StoreOK /\ ver' = Write(ver, Key, Signature(F))
  <2>1. \A k \in DOMAIN saved : k[1] = r => Under(k, Top.path)
    <3> SUFFICES ASSUME NEW k \in DOMAIN saved, k[1] = r PROVE Under(k, Top.path)
      OBVIOUS
    <3>1. k = <<k[1], k[2]>> /\ k[2] \in Paths
      BY DEF RecordInv, Keys
    <3>4. <<>> \in Paths
      BY DEF Paths
    <3>2. Starts(k[2], <<>>)
      BY <3>1 DEF Starts, Paths
    <3>3. Under(<<k[1], k[2]>>, <<>>)
      BY <3>1, <3>2, <3>4, UnderIs
    <3> QED
      BY <1>4, <3>1, <3>3
  <2>2. \A k \in current' : k[1] # r
    BY <1>2, <1>12, <2>1 DEF Stale, TypeInv, KeptOK
  <2>3. Guarded(r, F)'
    <3>1. <<r, <<>>>> \in DOMAIN ver' /\ ver'[<<r, <<>>>>] = Signature(F)
      BY <1>4, <1>12 DEF Write
    <3> QED
      BY <1>5, <3>1 DEF Guarded
  <2>4. ASSUME NEW k \in DOMAIN saved, k[1] = r PROVE Overlaid(r)'
    <3>1. pass'.over
      BY <1>2, <1>12, <2>1, <2>4 DEF Stale, TypeInv, ProcessOK, PassFields
    <3>2. stack' # <<>> /\ Top'.cp = "stale"
      <4>1. stack' = [stack EXCEPT ![1].cp = "stale"] /\ StackOK(stack)
        BY <1>12 DEF Stale, TypeInv, StandOK
      <4>2. 1 \in DOMAIN stack /\ stack[1] \in Frames
        BY <1>1, TopIs DEF TypeInv, StandOK, Top
      <4> QED
        BY <4>1, <4>2 DEF Top, Frames
    <3> QED
      BY <1>1, <1>2, <3>1, <3>2 DEF Overlaid
  <2> QED
    BY <1>10, <2>2, <2>3, <2>4, Zenon
<1> QED
  BY <1>2, <1>4, <1>9, <1>11, <1>12 DEF ActivateDurable

\* Once past its Durable, a pass resumes and records.
LEMMA OnItsWay ==
  ASSUME TypeInv, CheckInv, WalkInv, stack # <<>>, Recorded(pass.run), pc = "run" => ~(Top.flow.durable /\ Durably)
  PROVE  Top.cp # "none" /\ OnTheWay(pass.run)
<1>1. pass.run \in Runs
  BY DEF Recorded, Runs
<1>2. CASE Within
  BY <1>2 DEF Within, OnTheWay
<1>3. CASE AtRoot
  <2>1. pc # "run"
    BY <1>1, <1>3, RootIs, RequestAssumption DEF Durably
  <2> QED
    BY <1>3, <2>1 DEF AtRoot, OnTheWay
<1> QED
  BY <1>1, <1>2, <1>3 DEF WalkInv

\* A leaf stands for itself.
LEMMA LeafPlaced ==
  ASSUME NEW made, BuiltUp(made), WellMade, TypeInv, stack # <<>>, Top.flow.kind = "basic"
  PROVE  Leaf(Conf) /\ Conf.depth # 0 /\ Place(pass.run, Conf) = Key /\ ConfOK(Conf)
<1>1. StackOK(stack) /\ Top \in Frames /\ Top.flow \in Flows /\ 1 \in 1..Len(stack) /\ Len(stack) # 0
  <2>1. pc \in {"run", "armed", "ask", "save"} /\ StandOK
    BY DEF TypeInv, StandOK
  <2> QED
    BY <2>1, TopIs
<1>2. Conf.depth = Len(stack) /\ Conf.frames[1] = FrameOf(Top)
  BY <1>1 DEF Conf, ConfOf, Top
<1>3. FrameOf(Top).sig = structureSig[Top.flow] /\ FrameOf(Top).path = Top.path
  BY DEF FrameOf, Inner
<1>4. structureSig[Top.flow][1] = "basic"
  BY <1>1, SigShows DEF Shows
<1>5. ConfOK(Conf)
  BY <1>1, ConfTyped DEF Conf
<1> QED
  BY <1>1, <1>2, <1>3, <1>4, <1>5 DEF Leaf, Place, Key

\* The trail: another walks.
LEMMA OthersFollow ==
  ASSUME TypeInv, [Next]_vars, NEW r \in Clients, pass.run # r, Followed(r)
  PROVE  Followed(r)'
<1> DEFINE Same == /\ \A k : k[1] = r => /\ k \in DOMAIN saved' <=> k \in DOMAIN saved
                                         /\ k \in current' <=> k \in current
                                         /\ k \in current => saved'[k] = saved[k]
                   /\ <<r, <<>>>> \in DOMAIN ver =>
                        <<r, <<>>>> \in DOMAIN ver' /\ ver'[<<r, <<>>>>] = ver[<<r, <<>>>>]
           Off  == ~OnTheWay(r)'
<1>1. ASSUME UNCHANGED <<ver, saved, current>> PROVE Same
  BY <1>1
<1>2. ASSUME pass'.run # r PROVE Off
  BY <1>2 DEF OnTheWay
<1>3. r # Fresh /\ r # BootRun /\ current \subseteq DOMAIN saved
  BY RequestAssumption DEF Runs, TypeInv, KeptOK
<1>4. Key[1] = pass.run
  BY DEF Key
<1>5. ~Overlaid(r)
  BY DEF Overlaid
<1>6. Same /\ Off => Followed(r)'
  <2> SUFFICES ASSUME Same, Off PROVE Followed(r)'
    OBVIOUS
  <2> QED
    BY <1>5, FollowedStays
<1>7. CASE Walk
  <2>1. ASSUME NEW i \in DOMAIN replies,
               \/ AgentFails(i)
               \/ \E x \in Agents[i].exits \cup {None} :
                    Streams(x) \/ \E silent \in BOOLEAN : Reply(i, x, silent)
        PROVE  Same /\ Off
    <3>1. UNCHANGED <<ver, saved, current>> /\ pass' = pass
      BY <2>1 DEF AgentFails, Fail, Streams, Reply, store, history
    <3> QED
      BY <1>1, <1>2, <3>1
  <2>2. CASE ActivateDurable
    <3>1. saved' = saved /\ pass'.run = pass.run
      BY <2>2 DEF ActivateDurable, Live, Stale, TypeInv, ProcessOK, PassFields
    <3>2. ver' = ver \/ \E v : ver' = Write(ver, Key, v)
      BY <2>2 DEF ActivateDurable
    <3>3. current' = current \/ current' = {k \in current : ~(k[1] = pass.run /\ Under(k, Top.path))}
      BY <2>2 DEF ActivateDurable, Live, Stale
    <3>4. Same
      BY <1>3, <1>4, <3>1, <3>2, <3>3 DEF Write, Key
    <3> QED
      BY <1>2, <1>6, <3>1, <3>4
  <2>3. CASE Save
    <3>1. ver' = ver /\ pass' = pass
      BY <2>3 DEF Save
    <3>2. \/ UNCHANGED <<saved, current>>
          \/ saved' = Write(saved, Key, st) /\ current' = current \cup {Key}
      BY <2>3 DEF Save
    <3>3. Same
      BY <1>3, <1>4, <3>1, <3>2 DEF Write
    <3> QED
      BY <1>2, <1>6, <3>1, <3>3
  <2>4. CASE Load \/ Miss \/ SelectConflict \/ Collect
    <3>1. UNCHANGED <<ver, saved, current>> /\ pass' = pass
      BY <2>4 DEF Load, Miss, SelectConflict, Collect, Fail, store, history
    <3> QED
      BY <1>1, <1>6, <1>2, <3>1
  <2>5. CASE RunAtStartup
    <3>1. UNCHANGED <<ver, saved, current>> /\ pass'.run = BootRun
      BY <2>5 DEF RunAtStartup, Begin, Idle, store, history
    <3> QED
      BY <1>1, <1>6, <1>2, <1>3, <3>1
  <2>6. CASE Booted \/ Finish \/ Ended
    <3>1. UNCHANGED <<ver, saved, current>> /\ (pass' = pass \/ pass'.run = Fresh)
      BY <2>6 DEF Booted, Finish, Ended, Clear, Idle, store, history
    <3> QED
      BY <1>1, <1>6, <1>2, <1>3, <3>1
  <2>7. CASE \/ EnterDecorated \/ SeqStep \/ SeqEnds \/ SelectNone \/ SelectEnter \/ UnknownSelect \/ NotifySends
             \/ BareTrigger \/ NothingToDefer \/ DeferFails \/ DeferBody \/ RegisterWebhook
    <3>1. UNCHANGED <<ver, saved, current>> /\ pass' = pass
      BY <2>7
      DEF EnterDecorated, SeqStep, SeqEnds, SelectNone, SelectEnter, UnknownSelect, NotifySends, BareTrigger,
          NothingToDefer, DeferFails, DeferBody, RegisterWebhook, Fail, store, history
    <3> QED
      BY <1>1, <1>6, <1>2, <3>1
  <2>8. CASE RespondRuns
    <3>1. UNCHANGED <<ver, saved, current>> /\ pass'.run = pass.run
      BY <2>8 DEF RespondRuns, store, history, TypeInv, ProcessOK, PassFields
    <3> QED
      BY <1>1, <1>6, <1>2, <3>1
  <2> QED
    BY <1>6, <1>7, <2>1, <2>2, <2>3, <2>4, <2>5, <2>6, <2>7, <2>8 DEF Walk
<1>8. CASE (\E b \in DOMAIN Binaries : Deploy(b)) \/ Crash
  <2>1. UNCHANGED <<ver, saved, current>> /\ (pass' = pass \/ pass'.run = Fresh)
    BY <1>8 DEF Deploy, Crash, Clear, Idle, store, history
  <2> QED
    BY <1>1, <1>2, <1>3, <1>6, <2>1
<1>9. CASE \/ \E q \in Clients, live \in BOOLEAN : Serve(q, live)
           \/ \E e \in DOMAIN hooks : CallHook(e)
           \/ \E j \in jobs : FireJob(j)
  <2>1. UNCHANGED <<ver, saved, current>>
    BY <1>9 DEF Serve, CallHook, FireJob, store, history
  <2>2. ASSUME NEW kind, NEW f, NEW run, NEW live, NEW said, NEW depth, NEW lineage,
               Begin(kind, f, run, live, said, depth, lineage)
        PROVE  Off
    <3> DEFINE x == [Frame(f) EXCEPT !.sink = live]
    <3>1. pc' = "run" /\ stack' = <<x>> /\ x.cp = "none"
      BY <2>2 DEF Begin, Frame
    <3> HIDE DEF x
    <3>2. Top'.cp = "none"
      BY <3>1 DEF Top
    <3> QED
      BY <3>1, <3>2 DEF OnTheWay
  <2>3. Off
    BY <1>9, <2>2 DEF Serve, CallHook, FireJob
  <2> QED
    BY <1>1, <1>6, <2>1, <2>3
<1>10. CASE UNCHANGED vars
  <2>1. UNCHANGED <<ver, saved, current, pass>>
    BY <1>10 DEF vars, store, walking, history
  <2> QED
    BY <1>1, <1>2, <1>6, <2>1
<1> QED
  BY <1>7, <1>8, <1>9, <1>10 DEF Next

\* The trail: its pass is not on it.
LEMMA FollowedOff ==
  ASSUME NEW r, Followed(r), UNCHANGED <<ver, saved, current>>, ~OnTheWay(r)', ~Overlaid(r)
  PROVE  Followed(r)'
BY FollowedStays

\* The trail: its pass is cut short.
LEMMA FollowedCut ==
  ASSUME NEW r \in Clients, pass.run = r, HistoryOK, Followed(r), sound'[r], Cut,
         UNCHANGED <<ver, saved, current>>, stack' = <<>>, pc' # "done"
  PROVE  Followed(r)'
<1>1. ~pass.over
  BY DEF Cut, HistoryOK, Runs
<1>2. ~Overlaid(r) /\ ~OnTheWay(r)'
  BY <1>1 DEF Overlaid, OnTheWay
<1> QED
  BY <1>2, FollowedOff

\* The trail: the pass stays where it is.
LEMMA FollowedHere ==
  ASSUME NEW r, pass.run = r, Followed(r), OnTheWay(r), UNCHANGED <<ver, saved, current, Asked>>,
         pass'.over = pass.over, pass'.run = r, Conf'.depth = Conf.depth, Conf'.frames = Conf.frames, Conf'.sent = Conf.sent,
         pc # "save",
         IF pc' = "save" THEN Promise!Extends(st'.chat, Conf.chat) ELSE Conf' = Conf,
         stack # <<>> => stack' # <<>> /\ Top'.cp = Top.cp
  PROVE  Followed(r)'
<1>1. ASSUME NEW T, Here(T) PROVE Here(T)'
  BY <1>1 DEF Here
<1>2. Overlaid(r) => Overlaid(r)'
  BY DEF Overlaid
<1> QED
  BY <1>1, <1>2, FollowedStays

\* The trail: a leaf is to be asked, and its agents answer.
LEMMA FollowedAsks ==
  ASSUME NEW r \in Clients, pass.run = r, TypeInv, CheckInv, HistoryOK, WalkInv, Recorded(r), Followed(r), sound'[r],
         \/ Miss \/ SelectConflict \/ Collect
         \/ \E i \in DOMAIN replies :
              \/ AgentFails(i)
              \/ \E x \in Agents[i].exits \cup {None} :
                   Streams(x) \/ \E silent \in BOOLEAN : Reply(i, x, silent)
  PROVE  Followed(r)'
<1>1. /\ UNCHANGED <<ver, saved, current, pass, binary>> /\ Asked' = Asked
      /\ stack # <<>> /\ pc # "save" /\ (pc = "run" => ~(Top.flow.durable /\ Durably))
  <2>1. UNCHANGED <<ver, saved, current, pass, binary>>
    BY DEF Miss, SelectConflict, Collect, AgentFails, Streams, Reply, store, process, history
  <2>2. /\ pc \in {"run", "armed", "ask"} /\ (pc = "run" => ~(Top.flow.durable /\ Durably))
    BY DEF Miss, SelectConflict, Collect, AgentFails, Streams, Reply, Ready
  <2>3. stack # <<>>
    BY <2>2 DEF TypeInv, StandOK
  <2> QED
    BY <2>1, <2>2, <2>3 DEF Asked
<1>2. OnTheWay(r)
  BY <1>1, OnItsWay
<1>3. CASE UNCHANGED <<stack, st>> /\ pc' # "save"
  <2>1. Conf' = Conf /\ Top' = Top
    BY <1>3 DEF Conf, Top
  <2> QED
    BY <1>1, <1>2, <1>3, <2>1, FollowedHere
<1>4. CASE Collect
  <2> DEFINE more == Spoken[Len(replies)]
  <2>1. pc = "ask" /\ Answered = DOMAIN replies /\ pc' = "save" /\ stack' = stack
    BY <1>4 DEF Collect
  <2>2. Top.flow \in Flows /\ Top.flow.kind = "basic" /\ DOMAIN replies = DOMAIN Top.flow.agents
    BY <2>1, TopIs DEF TypeInv, AskOK
  <2>3. Len(replies) \in Nat /\ DOMAIN replies = 1..Len(replies)
    <3>1. Top.flow.agents \in Seq(Positions(Top.flow.agents))
      BY <2>2, FlowsAssumption
    <3>2. Len(Top.flow.agents) \in Nat /\ DOMAIN replies = 1..Len(Top.flow.agents)
      BY <2>2, <3>1, LenProperties
    <3> QED
      BY <3>2
  <2>4. \A i \in 1..Len(replies) : replies[i].said \in Chats
    BY <2>1, <2>3 DEF TypeInv, AskOK, Answered
  <2>5. more \in Chats
    BY <2>3, <2>4, SpokenTyped
  <2>6. \E x : st' = [st EXCEPT !.chat = st.chat \o more, !.sel = x]
    BY <1>4 DEF Collect
  <2> HIDE DEF more
  <2>7. st'.chat = st.chat \o more /\ st.chat \in Chats /\ st'.sent = st.sent
    BY <2>6 DEF TypeInv, StandOK, StateOK
  <2>8. Promise!Extends(st'.chat, st.chat)
    BY <2>5, <2>7 DEF Promise!Extends, Chats
  <2>9. Conf.chat = st.chat /\ Conf'.depth = Conf.depth /\ Conf'.frames = Conf.frames /\ Conf'.sent = Conf.sent /\ Top' = Top
    BY <2>1, <2>7 DEF Conf, ConfOf, Top
  <2> QED
    BY <1>1, <1>2, <2>1, <2>8, <2>9, FollowedHere
<1>5. CASE Cut /\ stack' = <<>> /\ pc' = "failed"
  BY <1>1, <1>5, FollowedCut
<1> QED
  BY <1>3, <1>4, <1>5 DEF Miss, SelectConflict, AgentFails, Streams, Reply, Fail

\* A flow returns, from among flows that resume and record alike.
LEMMA ReturnGoes ==
  ASSUME StandOK, stack # <<>>, NEW s, StateOK(s), Return(s), Within \/ AtRoot
  PROVE  /\ Conf' = Back(Conf, s.chat, s.sel, s.sent) /\ pc' \in {"run", "done"}
         /\ pc' = "done" => Conf'.depth = 0
         /\ stack' = <<>> => pc' = "done"
         /\ stack' # <<>> => Top'.cp = Top.cp
<1>1. StackOK(stack)
  BY DEF StandOK
<1>2. /\ Conf' = Back(Conf, s.chat, s.sel, s.sent)
      /\ Conf'.depth = Len(stack) - 1 /\ (pc' = "done" <=> Len(stack) = 1)
  BY ReturnConf
<1>3. StandOK' /\ pc' \in {"run", "done"}
  BY ReturnStands
<1>4. pc' = "done" => Conf'.depth = 0
  BY <1>2
<1>5. stack' = <<>> => pc' = "done"
  BY <1>3 DEF StandOK
<1>6. ASSUME stack' # <<>> PROVE Top'.cp = Top.cp
  <2>1. Len(stack) # 1
    BY <1>6 DEF Return
  <2>2. stack' = Popped(stack)
    BY <2>1 DEF Return, Popped
  <2>3. stack[2] \in Frames /\ 2 \in DOMAIN stack /\ Popped(stack)[1] = [stack[2] EXCEPT !.pos = @ + 1]
    BY <1>1, <2>1, PoppedIs
  <2>4. Top'.cp = stack[2].cp
    BY <2>2, <2>3 DEF Top, Frames
  <2>5. Within
    BY <2>1 DEF AtRoot
  <2> QED
    BY <2>3, <2>4, <2>5 DEF Within
<1> QED
  BY <1>2, <1>3, <1>4, <1>5, <1>6

\* The trail: a leaf is read back, or is saved.
LEMMA FollowedLeaf ==
  ASSUME NEW made, BuiltUp(made), WellMade, KeepsShape,
         NEW r \in Clients, pass.run = r, TypeInv, CheckInv, RecordInv, HistoryOK, WalkInv, SaidInv,
         Recorded(r), Followed(r), sound[r], sound'[r], Load \/ Save
  PROVE  Followed(r)'
<1>1. /\ UNCHANGED <<ver, pass, binary>> /\ Asked' = Asked /\ stack # <<>> /\ Top.flow.kind = "basic"
      /\ pc \in {"run", "armed", "save"} /\ (pc = "run" => ~(Top.flow.durable /\ Durably))
  <2>1. UNCHANGED <<ver, pass, binary>>
    BY DEF Load, Save, store, process
  <2>2. /\ pc \in {"run", "armed", "save"} /\ (pc = "run" => ~(Top.flow.durable /\ Durably))
    BY DEF Load, Save, Ready
  <2>3. stack # <<>>
    BY <2>2 DEF TypeInv, StandOK
  <2>4. Top.flow.kind = "basic"
    BY DEF Load, Save, Ready, RecordInv
  <2> QED
    BY <2>1, <2>2, <2>3, <2>4 DEF Asked
<1>2. OnTheWay(r) /\ Top.cp # "none"
  BY <1>1, OnItsWay
<1>3. Leaf(Conf) /\ Conf.depth # 0 /\ Place(r, Conf) = Key /\ ConfOK(Conf)
  BY <1>1, LeafPlaced
<1>4. /\ StandOK /\ StackOK(stack) /\ Top \in Frames /\ 1 \in DOMAIN stack
      /\ \A i \in DOMAIN stack : stack[i] \in Frames
  <2>1. StandOK /\ StackOK(stack) /\ Top \in Frames /\ 1 \in DOMAIN stack
    BY <1>1, TopIs DEF TypeInv
  <2> QED
    BY <2>1 DEF StackOK
<1>5. Within \/ AtRoot
  BY <1>1 DEF WalkInv, Runs
<1>6. CASE Load
  <2>1. Return(saved[Key]) /\ UNCHANGED <<saved, current>> /\ Top.cp = "live" /\ Key \in DOMAIN saved
        /\ pc \in {"run", "armed"}
    BY <1>6 DEF Load, store, history, Ready
  <2>2. StateOK(saved[Key])
    BY <2>1 DEF TypeInv, KeptOK
  <2>3. Conf' = Back(Conf, saved[Key].chat, saved[Key].sel, saved[Key].sent) /\ pc' \in {"run", "done"}
        /\ (pc' = "done" => Conf'.depth = 0)
    BY <1>1, <1>4, <1>5, <2>1, <2>2, ReturnGoes
  <2> QED
    BY <1>1, <1>3, <2>1, <2>3, FollowedLoad DEF RecordInv
<1>7. CASE Save
  <2>1. ~StoreFails
    BY RequestAssumption DEF StoreFails, Durably, Runs, HistoryOK
  <2>2. saved' = Write(saved, Key, st) /\ current' = current \cup {Key} /\ Return(st) /\ pc = "save"
    BY <1>2, <1>7, <2>1 DEF Save
  <2>3. StateOK(st)
    BY <1>4 DEF StandOK
  <2>4. /\ Conf' = Back(Conf, st.chat, st.sel, st.sent) /\ pc' \in {"run", "done"} /\ (pc' = "done" => Conf'.depth = 0)
        /\ stack' = <<>> => pc' = "done"
        /\ stack' # <<>> => Top'.cp = Top.cp
    BY <1>1, <1>4, <1>5, <2>2, <2>3, ReturnGoes
  <2>5. Key \notin current
    <3>1. CASE Top.cp = "live"
      BY <2>2, <3>1 DEF RecordInv, TypeInv, KeptOK
    <3>2. CASE Top.cp # "live"
      <4>1. Top.path \in Paths
        BY <1>4 DEF Frames
      <4>2. Top.cp = "stale"
        BY <1>2, <1>4, <3>2 DEF Frames
      <4>3. ~Behind(Top.path, stack, 1)
        BY <1>1, <4>1 DEF Behind, Starts, Top, Paths
      <4>4. Key = <<r, Top.path>>
        BY DEF Key
      <4> QED
        BY <1>4, <4>2, <4>3, <4>4 DEF RecordInv, NotAhead, Top
    <3> QED
      BY <3>1, <3>2
  <2>6. Past(Top.path, Back(Conf, st.chat, st.sel, st.sent))
    <3>1. \A i \in DOMAIN stack : ~stack[i].flow.durable \/ i = 1
      <4>1. CASE Within
        BY <4>1, QuietParts DEF Within
      <4>2. CASE AtRoot
        <5>1. DOMAIN stack = {1}
          BY <1>4, <4>2 DEF AtRoot, StackOK
        <5> QED
          BY <5>1
      <4> QED
        BY <1>5, <4>1, <4>2
    <3>2. \A i \in DOMAIN stack : stack[i].flow.kind = "seq" => structureSig[stack[i].flow][1] = "seq"
      <4>1. \A i \in DOMAIN stack : stack[i].flow \in Flows
        BY <1>4 DEF Frames
      <4> QED
        BY <4>1, SigShows DEF Shows
    <3>3. Pathed(stack)
      BY DEF RecordInv
    <3>4. Past(stack[1].path, Back(ConfOf(stack, st), st.chat, st.sel, st.sent))
      BY <1>1, <1>4, <3>1, <3>2, <3>3, PastLeaf
    <3> QED
      BY <3>4 DEF Top, Conf
  <2>7. SaidBy(st.chat, Leaves[Asked])
    BY <2>2 DEF SaidInv
  <2>8. \A g : Guarded(r, g) /\ Signature(g) = Signature(Asked) => Leaves[g] = Leaves[Asked]
    <3> SUFFICES ASSUME NEW g, Guarded(r, g), Signature(g) = Signature(Asked) PROVE Leaves[g] = Leaves[Asked]
      OBVIOUS
    <3>1. g \in Flows
      BY FlowsAssumption DEF Guarded, ServedFlow
    <3>2. Asked \in Flows
      BY <1>1, AskedIs
    <3> QED
      BY <3>1, <3>2, SameLeaves
  <2> QED
    BY <1>1, <1>2, <1>3, <2>2, <2>4, <2>5, <2>6, <2>7, <2>8, FollowedSave DEF RecordInv
<1> QED
  BY <1>6, <1>7

\* What is innermost next resumes and records as what was does.
LEMMA TopGoes ==
  ASSUME TypeInv, WalkInv, stack # <<>>, Within \/ AtRoot, pc' # "failed",
         \/ EnterDecorated \/ SeqStep \/ SeqEnds \/ SelectNone \/ SelectEnter \/ UnknownSelect \/ NotifySends
         \/ BareTrigger \/ NothingToDefer \/ DeferFails \/ DeferBody \/ RegisterWebhook \/ RespondRuns
  PROVE  (stack' = <<>> => pc' = "done") /\ (stack' # <<>> => Top'.cp = Top.cp)
<1>1. pc \in {"run", "armed", "ask", "save"} /\ StandOK
  BY DEF TypeInv, StandOK
<1>2. Top \in Frames /\ StackOK(stack) /\ StateOK(st) /\ stack \in Seq(Frames)
  <2>1. Top \in Frames /\ StackOK(stack) /\ StateOK(st)
    BY <1>1, TopIs
  <2> QED
    BY <2>1 DEF StackOK
<1>3. ASSUME NEW x, NEW t \in Seq(Frames), stack' = <<x>> \o t, x.cp = Top.cp
      PROVE  (stack' = <<>> => pc' = "done") /\ (stack' # <<>> => Top'.cp = Top.cp)
  <2>1. (<<x>> \o t)[1] = x /\ <<x>> \o t # <<>>
    BY <1>3
  <2> QED
    BY <1>3, <2>1 DEF Top
<1>4. ASSUME NEW s, StateOK(s), Return(s)
      PROVE  (stack' = <<>> => pc' = "done") /\ (stack' # <<>> => Top'.cp = Top.cp)
  BY <1>1, <1>4, ReturnGoes
<1>5. Tail(stack) \in Seq(Frames)
  BY <1>2
<1>6. CASE EnterDecorated
  <2> DEFINE x == [Top EXCEPT !.flow = Top.flow.kids[1],
                              !.scope = IF Top.flow.model = None THEN @ ELSE Top.flow.model]
  <2>1. stack' = <<x>> \o Tail(stack)
    BY <1>6 DEF EnterDecorated, Descend
  <2>2. x.cp = Top.cp
    BY <1>2 DEF Frames
  <2> HIDE DEF x
  <2> QED
    BY <1>3, <1>5, <2>1, <2>2
<1>7. CASE SelectEnter
  <2>1. PICK i \in DOMAIN Top.flow.kids :
          stack' = <<[Top EXCEPT !.flow = Top.flow.kids[i], !.path = Append(@, st.sel)]>> \o Tail(stack)
    BY <1>7 DEF SelectEnter
  <2> DEFINE x == [Top EXCEPT !.flow = Top.flow.kids[i], !.path = Append(@, st.sel)]
  <2>2. stack' = <<x>> \o Tail(stack)
    BY <2>1
  <2>3. x.cp = Top.cp
    BY <1>2 DEF Frames
  <2> HIDE DEF x
  <2> QED
    BY <1>3, <1>5, <2>2, <2>3
<1>8. CASE SeqStep
  <2>1. PICK s : stack' = <<[Top EXCEPT !.flow = Top.flow.kids[Top.pos], !.path = Append(@, Top.pos), !.pos = 1,
                                        !.sink = s]>> \o stack
    BY <1>8 DEF SeqStep
  <2> DEFINE x == [Top EXCEPT !.flow = Top.flow.kids[Top.pos], !.path = Append(@, Top.pos), !.pos = 1, !.sink = s]
  <2>2. stack' = <<x>> \o stack
    BY <2>1
  <2>3. x.cp = Top.cp
    BY <1>2 DEF Frames
  <2> HIDE DEF x
  <2> QED
    BY <1>2, <1>3, <2>2, <2>3
<1>9. CASE \/ SeqEnds \/ SelectNone \/ NotifySends \/ BareTrigger \/ NothingToDefer \/ DeferBody \/ RegisterWebhook
  <2>1. Return(st)
    BY <1>9 DEF SeqEnds, SelectNone, NotifySends, BareTrigger, NothingToDefer, DeferBody, RegisterWebhook, Fail
  <2> QED
    BY <1>2, <1>4, <2>1
<1>10. CASE RespondRuns
  <2>1. Return([st EXCEPT !.sent = Len(st.chat)])
    BY <1>10 DEF RespondRuns
  <2>2. StateOK([st EXCEPT !.sent = Len(st.chat)])
    BY <1>2 DEF StateOK, Chats
  <2> QED
    BY <1>4, <2>1, <2>2
<1>11. CASE UnknownSelect \/ DeferFails
  BY <1>11 DEF UnknownSelect, DeferFails, Fail
<1> QED
  BY <1>6, <1>7, <1>8, <1>9, <1>10, <1>11

\* The trail: the flows that hold others, Respond, triggers and webhooks.
LEMMA FollowedHolders ==
  ASSUME NEW made, BuiltUp(made), WellMade,
         NEW r \in Clients, pass.run = r, TypeInv, CheckInv, RecordInv, HistoryOK, WalkInv,
         Recorded(r), Followed(r), sound'[r],
         \/ EnterDecorated \/ SeqStep \/ SeqEnds \/ SelectNone \/ SelectEnter \/ UnknownSelect \/ NotifySends
         \/ BareTrigger \/ NothingToDefer \/ DeferFails \/ DeferBody \/ RegisterWebhook \/ RespondRuns
  PROVE  Followed(r)'
<1>1. /\ UNCHANGED <<ver, saved, current, binary>> /\ pc \in {"run", "armed"}
      /\ pc = "run" => ~(Top.flow.durable /\ Durably)
      /\ pass' = pass \/ \E b : pass' = [pass EXCEPT !.mixed = b]
      /\ pc' = "failed" => Cut /\ stack' = <<>>
  <2>1. UNCHANGED <<ver, saved, current, binary>> /\ pc \in {"run", "armed"}
        /\ (pc = "run" => ~(Top.flow.durable /\ Durably))
    BY DEF EnterDecorated, SeqStep, SeqEnds, SelectNone, SelectEnter, UnknownSelect, NotifySends, BareTrigger,
           NothingToDefer, DeferFails, DeferBody, RegisterWebhook, RespondRuns, Splits, SeqAt, Ready, process, store,
           history
  <2>2. pass' = pass \/ \E b : pass' = [pass EXCEPT !.mixed = b]
    BY DEF EnterDecorated, SeqStep, SeqEnds, SelectNone, SelectEnter, UnknownSelect, NotifySends, BareTrigger,
           NothingToDefer, DeferFails, DeferBody, RegisterWebhook, RespondRuns
  <2>3. pc' = "failed" => Cut /\ stack' = <<>>
    BY DEF EnterDecorated, SeqStep, SeqEnds, SelectNone, SelectEnter, UnknownSelect, NotifySends, BareTrigger,
           NothingToDefer, DeferFails, DeferBody, RegisterWebhook, RespondRuns, Return, Descend, Fail
  <2> QED
    BY <2>1, <2>2, <2>3
<1>2. pass'.run = r /\ pass'.over = pass.over /\ Asked' = Asked
  <2>1. pass'.run = r /\ pass'.over = pass.over
    BY <1>1 DEF TypeInv, ProcessOK, PassFields
  <2> QED
    BY <1>1, <2>1 DEF Asked
<1>3. stack # <<>> /\ StandOK /\ StackOK(stack) /\ Top \in Frames /\ 1 \in DOMAIN stack /\ Len(stack) \in Nat
  BY <1>1, TopIs DEF TypeInv
<1>4. OnTheWay(r) /\ Top.cp # "none"
  BY <1>1, <1>3, OnItsWay
<1>5. Within \/ AtRoot
  BY <1>3 DEF WalkInv, Runs
<1>6. CASE pc' = "failed"
  BY <1>1, <1>6, FollowedCut
<1>7. ASSUME pc' # "failed" PROVE (stack' = <<>> => pc' = "done") /\ (stack' # <<>> => Top'.cp = Top.cp)
  BY <1>3, <1>5, <1>7, TopGoes
<1>8. CASE pc' # "failed" /\ Within
  <2>1. ~Top.flow.durable /\ \A i \in DOMAIN Top.flow.kids : ~Top.flow.kids[i].durable
    BY <1>3, <1>8, QuietParts DEF Within, Top
  <2>2. \/ EnterDecorated \/ SeqStep \/ SeqEnds \/ SelectNone \/ SelectEnter \/ NotifySends
        \/ BareTrigger \/ NothingToDefer \/ DeferBody \/ RegisterWebhook \/ RespondRuns
    BY <1>8 DEF UnknownSelect, DeferFails, Fail
  <2>3. /\ Conf' = Go(Conf) /\ Conf.depth # 0 /\ ~Leaf(Conf)
        /\ \A p \in Paths : Past(p, Conf) => Past(p, Go(Conf))
        /\ st'.chat = st.chat /\ pc' \in {"run", "done"} /\ (pc' = "done" => Conf'.depth = 0)
    BY <1>3, <1>8, <2>1, <2>2, SilentGoes
  <2> QED
    BY <1>1, <1>2, <1>4, <1>7, <1>8, <2>3, FollowedOn DEF RecordInv, TypeInv, KeptOK
<1>9. CASE pc' # "failed" /\ AtRoot
  <2>1. /\ Top.flow.durable /\ Top.flow.kind \in {"basic", "decorated"}
        /\ \A i \in DOMAIN Top.flow.kids : Quiet(Top.flow.kids[i])
        /\ Top.flow \in Flows
    BY <1>3, <1>9, RootIs
  <2>2. EnterDecorated /\ Top.flow.kind = "decorated"
    BY <1>9, <2>1 DEF EnterDecorated, SeqStep, SeqEnds, SelectNone, SelectEnter, UnknownSelect, NotifySends, BareTrigger,
         NothingToDefer, DeferFails, DeferBody, RegisterWebhook, RespondRuns, Splits, SeqAt, Ready
  <2> DEFINE x == [Top EXCEPT !.flow = Top.flow.kids[1],
                              !.scope = IF Top.flow.model = None THEN @ ELSE Top.flow.model]
  <2>3. stack' = <<x>> \o Tail(stack) /\ st' = st /\ pc' = "run"
    BY <2>2 DEF EnterDecorated, Descend
  <2>4. x.flow = Top.flow.kids[1] /\ x.path = Top.path /\ x.pos = Top.pos
    BY <1>3 DEF Frames
  <2> HIDE DEF x
  <2>5. Len(stack) = 1 /\ Len(stack') = 1 /\ stack'[1] = x
    <3>1. Len(stack) = 1 /\ stack \in Seq(Frames)
      BY <1>3, <1>9 DEF AtRoot, StackOK
    <3>2. Tail(stack) = <<>>
      <4>1. Tail(stack) \in Seq(Frames) /\ Len(Tail(stack)) = 0
        BY <1>3, <3>1
      <4> QED
        BY <4>1, EmptySeq
    <3> QED
      BY <2>3, <3>1, <3>2
  <2>6. FrameOf(x) = FrameOf(stack[1])
    <3>1. 1 \in DOMAIN Top.flow.kids
      BY <2>1, <2>2, PartsAre
    <3>2. ~Top.flow.kids[1].durable
      BY <2>1, <3>1, QuietParts
    <3> QED
      BY <2>1, <2>2, <2>4, <3>2 DEF FrameOf, Inner, Top
  <2>7. Conf' = Conf
    <3>1. [i \in 1..1 |-> FrameOf(stack'[i])] = [i \in 1..1 |-> FrameOf(stack[i])]
      BY <2>5, <2>6
    <3> QED
      BY <2>3, <2>5, <3>1 DEF Conf, ConfOf
  <2>8. pc # "save" /\ pc' # "save" /\ stack' # <<>>
    BY <1>1, <1>7, <1>9, <2>3
  <2>9. stack' # <<>> /\ Top'.cp = Top.cp
    BY <1>7, <1>9, <2>8
  <2> QED
    BY <1>1, <1>2, <1>4, <2>7, <2>8, <2>9, FollowedHere
<1> QED
  BY <1>5, <1>6, <1>8, <1>9

\* The trail: a pass begins or ends, and the process starts, boots or crashes.
LEMMA FollowedServer ==
  ASSUME NEW r \in Clients, pass.run = r, TypeInv, HistoryOK, Followed(r), sound'[r],
         \/ (\E b \in DOMAIN Binaries : Deploy(b)) \/ Booted \/ Finish \/ Ended \/ Crash
         \/ RunAtStartup
         \/ \E q \in Clients, live \in BOOLEAN : Serve(q, live)
         \/ \E e \in DOMAIN hooks : CallHook(e)
         \/ \E j \in jobs : FireJob(j)
  PROVE  Followed(r)'
<1>1. UNCHANGED <<ver, saved, current>>
  BY DEF Deploy, Booted, Finish, Ended, Crash, RunAtStartup, Serve, CallHook, FireJob, store, history
<1>2. ASSUME pc \notin {"run", "armed", "ask", "save"} PROVE stack = <<>> /\ ~Overlaid(r)
  BY <1>2 DEF TypeInv, StandOK, Overlaid
<1>3. CASE (\E b \in DOMAIN Binaries : Deploy(b)) \/ Booted \/ Finish \/ Ended
  <2>1. pc \notin {"run", "armed", "ask", "save"} /\ pc' # "done" /\ (stack' = stack \/ stack' = <<>>)
    BY <1>3 DEF Deploy, Booted, Finish, Ended, Clear
  <2>2. ~OnTheWay(r)'
    BY <1>2, <2>1 DEF OnTheWay
  <2> QED
    BY <1>1, <1>2, <2>1, <2>2, FollowedOff
<1>4. CASE \/ RunAtStartup
           \/ \E q \in Clients, live \in BOOLEAN : Serve(q, live)
           \/ \E e \in DOMAIN hooks : CallHook(e)
           \/ \E j \in jobs : FireJob(j)
  <2>1. ASSUME NEW kind, NEW f, NEW run, NEW live, NEW said, NEW depth, NEW lineage,
               Begin(kind, f, run, live, said, depth, lineage)
        PROVE  ~OnTheWay(r)'
    <3> DEFINE x == [Frame(f) EXCEPT !.sink = live]
    <3>1. pc' = "run" /\ stack' = <<x>> /\ x.cp = "none"
      BY <2>1 DEF Begin, Frame
    <3> HIDE DEF x
    <3>2. Top'.cp = "none"
      BY <3>1 DEF Top
    <3> QED
      BY <3>1, <3>2 DEF OnTheWay
  <2>2. ~OnTheWay(r)'
    BY <1>4, <2>1 DEF RunAtStartup, Serve, CallHook, FireJob
  <2>3. pc \notin {"run", "armed", "ask", "save"}
    BY <1>4 DEF RunAtStartup, Serve, CallHook, FireJob, NewPass
  <2> QED
    BY <1>1, <1>2, <2>2, <2>3, FollowedOff
<1>5. CASE Crash
  <2>1. Cut /\ stack' = <<>> /\ pc' # "done"
    BY <1>5 DEF Crash, Clear
  <2> QED
    BY <1>1, <2>1, FollowedCut
<1> QED
  BY <1>3, <1>4, <1>5

\* All that the argument goes by.
AnswerInv == TypeInv /\ CheckInv /\ RecordInv /\ HistoryOK /\ WalkInv /\ TrailInv /\ SaidInv

\* Every step keeps the trails.
LEMMA TrailStep ==
  ASSUME NEW made, BuiltUp(made), WellMade, KeepsShape
  PROVE  AnswerInv /\ [Next]_vars => TrailInv'
<1> SUFFICES ASSUME AnswerInv, [Next]_vars, NEW r \in Clients, Recorded(r), sound'[r]
             PROVE  Followed(r)'
  BY DEF TrailInv, Recorded, Wholly, Deployable
<1> USE DEF AnswerInv
<1>1. sound[r] /\ Followed(r)
  <2>1. sound[r]
    BY SoundStays DEF Runs
  <2> QED
    BY <2>1 DEF TrailInv
<1>2. CASE pass.run # r
  BY <1>1, <1>2, OthersFollow
<1>3. CASE pass.run = r
  <2>1. CASE Walk
    <3>1. CASE ActivateDurable
      BY <1>1, <1>3, <3>1, FollowedActivate
    <3>2. CASE Load \/ Save
      BY <1>1, <1>3, <3>2, FollowedLeaf
    <3>3. CASE \/ Miss \/ SelectConflict \/ Collect
               \/ \E i \in DOMAIN replies :
                    \/ AgentFails(i)
                    \/ \E x \in Agents[i].exits \cup {None} :
                         Streams(x) \/ \E silent \in BOOLEAN : Reply(i, x, silent)
      BY <1>1, <1>3, <3>3, FollowedAsks
    <3>4. CASE \/ EnterDecorated \/ SeqStep \/ SeqEnds \/ SelectNone \/ SelectEnter \/ UnknownSelect \/ NotifySends
               \/ BareTrigger \/ NothingToDefer \/ DeferFails \/ DeferBody \/ RegisterWebhook \/ RespondRuns
      BY <1>1, <1>3, <3>4, FollowedHolders
    <3>5. CASE RunAtStartup \/ Booted \/ Finish \/ Ended
      BY <1>1, <1>3, <3>5, FollowedServer
    <3> QED
      BY <2>1, <3>1, <3>2, <3>3, <3>4, <3>5 DEF Walk
  <2>2. CASE \/ (\E b \in DOMAIN Binaries : Deploy(b)) \/ Crash
             \/ \E q \in Clients, live \in BOOLEAN : Serve(q, live)
             \/ \E e \in DOMAIN hooks : CallHook(e)
             \/ \E j \in jobs : FireJob(j)
    BY <1>1, <1>3, <2>2, FollowedServer
  <2>3. CASE UNCHANGED vars
    <3>1. UNCHANGED <<ver, saved, current, pass, stack, pc, st, binary>>
      BY <2>3 DEF vars, store, walking, process, history
    <3>2. /\ OnTheWay(r)' <=> OnTheWay(r)
          /\ Overlaid(r)' <=> Overlaid(r)
          /\ Asked' = Asked /\ Conf' = Conf
      BY <3>1 DEF OnTheWay, Overlaid, Asked, Top, Conf
    <3>3. ASSUME NEW T, Here(T) PROVE Here(T)'
      BY <3>1, <3>2, <3>3 DEF Here
    <3> QED
      BY <1>1, <3>1, <3>2, <3>3, FollowedStays
  <2> QED
    BY <2>1, <2>2, <2>3 DEF Next
<1> QED
  BY <1>2, <1>3

-----------------------------------------------------------------------------
(* What is said.                                                           *)

\* All that the agents of a leaf say, it says.
LEMMA SpokenBy ==
  ASSUME NEW k \in Nat, NEW l, \A i \in 1..k : replies[i].said \in Chats,
         \A i \in 1..k : \A n \in DOMAIN replies[i].said : replies[i].said[n].leaf = l
  PROVE  Spoken[k] \in Chats /\ \A n \in DOMAIN Spoken[k] : Spoken[k][n].leaf = l
<1>1. Gathers(Spoken, replies)
  BY GathersExists DEF Spoken, Gathers
<1> HIDE DEF Spoken
<1> DEFINE S == {j \in Nat : j <= k => /\ Spoken[j] \in Chats
                                       /\ \A n \in DOMAIN Spoken[j] : Spoken[j][n].leaf = l}
<1>2. 0 \in S
  BY <1>1 DEF Gathers, Chats
<1>3. ASSUME NEW j \in Nat, j \in S PROVE j + 1 \in S
  <2> SUFFICES ASSUME j + 1 <= k
               PROVE  Spoken[j + 1] \in Chats /\ \A n \in DOMAIN Spoken[j + 1] : Spoken[j + 1][n].leaf = l
    OBVIOUS
  <2>1. /\ Spoken[j] \in Chats /\ \A n \in DOMAIN Spoken[j] : Spoken[j][n].leaf = l
        /\ replies[j + 1].said \in Chats /\ \A n \in DOMAIN replies[j + 1].said : replies[j + 1].said[n].leaf = l
    BY <1>3
  <2>2. Spoken[j + 1] = Spoken[j] \o replies[j + 1].said
    <3>1. j + 1 \in Nat /\ j + 1 # 0 /\ (j + 1) - 1 = j
      OBVIOUS
    <3>2. \A i \in Nat : Spoken[i] = IF i = 0 THEN <<>> ELSE Spoken[i - 1] \o replies[i].said
      BY <1>1 DEF Gathers
    <3> QED
      BY <3>1, <3>2
  <2>3. ASSUME NEW c \in Chats, NEW d \in Chats,
               \A n \in DOMAIN c : c[n].leaf = l, \A n \in DOMAIN d : d[n].leaf = l
        PROVE  c \o d \in Chats /\ \A n \in DOMAIN (c \o d) : (c \o d)[n].leaf = l
    <3>1. /\ c \o d \in Chats /\ DOMAIN (c \o d) = 1..Len(c) + Len(d) /\ Len(c) \in Nat /\ Len(d) \in Nat
          /\ DOMAIN c = 1..Len(c) /\ DOMAIN d = 1..Len(d)
          /\ \A n \in 1..Len(c) + Len(d) : (c \o d)[n] = IF n <= Len(c) THEN c[n] ELSE d[n - Len(c)]
      BY DEF Chats
    <3>2. ASSUME NEW n \in 1..Len(c) + Len(d) PROVE n <= Len(c) => n \in 1..Len(c)
      BY <3>1
    <3>3. ASSUME NEW n \in 1..Len(c) + Len(d) PROVE ~(n <= Len(c)) => n - Len(c) \in 1..Len(d)
      BY <3>1
    <3> QED
      BY <2>3, <3>1, <3>2, <3>3
  <2>4. PICK c \in Chats : c = Spoken[j]
    BY <2>1
  <2>5. PICK d \in Chats : d = replies[j + 1].said
    BY <2>1
  <2>6. c \o d \in Chats /\ \A n \in DOMAIN (c \o d) : (c \o d)[n].leaf = l
    BY <2>1, <2>3, <2>4, <2>5
  <2> QED
    BY <2>2, <2>4, <2>5, <2>6
<1> HIDE DEF S
<1>4. k \in S
  BY <1>2, <1>3, Induction
<1> QED
  BY <1>4 DEF S

\* What is said: the replies of a leaf join.
LEMMA CollectSays ==
  ASSUME NEW made, BuiltUp(made), AnswerInv, pass.run \in Clients, Collect, SaidBy(st.chat, Leaves[Asked])
  PROVE  SaidBy(st'.chat, Leaves[Asked'])
<1> USE DEF AnswerInv
<1> DEFINE more == Spoken[Len(replies)]
<1>1. /\ pc = "ask" /\ Answered = DOMAIN replies /\ stack # <<>> /\ UNCHANGED <<pass, binary>>
      /\ \E x : st' = [st EXCEPT !.chat = st.chat \o more, !.sel = x]
  BY DEF Collect, TypeInv, StandOK, process
<1>2. Top.flow \in Flows /\ Top.flow.kind = "basic" /\ DOMAIN replies = DOMAIN Top.flow.agents /\ 1 \in DOMAIN stack
  BY <1>1, TopIs DEF TypeInv, AskOK
<1>3. Len(replies) \in Nat /\ DOMAIN replies = 1..Len(replies)
  <2>1. Top.flow.agents \in Seq(Positions(Top.flow.agents))
    BY <1>2, FlowsAssumption
  <2>2. Len(Top.flow.agents) \in Nat /\ DOMAIN replies = 1..Len(Top.flow.agents)
    BY <1>2, <2>1, LenProperties
  <2> QED
    BY <2>2
<1>4. /\ \A i \in 1..Len(replies) : replies[i].said \in Chats
      /\ \A i \in 1..Len(replies) : \A n \in DOMAIN replies[i].said : replies[i].said[n].leaf = Top.flow.id
  BY <1>1, <1>3 DEF TypeInv, AskOK, Answered, WalkInv, Replied
<1>5. more \in Chats /\ \A n \in DOMAIN more : more[n].leaf = Top.flow.id
  BY <1>3, <1>4, SpokenBy
<1> HIDE DEF more
<1>6. st'.chat = st.chat \o more /\ st.chat \in Chats /\ Asked' = Asked
  <2>1. StateOK(st)
    BY DEF TypeInv, StandOK
  <2> QED
    BY <1>1, <2>1 DEF StateOK, Asked
<1>7. Top.flow.id \in Leaves[Asked]
  <2>1. Leaves[Top.flow] = {Top.flow.id}
    BY <1>2, LeavesPart
  <2>2. Leaves[Top.flow] \subseteq Leaves[Asked]
    BY <1>2 DEF WalkInv, Inside, Top
  <2> QED
    BY <2>1, <2>2
<1>8. ASSUME NEW i \in DOMAIN (st.chat \o more) \ {1} PROVE (st.chat \o more)[i].leaf \in Leaves[Asked]
  <2>1. /\ Len(st.chat) \in Nat /\ Len(more) \in Nat /\ DOMAIN st.chat = 1..Len(st.chat) /\ DOMAIN more = 1..Len(more)
        /\ i \in 1..Len(st.chat) + Len(more)
        /\ (st.chat \o more)[i] = IF i <= Len(st.chat) THEN st.chat[i] ELSE more[i - Len(st.chat)]
    BY <1>5, <1>6, <1>8 DEF Chats
  <2>2. CASE i <= Len(st.chat)
    BY <1>8, <2>1, <2>2 DEF SaidBy
  <2>3. CASE ~(i <= Len(st.chat))
    <3>1. i - Len(st.chat) \in 1..Len(more)
      BY <2>1, <2>3
    <3> QED
      BY <1>5, <1>7, <2>1, <2>3, <3>1
  <2> QED
    BY <2>2, <2>3
<1> QED
  BY <1>6, <1>8 DEF SaidBy

\* What is said: what was saved is taken.
LEMMA LoadSays ==
  ASSUME NEW made, BuiltUp(made), WellMade, AnswerInv, pass.run \in Clients, sound[pass.run], Load
  PROVE  SaidBy(st'.chat, Leaves[Asked'])
<1> USE DEF AnswerInv
<1>1. /\ pc \in {"run", "armed"} /\ Top.cp = "live" /\ Key \in DOMAIN saved /\ Return(saved[Key])
      /\ Top.flow.kind = "basic" /\ UNCHANGED <<pass, binary>> /\ (pc = "run" => ~(Top.flow.durable /\ Durably))
  BY DEF Load, Ready, process
<1>2. stack # <<>> /\ pass.run \in Runs /\ st' = saved[Key] /\ Asked' = Asked
  BY <1>1 DEF TypeInv, StandOK, Return, Runs, Asked
<1>3. Recorded(pass.run)
  BY <1>1, <1>2 DEF WalkInv, Within, AtRoot
<1>4. PICK r : r = pass.run
  OBVIOUS
<1>5. Followed(r)
  BY <1>3, <1>4 DEF TrailInv
<1>6. Leaf(Conf) /\ Conf.depth # 0 /\ Place(r, Conf) = Key
  BY <1>1, <1>2, <1>4, LeafPlaced
<1>7. PICK T, z, g : /\ Trail(r, T, z, g) /\ Guarded(r, g) /\ Resumable(r, z)
                     /\ Signature(g) = Signature(Asked)
                     /\ Back(Conf, saved[Key].chat, saved[Key].sel, saved[Key].sent) \in T
                     /\ SaidBy(saved[Key].chat, Leaves[g])
  BY <1>1, <1>2, <1>4, <1>5, <1>6, LoadFollows DEF RecordInv
<1>8. g \in Flows
  BY <1>4, <1>7, FlowsAssumption DEF Guarded, ServedFlow
<1>9. Asked \in Flows
  BY <1>1, AskedIs
<1>10. Leaves[g] = Leaves[Asked]
  BY <1>7, <1>8, <1>9, SameLeaves
<1> QED
  BY <1>2, <1>7, <1>10

\* Every step keeps that what is said is said by what was asked for.
LEMMA SaidStep ==
  ASSUME NEW made, BuiltUp(made), WellMade
  PROVE  AnswerInv /\ [Next]_vars => SaidInv'
<1> SUFFICES ASSUME AnswerInv, [Next]_vars, (pass.run \in Clients)', sound'[pass'.run],
                    pc' \in {"run", "armed", "ask", "save", "done"}
             PROVE  SaidBy(st'.chat, Leaves[Asked'])
  BY DEF SaidInv
<1> USE DEF AnswerInv
<1>1. ASSUME pass'.run = pass.run, binary' = binary, st'.chat = st.chat,
             pc \in {"run", "armed", "ask", "save", "done"}
      PROVE  SaidBy(st'.chat, Leaves[Asked'])
  <2>1. sound[pass.run] /\ pass.run \in Clients
    BY <1>1, SoundStays DEF Runs
  <2> QED
    BY <1>1, <2>1 DEF SaidInv, Asked
<1>2. CASE Walk
  <2>1. ASSUME NEW i \in DOMAIN replies,
               \/ AgentFails(i)
               \/ \E x \in Agents[i].exits \cup {None} :
                    Streams(x) \/ \E silent \in BOOLEAN : Reply(i, x, silent)
        PROVE  SaidBy(st'.chat, Leaves[Asked'])
    <3>1. pc = "ask" /\ UNCHANGED <<pass, st, binary>>
      BY <2>1 DEF AgentFails, Fail, Streams, Reply, process
    <3> QED
      BY <1>1, <3>1
  <2>2. CASE ActivateDurable \/ Miss
    <3>1. pc \in {"run", "armed"} /\ UNCHANGED <<st, binary>>
      BY <2>2 DEF ActivateDurable, Miss, Ready, process
    <3>2. pass'.run = pass.run
      BY <2>2 DEF ActivateDurable, Miss, Live, Stale, TypeInv, ProcessOK, PassFields
    <3> QED
      BY <1>1, <3>1, <3>2
  <2>3. CASE Save
    <3>1. pc = "save" /\ UNCHANGED <<st, binary, pass>>
      BY <2>3 DEF Save, Return, process
    <3> QED
      BY <1>1, <3>1
  <2>4. CASE Load
    <3>1. pass' = pass /\ pass.run \in Clients /\ sound[pass.run]
      BY <2>4, SoundStays DEF Load, Runs
    <3> QED
      BY <2>4, <3>1, LoadSays
  <2>5. CASE Collect
    <3>1. pass' = pass /\ pass.run \in Clients /\ sound[pass.run] /\ pc = "ask"
      BY <2>5, SoundStays DEF Collect, Runs
    <3>2. SaidBy(st.chat, Leaves[Asked])
      BY <3>1 DEF SaidInv
    <3> QED
      BY <2>5, <3>1, <3>2, CollectSays
  <2>6. CASE \/ SelectConflict
             \/ EnterDecorated \/ SeqStep \/ SeqEnds \/ SelectNone \/ SelectEnter \/ UnknownSelect \/ NotifySends
             \/ BareTrigger \/ NothingToDefer \/ DeferFails \/ DeferBody \/ RegisterWebhook
    <3>1. pc \in {"run", "armed", "ask"} /\ UNCHANGED <<pass, binary>>
      BY <2>6 DEF SelectConflict, EnterDecorated, SeqStep, SeqEnds, SelectNone, SelectEnter, UnknownSelect, NotifySends,
         BareTrigger, NothingToDefer, DeferFails, DeferBody, RegisterWebhook, Splits, SeqAt, Ready, process
    <3>2. st' = st \/ st' = [st EXCEPT !.sel = None]
      BY <2>6 DEF SelectConflict, EnterDecorated, SeqStep, SeqEnds, SelectNone, SelectEnter, UnknownSelect, NotifySends,
         BareTrigger, NothingToDefer, DeferFails, DeferBody, RegisterWebhook, Return, Descend, Fail
    <3>3. st'.chat = st.chat
      BY <3>2 DEF TypeInv, StandOK, StateOK
    <3> QED
      BY <1>1, <3>1, <3>3
  <2>7. CASE RespondRuns
    <3>1. pc \in {"run", "armed"} /\ binary' = binary /\ st' = [st EXCEPT !.sent = Len(st.chat)]
      BY <2>7 DEF RespondRuns, Ready, process, Return
    <3>2. pass'.run = pass.run /\ st'.chat = st.chat
      BY <2>7, <3>1 DEF RespondRuns, TypeInv, ProcessOK, PassFields, StandOK, StateOK
    <3> QED
      BY <1>1, <3>1, <3>2
  <2>8. CASE RunAtStartup
    <3>1. pass'.run = BootRun
      BY <2>8 DEF RunAtStartup, Begin, Idle
    <3> QED
      BY <3>1, RequestAssumption
  <2>9. CASE Booted \/ Finish \/ Ended
    BY <2>9 DEF Booted, Finish, Ended
  <2> QED
    BY <1>2, <2>1, <2>2, <2>3, <2>4, <2>5, <2>6, <2>7, <2>8, <2>9 DEF Walk
<1>3. CASE (\E b \in DOMAIN Binaries : Deploy(b)) \/ Crash
  BY <1>3 DEF Deploy, Crash
<1>4. CASE (\E e \in DOMAIN hooks : CallHook(e)) \/ \E j \in jobs : FireJob(j)
  <2>1. pass'.run = Fresh
    BY <1>4 DEF CallHook, FireJob, Begin, Idle
  <2> QED
    BY <2>1, RequestAssumption DEF Runs
<1>5. CASE \E r \in Clients, live \in BOOLEAN : Serve(r, live)
  <2>1. st'.chat = <<User>>
    BY <1>5 DEF Serve, Begin, NoState
  <2> QED
    BY <2>1 DEF SaidBy
<1>6. CASE UNCHANGED vars
  <2>1. UNCHANGED <<pass, binary, st, pc>>
    BY <1>6 DEF vars, walking, process
  <2> QED
    BY <1>1, <2>1
<1> QED
  BY <1>2, <1>3, <1>4, <1>5, <1>6 DEF Next

-----------------------------------------------------------------------------
(* What an answer tells.                                                   *)

\* The program starts so.
LEMMA AnswerInit == Init => AnswerInv
<1> SUFFICES ASSUME Init PROVE AnswerInv
  OBVIOUS
<1>1. TypeInv /\ CheckInv /\ RecordInv /\ HistoryOK
  BY TypeInit, CheckInit, RecordInit
<1>2. saved = <<>> /\ stack = <<>> /\ pc = "down" /\ pass.run = Fresh
  BY DEF Init, Idle
<1>3. WalkInv
  BY <1>2, RequestAssumption DEF WalkInv, Replied, Inside
<1>4. TrailInv
  BY <1>2 DEF TrailInv, Followed, OnTheWay
<1>5. SaidInv
  BY <1>2 DEF SaidInv
<1> QED
  BY <1>1, <1>3, <1>4, <1>5 DEF AnswerInv

\* Every step keeps all of it.
LEMMA AnswerStep ==
  ASSUME NEW made, BuiltUp(made), WellMade, DurableAtRoot, KeepsShape
  PROVE  AnswerInv /\ [Next]_vars => AnswerInv'
<1> SUFFICES ASSUME AnswerInv, [Next]_vars PROVE AnswerInv'
  OBVIOUS
<1>1. TypeInv' /\ RecordInv' /\ HistoryOK'
  BY TypeStep, RecordStep, HistoryStep DEF AnswerInv
<1>2. CheckInv'
  BY CheckStep DEF AnswerInv
<1>3. WalkInv'
  BY WalkStep DEF AnswerInv
<1>4. TrailInv'
  BY TrailStep
<1>5. SaidInv'
  BY SaidStep
<1> QED
  BY <1>1, <1>2, <1>3, <1>4, <1>5 DEF AnswerInv

\* An answer tells all that is recorded, as it was recorded.
LEMMA AnswersTell ==
  ASSUME AnswerInv, Finish, NEW r \in Runs, r = pass.run
  PROVE  Promise!Answer(r)
<1> USE DEF AnswerInv
<1>1. UNCHANGED <<saved, current, sound>> /\ Log' = Log /\ pc = "done" /\ Durably
  BY LogStays, RequestAssumption DEF Finish, store, Durably
<1>2. answer' = [answer EXCEPT ![r] = st.chat] /\ answer'[r] = st.chat
  BY <1>1 DEF Finish, HistoryOK
<1>3. ASSUME sound[r], NEW k \in current, k[1] = r PROVE Promise!Extends(st.chat, saved[k].chat)
  <2>1. Recorded(r)
    BY <1>3 DEF WalkInv, TypeInv, KeptOK
  <2>2. Followed(r) /\ OnTheWay(r)
    BY <1>1, <1>3, <2>1 DEF TrailInv, Recorded, OnTheWay
  <2>3. PICK T, z, g : Trail(r, T, z, g) /\ Here(T)
    BY <2>2 DEF Followed
  <2>4. stack = <<>>
    BY <1>1 DEF TypeInv, StandOK
  <2>5. Conf.depth = 0 /\ Conf.chat = st.chat
    BY <2>4 DEF Conf, ConfOf
  <2>6. Conf \in T
    BY <1>1, <2>3 DEF Here
  <2>7. Conf = z
    BY <2>3, <2>5, <2>6 DEF Trail
  <2> QED
    BY <1>3, <2>3, <2>5, <2>7 DEF Trail
<1>4. sound[r] => \A k \in DOMAIN Log[r] : Promise!Extends(answer'[r], Log[r][k])
  BY <1>2, <1>3, LogIs
<1> QED
  BY <1>1, <1>2, <1>4 DEF Promise!Answer, Log

\* Nothing but an answer answers.
LEMMA OnlyFinish == [Next]_vars => answer' = answer \/ Finish
<1> SUFFICES ASSUME [Next]_vars, ~Finish PROVE answer' = answer
  OBVIOUS
<1> USE DEF history
<1>1. CASE Walk
  <2>1. ASSUME NEW i \in DOMAIN replies,
               \/ AgentFails(i)
               \/ \E x \in Agents[i].exits \cup {None} :
                    Streams(x) \/ \E silent \in BOOLEAN : Reply(i, x, silent)
        PROVE  answer' = answer
    BY <2>1 DEF AgentFails, Streams, Reply
  <2>2. CASE ActivateDurable \/ Load \/ Miss \/ Save \/ SelectConflict \/ Collect
    BY <2>2 DEF ActivateDurable, Load, Miss, Save, SelectConflict, Collect
  <2>3. CASE RunAtStartup \/ Booted \/ Ended
    BY <2>3 DEF RunAtStartup, Booted, Ended
  <2>4. CASE \/ EnterDecorated \/ SeqStep \/ SeqEnds \/ SelectNone \/ SelectEnter \/ UnknownSelect \/ NotifySends
             \/ BareTrigger \/ NothingToDefer \/ DeferFails \/ DeferBody \/ RegisterWebhook \/ RespondRuns
    BY <2>4
    DEF EnterDecorated, SeqStep, SeqEnds, SelectNone, SelectEnter, UnknownSelect, NotifySends, BareTrigger,
        NothingToDefer, DeferFails, DeferBody, RegisterWebhook, RespondRuns
  <2> QED
    BY <1>1, <2>1, <2>2, <2>3, <2>4 DEF Walk
<1>2. CASE (\E b \in DOMAIN Binaries : Deploy(b)) \/ Crash
  BY <1>2 DEF Deploy, Crash
<1>3. CASE \/ \E r \in Clients, live \in BOOLEAN : Serve(r, live)
           \/ \E e \in DOMAIN hooks : CallHook(e)
           \/ \E j \in jobs : FireJob(j)
  BY <1>3 DEF Serve, CallHook, FireJob
<1>4. CASE UNCHANGED vars
  BY <1>4 DEF vars
<1> QED
  BY <1>1, <1>2, <1>3, <1>4 DEF Next

\* Every step is one that the promise allows.
LEMMA PromiseKept == AnswerInv /\ [Next]_vars => [Promise!Next]_(Promise!vars)
<1> SUFFICES ASSUME AnswerInv, [Next]_vars PROVE Promise!Next \/ UNCHANGED Promise!vars
  OBVIOUS
<1>1. RecordStays \/ UNCHANGED <<Log, answer, sound>>
  BY RecordsKept DEF AnswerInv
<1>2. CASE UNCHANGED <<Log, answer, sound>>
  BY <1>2 DEF Promise!vars, Log
<1>3. ASSUME NEW r \in Runs, Promise!Record(r) \/ Promise!Forget(r) \/ Promise!Doubt(r) PROVE Promise!Next
  BY <1>3 DEF Promise!Next
<1>4. ASSUME NEW r \in Runs, Told(r) PROVE Promise!Next \/ UNCHANGED Promise!vars
  <2>1. CASE answer' = answer
    BY <1>2, <1>4, <2>1 DEF Told
  <2>2. CASE Finish /\ pass.run \in Runs
    <3>1. PICK q \in Runs : q = pass.run
      BY <2>2
    <3>2. Promise!Answer(q)
      BY <2>2, <3>1, AnswersTell
    <3> QED
      BY <3>2 DEF Promise!Next
  <2>3. CASE Finish /\ pass.run \notin Runs
    <3>1. answer' = answer
      BY <2>3 DEF Finish, Durably, AnswerInv, TypeInv, ProcessOK
    <3> QED
      BY <2>1, <3>1
  <2> QED
    BY <2>1, <2>2, <2>3, OnlyFinish
<1> QED
  BY <1>1, <1>2, <1>3, <1>4 DEF RecordStays

\* For every brain whose flows are as their builders make them, and in which a client
\* is served a flow that is Durable as a whole, or not at all, and that keeps its
\* structure when it is declared compatible: whatever crashes, fails or is deployed in
\* between, Request implements Transcript.  An answer tells every step that is recorded
\* for its run as it was recorded (durable.go's resume).
THEOREM AnswersImplement ==
  ASSUME NEW made, BuiltUp(made), WellMade, DurableAtRoot, KeepsShape
  PROVE  Spec => ImplementsTranscript
<1>1. Init => Promise!Init
  BY DEF Init, Promise!Init
<1>2. AnswerInv /\ [Next]_vars => AnswerInv'
  BY AnswerStep
<1> QED
  BY <1>1, <1>2, AnswerInit, PromiseKept, PTL DEF Spec, ImplementsTranscript, Promise!Spec

\* And for those brains no retry is resumed into a different tree: each message of an
\* answer was said by a leaf of the very flow that answers, of a run whose records are
\* whole (durable.go's structure guard).
THEOREM AnsweredBySelf ==
  ASSUME NEW made, BuiltUp(made), WellMade, DurableAtRoot, KeepsShape
  PROVE  Spec => []AnsweredByItself
<1>1. AnswerInv /\ [Next]_vars => AnswerInv'
  BY AnswerStep
<1>2. AnswerInv => AnsweredByItself
  BY DEF AnswerInv, CheckInv, SaidInv, SaidBy, AnsweredByItself, Asked, ServedFlow, Running
<1> QED
  BY <1>1, <1>2, AnswerInit, PTL DEF Spec

-----------------------------------------------------------------------------
(* What is streamed is what is answered.                                   *)

\* Each message is there once.
Distinct(c) == \A i, j \in DOMAIN c : c[i] = c[j] => i = j

\* The conversation of a client: its own message, and what agents have said since,
\* each message once; the marks are past the client's.
Fits(s, a) ==
  /\ s.seed = 1 /\ s.sent # 0 /\ s.chat # <<>> /\ s.chat[1] = User
  /\ \A i \in DOMAIN s.chat : i > 1 => s.chat[i] # User /\ s.chat[i].nth <= a[s.chat[i].leaf]
  /\ Distinct(s.chat)

\* So is that of a request, and what is saved for one.
ChatInv ==
  /\ pass.run \in Clients /\ pc \in {"run", "armed", "ask", "save", "done"} => Fits(st, asks)
  /\ \A k \in DOMAIN saved : k[1] \in Clients => Fits(saved[k], asks)

\* An agent replies once, or not at all.
RepliesInv ==
  pc = "ask" => \A i \in DOMAIN replies :
    replies[i] # NotYet => replies[i].said = <<>> \/ replies[i].said = <<Said(i)>>

\* A message is the client's, or an agent's.
LEMMA MsgIs ==
  ASSUME NEW m \in Msg
  PROVE  m = User \/ (m # User /\ m \in [leaf : Bodies, agent : Nat, nth : Nat])
BY UserAssumption DEF Msg, Bodies

\* Who has asked more often has no message less.
LEMMA FitsOn ==
  ASSUME NEW s, NEW a \in [Bodies -> Nat], NEW b \in [Bodies -> Nat], StateOK(s), Fits(s, a),
         \A l \in Bodies : a[l] <= b[l]
  PROVE  Fits(s, b)
<1>1. ASSUME NEW i \in DOMAIN s.chat, i > 1 PROVE s.chat[i] # User /\ s.chat[i].nth <= b[s.chat[i].leaf]
  <2>1. s.chat[i] \in Msg /\ s.chat[i] # User /\ s.chat[i].nth <= a[s.chat[i].leaf]
    BY <1>1 DEF StateOK, Chats, Fits
  <2>2. s.chat[i].leaf \in Bodies /\ s.chat[i].nth \in Nat
    BY <2>1, MsgIs
  <2> QED
    BY <2>1, <2>2
<1> QED
  BY <1>1 DEF Fits

\* The only agent's reply is all that is said.
LEMMA SpokenOne ==
  ASSUME replies[1].said \in Chats
  PROVE  Spoken[1] = replies[1].said
<1>1. Gathers(Spoken, replies)
  BY GathersExists DEF Spoken, Gathers
<1> HIDE DEF Spoken
<1>2. Spoken[1] = Spoken[0] \o replies[1].said /\ Spoken[0] = <<>>
  <2>1. \A n \in Nat : Spoken[n] = IF n = 0 THEN <<>> ELSE Spoken[n - 1] \o replies[n].said
    BY <1>1 DEF Gathers
  <2>2. 0 \in Nat /\ 1 \in Nat /\ 1 # 0 /\ 1 - 1 = 0
    OBVIOUS
  <2> QED
    BY <2>1, <2>2
<1> QED
  BY <1>2 DEF Chats

\* All that the agents of a leaf say is said by them, and once.
LEMMA SpokenSays ==
  ASSUME NEW k \in Nat, \A i \in 1..k : <<Said(i)>> \in Chats,
         \A i \in 1..k : replies[i].said = <<>> \/ replies[i].said = <<Said(i)>>
  PROVE  /\ Spoken[k] \in Chats /\ Distinct(Spoken[k])
         /\ \A n \in DOMAIN Spoken[k] : \E i \in 1..k : Spoken[k][n] = Said(i)
<1>1. Gathers(Spoken, replies)
  BY GathersExists DEF Spoken, Gathers
<1> HIDE DEF Spoken
<1> DEFINE Says(j) == /\ Spoken[j] \in Chats /\ Distinct(Spoken[j])
                      /\ \A n \in DOMAIN Spoken[j] : \E i \in 1..j : Spoken[j][n] = Said(i)
           S       == {j \in Nat : j <= k => Says(j)}
<1>2. 0 \in S
  BY <1>1 DEF Gathers, Chats, Distinct
<1>3. ASSUME NEW j \in Nat, j \in S PROVE j + 1 \in S
  <2> SUFFICES ASSUME j + 1 <= k PROVE Says(j + 1)
    OBVIOUS
  <2>1. Says(j) /\ <<Said(j + 1)>> \in Chats
        /\ (replies[j + 1].said = <<>> \/ replies[j + 1].said = <<Said(j + 1)>>)
    BY <1>3
  <2>2. Spoken[j + 1] = Spoken[j] \o replies[j + 1].said
    <3>1. j + 1 \in Nat /\ j + 1 # 0 /\ (j + 1) - 1 = j
      OBVIOUS
    <3>2. \A i \in Nat : Spoken[i] = IF i = 0 THEN <<>> ELSE Spoken[i - 1] \o replies[i].said
      BY <1>1 DEF Gathers
    <3> QED
      BY <3>1, <3>2
  <2>3. CASE replies[j + 1].said = <<>>
    <3>1. Spoken[j + 1] = Spoken[j]
      BY <2>1, <2>2, <2>3 DEF Chats
    <3> QED
      BY <2>1, <3>1
  <2>4. CASE replies[j + 1].said = <<Said(j + 1)>>
    <3>1. PICK c \in Chats : c = Spoken[j]
      BY <2>1
    <3>2. PICK m \in Msg : m = Said(j + 1)
      BY <2>1 DEF Chats
    <3>3. Spoken[j + 1] = Append(c, m)
      BY <2>2, <2>4, <3>1, <3>2 DEF Chats
    <3>4. /\ Append(c, m) \in Chats /\ DOMAIN Append(c, m) = 1..Len(c) + 1 /\ DOMAIN c = 1..Len(c) /\ Len(c) \in Nat
          /\ Append(c, m)[Len(c) + 1] = m /\ \A n \in 1..Len(c) : Append(c, m)[n] = c[n]
      BY DEF Chats
    <3>5. \A n \in 1..Len(c) : c[n] # m
      <4> SUFFICES ASSUME NEW n \in 1..Len(c) PROVE c[n] # m
        OBVIOUS
      <4>1. PICK i \in 1..j : c[n] = Said(i)
        BY <2>1, <3>1, <3>4
      <4>2. Said(i).agent = i /\ Said(j + 1).agent = j + 1 /\ i # j + 1
        BY DEF Said
      <4> QED
        BY <3>2, <4>1, <4>2
    <3>6. Distinct(Append(c, m))
      <4> DEFINE a == Append(c, m)
      <4>1. DOMAIN a = 1..Len(c) + 1 /\ a[Len(c) + 1] = m /\ \A n \in 1..Len(c) : a[n] = c[n] /\ a[n] # m
        BY <3>4, <3>5
      <4> HIDE DEF a
      <4> SUFFICES ASSUME NEW i \in 1..Len(c) + 1, NEW n \in 1..Len(c) + 1, a[i] = a[n] PROVE i = n
        BY <4>1 DEF Distinct, a
      <4>2. \A x \in 1..Len(c) + 1 : x \in 1..Len(c) \/ x = Len(c) + 1
        BY <3>4
      <4>3. CASE i \in 1..Len(c) /\ n \in 1..Len(c)
        <5>1. c[i] = c[n] /\ Distinct(c)
          BY <2>1, <3>1, <4>1, <4>3
        <5> QED
          BY <3>4, <4>3, <5>1 DEF Distinct
      <4> QED
        BY <4>1, <4>2, <4>3
    <3>7. ASSUME NEW n \in 1..Len(c) + 1 PROVE \E i \in 1..j + 1 : Append(c, m)[n] = Said(i)
      <4>1. CASE n = Len(c) + 1
        BY <3>2, <3>4, <4>1
      <4>2. CASE n # Len(c) + 1
        <5>1. n \in 1..Len(c)
          BY <3>4, <4>2
        <5>2. PICK i \in 1..j : c[n] = Said(i)
          BY <2>1, <3>1, <3>4, <5>1
        <5> QED
          BY <3>4, <5>1, <5>2
      <4> QED
        BY <4>1, <4>2
    <3> QED
      BY <3>3, <3>4, <3>6, <3>7
  <2> QED
    BY <2>1, <2>3, <2>4
<1> HIDE DEF S, Says
<1>4. k \in S
  BY <1>2, <1>3, Induction
<1>5. Says(k)
  BY <1>4 DEF S
<1> QED
  BY <1>5 DEF Says

\* A conversation that fits, and what a leaf says, fit.
LEMMA FitsMore ==
  ASSUME NEW s, StateOK(s), NEW a \in [Bodies -> Nat], Fits(s, a), NEW more \in Chats, Distinct(more), NEW l \in Bodies,
         \A n \in DOMAIN more : more[n] # User /\ more[n].leaf = l /\ more[n].nth = a[l] + 1
  PROVE  /\ Distinct(s.chat \o more)
         /\ \A n \in DOMAIN (s.chat \o more) : n > 1 =>
              LET m == (s.chat \o more)[n] IN m # User /\ m.nth <= IF m.leaf = l THEN a[l] + 1 ELSE a[m.leaf]
<1> DEFINE all == s.chat \o more
<1>1. /\ all \in Chats /\ DOMAIN all = 1..Len(s.chat) + Len(more)
      /\ Len(s.chat) \in Nat \ {0} /\ Len(more) \in Nat
      /\ DOMAIN s.chat = 1..Len(s.chat) /\ DOMAIN more = 1..Len(more)
      /\ \A n \in 1..Len(s.chat) + Len(more) : all[n] = IF n <= Len(s.chat) THEN s.chat[n] ELSE more[n - Len(s.chat)]
  BY DEF StateOK, Fits, Chats
<1> HIDE DEF all
<1>2. ASSUME NEW n \in 1..Len(s.chat)
      PROVE  /\ all[n] = s.chat[n]
             /\ n = 1 => all[n] = User
             /\ n # 1 => all[n] # User /\ all[n].nth <= a[all[n].leaf] /\ all[n].leaf \in Bodies /\ all[n].nth \in Nat
  <2>0. n \in 1..Len(s.chat) + Len(more) /\ n <= Len(s.chat)
    BY <1>1
  <2>1. all[n] = s.chat[n] /\ s.chat[n] \in Msg /\ n \in 1..Len(s.chat) + Len(more)
    BY <1>1, <2>0 DEF StateOK, Chats
  <2>2. ASSUME n # 1 PROVE all[n] # User /\ all[n].nth <= a[all[n].leaf]
    <3>1. n > 1 /\ n \in DOMAIN s.chat
      BY <1>1, <2>2
    <3>2. s.chat[n] # User /\ s.chat[n].nth <= a[s.chat[n].leaf]
      BY <3>1 DEF Fits
    <3> QED
      BY <2>1, <3>2
  <2> QED
    BY <2>1, <2>2, MsgIs DEF Fits
<1>3. ASSUME NEW n \in 1..Len(s.chat) + Len(more), n > Len(s.chat)
      PROVE  /\ n - Len(s.chat) \in 1..Len(more) /\ all[n] = more[n - Len(s.chat)]
             /\ all[n] # User /\ all[n].leaf = l /\ all[n].nth = a[l] + 1
  <2>1. n - Len(s.chat) \in 1..Len(more) /\ ~(n <= Len(s.chat))
    <3>1. \A x \in Nat, y \in Nat : \A i \in 1..x + y : i > x => i - x \in 1..y /\ ~(i <= x)
      OBVIOUS
    <3> QED
      BY <1>1, <1>3, <3>1
  <2>2. all[n] = more[n - Len(s.chat)]
    BY <1>1, <2>1
  <2> QED
    BY <1>1, <2>1, <2>2
<1>4. a[l] \in Nat
  OBVIOUS
<1>5. ASSUME NEW n \in 1..Len(s.chat) + Len(more), n > 1
      PROVE  all[n] # User /\ all[n].nth <= IF all[n].leaf = l THEN a[l] + 1 ELSE a[all[n].leaf]
  <2>1. CASE n <= Len(s.chat)
    <3>1. n \in 1..Len(s.chat) /\ n # 1
      BY <1>1, <1>5, <2>1
    <3>2. a[all[n].leaf] \in Nat
      BY <1>2, <3>1
    <3> QED
      BY <1>2, <1>4, <3>1, <3>2
  <2>2. CASE n > Len(s.chat)
    BY <1>3, <1>4, <2>2
  <2> QED
    BY <1>1, <2>1, <2>2
<1>6. ASSUME NEW i \in 1..Len(s.chat) + Len(more), NEW j \in 1..Len(s.chat) + Len(more), all[i] = all[j], i < j
      PROVE  FALSE
  <2>1. CASE j <= Len(s.chat)
    <3>1. i \in 1..Len(s.chat) /\ j \in 1..Len(s.chat)
      BY <1>1, <1>6, <2>1
    <3>2. s.chat[i] = s.chat[j]
      BY <1>2, <1>6, <3>1
    <3>3. i = j
      BY <1>1, <3>1, <3>2 DEF Fits, Distinct
    <3> QED
      BY <1>6, <3>3
  <2>2. CASE i <= Len(s.chat) /\ j > Len(s.chat)
    <3>1. i \in 1..Len(s.chat)
      BY <1>1, <2>2
    <3>2. all[j] # User /\ all[j].leaf = l /\ all[j].nth = a[l] + 1
      BY <1>3, <2>2
    <3>3. all[i] # User /\ all[i].nth <= a[l]
      BY <1>2, <1>6, <3>1, <3>2
    <3> QED
      BY <1>2, <1>4, <1>6, <3>1, <3>2, <3>3
  <2>3. CASE i > Len(s.chat)
    <3>1. j > Len(s.chat)
      BY <1>1, <1>6, <2>3
    <3>2. more[i - Len(s.chat)] = more[j - Len(s.chat)] /\ i - Len(s.chat) \in 1..Len(more) /\ j - Len(s.chat) \in 1..Len(more)
      BY <1>3, <1>6, <2>3, <3>1
    <3>3. i - Len(s.chat) = j - Len(s.chat)
      BY <1>1, <3>2 DEF Distinct
    <3> QED
      BY <1>1, <1>6, <3>3
  <2> QED
    BY <1>1, <2>1, <2>2, <2>3
<1>7. Distinct(all)
  <2> SUFFICES ASSUME NEW i \in DOMAIN all, NEW j \in DOMAIN all, all[i] = all[j], i # j PROVE FALSE
    BY DEF Distinct
  <2>1. i \in 1..Len(s.chat) + Len(more) /\ j \in 1..Len(s.chat) + Len(more)
    BY <1>1
  <2>2. i < j \/ j < i
    BY <1>1, <2>1
  <2> QED
    BY <1>6, <2>1, <2>2
<1> QED
  BY <1>1, <1>5, <1>7 DEF all

\* A plain return of a flow that is no leaf and no Respond.
Returns ==
  /\ pc \in {"run", "armed"} /\ Return(st)
  /\ UNCHANGED <<saved, pass, claimed, out, asks, sound>>
  /\ \/ Top.flow.kind \in {"select", "notify", "trigger"}
     \/ Top.flow.kind = "seq" /\ (Top.pos > Len(Top.flow.kids) \/ Top.flow.kids[Top.pos].kind = "trigger")

\* A pass begins that is not a client's.
BeginsOther == pc' = "run" /\ pass'.run \in {BootRun, Fresh} /\ \E x : stack' = <<x>>

\* What the program may do.
LEMMA Steps ==
  ASSUME [Next]_vars, pc' \in {"run", "armed", "ask", "save", "done", "replied"}
  PROVE  \/ BeginsOther \/ Returns
         \/ \E r \in Clients, live \in BOOLEAN : Serve(r, live)
         \/ \E i \in DOMAIN replies : \E x : Streams(x) \/ \E silent \in BOOLEAN : Reply(i, x, silent)
         \/ ActivateDurable \/ Load \/ Miss \/ Collect \/ Save
         \/ EnterDecorated \/ SeqStep \/ SelectEnter \/ RespondRuns
         \/ Finish
         \/ UNCHANGED vars
<1>1. CASE Walk
  <2>1. ASSUME NEW i \in DOMAIN replies, AgentFails(i) PROVE FALSE
    BY <2>1 DEF AgentFails, Fail
  <2>2. ~(SelectConflict \/ UnknownSelect \/ DeferFails \/ Booted \/ Ended)
    BY DEF SelectConflict, UnknownSelect, DeferFails, Fail, Booted, Ended
  <2>3. SeqEnds \/ SelectNone \/ NotifySends \/ BareTrigger \/ NothingToDefer \/ DeferBody \/ RegisterWebhook => Returns
    BY DEF SeqEnds, SelectNone, NotifySends, Fail, BareTrigger, NothingToDefer, DeferBody, RegisterWebhook, Splits, SeqAt,
       Ready, Returns, store, history, bounds
  <2>4. RunAtStartup => BeginsOther
    BY DEF RunAtStartup, Begin, BeginsOther, Idle, store, history
  <2> QED
    BY <1>1, <2>1, <2>2, <2>3, <2>4 DEF Walk
<1>2. ~((\E b \in DOMAIN Binaries : Deploy(b)) \/ Crash)
  BY DEF Deploy, Crash
<1>3. (\E e \in DOMAIN hooks : CallHook(e)) \/ (\E j \in jobs : FireJob(j)) => BeginsOther
  BY DEF CallHook, FireJob, Begin, BeginsOther, Idle, store, history
<1> QED
  BY <1>1, <1>2, <1>3 DEF Next

\* Messages are numbered as they are said.
LEMMA AsksGrow ==
  ASSUME TypeInv, [Next]_vars
  PROVE  \/ asks' = asks
         \/ saved' = saved /\ pc = "ask" /\ Top.flow.id \in Bodies /\ asks' = [asks EXCEPT ![Top.flow.id] = asks[Top.flow.id] + 1]
<1>1. CASE Collect
  <2>1. pc = "ask" /\ saved' = saved /\ asks' = [asks EXCEPT ![Top.flow.id] = asks[Top.flow.id] + 1]
    BY <1>1 DEF Collect, store
  <2>2. Top.flow \in Flows /\ Top.flow.kind = "basic"
    BY <2>1, TopIs DEF TypeInv, AskOK
  <2> QED
    BY <2>1, <2>2 DEF Bodies
<1>2. CASE Walk /\ ~Collect
  <2>1. ASSUME NEW i \in DOMAIN replies,
               \/ AgentFails(i)
               \/ \E x \in Agents[i].exits \cup {None} :
                    Streams(x) \/ \E silent \in BOOLEAN : Reply(i, x, silent)
        PROVE  asks' = asks
    BY <2>1 DEF AgentFails, Streams, Reply, history
  <2>2. CASE ActivateDurable \/ Load \/ Miss \/ Save \/ SelectConflict
    BY <2>2 DEF ActivateDurable, Load, Miss, Save, SelectConflict, history
  <2>3. CASE RunAtStartup \/ Booted \/ Ended \/ Finish
    BY <2>3 DEF RunAtStartup, Booted, Ended, Finish, history
  <2>4. CASE \/ EnterDecorated \/ SeqStep \/ SeqEnds \/ SelectNone \/ SelectEnter \/ UnknownSelect \/ NotifySends
             \/ BareTrigger \/ NothingToDefer \/ DeferFails \/ DeferBody \/ RegisterWebhook \/ RespondRuns
    BY <2>4
    DEF EnterDecorated, SeqStep, SeqEnds, SelectNone, SelectEnter, UnknownSelect, NotifySends, BareTrigger,
        NothingToDefer, DeferFails, DeferBody, RegisterWebhook, RespondRuns, history
  <2> QED
    BY <1>2, <2>1, <2>2, <2>3, <2>4 DEF Walk
<1>3. CASE (\E b \in DOMAIN Binaries : Deploy(b)) \/ Crash
  BY <1>3 DEF Deploy, Crash, history
<1>4. CASE \/ \E r \in Clients, live \in BOOLEAN : Serve(r, live)
           \/ \E e \in DOMAIN hooks : CallHook(e)
           \/ \E j \in jobs : FireJob(j)
  BY <1>4 DEF Serve, CallHook, FireJob, history
<1>5. CASE UNCHANGED vars
  BY <1>5 DEF vars, history
<1> QED
  BY <1>1, <1>2, <1>3, <1>4, <1>5 DEF Next

\* Only a leaf saves.
LEMMA OnlySave == [Next]_vars => saved' = saved \/ (Save /\ saved' = Write(saved, Key, st))
<1> SUFFICES ASSUME [Next]_vars PROVE saved' = saved \/ (Save /\ saved' = Write(saved, Key, st))
  OBVIOUS
<1> USE DEF store
<1>1. CASE Walk
  <2>1. ASSUME NEW i \in DOMAIN replies,
               \/ AgentFails(i)
               \/ \E x \in Agents[i].exits \cup {None} :
                    Streams(x) \/ \E silent \in BOOLEAN : Reply(i, x, silent)
        PROVE  saved' = saved
    BY <2>1 DEF AgentFails, Streams, Reply
  <2>2. CASE ActivateDurable \/ Load \/ Miss \/ Save \/ SelectConflict \/ Collect
    BY <2>2 DEF ActivateDurable, Load, Miss, Save, SelectConflict, Collect
  <2>3. CASE RunAtStartup \/ Booted \/ Ended \/ Finish
    BY <2>3 DEF RunAtStartup, Booted, Ended, Finish
  <2>4. CASE \/ EnterDecorated \/ SeqStep \/ SeqEnds \/ SelectNone \/ SelectEnter \/ UnknownSelect \/ NotifySends
             \/ BareTrigger \/ NothingToDefer \/ DeferFails \/ DeferBody \/ RegisterWebhook \/ RespondRuns
    BY <2>4
    DEF EnterDecorated, SeqStep, SeqEnds, SelectNone, SelectEnter, UnknownSelect, NotifySends, BareTrigger,
        NothingToDefer, DeferFails, DeferBody, RegisterWebhook, RespondRuns
  <2> QED
    BY <1>1, <2>1, <2>2, <2>3, <2>4 DEF Walk
<1>2. CASE (\E b \in DOMAIN Binaries : Deploy(b)) \/ Crash
  BY <1>2 DEF Deploy, Crash
<1>3. CASE \/ \E r \in Clients, live \in BOOLEAN : Serve(r, live)
           \/ \E e \in DOMAIN hooks : CallHook(e)
           \/ \E j \in jobs : FireJob(j)
  BY <1>3 DEF Serve, CallHook, FireJob
<1>4. CASE UNCHANGED vars
  BY <1>4 DEF vars
<1> QED
  BY <1>1, <1>2, <1>3, <1>4 DEF Next

\* A reply is said once, as the agent's.
LEMMA RepliesStep ==
  ASSUME TypeInv, RepliesInv, [Next]_vars
  PROVE  RepliesInv'
<1> SUFFICES ASSUME pc' = "ask", NEW i \in DOMAIN replies', replies'[i] # NotYet
             PROVE  replies'[i].said = <<>> \/ replies'[i].said = <<Said(i)>>'
  BY DEF RepliesInv
<1>1. CASE Miss
  BY <1>1 DEF Miss
<1>2. ASSUME pc = "ask", UNCHANGED <<stack, asks>>, i \in DOMAIN replies, replies'[i] = replies[i]
      PROVE  replies'[i].said = <<>> \/ replies'[i].said = <<Said(i)>>'
  BY <1>2 DEF RepliesInv, Said, Top
<1>3. ASSUME NEW n \in DOMAIN replies, NEW x, Streams(x) \/ \E silent \in BOOLEAN : Reply(n, x, silent)
      PROVE  replies'[i].said = <<>> \/ replies'[i].said = <<Said(i)>>'
  <2>1. pc = "ask" /\ UNCHANGED <<stack, asks>>
    BY <1>3 DEF Streams, Reply, history
  <2>2. <<Said(i)>>' = <<Said(i)>>
    BY <2>1 DEF Said, Top
  <2>3. CASE Streams(x)
    <3>1. DOMAIN replies = {1} /\ replies' = <<[said |-> <<Said(1)>>, sel |-> x]>>
      BY <2>3 DEF Streams
    <3>2. i = 1
      BY <3>1
    <3> QED
      BY <2>2, <3>1, <3>2
  <2>4. ASSUME NEW silent \in BOOLEAN, Reply(n, x, silent)
        PROVE  replies'[i].said = <<>> \/ replies'[i].said = <<Said(i)>>'
    <3>1. replies' = [replies EXCEPT ![n] = [said |-> IF silent THEN <<>> ELSE <<Said(n)>>, sel |-> x]]
      BY <2>4 DEF Reply
    <3>2. CASE i = n
      BY <2>2, <3>1, <3>2
    <3>3. CASE i # n
      BY <1>2, <2>1, <3>1, <3>3
    <3> QED
      BY <3>2, <3>3
  <2> QED
    BY <1>3, <2>3, <2>4
<1>4. CASE UNCHANGED vars
  BY <1>2, <1>4 DEF vars, walking, history
<1>5. ~(ActivateDurable \/ Collect \/ EnterDecorated \/ SeqStep \/ SelectEnter \/ Finish \/ BeginsOther)
  BY DEF ActivateDurable, Collect, EnterDecorated, Descend, SeqStep, SelectEnter, Finish, BeginsOther
<1>6. ~(Load \/ Save \/ RespondRuns \/ Returns)
  BY DEF Load, Save, RespondRuns, Returns, Return
<1>7. ~(\E r \in Clients, live \in BOOLEAN : Serve(r, live))
  BY DEF Serve, Begin
<1> QED
  BY <1>1, <1>3, <1>4, <1>5, <1>6, <1>7, Steps

\* What is taken from the store goes on from where the pass is.
LEMMA LoadGoesOn ==
  ASSUME NEW made, BuiltUp(made), WellMade, AnswerInv, pass.run \in Clients, sound[pass.run], Load
  PROVE  /\ Promise!Extends(st'.chat, st.chat) /\ st'.sent = st.sent
         /\ Key \in DOMAIN saved /\ st' = saved[Key]
<1> USE DEF AnswerInv
<1>1. /\ pc \in {"run", "armed"} /\ Top.cp = "live" /\ Key \in DOMAIN saved /\ Return(saved[Key])
      /\ Top.flow.kind = "basic" /\ UNCHANGED <<pass, binary>> /\ (pc = "run" => ~(Top.flow.durable /\ Durably))
  BY DEF Load, Ready, process
<1>2. stack # <<>> /\ pass.run \in Runs /\ st' = saved[Key]
  BY <1>1 DEF TypeInv, StandOK, Return, Runs
<1>3. Recorded(pass.run)
  BY <1>1, <1>2 DEF WalkInv, Within, AtRoot
<1>4. PICK r : r = pass.run
  OBVIOUS
<1>5. Followed(r)
  BY <1>3, <1>4 DEF TrailInv
<1>6. Leaf(Conf) /\ Conf.depth # 0 /\ Place(r, Conf) = Key
  BY <1>1, <1>2, <1>4, LeafPlaced
<1>7. Promise!Extends(saved[Key].chat, Conf.chat) /\ saved[Key].sent = Conf.sent
  BY <1>1, <1>2, <1>4, <1>5, <1>6, LoadFollows DEF RecordInv
<1>8. Conf.chat = st.chat /\ Conf.sent = st.sent
  BY DEF Conf, ConfOf
<1> QED
  BY <1>1, <1>2, <1>7, <1>8

\* The replies of a leaf join what was said.
LEMMA CollectFits ==
  ASSUME AnswerInv, RepliesInv, Collect, Fits(st, asks)
  PROVE  /\ Fits(st', asks') /\ \E more \in Chats : st'.chat = st.chat \o more
         /\ DOMAIN replies = {1} /\ replies[1].said = <<Said(1)>> => st'.chat = Append(st.chat, Said(1))
<1> USE DEF AnswerInv
<1> DEFINE more == Spoken[Len(replies)]
<1>1. /\ pc = "ask" /\ Answered = DOMAIN replies
      /\ \E x : st' = [st EXCEPT !.chat = st.chat \o more, !.sel = x]
      /\ asks' = [asks EXCEPT ![Top.flow.id] = asks[Top.flow.id] + 1]
  BY DEF Collect
<1>2. Top.flow \in Flows /\ Top.flow.kind = "basic" /\ DOMAIN replies = DOMAIN Top.flow.agents /\ StateOK(st)
      /\ asks \in [Bodies -> Nat]
  BY <1>1, TopIs DEF TypeInv, AskOK, KeptOK
<1>3. Len(replies) \in Nat /\ DOMAIN replies = 1..Len(replies)
  <2>1. Top.flow.agents \in Seq(Positions(Top.flow.agents))
    BY <1>2, FlowsAssumption
  <2>2. Len(Top.flow.agents) \in Nat /\ DOMAIN replies = 1..Len(Top.flow.agents)
    BY <1>2, <2>1, LenProperties
  <2> QED
    BY <2>2
<1>4. \A i \in 1..Len(replies) : <<Said(i)>> \in Chats /\ (replies[i].said = <<>> \/ replies[i].said = <<Said(i)>>)
  BY <1>1, <1>3, SaidIs DEF RepliesInv, Answered
<1>5. /\ more \in Chats /\ Distinct(more)
      /\ \A n \in DOMAIN more : \E i \in 1..Len(replies) : more[n] = Said(i)
  BY <1>3, <1>4, SpokenSays
<1>6. DOMAIN replies = {1} /\ replies[1].said = <<Said(1)>> => more = <<Said(1)>>
  <2> SUFFICES ASSUME DOMAIN replies = {1}, replies[1].said = <<Said(1)>> PROVE more = <<Said(1)>>
    OBVIOUS
  <2>1. Len(replies) = 1
    <3>1. Len(replies) \in 1..Len(replies) \/ Len(replies) = 0
      BY <1>3
    <3>2. 1 \in 1..Len(replies)
      BY <1>3
    <3> QED
      BY <1>3, <3>1, <3>2
  <2>2. replies[1].said \in Chats
    BY <1>4, <2>1
  <2> QED
    BY <2>1, <2>2, SpokenOne
<1> HIDE DEF more
<1>7. st'.chat = st.chat \o more /\ st'.seed = st.seed /\ st'.sent = st.sent
  BY <1>1, <1>2 DEF StateOK
<1>8. PICK l \in Bodies, a \in [Bodies -> Nat] : l = Top.flow.id /\ a = asks
  BY <1>2 DEF Bodies
<1>9. ASSUME NEW n \in DOMAIN more PROVE more[n] # User /\ more[n].leaf = l /\ more[n].nth = a[l] + 1
  <2>1. PICK i \in 1..Len(replies) : more[n] = Said(i)
    BY <1>5
  <2>2. Said(i).leaf = l /\ Said(i).nth = a[l] + 1 /\ Said(i) = [leaf |-> l, agent |-> i, nth |-> a[l] + 1]
    BY <1>8 DEF Said
  <2>3. Said(i) \in [leaf : Bodies, agent : Nat, nth : Nat]
    BY <2>2
  <2>4. Said(i) # User
    BY <2>3, UserAssumption DEF Bodies
  <2> QED
    BY <2>1, <2>2, <2>4
<1>10. PICK s, m : s = st /\ m = more
  OBVIOUS
<1>11. /\ Distinct(s.chat \o m)
       /\ \A n \in DOMAIN (s.chat \o m) : n > 1 =>
            LET x == (s.chat \o m)[n] IN x # User /\ x.nth <= IF x.leaf = l THEN a[l] + 1 ELSE a[x.leaf]
  <2>1. StateOK(s) /\ Fits(s, a) /\ Distinct(m) /\ m \in Chats
    BY <1>2, <1>5, <1>8, <1>10
  <2>2. \A n \in DOMAIN m : m[n] # User /\ m[n].leaf = l /\ m[n].nth = a[l] + 1
    BY <1>9, <1>10
  <2> QED
    BY <2>1, <2>2, FitsMore
<1>12. PICK c : c = s.chat \o m
  OBVIOUS
<1>13. Distinct(c) /\ \A n \in DOMAIN c : n > 1 => c[n] # User /\ c[n].nth <= asks'[c[n].leaf]
  <2>1. \A x : x \in Bodies => asks'[x] = IF x = l THEN a[l] + 1 ELSE a[x]
    BY <1>1, <1>8
  <2>2. c \in Chats
    BY <1>2, <1>5, <1>10, <1>12 DEF StateOK, Chats
  <2>3. ASSUME NEW n \in DOMAIN c, n > 1 PROVE c[n] # User /\ c[n].nth <= asks'[c[n].leaf]
    <3>1. c[n] # User /\ c[n].nth <= IF c[n].leaf = l THEN a[l] + 1 ELSE a[c[n].leaf]
      BY <1>11, <1>12, <2>3
    <3>2. c[n] \in Msg
      BY <2>2 DEF Chats
    <3>3. c[n].leaf \in Bodies
      BY <3>1, <3>2, MsgIs
    <3> QED
      BY <2>1, <3>1, <3>3
  <2> QED
    BY <1>11, <1>12, <2>3
<1>14. st'.chat = c /\ c # <<>> /\ c[1] = User
  <2>1. st.chat \in Chats /\ st.chat # <<>> /\ st.chat[1] = User
    BY <1>2 DEF StateOK, Fits
  <2>2. c # <<>> /\ c[1] = st.chat[1]
    BY <1>5, <1>10, <1>12, <2>1 DEF Chats
  <2> QED
    BY <1>7, <1>10, <1>12, <2>1, <2>2
<1>15. Fits(st', asks')
  BY <1>7, <1>13, <1>14 DEF Fits
<1>16. more = <<Said(1)>> => st.chat \o more = Append(st.chat, Said(1))
  BY <1>2, <1>5 DEF StateOK, Chats
<1> QED
  BY <1>5, <1>6, <1>7, <1>15, <1>16

\* Every step keeps that the conversation of a client fits.
LEMMA ChatStep ==
  ASSUME AnswerInv, ChatInv, RepliesInv, [Next]_vars, TypeInv'
  PROVE  ChatInv'
<1> USE DEF AnswerInv
<1>1. /\ asks \in [Bodies -> Nat] /\ asks' \in [Bodies -> Nat] /\ \A l \in Bodies : asks[l] <= asks'[l]
  <2>1. asks \in [Bodies -> Nat] /\ asks' \in [Bodies -> Nat]
    BY DEF TypeInv, KeptOK
  <2> QED
    BY <2>1, AsksGrow
<1>2. ASSUME NEW s, StateOK(s), Fits(s, asks) PROVE Fits(s, asks')
  <2>1. PICK a \in [Bodies -> Nat], b \in [Bodies -> Nat] : a = asks /\ b = asks'
    BY <1>1
  <2>2. \A l \in Bodies : a[l] <= b[l]
    BY <1>1, <2>1
  <2> QED
    BY <1>2, <2>1, <2>2, FitsOn
<1>3. StateOK(st) /\ \A k \in DOMAIN saved : StateOK(saved[k])
  BY DEF TypeInv, StandOK, KeptOK
<1>4. ASSUME Fits(st, asks) PROVE Fits(st, asks')
  <2>1. PICK s : s = st
    OBVIOUS
  <2> QED
    BY <1>2, <1>3, <1>4, <2>1
<1>5. ASSUME NEW k \in DOMAIN saved, k[1] \in Clients PROVE Fits(saved[k], asks')
  <2>1. PICK s : s = saved[k]
    OBVIOUS
  <2>2. Fits(s, asks)
    BY <1>5, <2>1 DEF ChatInv
  <2> QED
    BY <1>2, <1>3, <2>1, <2>2
<1>6. ASSUME NEW k \in DOMAIN saved', k[1] \in Clients PROVE Fits(saved'[k], asks')
  <2>1. CASE saved' = saved
    BY <1>5, <1>6, <2>1
  <2>2. CASE Save /\ saved' = Write(saved, Key, st)
    <3>1. CASE k = Key
      <4>1. saved'[k] = st /\ pass.run \in Clients /\ pc = "save"
        BY <1>6, <2>2, <3>1 DEF Write, Key, Save
      <4> QED
        BY <1>4, <4>1 DEF ChatInv
    <3>2. CASE k # Key
      <4>1. k \in DOMAIN saved /\ saved'[k] = saved[k]
        BY <2>2, <3>2 DEF Write
      <4> QED
        BY <1>5, <1>6, <4>1
    <3> QED
      BY <3>1, <3>2
  <2>3. saved' = saved \/ (Save /\ saved' = Write(saved, Key, st))
    BY OnlySave
  <2> QED
    BY <2>1, <2>2, <2>3
<1>7. ASSUME pass'.run \in Clients, pc' \in {"run", "armed", "ask", "save", "done"} PROVE Fits(st', asks')
  <2>1. ASSUME pass'.run = pass.run, pc \in {"run", "armed", "ask", "save", "done"},
               st'.chat = st.chat, st'.seed = st.seed, st'.sent # 0
        PROVE  Fits(st', asks')
    <3>1. Fits(st, asks')
      BY <1>4, <1>7, <2>1 DEF ChatInv
    <3> QED
      BY <2>1, <3>1 DEF Fits
  <2>2. ASSUME pass'.run = pass.run, pc \in {"run", "armed", "ask", "save", "done"}, st' = st
        PROVE  Fits(st', asks')
    BY <1>4, <1>7, <2>2 DEF ChatInv
  <2>3. CASE \E i \in DOMAIN replies : \E x : Streams(x) \/ \E silent \in BOOLEAN : Reply(i, x, silent)
    BY <2>2, <2>3 DEF Streams, Reply
  <2>4. CASE Miss \/ EnterDecorated \/ SeqStep
    BY <2>2, <2>4 DEF Miss, EnterDecorated, SeqStep, Descend, Ready, SeqAt
  <2>5. CASE ActivateDurable
    <3>1. pass'.run = pass.run
      BY <2>5 DEF ActivateDurable, Live, Stale, TypeInv, ProcessOK, PassFields
    <3> QED
      BY <2>2, <2>5, <3>1 DEF ActivateDurable
  <2>6. CASE Save \/ Returns
    BY <2>2, <2>6 DEF Save, Returns, Return
  <2>7. CASE UNCHANGED vars
    BY <1>7, <2>2, <2>7 DEF vars, walking
  <2>8. CASE Collect
    <3>1. Fits(st, asks)
      BY <1>7, <2>8 DEF Collect, ChatInv
    <3> QED
      BY <2>8, <3>1, CollectFits
  <2>9. CASE Load
    <3>1. Key \in DOMAIN saved /\ st' = saved[Key] /\ Key[1] \in Clients
      BY <1>7, <2>9 DEF Load, Return, Key
    <3> QED
      BY <1>5, <3>1
  <2>10. CASE SelectEnter
    <3>1. pc \in {"run", "armed"} /\ pass' = pass /\ st' = [st EXCEPT !.sel = None]
      BY <2>10 DEF SelectEnter, Ready
    <3>2. Fits(st, asks)
      BY <1>7, <3>1 DEF ChatInv
    <3>3. st'.chat = st.chat /\ st'.seed = st.seed /\ st'.sent = st.sent
      BY <1>3, <3>1 DEF StateOK
    <3> QED
      BY <2>1, <3>1, <3>2, <3>3 DEF Fits
  <2>11. CASE RespondRuns
    <3>1. pc \in {"run", "armed"} /\ pass'.run = pass.run /\ st' = [st EXCEPT !.sent = Len(st.chat)]
      BY <2>11 DEF RespondRuns, Return, Ready, TypeInv, ProcessOK, PassFields
    <3>2. Fits(st, asks)
      BY <1>7, <3>1 DEF ChatInv
    <3>3. st'.chat = st.chat /\ st'.seed = st.seed /\ st'.sent # 0
      <4>1. st.chat \in Chats /\ st.chat # <<>>
        BY <1>3, <3>2 DEF StateOK, Fits
      <4>2. Len(st.chat) # 0
        BY <4>1 DEF Chats
      <4> QED
        BY <1>3, <3>1, <4>2 DEF StateOK
    <3> QED
      BY <2>1, <3>1, <3>3
  <2>12. CASE \E r \in Clients, live \in BOOLEAN : Serve(r, live)
    <3>1. st' = [NoState EXCEPT !.chat = <<User>>, !.seed = Len(<<User>>)]
      BY <2>12 DEF Serve, Begin
    <3>2. st'.chat = <<User>> /\ st'.seed = 1 /\ st'.sent = -1
      BY <3>1 DEF NoState
    <3> QED
      BY <3>2 DEF Fits, Distinct
  <2>13. ~(BeginsOther \/ Finish)
    BY <1>7, RequestAssumption DEF BeginsOther, Runs, Finish
  <2> QED
    BY <1>7, <2>3, <2>4, <2>5, <2>6, <2>7, <2>8, <2>9, <2>10, <2>11, <2>12, <2>13, Steps
<1> QED
  BY <1>6, <1>7 DEF ChatInv

-----------------------------------------------------------------------------
(* The sink, down the stack: who meets a Respond yet, and who is at the    *)
(* end.                                                                    *)

StagesOf(kids) == {i \in DOMAIN kids : isRespond[kids[i]]}

\* The step of a chain that the pass comes to next, when what is above is done.
Upcoming(s, i) == IF i = 1 THEN s[i].pos ELSE s[i].pos + 1
\* There is none; or it is a Respond that has the sink.
Ends(s, i)  == s[i].flow.kind = "seq" /\ Upcoming(s, i) > Len(s[i].flow.kids)
Meets(s, i) == s[i].flow.kind = "seq" /\ s[i].sink /\ Upcoming(s, i) \in StagesOf(s[i].flow.kids)

\* The next flow to run that is no chain's end is a Respond with the sink; or there is none.
Pending(s) == \E n \in DOMAIN s : Meets(s, n) /\ \A i \in DOMAIN s : i < n => Ends(s, i)
Through(s) == \A i \in DOMAIN s : Ends(s, i)

\* A chain with the sink has a Respond.
Staged(s) == \E i \in DOMAIN s : s[i].flow.kind = "seq" /\ s[i].sink /\ StagesOf(s[i].flow.kids) # {}

\* Who has the sink has it from those below, which are at a terminal step; a Respond is
\* entered through its wrappers only.
HeldAt(s, i) ==
  LET kids == s[i].flow.kids IN
  /\ s[i].pos \in DOMAIN kids
  /\ s[i - 1].sink => s[i].sink /\ (s[i].pos \in terminalSteps(kids) \/ isRespond[kids[s[i].pos]])
  /\ isRespond[kids[s[i].pos]] => i = 2 /\ isRespond[s[1].flow]
Held(s) == \A i \in DOMAIN s : i > 1 => HeldAt(s, i)

\* A chain is no Respond, nor is a group, a notification or a trigger.
LEMMA NoRespond ==
  ASSUME NEW made, BuiltUp(made), NEW f \in Flows
  PROVE  /\ f.kind \notin {"respond", "decorated"} => ~isRespond[f]
         /\ f.kind = "respond" => isRespond[f]
         /\ f.kind = "decorated" => isRespond[f] = isRespond[f.kids[1]]
<1>1. isRespond[f] = (f.kind = "respond" \/ (f.kind = "decorated" /\ isRespond[f.kids[1]]))
  BY RespondIs DEF RespondStep
<1>2. f.kind = "decorated" => isRespond[f.kids[1]] \in BOOLEAN
  <2> SUFFICES ASSUME f.kind = "decorated" PROVE isRespond[f.kids[1]] \in BOOLEAN
    OBVIOUS
  <2>1. PICK k \in Flows : k = f.kids[1]
    BY PartsAre
  <2>2. isRespond[k] = (k.kind = "respond" \/ (k.kind = "decorated" /\ isRespond[k.kids[1]]))
    BY RespondIs DEF RespondStep
  <2> QED
    BY <2>1, <2>2
<1> QED
  BY <1>1, <1>2

\* A terminal step is before a Respond, or is the last where there is none.
LEMMA Terminal ==
  ASSUME NEW kids, NEW n \in Nat, DOMAIN kids = 1..n, Len(kids) = n, NEW p \in DOMAIN kids, p \in terminalSteps(kids)
  PROVE  p + 1 \in StagesOf(kids) \/ (StagesOf(kids) = {} /\ p = Len(kids))
<1>1. terminalSteps(kids) = IF StagesOf(kids) = {} THEN {Len(kids)} ELSE {i - 1 : i \in StagesOf(kids)} \ {0}
  BY DEF terminalSteps, StagesOf
<1>2. CASE StagesOf(kids) = {}
  BY <1>1, <1>2
<1>3. CASE StagesOf(kids) # {}
  <2>1. PICK i \in StagesOf(kids) : p = i - 1
    BY <1>1, <1>3
  <2>2. i \in Nat
    BY DEF StagesOf
  <2> QED
    BY <2>1, <2>2
<1> QED
  BY <1>2, <1>3

\* What a stack looks like.
LEMMA FramesAre ==
  ASSUME NEW s, StackOK(s), NEW i \in DOMAIN s
  PROVE  /\ Len(s) \in Nat /\ DOMAIN s = 1..Len(s) /\ i \in 1..Len(s)
         /\ s[i] \in Frames /\ s[i].flow \in Flows /\ s[i].pos \in Nat /\ s[i].sink \in BOOLEAN
         /\ Len(s[i].flow.kids) \in Nat /\ DOMAIN s[i].flow.kids = 1..Len(s[i].flow.kids)
         /\ \A j \in DOMAIN s[i].flow.kids : s[i].flow.kids[j] \in Flows
<1>1. Len(s) \in Nat /\ DOMAIN s = 1..Len(s) /\ i \in 1..Len(s) /\ s[i] \in Frames
  BY DEF StackOK
<1>2. s[i].flow \in Flows /\ s[i].pos \in Nat /\ s[i].sink \in BOOLEAN
  BY <1>1 DEF Frames
<1>3. s[i].flow.kids \in Seq(Flows)
  BY <1>2, PartsAre
<1> QED
  BY <1>1, <1>2, <1>3

\* Who has the sink on top has it all the way down.
LEMMA SinksDown ==
  ASSUME NEW s, StackOK(s), Held(s), s # <<>>, s[1].sink
  PROVE  \A i \in DOMAIN s : s[i].sink
<1> DEFINE S == {n \in Nat : n + 1 \in DOMAIN s => s[n + 1].sink}
<1>1. Len(s) \in Nat /\ DOMAIN s = 1..Len(s)
  BY DEF StackOK
<1>2. 0 \in S
  OBVIOUS
<1>3. ASSUME NEW n \in Nat, n \in S PROVE n + 1 \in S
  <2> SUFFICES ASSUME (n + 1) + 1 \in DOMAIN s PROVE s[(n + 1) + 1].sink
    OBVIOUS
  <2>1. n + 1 \in DOMAIN s /\ (n + 1) + 1 > 1 /\ ((n + 1) + 1) - 1 = n + 1
    BY <1>1
  <2>2. s[n + 1].sink
    BY <1>3, <2>1
  <2>3. HeldAt(s, (n + 1) + 1)
    BY <2>1 DEF Held
  <2> QED
    BY <2>1, <2>2, <2>3 DEF HeldAt
<1> HIDE DEF S
<1>4. ASSUME NEW i \in DOMAIN s PROVE s[i].sink
  <2>1. i - 1 \in Nat /\ (i - 1) + 1 = i
    BY <1>1
  <2>2. i - 1 \in S
    BY <1>2, <1>3, <2>1, Induction
  <2> QED
    BY <2>1, <2>2 DEF S
<1> QED
  BY <1>4

\* What is below, after a return.
LEMMA PoppedAt ==
  ASSUME NEW s, StackOK(s), s # <<>>, Len(s) # 1
  PROVE  /\ StackOK(Popped(s)) /\ Popped(s) # <<>>
         /\ \A i \in DOMAIN Popped(s) :
              /\ i \in Nat /\ i >= 1 /\ i + 1 \in DOMAIN s
              /\ Popped(s)[i].flow = s[i + 1].flow /\ Popped(s)[i].sink = s[i + 1].sink
              /\ Upcoming(Popped(s), i) = Upcoming(s, i + 1)
              /\ i > 1 => Popped(s)[i] = s[i + 1]
         /\ \A j \in DOMAIN s : j > 1 => j - 1 \in DOMAIN Popped(s) /\ (j - 1) + 1 = j
<1> DEFINE n == Popped(s)
<1>1. /\ StackOK(n) /\ n # <<>>
      /\ s[2] \in Frames /\ 2 \in DOMAIN s
      /\ n \in Seq(Frames) /\ Len(n) = Len(s) - 1 /\ Len(s) \in Nat /\ Len(s) >= 2
      /\ n[1] = [s[2] EXCEPT !.pos = @ + 1]
      /\ \A i \in DOMAIN n : i > 1 => i + 1 \in DOMAIN s /\ n[i] = s[i + 1]
  BY PoppedIs, TopPopped
<1> HIDE DEF n
<1>2. n[1].flow = s[2].flow /\ n[1].sink = s[2].sink /\ n[1].pos = s[2].pos + 1
  BY <1>1 DEF Frames
<1>3. DOMAIN n = 1..Len(n) /\ DOMAIN s = 1..Len(s)
  BY <1>1 DEF StackOK
<1>4. ASSUME NEW i \in DOMAIN n
      PROVE  /\ i \in Nat /\ i >= 1 /\ i + 1 \in DOMAIN s
             /\ n[i].flow = s[i + 1].flow /\ n[i].sink = s[i + 1].sink
             /\ Upcoming(n, i) = Upcoming(s, i + 1)
             /\ i > 1 => n[i] = s[i + 1]
  <2>1. i \in Nat /\ i >= 1 /\ i + 1 # 1
    BY <1>3
  <2>2. CASE i = 1
    <3>1. i + 1 = 2 /\ ~(i > 1)
      BY <2>2
    <3>2. Upcoming(n, i) = s[2].pos + 1 /\ Upcoming(s, i + 1) = s[2].pos + 1
      BY <1>2, <2>2, <3>1 DEF Upcoming
    <3> QED
      BY <1>1, <1>2, <2>1, <2>2, <3>1, <3>2
  <2>3. CASE i # 1
    <3>1. i > 1
      BY <2>1, <2>3
    <3>2. i + 1 \in DOMAIN s /\ n[i] = s[i + 1]
      BY <1>1, <3>1
    <3> QED
      BY <2>1, <2>3, <3>1, <3>2 DEF Upcoming
  <2> QED
    BY <2>2, <2>3
<1>5. ASSUME NEW j \in DOMAIN s, j > 1 PROVE j - 1 \in DOMAIN n /\ (j - 1) + 1 = j
  BY <1>1, <1>3, <1>5
<1> QED
  BY <1>1, <1>4, <1>5 DEF n

\* What is below after a return is as it was.
LEMMA PoppedTells ==
  ASSUME NEW s, StackOK(s), s # <<>>, Len(s) # 1
  PROVE  /\ \A i \in DOMAIN Popped(s) : /\ Ends(Popped(s), i) <=> Ends(s, i + 1)
                                        /\ Meets(Popped(s), i) <=> Meets(s, i + 1)
         /\ Pending(Popped(s)) <=>
              \E n \in DOMAIN s : n > 1 /\ Meets(s, n) /\ \A i \in DOMAIN s : 1 < i /\ i < n => Ends(s, i)
         /\ Through(Popped(s)) <=> \A i \in DOMAIN s : i > 1 => Ends(s, i)
         /\ Staged(Popped(s)) <=>
              \E i \in DOMAIN s : i > 1 /\ s[i].flow.kind = "seq" /\ s[i].sink /\ StagesOf(s[i].flow.kids) # {}
<1> DEFINE n == Popped(s)
<1>1. /\ \A i \in DOMAIN n : /\ i \in Nat /\ i >= 1 /\ i + 1 \in DOMAIN s
                             /\ n[i].flow = s[i + 1].flow /\ n[i].sink = s[i + 1].sink
                             /\ Upcoming(n, i) = Upcoming(s, i + 1)
      /\ \A j \in DOMAIN s : j > 1 => j - 1 \in DOMAIN n /\ (j - 1) + 1 = j
  BY PoppedAt
<1> HIDE DEF n
<1>2. ASSUME NEW i \in DOMAIN n PROVE (Ends(n, i) <=> Ends(s, i + 1)) /\ (Meets(n, i) <=> Meets(s, i + 1))
  BY <1>1 DEF Ends, Meets
<1>3. DOMAIN s \subseteq Nat
  BY DEF StackOK
<1>4. ASSUME Pending(n)
      PROVE  \E x \in DOMAIN s : x > 1 /\ Meets(s, x) /\ \A i \in DOMAIN s : 1 < i /\ i < x => Ends(s, i)
  <2>1. PICK m \in DOMAIN n : Meets(n, m) /\ \A i \in DOMAIN n : i < m => Ends(n, i)
    BY <1>4 DEF Pending
  <2>2. m + 1 \in DOMAIN s /\ m + 1 > 1 /\ Meets(s, m + 1)
    BY <1>1, <1>2, <2>1
  <2>3. ASSUME NEW i \in DOMAIN s, 1 < i, i < m + 1 PROVE Ends(s, i)
    <3>1. i - 1 \in DOMAIN n /\ (i - 1) + 1 = i /\ i - 1 < m
      BY <1>1, <1>3, <2>3
    <3>2. Ends(n, i - 1)
      BY <2>1, <3>1
    <3> QED
      BY <1>2, <3>1, <3>2
  <2> QED
    BY <2>2, <2>3
<1>5. ASSUME NEW x \in DOMAIN s, x > 1, Meets(s, x), \A i \in DOMAIN s : 1 < i /\ i < x => Ends(s, i)
      PROVE  Pending(n)
  <2>1. x - 1 \in DOMAIN n /\ (x - 1) + 1 = x
    BY <1>1, <1>5
  <2>2. Meets(n, x - 1)
    BY <1>2, <1>5, <2>1
  <2>3. ASSUME NEW i \in DOMAIN n, i < x - 1 PROVE Ends(n, i)
    <3>1. i + 1 \in DOMAIN s /\ 1 < i + 1 /\ i + 1 < x
      BY <1>1, <1>3, <2>3
    <3> QED
      BY <1>2, <1>5, <3>1
  <2> QED
    BY <2>1, <2>2, <2>3 DEF Pending
<1>6. ASSUME Through(n), NEW i \in DOMAIN s, i > 1 PROVE Ends(s, i)
  BY <1>1, <1>2, <1>6 DEF Through
<1>7. ASSUME \A i \in DOMAIN s : i > 1 => Ends(s, i) PROVE Through(n)
  <2>1. ASSUME NEW i \in DOMAIN n PROVE Ends(n, i)
    <3>1. i + 1 \in DOMAIN s /\ i + 1 > 1
      BY <1>1
    <3> QED
      BY <1>2, <1>7, <3>1
  <2> QED
    BY <2>1 DEF Through
<1>8. ASSUME Staged(n)
      PROVE  \E i \in DOMAIN s : i > 1 /\ s[i].flow.kind = "seq" /\ s[i].sink /\ StagesOf(s[i].flow.kids) # {}
  <2>1. PICK i \in DOMAIN n : n[i].flow.kind = "seq" /\ n[i].sink /\ StagesOf(n[i].flow.kids) # {}
    BY <1>8 DEF Staged
  <2>2. i + 1 \in DOMAIN s /\ i + 1 > 1 /\ n[i].flow = s[i + 1].flow /\ n[i].sink = s[i + 1].sink
    BY <1>1
  <2> QED
    BY <2>1, <2>2
<1>9. ASSUME NEW i \in DOMAIN s, i > 1, s[i].flow.kind = "seq", s[i].sink, StagesOf(s[i].flow.kids) # {}
      PROVE  Staged(n)
  <2>1. i - 1 \in DOMAIN n /\ (i - 1) + 1 = i
    BY <1>1, <1>9
  <2>2. n[i - 1].flow = s[i].flow /\ n[i - 1].sink = s[i].sink
    BY <1>1, <2>1
  <2> QED
    BY <1>9, <2>1, <2>2 DEF Staged
<1> QED
  BY <1>2, <1>4, <1>5, <1>6, <1>7, <1>8, <1>9 DEF n

\* At the end of a chain, who is pending stays so.
LEMMA EndKeeps ==
  ASSUME NEW s, StackOK(s), s # <<>>, ~Meets(s, 1)
  PROVE  /\ Pending(s) => Ends(s, 1) /\ Len(s) # 1 /\ Pending(Popped(s))
         /\ Through(s) => Ends(s, 1) /\ (Len(s) # 1 => Through(Popped(s)))
<1>1. Len(s) \in Nat /\ DOMAIN s = 1..Len(s) /\ 1 \in DOMAIN s
  BY DEF StackOK
<1>2. ASSUME Pending(s) PROVE Ends(s, 1) /\ Len(s) # 1 /\ Pending(Popped(s))
  <2>1. PICK n \in DOMAIN s : Meets(s, n) /\ \A i \in DOMAIN s : i < n => Ends(s, i)
    BY <1>2 DEF Pending
  <2>2. n > 1 /\ Len(s) # 1
    BY <1>1, <2>1
  <2> QED
    BY <1>1, <2>1, <2>2, PoppedTells
<1>3. ASSUME Through(s) PROVE Ends(s, 1) /\ (Len(s) # 1 => Through(Popped(s)))
  BY <1>1, <1>3, PoppedTells DEF Through
<1> QED
  BY <1>2, <1>3

\* Where a flow with the sink stands, that is no Respond, nothing comes before a Respond
\* with the sink, or nothing comes.
LEMMA SinkMeets ==
  ASSUME NEW s, StackOK(s), s # <<>>, Held(s), s[1].sink, ~isRespond[s[1].flow], NEW i \in DOMAIN s, i > 1
  PROVE  Meets(s, i) \/ (Ends(s, i) /\ StagesOf(s[i].flow.kids) = {})
<1>1. /\ Len(s) \in Nat /\ DOMAIN s = 1..Len(s) /\ i \in 1..Len(s)
      /\ s[i].flow \in Flows /\ s[i].pos \in Nat
      /\ Len(s[i].flow.kids) \in Nat /\ DOMAIN s[i].flow.kids = 1..Len(s[i].flow.kids)
  BY FramesAre
<1>2. i - 1 \in DOMAIN s
  BY <1>1
<1>3. s[i].sink /\ s[i - 1].sink
  BY <1>2, SinksDown
<1>4. HeldAt(s, i)
  BY DEF Held
<1>5. s[i].pos \in DOMAIN s[i].flow.kids /\ s[i].pos \in terminalSteps(s[i].flow.kids)
  BY <1>3, <1>4 DEF HeldAt
<1>6. s[i].pos + 1 \in StagesOf(s[i].flow.kids) \/ (StagesOf(s[i].flow.kids) = {} /\ s[i].pos = Len(s[i].flow.kids))
  BY <1>1, <1>5, Terminal
<1>7. s[i].flow.kind = "seq" /\ Upcoming(s, i) = s[i].pos + 1
  BY DEF StackOK, Upcoming
<1> QED
  BY <1>1, <1>3, <1>6, <1>7 DEF Meets, Ends

\* So who claims the sink is before a Respond with it, or is at the very end.
LEMMA ClaimMeets ==
  ASSUME NEW s, StackOK(s), s # <<>>, Len(s) # 1, Held(s), s[1].sink, ~isRespond[s[1].flow]
  PROVE  \/ Pending(Popped(s))
         \/ Through(Popped(s)) /\ \A i \in DOMAIN s : i > 1 => StagesOf(s[i].flow.kids) = {}
<1>1. DOMAIN s \subseteq Nat
  BY DEF StackOK
<1> DEFINE S == {i \in DOMAIN s : i > 1 /\ Meets(s, i)}
<1>2. CASE S = {}
  BY <1>2, SinkMeets, PoppedTells
<1>3. CASE S # {}
  <2>1. S \in SUBSET Nat
    BY <1>1
  <2>2. PICK n \in S : \A j \in S : n <= j
    BY <1>3, <2>1, Least
  <2>3. ASSUME NEW i \in DOMAIN s, 1 < i, i < n PROVE Ends(s, i)
    <3>1. i \notin S
      BY <1>1, <2>2, <2>3
    <3> QED
      BY <2>3, <3>1, SinkMeets
  <2> QED
    BY <2>2, <2>3, PoppedTells
<1> QED
  BY <1>2, <1>3

\* After a return, some chain with the sink has a Respond still, or nothing comes.
LEMMA StageReturns ==
  ASSUME NEW s, StackOK(s), s # <<>>, Len(s) # 1, Held(s), s[1].sink \/ Staged(s) \/ Through(s)
  PROVE  Staged(Popped(s)) \/ Through(Popped(s))
<1>1. DOMAIN s \subseteq Nat /\ 1 \in DOMAIN s
  BY DEF StackOK
<1>2. CASE Through(s)
  BY <1>2, PoppedTells DEF Through
<1>3. ASSUME Staged(s), ~s[1].sink PROVE Staged(Popped(s))
  <2>1. PICK i \in DOMAIN s : s[i].flow.kind = "seq" /\ s[i].sink /\ StagesOf(s[i].flow.kids) # {}
    BY <1>3 DEF Staged
  <2>2. i > 1
    BY <1>1, <1>3, <2>1, FramesAre
  <2> QED
    BY <2>1, <2>2, PoppedTells
<1>4. CASE s[1].sink
  <2>1. \A i \in DOMAIN s : s[i].sink
    BY <1>4, SinksDown
  <2>2. CASE \E i \in DOMAIN s : i > 1 /\ StagesOf(s[i].flow.kids) # {}
    BY <2>1, <2>2, PoppedTells DEF StackOK
  <2>3. CASE \A i \in DOMAIN s : i > 1 => StagesOf(s[i].flow.kids) = {}
    <3>1. ASSUME NEW i \in DOMAIN s, i > 1 PROVE Ends(s, i)
      <4>1. /\ Len(s) \in Nat /\ DOMAIN s = 1..Len(s)
            /\ Len(s[i].flow.kids) \in Nat /\ DOMAIN s[i].flow.kids = 1..Len(s[i].flow.kids) /\ s[i].pos \in Nat
        BY FramesAre
      <4>2. HeldAt(s, i) /\ i - 1 \in DOMAIN s /\ s[i - 1].sink
        BY <2>1, <3>1, <4>1 DEF Held
      <4>3. s[i].pos \in DOMAIN s[i].flow.kids /\ ~isRespond[s[i].flow.kids[s[i].pos]]
        BY <2>3, <3>1, <4>2 DEF HeldAt, StagesOf
      <4>4. s[i].pos \in terminalSteps(s[i].flow.kids)
        BY <4>2, <4>3 DEF HeldAt
      <4>5. s[i].pos = Len(s[i].flow.kids)
        BY <2>3, <3>1, <4>1, <4>3, <4>4, Terminal
      <4> QED
        BY <3>1, <4>1, <4>5 DEF Ends, Upcoming, StackOK
    <3> QED
      BY <3>1, PoppedTells
  <2> QED
    BY <2>2, <2>3
<1> QED
  BY <1>2, <1>3, <1>4

\* A return keeps the sinks.
LEMMA HeldPopped ==
  ASSUME NEW made, BuiltUp(made), NEW s, StackOK(s), s # <<>>, Len(s) # 1, Held(s)
  PROVE  Held(Popped(s))
<1> DEFINE n == Popped(s)
<1>1. /\ StackOK(n) /\ 1 \in DOMAIN n
      /\ \A i \in DOMAIN n : /\ i \in Nat /\ i + 1 \in DOMAIN s
                             /\ n[i].flow = s[i + 1].flow /\ n[i].sink = s[i + 1].sink
                             /\ i > 1 => n[i] = s[i + 1]
  BY PoppedAt DEF StackOK
<1> HIDE DEF n
<1>2. ASSUME NEW i \in DOMAIN n, i > 1 PROVE HeldAt(n, i)
  <2>1. i + 1 \in DOMAIN s /\ i + 1 > 1 /\ n[i] = s[i + 1] /\ (i + 1) - 1 = i /\ i + 1 # 2
    BY <1>1, <1>2
  <2>2. HeldAt(s, i + 1)
    BY <2>1 DEF Held
  <2>3. i - 1 \in DOMAIN n /\ (i - 1) + 1 = i
    BY <1>1, <1>2 DEF StackOK
  <2>4. n[i - 1].sink = s[i].sink
    BY <1>1, <2>3
  <2> QED
    BY <2>1, <2>2, <2>4 DEF HeldAt
<1> QED
  BY <1>2 DEF Held, n

\* So does a step into a part in place of the whole, that is no Respond if the whole is none.
LEMMA HeldReplaced ==
  ASSUME NEW s, StackOK(s), s # <<>>, NEW x \in Frames, Held(s), x.sink = s[1].sink,
         isRespond[s[1].flow] => isRespond[x.flow]
  PROVE  /\ Held(Replaced(s, x))
         /\ s[1].flow.kind # "seq" => ~Through(s) /\ (Staged(s) => Staged(Replaced(s, x)))
<1> DEFINE n == Replaced(s, x)
<1>1. /\ n \in Seq(Frames) /\ Len(n) = Len(s) /\ Len(s) \in Nat \ {0}
      /\ n[1] = x
      /\ \A i \in DOMAIN n : i > 1 => i \in DOMAIN s /\ n[i] = s[i]
  BY ReplacedIs
<1> HIDE DEF n
<1>2. DOMAIN n = 1..Len(s) /\ DOMAIN s = 1..Len(s)
  BY <1>1 DEF StackOK
<1>3. \A i \in DOMAIN s : n[i].sink = s[i].sink
  <2> SUFFICES ASSUME NEW i \in DOMAIN s PROVE n[i].sink = s[i].sink
    OBVIOUS
  <2>1. i = 1 \/ i > 1
    BY <1>2
  <2> QED
    BY <1>1, <1>2, <2>1
<1>4. ASSUME NEW i \in DOMAIN n, i > 1 PROVE HeldAt(n, i)
  <2>1. HeldAt(s, i) /\ n[i] = s[i] /\ i - 1 \in DOMAIN s
    BY <1>1, <1>2, <1>4 DEF Held
  <2>2. n[i - 1].sink = s[i - 1].sink
    BY <1>3, <2>1
  <2> QED
    BY <1>1, <2>1, <2>2 DEF HeldAt
<1>5. ASSUME s[1].flow.kind # "seq" PROVE ~Through(s) /\ (Staged(s) => Staged(n))
  <2>1. ~Through(s)
    BY <1>1, <1>2, <1>5 DEF Through, Ends
  <2>2. ASSUME Staged(s) PROVE Staged(n)
    <3>1. PICK i \in DOMAIN s : s[i].flow.kind = "seq" /\ s[i].sink /\ StagesOf(s[i].flow.kids) # {}
      BY <2>2 DEF Staged
    <3>2. i > 1
      BY <1>2, <1>5, <3>1
    <3>3. i \in DOMAIN n /\ n[i] = s[i]
      BY <1>1, <1>2, <3>2
    <3> QED
      BY <3>1, <3>3 DEF Staged
  <2> QED
    BY <2>1, <2>2
<1> QED
  BY <1>4, <1>5 DEF Held, n

\* So does the step of a chain.
LEMMA HeldPushed ==
  ASSUME NEW made, BuiltUp(made), NEW s, StackOK(s), s # <<>>, s[1].flow.kind = "seq", Held(s), NEW x \in Frames,
         s[1].pos \in DOMAIN s[1].flow.kids, x.flow = s[1].flow.kids[s[1].pos],
         x.sink = (s[1].sink /\ (s[1].pos \in terminalSteps(s[1].flow.kids) \/ isRespond[x.flow]))
  PROVE  /\ Held(Pushed(s, x)) /\ ~Through(s) /\ (Staged(s) => Staged(Pushed(s, x)))
         /\ Pending(s) => x.sink /\ isRespond[x.flow]
<1> DEFINE n == Pushed(s, x)
<1>1. /\ n \in Seq(Frames) /\ Len(n) = Len(s) + 1 /\ Len(s) \in Nat /\ Len(s) # 0
      /\ n[1] = x
      /\ \A i \in DOMAIN n : i > 1 => i - 1 \in DOMAIN s /\ n[i] = s[i - 1]
  BY PushedIs DEF StackOK
<1> HIDE DEF n
<1>2. DOMAIN n = 1..Len(s) + 1 /\ DOMAIN s = 1..Len(s) /\ 1 \in DOMAIN s
  BY <1>1 DEF StackOK
<1>3. s[1].flow \in Flows /\ s[1].pos \in 1..Len(s[1].flow.kids) /\ Len(s[1].flow.kids) \in Nat /\ s[1].sink \in BOOLEAN
  BY <1>2, FramesAre
<1>4. ~isRespond[s[1].flow]
  BY <1>3, NoRespond
<1>5. ASSUME NEW i \in DOMAIN n, i > 1 PROVE HeldAt(n, i)
  <2>1. CASE i = 2
    <3>1. n[i] = s[1] /\ n[i - 1] = x
      BY <1>1, <2>1, <1>5
    <3> QED
      BY <1>1, <2>1, <3>1 DEF HeldAt
  <2>2. CASE i # 2
    <3>1. i - 1 \in DOMAIN s /\ i - 1 > 1 /\ n[i] = s[i - 1] /\ i - 1 \in DOMAIN n
      BY <1>1, <1>2, <1>5, <2>2
    <3>2. n[i - 1] = s[(i - 1) - 1]
      BY <1>1, <3>1
    <3>3. HeldAt(s, i - 1)
      BY <3>1 DEF Held
    <3> QED
      BY <1>4, <3>1, <3>2, <3>3 DEF HeldAt
  <2> QED
    BY <2>1, <2>2
<1>6. ~Ends(s, 1)
  BY <1>3 DEF Ends, Upcoming
<1>7. ASSUME Staged(s) PROVE Staged(n)
  <2>1. PICK i \in DOMAIN s : s[i].flow.kind = "seq" /\ s[i].sink /\ StagesOf(s[i].flow.kids) # {}
    BY <1>7 DEF Staged
  <2>2. i + 1 \in DOMAIN n /\ i + 1 > 1 /\ (i + 1) - 1 = i
    BY <1>2
  <2>3. n[i + 1] = s[i]
    BY <1>1, <2>2
  <2> QED
    BY <2>1, <2>2, <2>3 DEF Staged
<1>8. ASSUME Pending(s) PROVE x.sink /\ isRespond[x.flow]
  <2>1. PICK m \in DOMAIN s : Meets(s, m) /\ \A i \in DOMAIN s : i < m => Ends(s, i)
    BY <1>8 DEF Pending
  <2>2. m = 1
    BY <1>2, <1>6, <2>1
  <2> QED
    BY <2>1, <2>2 DEF Meets, Upcoming, StagesOf
<1> QED
  BY <1>2, <1>5, <1>6, <1>7, <1>8 DEF Held, Through, n

\* A mark changes nothing of it.
LEMMA HeldMarked ==
  ASSUME NEW s, NEW n, DOMAIN n = DOMAIN s, DOMAIN s \subseteq Nat, 1 \in DOMAIN s,
         \A i \in DOMAIN s : i > 1 => i - 1 \in DOMAIN s,
         \A i \in DOMAIN s : n[i].flow = s[i].flow /\ n[i].pos = s[i].pos /\ n[i].sink = s[i].sink
  PROVE  /\ Held(s) => Held(n)
         /\ Pending(s) => Pending(n)
         /\ Through(s) => Through(n)
         /\ Staged(s) => Staged(n)
<1>1. \A i \in DOMAIN s : Upcoming(n, i) = Upcoming(s, i)
  BY DEF Upcoming
<1>2. \A i \in DOMAIN s : (Ends(n, i) <=> Ends(s, i)) /\ (Meets(n, i) <=> Meets(s, i))
  BY <1>1 DEF Ends, Meets
<1>3. \A i \in DOMAIN s : i > 1 => (HeldAt(s, i) => HeldAt(n, i))
  <2> SUFFICES ASSUME NEW i \in DOMAIN s, i > 1, HeldAt(s, i) PROVE HeldAt(n, i)
    OBVIOUS
  <2>1. n[i].flow = s[i].flow /\ n[i].pos = s[i].pos /\ n[i].sink = s[i].sink
        /\ n[i - 1].sink = s[i - 1].sink /\ n[1].flow = s[1].flow
    OBVIOUS
  <2> QED
    BY <2>1 DEF HeldAt
<1> QED
  BY <1>2, <1>3 DEF Held, Pending, Through, Staged

\* A client is streamed to, in a run whose records are whole.
Watched == pass.run \in Clients /\ pass.stream /\ sound[pass.run]

\* No Respond is behind the last turn, or a part of a stage never went out.
Last == st.sent < 0 \/ pass.mixed

\* Who has claimed the sink is before a Respond that has it, or was the last to speak.
Frees(s) == Pending(s) \/ (Through(s) /\ Last)
ClaimInv ==
  Watched /\ claimed =>
    /\ pc \in {"run", "armed"} => (isRespond[Top.flow] /\ Top.sink) \/ Frees(stack)
    /\ pc \in {"ask", "save"} => IF Len(stack) = 1 THEN Last ELSE Frees(Popped(stack))
    /\ pc = "done" => Last

\* Where a whole stage went out, another may follow, or nothing comes.
StageInv == Watched /\ ~Last /\ pc \in {"run", "armed", "ask", "save"} => Staged(stack) \/ Through(stack)

\* Nobody has claimed a sink, and nothing was sent, where there is no pass.
IdleInv == pc \in {"down", "boot", "idle"} => ~claimed /\ out = <<>>

SinkInv == Held(stack) /\ ClaimInv /\ StageInv /\ IdleInv

\* Who is watched was watched before.
LEMMA WatchedOn ==
  ASSUME HistoryOK, TypeInv, RecordInv, [Next]_vars, pass'.run = pass.run, pass'.stream = pass.stream, Watched'
  PROVE  Watched
BY SoundStays DEF Watched, Runs

\* A pass goes on with the marks it has.
GoesOn ==
  /\ Watched' => Watched
  /\ Last' = Last /\ claimed' = claimed

\* Above what is no chain nothing is met.
LEMMA Solitary ==
  ASSUME NEW s, StackOK(s), s # <<>>, s[1].flow.kind # "seq"
  PROVE  ~Meets(s, 1) /\ ~Pending(s) /\ ~Through(s)
<1>1. 1 \in DOMAIN s /\ DOMAIN s \subseteq Nat /\ ~Ends(s, 1) /\ ~Meets(s, 1)
  BY DEF StackOK, Ends, Meets
<1>2. \A i \in DOMAIN s : i # 1 => 1 < i
  BY DEF StackOK
<1> QED
  BY <1>1, <1>2 DEF Pending, Through

\* The sink: a flow returns.
LEMMA SinkReturns ==
  ASSUME NEW made, BuiltUp(made), TypeInv, stack # <<>>, SinkInv, NEW s, Return(s), GoesOn,
         Watched /\ claimed => IF Len(stack) = 1 THEN Last ELSE Frees(Popped(stack))
  PROVE  SinkInv'
<1>1. StackOK(stack) /\ pc \in {"run", "armed", "ask", "save"} /\ Held(stack)
  BY DEF TypeInv, StandOK, SinkInv
<1>2. CASE Len(stack) = 1
  <2>1. stack' = <<>> /\ pc' = "done"
    BY <1>2 DEF Return
  <2> QED
    BY <1>2, <2>1 DEF SinkInv, Held, ClaimInv, StageInv, IdleInv, GoesOn
<1>3. CASE Len(stack) # 1
  <2>1. stack' = Popped(stack) /\ pc' = "run"
    BY <1>3 DEF Return, Popped
  <2>2. Held(stack')
    BY <1>1, <1>3, <2>1, HeldPopped
  <2>3. ASSUME Watched', claimed' PROVE Frees(stack)'
    BY <1>3, <2>1, <2>3 DEF GoesOn, Frees
  <2>4. ASSUME Watched', ~Last' PROVE Staged(stack') \/ Through(stack')
    <3>1. Staged(stack) \/ Through(stack)
      BY <1>1, <2>4 DEF SinkInv, StageInv, GoesOn
    <3> QED
      BY <1>1, <1>3, <2>1, <3>1, StageReturns
  <2> QED
    BY <2>1, <2>2, <2>3, <2>4 DEF SinkInv, ClaimInv, StageInv, IdleInv
<1> QED
  BY <1>2, <1>3

\* The sink: a Respond delivers.
LEMMA SinkResponds ==
  ASSUME NEW made, BuiltUp(made), TypeInv, SinkInv, RespondRuns, Watched' => Watched
  PROVE  SinkInv'
<1> DEFINE s == [st EXCEPT !.sent = Len(st.chat)]
<1>1. /\ pc \in {"run", "armed"} /\ Top.flow.kind = "respond" /\ Return(s)
      /\ claimed' = (claimed /\ ~Top.sink) /\ (~Top.sink => pass'.mixed)
  BY DEF RespondRuns, Ready, TypeInv, ProcessOK, PassFields
<1>2. StackOK(stack) /\ stack # <<>> /\ Held(stack) /\ Top = stack[1]
  BY <1>1, TopIs DEF TypeInv, SinkInv, Top
<1>3. ~Pending(stack) /\ ~Through(stack)
  BY <1>1, <1>2, Solitary
<1>4. ~(Watched' /\ claimed')
  BY <1>1, <1>3 DEF SinkInv, ClaimInv, Frees
<1>5. ASSUME Watched', ~Last' PROVE Top.sink
  BY <1>1, <1>5 DEF Last
<1>6. CASE Len(stack) = 1
  <2>1. stack' = <<>> /\ pc' = "done"
    BY <1>1, <1>6 DEF Return
  <2> QED
    BY <1>4, <2>1 DEF SinkInv, Held, ClaimInv, StageInv, IdleInv
<1>7. CASE Len(stack) # 1
  <2>1. stack' = Popped(stack) /\ pc' = "run"
    BY <1>1, <1>7 DEF Return, Popped
  <2>2. Held(stack')
    BY <1>2, <1>7, <2>1, HeldPopped
  <2>3. ASSUME Watched', ~Last' PROVE Staged(stack') \/ Through(stack')
    BY <1>2, <1>5, <1>7, <2>1, <2>3, StageReturns
  <2> QED
    BY <1>4, <2>1, <2>2, <2>3 DEF SinkInv, ClaimInv, StageInv, IdleInv
<1> QED
  BY <1>6, <1>7

\* The sink: the only agent of a leaf claims it.
LEMMA SinkClaimed ==
  ASSUME NEW made, BuiltUp(made), TypeInv, SinkInv, NEW x, Streams(x)
  PROVE  SinkInv'
<1>1. /\ pc = "ask" /\ Top.sink /\ Top.flow.kind = "basic" /\ Top.flow \in Flows
      /\ UNCHANGED <<pass, stack, st, pc, sound>>
  BY TopIs DEF Streams, history, TypeInv, AskOK
<1>2. StackOK(stack) /\ stack # <<>> /\ Held(stack) /\ Top = stack[1]
  BY <1>1, TopIs DEF TypeInv, SinkInv, Top
<1>3. ~isRespond[stack[1].flow] /\ ~Through(stack)
  BY <1>1, <1>2, NoRespond, Solitary
<1>4. ASSUME Watched, ~Last PROVE Len(stack) # 1 /\ Pending(Popped(stack))
  <2>1. PICK i \in DOMAIN stack : stack[i].flow.kind = "seq" /\ stack[i].sink /\ StagesOf(stack[i].flow.kids) # {}
    BY <1>1, <1>3, <1>4 DEF SinkInv, StageInv, Staged
  <2>2. i # 1 /\ i > 1 /\ Len(stack) # 1
    BY <1>1, <1>2, <2>1 DEF StackOK
  <2> QED
    BY <1>1, <1>2, <1>3, <2>1, <2>2, ClaimMeets
<1>5. Watched => IF Len(stack) = 1 THEN Last ELSE Frees(Popped(stack))
  BY <1>1, <1>2, <1>3, <1>4, ClaimMeets DEF Frees
<1>6. (Watched' <=> Watched) /\ (Last' <=> Last)
  BY <1>1 DEF Watched, Last
<1>7. ClaimInv'
  BY <1>1, <1>5, <1>6 DEF ClaimInv, Frees
<1>8. StageInv'
  BY <1>1, <1>6 DEF StageInv, SinkInv
<1>9. Held(stack')
  BY <1>1, <1>2
<1> QED
  BY <1>1, <1>7, <1>8, <1>9 DEF SinkInv, IdleInv

\* Between passes nothing is sent.
LEMMA IdleStep ==
  ASSUME IdleInv, [Next]_vars
  PROVE  IdleInv'
<1> SUFFICES ASSUME pc' \in {"down", "boot", "idle"} PROVE ~claimed' /\ out' = <<>>
  BY DEF IdleInv
<1>1. CASE Walk
  <2>1. ASSUME NEW i \in DOMAIN replies,
               \/ AgentFails(i)
               \/ \E x \in Agents[i].exits \cup {None} :
                    Streams(x) \/ \E silent \in BOOLEAN : Reply(i, x, silent)
        PROVE  FALSE
    BY <2>1 DEF AgentFails, Fail, Streams, Reply
  <2>2. ~(ActivateDurable \/ Load \/ Miss \/ Save \/ SelectConflict \/ Collect \/ RunAtStartup \/ Finish)
    BY DEF ActivateDurable, Load, Return, Miss, Save, SelectConflict, Fail, Collect, RunAtStartup, Begin, Finish
  <2>3. ~(\/ EnterDecorated \/ SeqStep \/ SeqEnds \/ SelectNone \/ SelectEnter \/ UnknownSelect \/ NotifySends
          \/ BareTrigger \/ NothingToDefer \/ DeferFails \/ DeferBody \/ RegisterWebhook \/ RespondRuns)
    BY DEF EnterDecorated, SeqStep, SeqEnds, SelectNone, SelectEnter, UnknownSelect, NotifySends, BareTrigger,
        NothingToDefer, DeferFails, DeferBody, RegisterWebhook, RespondRuns, Return, Descend, Fail
  <2>4. CASE Booted \/ Ended
    BY <2>4 DEF Booted, Ended, Clear, IdleInv
  <2> QED
    BY <1>1, <2>1, <2>2, <2>3, <2>4 DEF Walk
<1>2. CASE (\E b \in DOMAIN Binaries : Deploy(b)) \/ Crash
  BY <1>2 DEF Deploy, Crash, Clear, IdleInv
<1>3. ~(\/ \E r \in Clients, live \in BOOLEAN : Serve(r, live)
        \/ \E e \in DOMAIN hooks : CallHook(e)
        \/ \E j \in jobs : FireJob(j))
  BY DEF Serve, CallHook, FireJob, Begin
<1>4. CASE UNCHANGED vars
  BY <1>4 DEF vars, walking, IdleInv
<1> QED
  BY <1>1, <1>2, <1>3, <1>4 DEF Next

\* The sink: a Durable is entered.
LEMMA SinkActivates ==
  ASSUME TypeInv, SinkInv, ActivateDurable, Watched' => Watched
  PROVE  SinkInv'
<1>1. pc = "run" /\ pc' = "armed" /\ UNCHANGED <<st, claimed>>
  BY DEF ActivateDurable
<1>2. PICK c \in {"live", "stale"} : stack' = [stack EXCEPT ![1].cp = c]
  BY DEF ActivateDurable, Live, Stale
<1>3. pass'.mixed = pass.mixed
  BY DEF ActivateDurable, Live, Stale, TypeInv, ProcessOK, PassFields
<1>4. Top \in Frames /\ stack \in Seq(Frames) /\ 1 \in DOMAIN stack /\ Len(stack) \in Nat /\ DOMAIN stack = 1..Len(stack)
  BY <1>1, TopIs DEF TypeInv, StackOK
<1>5. [Top EXCEPT !.cp = c].flow = Top.flow /\ [Top EXCEPT !.cp = c].pos = Top.pos /\ [Top EXCEPT !.cp = c].sink = Top.sink
  BY <1>4 DEF Frames
<1>6. /\ DOMAIN stack' = DOMAIN stack
      /\ \A i \in DOMAIN stack : /\ stack'[i].flow = stack[i].flow /\ stack'[i].pos = stack[i].pos
                                 /\ stack'[i].sink = stack[i].sink
  <2>1. stack' = [stack EXCEPT ![1] = [Top EXCEPT !.cp = c]]
    BY <1>2 DEF Top
  <2>2. DOMAIN stack' = DOMAIN stack /\ stack'[1] = [Top EXCEPT !.cp = c]
        /\ \A i \in DOMAIN stack : i # 1 => stack'[i] = stack[i]
    BY <1>4, <2>1
  <2> QED
    BY <1>5, <2>2 DEF Top
<1>7. PICK s, n : s = stack /\ n = stack'
  OBVIOUS
<1>8. DOMAIN s \subseteq Nat /\ 1 \in DOMAIN s /\ \A i \in DOMAIN s : i > 1 => i - 1 \in DOMAIN s
  BY <1>4, <1>7
<1>9. /\ Held(stack) => Held(stack')
      /\ Pending(stack) => Pending(stack')
      /\ Through(stack) => Through(stack')
      /\ Staged(stack) => Staged(stack')
  BY <1>6, <1>7, <1>8, HeldMarked
<1>10. Top'.flow = Top.flow /\ Top'.sink = Top.sink
  BY <1>4, <1>6 DEF Top
<1>11. Last' <=> Last
  BY <1>1, <1>3 DEF Last
<1>12. ClaimInv'
  BY <1>1, <1>9, <1>10, <1>11 DEF SinkInv, ClaimInv, Frees
<1>13. StageInv'
  BY <1>1, <1>9, <1>11 DEF SinkInv, StageInv
<1> QED
  BY <1>1, <1>9, <1>12, <1>13 DEF SinkInv, IdleInv

\* The sink: at a leaf.
LEMMA SinkAsks ==
  ASSUME NEW made, BuiltUp(made), TypeInv, SinkInv, Watched' => Watched,
         \/ Miss \/ Collect
         \/ \E i \in DOMAIN replies : \E x : \E silent \in BOOLEAN : Reply(i, x, silent)
  PROVE  SinkInv'
<1>1. /\ UNCHANGED <<pass, stack, claimed>> /\ pc \in {"run", "armed", "ask"} /\ pc' \in {"ask", "save"}
      /\ (pc = "ask" \/ Top.flow.kind = "basic")
  BY DEF Miss, Ready, Collect, Reply
<1>2. st'.sent = st.sent
  BY DEF Miss, Collect, Reply, TypeInv, StandOK, StateOK
<1>3. Last' <=> Last
  BY <1>1, <1>2 DEF Last
<1>4. StageInv'
  BY <1>1, <1>3 DEF SinkInv, StageInv
<1>5. ASSUME pc # "ask" PROVE ~(Watched /\ claimed)
  <2>1. StackOK(stack) /\ stack # <<>> /\ Top = stack[1] /\ Top.flow \in Flows
    BY <1>1, TopIs DEF TypeInv, Top
  <2>2. ~Pending(stack) /\ ~Through(stack) /\ ~isRespond[Top.flow]
    BY <1>1, <1>5, <2>1, Solitary, NoRespond
  <2> QED
    BY <1>1, <1>5, <2>2 DEF SinkInv, ClaimInv, Frees
<1>6. ClaimInv'
  BY <1>1, <1>3, <1>5 DEF SinkInv, ClaimInv, Frees
<1>7. Held(stack')
  BY <1>1 DEF SinkInv
<1> QED
  BY <1>1, <1>4, <1>6, <1>7 DEF SinkInv, IdleInv

\* The sink: into a part in place of the whole.
LEMMA SinkInto ==
  ASSUME NEW made, BuiltUp(made), TypeInv, SinkInv, Watched' => Watched, EnterDecorated \/ SelectEnter
  PROVE  SinkInv'
<1>1. /\ UNCHANGED <<pass, claimed>> /\ pc \in {"run", "armed"} /\ pc' = "run"
      /\ st' = st \/ st' = [st EXCEPT !.sel = None]
  BY DEF EnterDecorated, SelectEnter, Ready, Descend
<1>2. StackOK(stack) /\ stack # <<>> /\ Top = stack[1] /\ Top \in Frames /\ Top.flow \in Flows /\ Held(stack)
  BY <1>1, TopIs DEF TypeInv, Top, SinkInv
<1>3. PICK x \in Frames :
        /\ stack' = Replaced(stack, x) /\ x.sink = Top.sink
        /\ Top.flow.kind # "seq" /\ (isRespond[Top.flow] => isRespond[x.flow])
  <2>1. CASE EnterDecorated
    <3> DEFINE x == [Top EXCEPT !.flow = Top.flow.kids[1],
                                !.scope = IF Top.flow.model = None THEN @ ELSE Top.flow.model]
    <3>1. Top.flow.kind = "decorated" /\ Top.flow.kids[1] \in Flows /\ Top.flow.model \in Specs
      BY <1>2, <2>1, PartsAre, FlowsAssumption DEF EnterDecorated, Ready
    <3>2. x \in Frames /\ x.sink = Top.sink /\ x.flow = Top.flow.kids[1]
      BY <1>2, <3>1 DEF Frames
    <3>3. stack' = Replaced(stack, x)
      BY <2>1 DEF EnterDecorated, Descend, Replaced
    <3>4. isRespond[Top.flow] = isRespond[x.flow]
      BY <1>2, <3>1, <3>2, NoRespond
    <3> HIDE DEF x
    <3> QED
      BY <3>1, <3>2, <3>3, <3>4
  <2>2. CASE SelectEnter
    <3>1. PICK i \in DOMAIN Top.flow.kids :
            /\ Top.flow.kids[i].id = st.sel
            /\ stack' = <<[Top EXCEPT !.flow = Top.flow.kids[i], !.path = Append(@, st.sel)]>> \o Tail(stack)
      BY <2>2 DEF SelectEnter
    <3> DEFINE x == [Top EXCEPT !.flow = Top.flow.kids[i], !.path = Append(@, st.sel)]
    <3>2. Top.flow.kids[i] \in Flows /\ st.sel \in {f.id : f \in Flows}
      BY <1>2, <3>1, PartsAre
    <3>3. Append(Top.path, st.sel) \in Paths
      BY <1>2, <3>2 DEF Frames, Paths
    <3>4. x \in Frames /\ x.sink = Top.sink
      BY <1>2, <3>2, <3>3 DEF Frames
    <3>5. stack' = Replaced(stack, x)
      BY <3>1 DEF Replaced
    <3>6. Top.flow.kind = "select" /\ ~isRespond[Top.flow]
      BY <1>2, <2>2, NoRespond DEF SelectEnter, Ready
    <3> HIDE DEF x
    <3> QED
      BY <3>4, <3>5, <3>6
  <2> QED
    BY <2>1, <2>2
<1>4. Held(stack') /\ ~Through(stack) /\ (Staged(stack) => Staged(stack'))
  BY <1>2, <1>3, HeldReplaced
<1>5. ~Pending(stack)
  BY <1>2, <1>3, Solitary
<1>6. stack'[1] = x
  BY <1>2, <1>3, ReplacedIs
<1>7. Last' <=> Last
  <2>1. st'.sent = st.sent
    BY <1>1 DEF TypeInv, StandOK, StateOK
  <2> QED
    BY <1>1, <2>1 DEF Last
<1>8. ASSUME Watched', claimed' PROVE isRespond[x.flow] /\ x.sink
  BY <1>1, <1>3, <1>4, <1>5, <1>8 DEF SinkInv, ClaimInv, Frees
<1>9. ClaimInv'
  BY <1>1, <1>6, <1>8 DEF ClaimInv, Top
<1>10. StageInv'
  BY <1>1, <1>4, <1>7 DEF SinkInv, StageInv
<1> QED
  BY <1>1, <1>4, <1>9, <1>10 DEF SinkInv, IdleInv

\* The sink: the next step of a chain.
LEMMA SinkDown ==
  ASSUME NEW made, BuiltUp(made), TypeInv, SinkInv, Watched' => Watched, SeqStep
  PROVE  SinkInv'
<1> DEFINE f == Top.flow.kids[Top.pos]
           k == Top.sink /\ (Top.pos \in terminalSteps(Top.flow.kids) \/ isRespond[f])
           x == [Top EXCEPT !.flow = f, !.path = Append(@, Top.pos), !.pos = 1, !.sink = k]
<1>1. /\ UNCHANGED <<pass, claimed, st>> /\ pc \in {"run", "armed"} /\ pc' = "run"
      /\ Top.flow.kind = "seq" /\ Top.pos \in DOMAIN Top.flow.kids
      /\ stack' = Pushed(stack, x)
  BY DEF SeqStep, SeqAt, Ready, Pushed
<1>2. StackOK(stack) /\ stack # <<>> /\ Top = stack[1] /\ Top \in Frames /\ Top.flow \in Flows /\ Held(stack)
  BY <1>1, TopIs DEF TypeInv, Top, SinkInv
<1>3. k \in BOOLEAN
  BY <1>2 DEF Frames
<1> HIDE DEF k
<1>4. x \in Frames /\ x.flow = f /\ x.sink = k
  <2>1. Append(Top.path, Top.pos) \in Paths
    BY <1>2 DEF Frames, Paths
  <2>2. f \in Flows
    BY <1>1, <1>2, PartsAre
  <2> QED
    BY <1>2, <1>3, <2>1, <2>2 DEF Frames
<1> HIDE DEF x
<1>5. /\ Held(stack') /\ ~Through(stack) /\ (Staged(stack) => Staged(stack'))
      /\ Pending(stack) => x.sink /\ isRespond[x.flow]
  BY <1>1, <1>2, <1>4, HeldPushed DEF k
<1>6. stack'[1] = x
  BY <1>1, <1>2, <1>4, PushedIs
<1>7. Last' <=> Last
  BY <1>1 DEF Last
<1>8. ASSUME Watched', claimed' PROVE isRespond[x.flow] /\ x.sink
  <2>1. ~isRespond[Top.flow]
    BY <1>1, <1>2, NoRespond
  <2> QED
    BY <1>1, <1>5, <1>8, <2>1 DEF SinkInv, ClaimInv, Frees
<1>9. ClaimInv'
  BY <1>1, <1>6, <1>8 DEF ClaimInv, Top
<1>10. StageInv'
  BY <1>1, <1>5, <1>7 DEF SinkInv, StageInv
<1> QED
  BY <1>1, <1>5, <1>9, <1>10 DEF SinkInv, IdleInv

\* Every step keeps what holds of the sink.
LEMMA SinkStep ==
  ASSUME NEW made, BuiltUp(made), WellMade, AnswerInv, SinkInv, [Next]_vars, TypeInv'
  PROVE  SinkInv'
<1> USE DEF AnswerInv
<1>1. IdleInv'
  BY IdleStep DEF SinkInv
<1>2. CASE pc' \notin {"run", "armed", "ask", "save", "done", "replied"}
  <2>1. stack' = <<>>
    BY <1>2 DEF TypeInv, StandOK
  <2> QED
    BY <1>1, <1>2, <2>1 DEF SinkInv, Held, ClaimInv, StageInv
<1>3. CASE Finish
  <2>1. stack' = <<>> /\ pc' = "replied"
    BY <1>3 DEF Finish, TypeInv, StandOK
  <2> QED
    BY <1>1, <2>1 DEF SinkInv, Held, ClaimInv, StageInv
<1>4. CASE BeginsOther
  <2>1. ~Watched'
    BY <1>4, RequestAssumption DEF BeginsOther, Watched, Runs
  <2>2. Held(stack')
    BY <1>4 DEF BeginsOther, Held
  <2> QED
    BY <1>1, <2>1, <2>2 DEF SinkInv, ClaimInv, StageInv
<1>5. CASE \E r \in Clients, live \in BOOLEAN : Serve(r, live)
  <2>1. pc = "idle" /\ claimed' = claimed /\ st'.sent = -1 /\ \E x : stack' = <<x>>
    BY <1>5 DEF Serve, NewPass, Begin, NoState
  <2>2. Held(stack')
    BY <2>1 DEF Held
  <2> QED
    BY <1>1, <2>1, <2>2 DEF SinkInv, ClaimInv, StageInv, IdleInv, Last
<1>6. ASSUME pass'.run = pass.run, pass'.stream = pass.stream PROVE Watched' => Watched
  BY <1>6, WatchedOn
<1>7. CASE ActivateDurable
  <2>1. pass'.run = pass.run /\ pass'.stream = pass.stream
    BY <1>7 DEF ActivateDurable, Live, Stale, TypeInv, ProcessOK, PassFields
  <2> QED
    BY <1>6, <1>7, <2>1, SinkActivates
<1>8. ASSUME NEW i \in DOMAIN replies, NEW x, Streams(x) PROVE SinkInv'
  BY <1>8, SinkClaimed
<1>9. CASE \/ Miss \/ Collect
           \/ \E i \in DOMAIN replies : \E x : \E silent \in BOOLEAN : Reply(i, x, silent)
  <2>1. pass' = pass
    BY <1>9 DEF Miss, Collect, Reply
  <2> QED
    BY <1>6, <1>9, <2>1, SinkAsks
<1>10. CASE EnterDecorated \/ SelectEnter
  <2>1. pass' = pass
    BY <1>10 DEF EnterDecorated, SelectEnter
  <2> QED
    BY <1>6, <1>10, <2>1, SinkInto
<1>11. CASE SeqStep
  <2>1. pass' = pass
    BY <1>11 DEF SeqStep
  <2> QED
    BY <1>6, <1>11, <2>1, SinkDown
<1>12. CASE RespondRuns
  <2>1. pass'.run = pass.run /\ pass'.stream = pass.stream
    BY <1>12 DEF RespondRuns, TypeInv, ProcessOK, PassFields
  <2> QED
    BY <1>6, <1>12, <2>1, SinkResponds
<1>13. CASE Save
  <2>1. pc = "save" /\ Return(st) /\ st' = st /\ pass' = pass /\ claimed' = claimed
    BY <1>13 DEF Save, Return
  <2>2. GoesOn
    BY <1>6, <2>1 DEF GoesOn, Last
  <2>3. stack # <<>>
    BY <2>1 DEF TypeInv, StandOK
  <2> QED
    BY <2>1, <2>2, <2>3, SinkReturns DEF SinkInv, ClaimInv
<1>14. CASE Load
  <2>1. pc \in {"run", "armed"} /\ Return(saved[Key]) /\ pass' = pass /\ claimed' = claimed /\ Top.flow.kind = "basic"
    BY <1>14 DEF Load, Ready
  <2>2. StackOK(stack) /\ stack # <<>> /\ Top = stack[1] /\ Top.flow \in Flows
    BY <2>1, TopIs DEF TypeInv, Top
  <2>3. ~(Watched /\ claimed)
    BY <2>1, <2>2, Solitary, NoRespond DEF SinkInv, ClaimInv, Frees
  <2>4. ASSUME Watched PROVE Last' = Last
    <3>1. st'.sent = st.sent
      BY <1>14, <2>4, LoadGoesOn DEF Watched
    <3> QED
      BY <2>1, <3>1 DEF Last
  <2>5. CASE Watched
    <3>1. GoesOn
      BY <1>6, <2>1, <2>4, <2>5 DEF GoesOn
    <3> QED
      BY <2>1, <2>2, <2>3, <3>1, SinkReturns
  <2>6. CASE ~Watched
    <3>1. ~Watched'
      BY <1>6, <2>1, <2>6
    <3>2. Held(stack')
      <4>1. CASE Len(stack) = 1
        BY <2>1, <4>1 DEF Return, Held
      <4>2. CASE Len(stack) # 1
        BY <2>1, <2>2, <4>2, HeldPopped DEF Return, Popped, SinkInv
      <4> QED
        BY <4>1, <4>2
    <3> QED
      BY <1>1, <3>1, <3>2 DEF SinkInv, ClaimInv, StageInv
  <2> QED
    BY <2>5, <2>6
<1>15. CASE Returns
  <2>1. pc \in {"run", "armed"} /\ Return(st) /\ st' = st /\ pass' = pass /\ claimed' = claimed
    BY <1>15 DEF Returns, Return
  <2>2. StackOK(stack) /\ stack # <<>> /\ Top = stack[1] /\ Top.flow \in Flows
    BY <2>1, TopIs DEF TypeInv, Top
  <2>3. GoesOn
    BY <1>6, <2>1 DEF GoesOn, Last
  <2>4. ~isRespond[Top.flow]
    BY <1>15, <2>2, NoRespond DEF Returns
  <2>5. ~Meets(stack, 1)
    <3>1. 1 \in DOMAIN stack
      BY <2>2 DEF StackOK
    <3>2. /\ DOMAIN Top.flow.kids = 1..Len(Top.flow.kids) /\ Len(Top.flow.kids) \in Nat /\ Top.pos \in Nat
          /\ \A j \in DOMAIN Top.flow.kids : Top.flow.kids[j] \in Flows
      BY <2>2, <3>1, FramesAre
    <3>3. ASSUME Top.pos \in DOMAIN Top.flow.kids, isRespond[Top.flow.kids[Top.pos]]
          PROVE  Top.pos <= Len(Top.flow.kids) /\ Top.flow.kids[Top.pos].kind # "trigger"
      BY <3>2, <3>3, NoRespond
    <3> QED
      BY <1>15, <2>2, <3>2, <3>3 DEF Meets, Upcoming, StagesOf, Returns
  <2>6. ASSUME Watched, claimed PROVE IF Len(stack) = 1 THEN Last ELSE Frees(Popped(stack))
    <3>1. Frees(stack)
      BY <2>1, <2>4, <2>6 DEF SinkInv, ClaimInv
    <3> QED
      BY <2>2, <2>5, <3>1, EndKeeps DEF Frees
  <2> QED
    BY <2>1, <2>2, <2>3, <2>6, SinkReturns
<1>16. CASE UNCHANGED vars
  <2>1. UNCHANGED <<stack, claimed, pass, st, pc>>
    BY <1>16 DEF vars, walking
  <2>2. (Watched' => Watched) /\ (Last' <=> Last)
    BY <1>6, <2>1 DEF Last
  <2>3. Held(stack') /\ ClaimInv /\ StageInv
    BY <2>1 DEF SinkInv
  <2>4. ClaimInv'
    BY <2>1, <2>2, <2>3 DEF ClaimInv, Frees, Top
  <2>5. StageInv'
    BY <2>1, <2>2, <2>3 DEF StageInv
  <2> QED
    BY <1>1, <2>3, <2>4, <2>5 DEF SinkInv
<1> QED
  BY <1>2, <1>3, <1>4, <1>5, <1>7, <1>8, <1>9, <1>10, <1>11, <1>12, <1>13, <1>14, <1>15, <1>16, Steps

-----------------------------------------------------------------------------
(* What was sent, along the conversation.                                  *)

\* o says messages of c, in their order, from the second up to the b-th.
Along(o, c, b) ==
  \E h \in [DOMAIN o -> 2..b] : \A i, j \in DOMAIN o : o[i] = c[h[i]] /\ (i < j => h[i] < h[j])

\* A part of a conversation.
LEMMA PartIs ==
  ASSUME NEW c \in Chats, NEW m \in Nat, NEW n \in Nat, 1 <= m, m <= n + 1, n <= Len(c)
  PROVE  /\ SubSeq(c, m, n) \in Chats /\ Len(SubSeq(c, m, n)) = (n - m) + 1
         /\ DOMAIN SubSeq(c, m, n) = 1..(n - m) + 1 /\ (n - m) + 1 \in Nat
         /\ \A i \in 1..(n - m) + 1 : SubSeq(c, m, n)[i] = c[(m + i) - 1]
<1>1. c \in Seq(Msg) /\ DOMAIN c = 1..Len(c) /\ Len(c) \in Nat
  BY DEF Chats
<1>2. \A i \in m..n : c[i] \in Msg
  BY <1>1
<1>3. /\ SubSeq(c, m, n) \in Seq(Msg)
      /\ Len(SubSeq(c, m, n)) = IF m <= n THEN n - m + 1 ELSE 0
      /\ \A i \in 1..n - m + 1 : SubSeq(c, m, n)[i] = c[m + i - 1]
  BY <1>2, SubSeqProperties
<1> DEFINE p == SubSeq(c, m, n)
<1> HIDE DEF p
<1>4. Len(p) = (n - m) + 1 /\ (n - m) + 1 \in Nat
  <2>1. (IF m <= n THEN n - m + 1 ELSE 0) = (n - m) + 1 /\ (n - m) + 1 \in Nat
    OBVIOUS
  <2> QED
    BY <1>3, <2>1 DEF p
<1>5. p \in Chats /\ DOMAIN p = 1..Len(p)
  BY <1>3 DEF p, Chats
<1>6. \A i \in 1..(n - m) + 1 : p[i] = c[(m + i) - 1]
  BY <1>3 DEF p
<1> QED
  BY <1>4, <1>5, <1>6 DEF p

\* Two conversations with the same messages are the same.
LEMMA ChatsSame ==
  ASSUME NEW c \in Chats, NEW d \in Chats, Len(c) = Len(d), \A i \in 1..Len(c) : c[i] = d[i]
  PROVE  c = d
BY SeqEqual DEF Chats

\* A longer conversation has the parts of the shorter one.
LEMMA PartStays ==
  ASSUME NEW c \in Chats, NEW d \in Chats, Promise!Extends(d, c), NEW b \in Nat, 1 <= b, b <= Len(c)
  PROVE  SubSeq(d, 2, b) = SubSeq(c, 2, b) /\ b <= Len(d)
<1>1. b <= Len(d) /\ DOMAIN c = 1..Len(c) /\ Len(c) \in Nat /\ Len(d) \in Nat /\ \A i \in DOMAIN c : d[i] = c[i]
  BY DEF Promise!Extends, Chats
<1>2. /\ SubSeq(c, 2, b) \in Chats /\ Len(SubSeq(c, 2, b)) = (b - 2) + 1
      /\ \A i \in 1..(b - 2) + 1 : SubSeq(c, 2, b)[i] = c[(2 + i) - 1]
  BY PartIs
<1>3. /\ SubSeq(d, 2, b) \in Chats /\ Len(SubSeq(d, 2, b)) = (b - 2) + 1
      /\ \A i \in 1..(b - 2) + 1 : SubSeq(d, 2, b)[i] = d[(2 + i) - 1]
  BY <1>1, PartIs
<1>4. \A i \in 1..(b - 2) + 1 : (2 + i) - 1 \in 1..Len(c)
  BY <1>1
<1> QED
  BY <1>1, <1>2, <1>3, <1>4, ChatsSame

\* Parts join.
LEMMA PartsJoin ==
  ASSUME NEW c \in Chats, NEW b \in Nat, 1 <= b, b <= Len(c)
  PROVE  SubSeq(c, 2, b) \o SubSeq(c, b + 1, Len(c)) = SubSeq(c, 2, Len(c))
<1>1. Len(c) \in Nat
  BY DEF Chats
<1> DEFINE p == SubSeq(c, 2, b)
           q == SubSeq(c, b + 1, Len(c))
           w == SubSeq(c, 2, Len(c))
<1>2. p \in Chats /\ Len(p) = b - 1 /\ \A i \in 1..b - 1 : p[i] = c[i + 1]
  <2>1. (b - 2) + 1 = b - 1 /\ \A i \in Nat : (2 + i) - 1 = i + 1
    OBVIOUS
  <2> QED
    BY <2>1, PartIs
<1>3. q \in Chats /\ Len(q) = Len(c) - b /\ \A i \in 1..Len(c) - b : q[i] = c[b + i]
  <2>1. (Len(c) - (b + 1)) + 1 = Len(c) - b /\ (\A i \in Nat : ((b + 1) + i) - 1 = b + i) /\ b + 1 \in Nat
    BY <1>1
  <2>2. 1 <= b + 1 /\ b + 1 <= Len(c) + 1 /\ Len(c) <= Len(c)
    BY <1>1
  <2>3. PICK m \in Nat : m = b + 1
    BY <2>1
  <2>4. /\ SubSeq(c, m, Len(c)) \in Chats /\ Len(SubSeq(c, m, Len(c))) = (Len(c) - m) + 1
        /\ \A i \in 1..(Len(c) - m) + 1 : SubSeq(c, m, Len(c))[i] = c[(m + i) - 1]
    BY <1>1, <2>2, <2>3, PartIs
  <2>5. SubSeq(c, m, Len(c)) = q
    BY <2>3
  <2> HIDE DEF q
  <2>6. \A i \in 1..Len(c) - b : i \in Nat
    BY <1>1
  <2> QED
    BY <2>1, <2>3, <2>4, <2>5, <2>6
<1>4. w \in Chats /\ Len(w) = Len(c) - 1 /\ \A i \in 1..Len(c) - 1 : w[i] = c[i + 1]
  <2>1. (Len(c) - 2) + 1 = Len(c) - 1 /\ (\A i \in Nat : (2 + i) - 1 = i + 1) /\ 2 <= Len(c) + 1
    BY <1>1
  <2> QED
    BY <1>1, <2>1, PartIs
<1> HIDE DEF p, q, w
<1>5. /\ p \o q \in Chats /\ Len(p \o q) = Len(c) - 1
      /\ \A i \in 1..Len(c) - 1 : (p \o q)[i] = IF i <= b - 1 THEN p[i] ELSE q[i - (b - 1)]
  <2>1. p \o q \in Chats /\ Len(p \o q) = Len(p) + Len(q) /\ Len(p) \in Nat /\ Len(q) \in Nat
        /\ \A i \in 1..Len(p) + Len(q) : (p \o q)[i] = IF i <= Len(p) THEN p[i] ELSE q[i - Len(p)]
    <3>1. p \in Seq(Msg) /\ q \in Seq(Msg)
      BY <1>2, <1>3 DEF Chats
    <3>2. p \o q \in Seq(Msg) /\ Len(p \o q) = Len(p) + Len(q) /\ Len(p) \in Nat /\ Len(q) \in Nat
      BY <3>1
    <3>3. \A i \in 1..Len(p) + Len(q) : (p \o q)[i] = IF i <= Len(p) THEN p[i] ELSE q[i - Len(p)]
      BY <3>1
    <3> QED
      BY <3>2, <3>3 DEF Chats
  <2>2. Len(p) + Len(q) = Len(c) - 1
    BY <1>1, <1>2, <1>3
  <2> QED
    BY <1>2, <2>1, <2>2
<1>6. ASSUME NEW i \in 1..Len(c) - 1 PROVE (p \o q)[i] = w[i]
  <2>1. CASE i <= b - 1
    BY <1>1, <1>2, <1>4, <1>5, <2>1
  <2>2. CASE ~(i <= b - 1)
    <3>1. i - (b - 1) \in 1..Len(c) - b /\ b + (i - (b - 1)) = i + 1
      BY <1>1, <2>2
    <3>2. q[i - (b - 1)] = c[i + 1]
      BY <1>3, <3>1
    <3> QED
      BY <1>4, <1>5, <2>2, <3>2
  <2> QED
    BY <2>1, <2>2
<1>7. p \o q = w
  BY <1>4, <1>5, <1>6, ChatsSame
<1> QED
  BY <1>7 DEF p, q, w

\* So does the next message.
LEMMA PartNext ==
  ASSUME NEW c \in Chats, NEW b \in Nat, 1 <= b, b + 1 = Len(c)
  PROVE  Append(SubSeq(c, 2, b), c[Len(c)]) = SubSeq(c, 2, Len(c))
<1>1. Len(c) \in Nat /\ c[Len(c)] \in Msg
  BY DEF Chats
<1> DEFINE p == SubSeq(c, 2, b)
           w == SubSeq(c, 2, Len(c))
<1>2. p \in Chats /\ Len(p) = b - 1 /\ \A i \in 1..b - 1 : p[i] = c[i + 1]
  <2>1. (b - 2) + 1 = b - 1 /\ (\A i \in Nat : (2 + i) - 1 = i + 1) /\ b <= Len(c)
    OBVIOUS
  <2> QED
    BY <1>1, <2>1, PartIs
<1>3. w \in Chats /\ Len(w) = b /\ \A i \in 1..b : w[i] = c[i + 1]
  <2>1. (Len(c) - 2) + 1 = b /\ (\A i \in Nat : (2 + i) - 1 = i + 1) /\ 2 <= Len(c) + 1
    BY <1>1
  <2> QED
    BY <1>1, <2>1, PartIs
<1> HIDE DEF p, w
<1>4. PICK m \in Msg : m = c[Len(c)]
  BY <1>1
<1>5. Append(p, m) \in Chats /\ Len(Append(p, m)) = b /\ \A i \in 1..b : Append(p, m)[i] = IF i <= b - 1 THEN p[i] ELSE m
  BY <1>2 DEF Chats
<1>6. ASSUME NEW i \in 1..b PROVE Append(p, m)[i] = w[i]
  <2>1. CASE i <= b - 1
    BY <1>2, <1>3, <1>5, <2>1
  <2>2. CASE ~(i <= b - 1)
    <3>1. i = b
      BY <2>2
    <3> QED
      BY <1>3, <1>4, <1>5, <2>2, <3>1
  <2> QED
    BY <2>1, <2>2
<1>7. Append(p, m) = w
  BY <1>3, <1>5, <1>6, ChatsSame
<1> QED
  BY <1>4, <1>7 DEF p, w

\* A conversation that goes on still has what was sent along it.
LEMMA AlongGrows ==
  ASSUME NEW o, NEW c \in Chats, NEW d \in Chats, Promise!Extends(d, c), NEW b \in Nat, b <= Len(c), NEW e \in Nat, b <= e,
         Along(o, c, b)
  PROVE  Along(o, d, e)
<1>1. PICK h \in [DOMAIN o -> 2..b] : \A i, j \in DOMAIN o : o[i] = c[h[i]] /\ (i < j => h[i] < h[j])
  BY DEF Along
<1>2. DOMAIN c = 1..Len(c) /\ Len(c) \in Nat
  BY DEF Chats
<1>3. h \in [DOMAIN o -> 2..e]
  BY <1>1
<1>4. \A i \in DOMAIN o : d[h[i]] = c[h[i]]
  <2> SUFFICES ASSUME NEW i \in DOMAIN o PROVE d[h[i]] = c[h[i]]
    OBVIOUS
  <2>1. h[i] \in DOMAIN c
    BY <1>1, <1>2
  <2> QED
    BY <2>1 DEF Promise!Extends
<1>5. \A i, j \in DOMAIN o : o[i] = d[h[i]] /\ (i < j => h[i] < h[j])
  BY <1>1, <1>4
<1> QED
  BY <1>3, <1>5 DEF Along

\* A later message may follow.
LEMMA AlongMore ==
  ASSUME NEW o \in Chats, NEW c \in Chats, NEW b \in Nat, NEW k \in Nat, b < k, 2 <= k, k <= Len(c), Along(o, c, b)
  PROVE  Along(Append(o, c[k]), c, k)
<1>1. PICK h \in [DOMAIN o -> 2..b] : \A i, j \in DOMAIN o : o[i] = c[h[i]] /\ (i < j => h[i] < h[j])
  BY DEF Along
<1>2. PICK m \in Msg : m = c[k]
  BY DEF Chats
<1>3. /\ DOMAIN o = 1..Len(o) /\ Len(o) \in Nat /\ DOMAIN Append(o, m) = 1..Len(o) + 1
      /\ Append(o, m)[Len(o) + 1] = m /\ \A i \in 1..Len(o) : Append(o, m)[i] = o[i]
  BY DEF Chats
<1> DEFINE g == [i \in 1..Len(o) + 1 |-> IF i <= Len(o) THEN h[i] ELSE k]
<1>4. /\ \A i \in 1..Len(o) : g[i] = h[i] /\ g[i] \in 2..b
      /\ g[Len(o) + 1] = k /\ DOMAIN g = 1..Len(o) + 1
      /\ \A i \in 1..Len(o) + 1 : i \in 1..Len(o) \/ i = Len(o) + 1
  <2>1. ASSUME NEW i \in 1..Len(o) PROVE g[i] = h[i] /\ g[i] \in 2..b
    <3>1. i \in 1..Len(o) + 1 /\ i <= Len(o) /\ i \in DOMAIN o
      BY <1>3
    <3> QED
      BY <1>1, <3>1
  <2>2. Len(o) + 1 \in 1..Len(o) + 1 /\ ~(Len(o) + 1 <= Len(o))
    BY <1>3
  <2>3. \A i \in 1..Len(o) + 1 : i \in 1..Len(o) \/ i = Len(o) + 1
    BY <1>3
  <2> QED
    BY <2>1, <2>2, <2>3
<1>5. g \in [1..Len(o) + 1 -> 2..k]
  <2>1. \A i \in 1..Len(o) + 1 : g[i] \in 2..k
    BY <1>4
  <2>2. g = [i \in 1..Len(o) + 1 |-> g[i]]
    OBVIOUS
  <2> HIDE DEF g
  <2> QED
    BY <2>1, <2>2
<1> HIDE DEF g
<1>6. \A i \in 1..Len(o) + 1 : Append(o, m)[i] = c[g[i]]
  BY <1>1, <1>2, <1>3, <1>4
<1>7. ASSUME NEW i \in 1..Len(o) + 1, NEW j \in 1..Len(o) + 1, i < j PROVE g[i] < g[j]
  <2>1. i \in 1..Len(o)
    BY <1>3, <1>7
  <2>2. CASE j \in 1..Len(o)
    BY <1>1, <1>3, <1>4, <1>7, <2>1, <2>2
  <2>3. CASE j = Len(o) + 1
    BY <1>4, <2>1, <2>3
  <2> QED
    BY <1>4, <2>2, <2>3
<1>8. Along(Append(o, m), c, k)
  BY <1>3, <1>5, <1>6, <1>7 DEF Along
<1> QED
  BY <1>2, <1>8

\* So may all that come later.
LEMMA AlongStage ==
  ASSUME NEW o \in Chats, NEW c \in Chats, NEW b \in Nat, 1 <= b, b <= Len(c), Along(o, c, b)
  PROVE  Along(o \o SubSeq(c, b + 1, Len(c)), c, Len(c)) /\ o \o SubSeq(c, b + 1, Len(c)) \in Chats
<1>1. PICK h \in [DOMAIN o -> 2..b] : \A i, j \in DOMAIN o : o[i] = c[h[i]] /\ (i < j => h[i] < h[j])
  BY DEF Along
<1>2. Len(c) \in Nat /\ DOMAIN o = 1..Len(o) /\ Len(o) \in Nat
  BY DEF Chats
<1>3. PICK n \in Nat : n = Len(c) - b
  BY <1>2
<1>4. PICK q \in Chats : q = SubSeq(c, b + 1, Len(c)) /\ Len(q) = n /\ \A i \in 1..n : q[i] = c[b + i]
  <2>1. (Len(c) - (b + 1)) + 1 = n /\ (\A i \in Nat : ((b + 1) + i) - 1 = b + i) /\ b + 1 \in Nat
    BY <1>2, <1>3
  <2>2. 1 <= b + 1 /\ b + 1 <= Len(c) + 1 /\ Len(c) <= Len(c)
    BY <1>2
  <2>3. PICK m \in Nat : m = b + 1
    BY <2>1
  <2>4. /\ SubSeq(c, m, Len(c)) \in Chats /\ Len(SubSeq(c, m, Len(c))) = (Len(c) - m) + 1
        /\ \A i \in 1..(Len(c) - m) + 1 : SubSeq(c, m, Len(c))[i] = c[(m + i) - 1]
    BY <1>2, <2>2, <2>3, PartIs
  <2>5. PICK p : p = SubSeq(c, m, Len(c))
    OBVIOUS
  <2>6. p = SubSeq(c, b + 1, Len(c))
    BY <2>3, <2>5
  <2>7. p \in Chats /\ Len(p) = n
    BY <2>1, <2>3, <2>4, <2>5
  <2>8. ASSUME NEW i \in 1..n PROVE p[i] = c[b + i]
    <3>1. i \in 1..(Len(c) - m) + 1 /\ (m + i) - 1 = b + i
      BY <2>1, <2>3
    <3> QED
      BY <2>4, <2>5, <3>1
  <2> QED
    BY <2>6, <2>7, <2>8
<1>5. PICK a \in Chats : /\ a = o \o q /\ DOMAIN a = 1..Len(o) + n
                         /\ \A i \in 1..Len(o) + n : a[i] = IF i <= Len(o) THEN o[i] ELSE q[i - Len(o)]
  <2>1. o \in Seq(Msg) /\ q \in Seq(Msg)
    BY DEF Chats
  <2>2. o \o q \in Seq(Msg) /\ Len(o \o q) = Len(o) + Len(q)
    BY <2>1, ConcatProperties
  <2>3. \A i \in 1..Len(o) + Len(q) : (o \o q)[i] = IF i <= Len(o) THEN o[i] ELSE q[i - Len(o)]
    BY <2>1, ConcatProperties
  <2>4. PICK a : a = o \o q
    OBVIOUS
  <2>5. a \in Seq(Msg) /\ Len(a) = Len(o) + n
    BY <1>4, <2>2, <2>4
  <2>6. DOMAIN a = 1..Len(o) + n
    BY <2>5
  <2>7. \A i \in 1..Len(o) + n : a[i] = IF i <= Len(o) THEN o[i] ELSE q[i - Len(o)]
    BY <1>4, <2>3, <2>4
  <2> QED
    BY <2>4, <2>5, <2>6, <2>7 DEF Chats
<1> DEFINE g == [i \in 1..Len(o) + n |-> IF i <= Len(o) THEN h[i] ELSE b + (i - Len(o))]
<1>6. ASSUME NEW i \in 1..Len(o) + n
      PROVE  /\ i <= Len(o) => i \in DOMAIN o /\ g[i] = h[i] /\ g[i] \in 2..b /\ a[i] = c[g[i]]
             /\ ~(i <= Len(o)) => /\ i - Len(o) \in 1..n /\ g[i] = b + (i - Len(o))
                                  /\ g[i] \in (b + 1)..Len(c) /\ a[i] = c[g[i]]
  <2>1. CASE i <= Len(o)
    BY <1>1, <1>2, <1>5, <2>1
  <2>2. CASE ~(i <= Len(o))
    <3>1. i - Len(o) \in 1..n
      BY <1>2, <2>2
    <3>2. g[i] = b + (i - Len(o)) /\ b + (i - Len(o)) \in (b + 1)..Len(c)
      BY <1>2, <1>3, <2>2, <3>1
    <3>3. a[i] = q[i - Len(o)]
      BY <1>5, <2>2
    <3> QED
      BY <1>4, <2>2, <3>1, <3>2, <3>3
  <2> QED
    BY <2>1, <2>2
<1>7. g \in [1..Len(o) + n -> 2..Len(c)]
  <2>1. \A i \in 1..Len(o) + n : g[i] \in 2..Len(c)
    <3> SUFFICES ASSUME NEW i \in 1..Len(o) + n PROVE g[i] \in 2..Len(c)
      OBVIOUS
    <3>1. g[i] \in 2..b \/ g[i] \in (b + 1)..Len(c)
      BY <1>6
    <3> HIDE DEF g
    <3> QED
      BY <1>2, <3>1
  <2>2. g = [i \in 1..Len(o) + n |-> g[i]]
    OBVIOUS
  <2> HIDE DEF g
  <2> QED
    BY <2>1, <2>2
<1> HIDE DEF g
<1>8. ASSUME NEW i \in 1..Len(o) + n, NEW j \in 1..Len(o) + n, i < j PROVE g[i] < g[j]
  <2>1. CASE j <= Len(o)
    <3>1. i <= Len(o)
      BY <1>2, <1>8, <2>1
    <3> QED
      BY <1>1, <1>6, <1>8, <2>1, <3>1
  <2>2. CASE ~(j <= Len(o)) /\ i <= Len(o)
    BY <1>2, <1>6, <2>2
  <2>3. CASE ~(j <= Len(o)) /\ ~(i <= Len(o))
    BY <1>2, <1>6, <1>8, <2>3
  <2> QED
    BY <2>1, <2>2, <2>3
<1>9. \A i \in 1..Len(o) + n : a[i] = c[g[i]]
  BY <1>6
<1>10. Along(a, c, Len(c))
  BY <1>5, <1>7, <1>8, <1>9 DEF Along
<1> QED
  BY <1>4, <1>5, <1>10

\* The first message of a stage is in it.
LEMMA StageFirst ==
  ASSUME NEW c \in Chats, NEW b \in Nat, 1 <= b, b < Len(c)
  PROVE  c[b + 1] \in Positions(SubSeq(c, b + 1, Len(c)))
<1>1. Len(c) \in Nat
  BY DEF Chats
<1>2. PICK m \in Nat : m = b + 1
  OBVIOUS
<1>3. 1 <= m /\ m <= Len(c) + 1 /\ Len(c) <= Len(c) /\ 1 \in 1..(Len(c) - m) + 1 /\ (m + 1) - 1 = m
  BY <1>1, <1>2
<1>4. /\ DOMAIN SubSeq(c, m, Len(c)) = 1..(Len(c) - m) + 1
      /\ \A i \in 1..(Len(c) - m) + 1 : SubSeq(c, m, Len(c))[i] = c[(m + i) - 1]
  BY <1>1, <1>3, PartIs
<1>5. PICK p : p = SubSeq(c, m, Len(c))
  OBVIOUS
<1>6. 1 \in DOMAIN p /\ p[1] = c[m]
  BY <1>3, <1>4, <1>5
<1> QED
  BY <1>2, <1>5, <1>6 DEF Positions

\* Where the last message of a stage went out, and the first did, it is the only one.
LEMMA StageWhole ==
  ASSUME NEW c \in Chats, Distinct(c), NEW b \in Nat, 1 <= b, b < Len(c),
         c[b + 1] \in Positions(Append(SubSeq(c, 2, b), c[Len(c)]))
  PROVE  b + 1 = Len(c)
<1>1. PICK p \in Chats : /\ p = SubSeq(c, 2, b) /\ Len(p) = b - 1
                         /\ \A i \in 1..b - 1 : p[i] = c[i + 1]
  <2>1. (b - 2) + 1 = b - 1 /\ (\A i \in Nat : (2 + i) - 1 = i + 1)
    OBVIOUS
  <2>2. 1 <= 2 /\ 2 <= b + 1 /\ b <= Len(c) /\ 2 \in Nat
    BY DEF Chats
  <2>3. /\ SubSeq(c, 2, b) \in Chats /\ Len(SubSeq(c, 2, b)) = (b - 2) + 1
        /\ \A i \in 1..(b - 2) + 1 : SubSeq(c, 2, b)[i] = c[(2 + i) - 1]
    BY <2>2, PartIs
  <2>4. PICK p : p = SubSeq(c, 2, b)
    OBVIOUS
  <2>5. ASSUME NEW i \in 1..b - 1 PROVE p[i] = c[i + 1]
    <3>1. i \in 1..(b - 2) + 1 /\ (2 + i) - 1 = i + 1
      BY <2>1
    <3> QED
      BY <2>3, <2>4, <3>1
  <2> QED
    BY <2>1, <2>3, <2>4, <2>5
<1>2. PICK m \in Msg : m = c[Len(c)]
  BY DEF Chats
<1>3. DOMAIN Append(p, m) = 1..b /\ Append(p, m)[b] = m /\ \A x \in 1..b - 1 : Append(p, m)[x] = p[x]
  <2>1. p \in Seq(Msg)
    BY DEF Chats
  <2> QED
    BY <1>1, <2>1
<1>4. PICK i \in DOMAIN Append(p, m) : Append(p, m)[i] = c[b + 1]
  BY <1>1, <1>2 DEF Positions
<1>5. PICK a : a = Append(p, m)
  OBVIOUS
<1>6. i \in 1..b /\ a[i] = c[b + 1] /\ a[b] = m /\ \A x \in 1..b - 1 : a[x] = c[x + 1]
  BY <1>1, <1>3, <1>4, <1>5
<1>7. Len(c) \in Nat /\ DOMAIN c = 1..Len(c)
  BY DEF Chats
<1>8. PICK j \in DOMAIN c : c[j] = c[b + 1] /\ (j = Len(c) \/ j < b + 1)
  <2>1. CASE i = b
    BY <1>2, <1>6, <1>7, <2>1
  <2>2. CASE i # b
    <3>1. i \in 1..b - 1 /\ i + 1 \in DOMAIN c /\ i + 1 < b + 1
      BY <1>6, <1>7, <2>2
    <3> QED
      BY <1>6, <3>1
  <2> QED
    BY <2>1, <2>2
<1>9. b + 1 \in DOMAIN c
  BY <1>7
<1>10. j = b + 1
  BY <1>8, <1>9 DEF Distinct
<1> QED
  BY <1>8, <1>10

-----------------------------------------------------------------------------
(* What a client has been sent.                                            *)

\* Of the conversation c, of which the first b messages were delivered, o was sent: unless
\* mixed, all of it.
WrittenOf(o, c, b, mixed) == o \in Chats /\ Along(o, c, b) /\ (~mixed => o = SubSeq(c, 2, b))

\* And the last message, as it was made.
StreamedOf(o, c, b, mixed) ==
  /\ o \in Chats /\ b < Len(c) /\ Along(o, c, Len(c))
  /\ ~mixed => o = Append(SubSeq(c, 2, b), c[Len(c)])

\* A conversation and a message more.
LEMMA MoreIs ==
  ASSUME NEW c \in Chats, NEW m \in Msg
  PROVE  /\ Append(c, m) \in Chats /\ Promise!Extends(Append(c, m), c)
         /\ Len(Append(c, m)) = Len(c) + 1 /\ Append(c, m)[Len(c) + 1] = m /\ Len(c) \in Nat
BY DEF Chats, Promise!Extends

\* A conversation goes on from itself, and from what it is joined to.
LEMMA JoinExtends ==
  ASSUME NEW c \in Chats, NEW d \in Chats
  PROVE  Promise!Extends(c \o d, c) /\ c \o d \in Chats /\ Promise!Extends(c, c)
BY DEF Chats, Promise!Extends

\* What was delivered of a conversation was delivered of what goes on from it.
LEMMA DeliveredGrows ==
  ASSUME NEW o, NEW c \in Chats, NEW d \in Chats, Promise!Extends(d, c), NEW b \in Nat, 1 <= b, b <= Len(c),
         NEW mixed, WrittenOf(o, c, b, mixed)
  PROVE  WrittenOf(o, d, b, mixed)
<1>1. Along(o, d, b)
  <2>1. Along(o, c, b) /\ b <= b
    BY DEF WrittenOf, StreamedOf
  <2> QED
    BY <2>1, AlongGrows
<1>2. SubSeq(d, 2, b) = SubSeq(c, 2, b)
  BY PartStays
<1> QED
  BY <1>1, <1>2 DEF WrittenOf, StreamedOf

\* A turn streams its message.
LEMMA DeliveredMore ==
  ASSUME NEW o, NEW c \in Chats, NEW m \in Msg, NEW b \in Nat, 1 <= b, b <= Len(c),
         NEW mixed, WrittenOf(o, c, b, mixed)
  PROVE  StreamedOf(Append(o, m), Append(c, m), b, mixed)
<1>1. PICK d \in Chats : d = Append(c, m) /\ Promise!Extends(d, c) /\ Len(d) = Len(c) + 1 /\ d[Len(d)] = m /\ Len(c) \in Nat
  BY MoreIs
<1>2. WrittenOf(o, d, b, mixed)
  BY <1>1, DeliveredGrows
<1>3. o \in Chats /\ Along(o, d, b) /\ (~mixed => o = SubSeq(d, 2, b))
  BY <1>2 DEF WrittenOf, StreamedOf
<1>4. Append(o, m) \in Chats
  BY <1>3, MoreIs
<1>5. PICK k \in Nat : k = Len(d) /\ b < k /\ 2 <= k /\ k <= Len(d)
  BY <1>1
<1>6. Along(Append(o, d[k]), d, k)
  BY <1>3, <1>5, AlongMore
<1>7. StreamedOf(Append(o, m), d, b, mixed)
  BY <1>1, <1>3, <1>4, <1>5, <1>6 DEF WrittenOf, StreamedOf
<1> QED
  BY <1>1, <1>7

\* A Respond writes the stage.
LEMMA StageSent ==
  ASSUME NEW o, NEW c \in Chats, NEW b \in Nat, 1 <= b, b <= Len(c), NEW mixed, WrittenOf(o, c, b, mixed)
  PROVE  WrittenOf(o \o SubSeq(c, b + 1, Len(c)), c, Len(c), mixed)
<1>1. o \in Chats /\ Along(o, c, b) /\ (~mixed => o = SubSeq(c, 2, b))
  BY DEF WrittenOf, StreamedOf
<1>2. Along(o \o SubSeq(c, b + 1, Len(c)), c, Len(c)) /\ o \o SubSeq(c, b + 1, Len(c)) \in Chats
  BY <1>1, AlongStage
<1>3. ASSUME ~mixed PROVE o \o SubSeq(c, b + 1, Len(c)) = SubSeq(c, 2, Len(c))
  BY <1>1, <1>3, PartsJoin
<1> QED
  BY <1>2, <1>3 DEF WrittenOf, StreamedOf

\* A Respond that has no sink moves the mark only.
LEMMA StageUnsent ==
  ASSUME NEW o, NEW c \in Chats, NEW b \in Nat, 1 <= b, b <= Len(c), NEW mixed, WrittenOf(o, c, b, mixed)
  PROVE  (\A lost : lost => WrittenOf(o, c, Len(c), lost)) /\ Along(o, c, Len(c))
<1>1. Promise!Extends(c, c) /\ Len(c) \in Nat
  BY JoinExtends DEF Chats
<1>2. o \in Chats /\ Along(o, c, b)
  BY DEF WrittenOf, StreamedOf
<1>3. Along(o, c, Len(c))
  BY <1>1, <1>2, AlongGrows
<1> QED
  BY <1>2, <1>3 DEF WrittenOf, StreamedOf

\* A Respond after a turn that streamed: the stage is that turn's, or a part of it never went out.
LEMMA StageStreamed ==
  ASSUME NEW o, NEW c \in Chats, Distinct(c), NEW b \in Nat, 1 <= b, b <= Len(c), NEW mixed, StreamedOf(o, c, b, mixed)
  PROVE  /\ o \in Chats /\ Along(o, c, Len(c))
         /\ ~mixed /\ Positions(SubSeq(c, b + 1, Len(c))) \subseteq Positions(o) => o = SubSeq(c, 2, Len(c))
<1>1. /\ o \in Chats /\ b < Len(c) /\ Along(o, c, Len(c))
      /\ ~mixed => o = Append(SubSeq(c, 2, b), c[Len(c)])
  BY DEF WrittenOf, StreamedOf
<1>2. ASSUME ~mixed, Positions(SubSeq(c, b + 1, Len(c))) \subseteq Positions(o) PROVE o = SubSeq(c, 2, Len(c))
  <2>1. c[b + 1] \in Positions(Append(SubSeq(c, 2, b), c[Len(c)]))
    BY <1>1, <1>2, StageFirst
  <2>2. b + 1 = Len(c)
    BY <1>1, <2>1, StageWhole
  <2> QED
    BY <1>1, <1>2, <2>2, PartNext
<1> QED
  BY <1>1, <1>2 DEF WrittenOf, StreamedOf

\* Nothing is past the client's message up to it.
LEMMA EmptyPart ==
  ASSUME NEW c \in Chats, 1 <= Len(c)
  PROVE  SubSeq(c, 2, 1) = <<>> /\ <<>> \in Chats
<1>1. SubSeq(c, 2, 1) \in Chats /\ Len(SubSeq(c, 2, 1)) = (1 - 2) + 1
  BY PartIs
<1> QED
  BY <1>1 DEF Chats

\* Nothing was sent of a conversation nothing was delivered of, but what a turn streamed.
LEMMA NothingSent ==
  ASSUME NEW o, NEW c \in Chats, 1 <= Len(c), NEW mixed
  PROVE  /\ WrittenOf(o, c, 1, mixed) => o = <<>>
         /\ StreamedOf(o, c, 1, mixed) /\ ~mixed => o = <<c[Len(c)]>>
<1>1. ASSUME WrittenOf(o, c, 1, mixed) PROVE o = <<>>
  <2>1. o \in Chats /\ Along(o, c, 1)
    BY <1>1 DEF WrittenOf, StreamedOf
  <2>2. PICK h \in [DOMAIN o -> 2..1] : TRUE
    BY <2>1 DEF Along
  <2>3. \A i \in DOMAIN o : FALSE
    BY <2>2
  <2>4. DOMAIN o = 1..Len(o) /\ Len(o) \in Nat /\ (Len(o) = 0 => o = <<>>)
    BY <2>1 DEF Chats
  <2>5. Len(o) # 0 => 1 \in DOMAIN o
    BY <2>4
  <2> QED
    BY <2>3, <2>4, <2>5
<1>2. ASSUME StreamedOf(o, c, 1, mixed), ~mixed PROVE o = <<c[Len(c)]>>
  <2>1. o = Append(SubSeq(c, 2, 1), c[Len(c)])
    BY <1>2 DEF WrittenOf, StreamedOf
  <2>2. SubSeq(c, 2, 1) = <<>>
    BY EmptyPart
  <2>3. Append(<<>>, c[Len(c)]) = <<c[Len(c)]>>
    OBVIOUS
  <2> QED
    BY <2>1, <2>2, <2>3
<1> QED
  BY <1>1, <1>2

\* What is answered of a conversation.
LEMMA AnswerIs ==
  ASSUME NEW s, StateOK(s), s.seed = 1, s.chat # <<>>
  PROVE  /\ s.sent < 0 => Answer(s) = <<s.chat[Len(s.chat)]>>
         /\ ~(s.sent < 0) => Answer(s) = SubSeq(s.chat, 2, s.sent)
<1>1. s.chat \in Chats /\ s.sent \in -1..Len(s.chat)
  BY DEF StateOK
<1>2. (s.sent < 0 <=> ~(s.sent >= 0)) /\ s.seed + 1 = 2
  BY <1>1 DEF Chats
<1> QED
  BY <1>2 DEF Answer

\* What was delivered of the conversation, and the conversation a streamed reply will join.
Base  == IF st.sent < 0 THEN st.seed ELSE st.sent
Heard == IF pc = "ask" /\ claimed THEN Append(st.chat, Said(1)) ELSE st.chat

\* The client has been sent what was delivered.
OutInv ==
  Watched /\ pc \in {"run", "armed", "ask", "save", "done"} =>
    /\ ~claimed => WrittenOf(out, Heard, Base, pass.mixed)
    /\ claimed => StreamedOf(out, Heard, Base, pass.mixed)
    /\ claimed /\ pc = "ask" => DOMAIN replies = {1} /\ replies[1] # NotYet /\ replies[1].said = <<Said(1)>>

\* And has in the end what is answered.
RepliedInv ==
  Watched /\ pc = "replied" =>
    /\ Distinct(st.chat)
    /\ Along(out, st.chat, Len(st.chat)) \/ (st.sent < 0 /\ out = Answer(st))
    /\ ~pass.mixed => out = Answer(st)

StreamInv == RepliesInv /\ ChatInv /\ SinkInv /\ OutInv /\ RepliedInv

\* Where the marks of a client's conversation are.
LEMMA BaseIs ==
  ASSUME TypeInv, Fits(st, asks)
  PROVE  /\ Base \in Nat /\ 1 <= Base /\ Base <= Len(st.chat) /\ st.chat \in Chats /\ Len(st.chat) \in Nat
         /\ StateOK(st) /\ st.seed = 1 /\ st.sent # 0 /\ st.chat # <<>> /\ Distinct(st.chat)
<1>1. StateOK(st) /\ st.chat \in Chats /\ st.sent \in -1..Len(st.chat) /\ Len(st.chat) \in Nat
  BY DEF TypeInv, StandOK, StateOK, Chats
<1>2. 1 <= Len(st.chat) /\ st.seed = 1 /\ st.sent # 0 /\ st.chat # <<>> /\ Distinct(st.chat)
  BY <1>1 DEF Fits, Chats
<1>3. Base \in Nat /\ 1 <= Base /\ Base <= Len(st.chat)
  BY <1>1, <1>2 DEF Base
<1> QED
  BY <1>1, <1>2, <1>3

\* What was sent stays what was delivered.
LEMMA OutSame ==
  ASSUME OutInv, Watched, pc \in {"run", "armed", "ask", "save", "done"}, pc' # "ask" \/ ~claimed,
         UNCHANGED <<out, claimed>>, pass'.mixed = pass.mixed, st'.sent = st.sent, st'.seed = st.seed, st'.chat = Heard
  PROVE  OutInv'
<1>1. Base' = Base /\ (pc' = "ask" => ~claimed')
  BY DEF Base
<1>2. Heard' = Heard
  BY <1>1 DEF Heard
<1> QED
  BY <1>1, <1>2 DEF OutInv

\* What was sent is also of a conversation that goes on.
LEMMA OutGrows ==
  ASSUME TypeInv, Fits(st, asks), OutInv, Watched, pc \in {"run", "armed", "ask", "save", "done"}, ~claimed,
         UNCHANGED <<out, claimed>>, pass'.mixed = pass.mixed, st'.sent = st.sent, st'.seed = st.seed,
         st'.chat \in Chats, Promise!Extends(st'.chat, st.chat)
  PROVE  OutInv'
<1>1. Base' = Base /\ Heard' = st'.chat /\ Heard = st.chat
  BY DEF Base, Heard
<1>2. WrittenOf(out, st.chat, Base, pass.mixed)
  BY <1>1 DEF OutInv
<1>3. WrittenOf(out, st'.chat, Base, pass.mixed)
  BY <1>2, BaseIs, DeliveredGrows
<1>4. ~claimed' /\ WrittenOf(out', Heard', Base', pass'.mixed)
  BY <1>1, <1>3
<1> QED
  BY <1>4 DEF OutInv

\* What was sent: an agent streams.
LEMMA OutClaimed ==
  ASSUME TypeInv, Fits(st, asks), OutInv, Watched, NEW x, Streams(x)
  PROVE  OutInv'
<1>1. /\ pc = "ask" /\ ~claimed /\ DOMAIN replies = {1} /\ claimed' = TRUE /\ out' = Append(out, Said(1))
      /\ replies' = <<[said |-> <<Said(1)>>, sel |-> x]>> /\ UNCHANGED <<pass, stack, st, pc, asks>>
  BY DEF Streams, history
<1>2. Base' = Base /\ Said(1)' = Said(1) /\ Heard = st.chat
  BY <1>1 DEF Base, Said, Top, Heard
<1>3. Heard' = Append(st.chat, Said(1))
  BY <1>1, <1>2 DEF Heard
<1>4. PICK m \in Msg : m = Said(1)
  <2>1. <<Said(1)>> \in Chats
    BY <1>1, SaidIs
  <2> QED
    BY <2>1 DEF Chats
<1>5. WrittenOf(out, st.chat, Base, pass.mixed)
  BY <1>1, <1>2 DEF OutInv
<1>6. StreamedOf(Append(out, m), Append(st.chat, m), Base, pass.mixed)
  BY <1>5, BaseIs, DeliveredMore
<1>7. DOMAIN replies' = {1} /\ replies'[1] # NotYet /\ replies'[1].said = <<Said(1)>>'
  BY <1>1, <1>2 DEF NotYet
<1> QED
  BY <1>1, <1>2, <1>3, <1>4, <1>6, <1>7 DEF OutInv

\* What was sent: a Respond delivers.
LEMMA OutResponds ==
  ASSUME TypeInv, Fits(st, asks), SinkInv, OutInv, Watched, RespondRuns
  PROVE  OutInv'
<1>1. /\ pc \in {"run", "armed"} /\ Top.flow.kind = "respond" /\ Return([st EXCEPT !.sent = Len(st.chat)])
      /\ out' = IF Top.sink /\ ~claimed THEN out \o Stage ELSE out
      /\ claimed' = (claimed /\ ~Top.sink)
      /\ pass'.mixed = (pass.mixed \/ ~Top.sink \/ ~(Positions(Stage) \subseteq Positions(out')))
  BY DEF RespondRuns, Ready, TypeInv, ProcessOK, PassFields
<1>2. StackOK(stack) /\ stack # <<>> /\ Top = stack[1] /\ Top.sink \in BOOLEAN
  BY <1>1, TopIs DEF TypeInv, Top, Frames
<1>3. claimed => Top.sink
  BY <1>1, <1>2, Solitary DEF SinkInv, ClaimInv, Frees
<1>4. st'.chat = st.chat /\ st'.sent = Len(st.chat) /\ pc' # "ask" /\ ~claimed'
  BY <1>1, <1>3 DEF Return, TypeInv, StandOK, StateOK
<1>5. Base' = Len(st.chat) /\ Heard' = st.chat /\ Heard = st.chat /\ Stage = SubSeq(st.chat, Base + 1, Len(st.chat))
  <2>1. Len(st.chat) \in Nat /\ ~(Len(st.chat) < 0)
    BY BaseIs
  <2> QED
    BY <1>1, <1>4, <2>1 DEF Base, Heard, Stage
<1>6. PICK c, b, o, mixed : c = st.chat /\ b = Base /\ o = out /\ mixed = pass.mixed
  OBVIOUS
<1>7. c \in Chats /\ Distinct(c) /\ b \in Nat /\ 1 <= b /\ b <= Len(c)
  BY <1>6, BaseIs
<1>8. (~claimed => WrittenOf(o, c, b, mixed)) /\ (claimed => StreamedOf(o, c, b, mixed))
  BY <1>1, <1>5, <1>6 DEF OutInv
<1>9. WrittenOf(out', c, Len(c), pass'.mixed)
  <2>1. CASE claimed
    <3>1. out' = o /\ StreamedOf(o, c, b, mixed)
      BY <1>1, <1>6, <1>8, <2>1
    <3>2. /\ o \in Chats /\ Along(o, c, Len(c))
          /\ ~mixed /\ Positions(SubSeq(c, b + 1, Len(c))) \subseteq Positions(o) => o = SubSeq(c, 2, Len(c))
      BY <1>7, <3>1, StageStreamed
    <3>3. ~pass'.mixed => ~mixed /\ Positions(SubSeq(c, b + 1, Len(c))) \subseteq Positions(o)
      BY <1>1, <1>5, <1>6, <3>1
    <3> QED
      BY <3>1, <3>2, <3>3 DEF WrittenOf
  <2>2. CASE ~claimed /\ Top.sink
    <3>1. out' = o \o SubSeq(c, b + 1, Len(c))
      BY <1>1, <1>2, <1>5, <1>6, <2>2
    <3>2. WrittenOf(out', c, Len(c), mixed)
      BY <1>7, <1>8, <2>2, <3>1, StageSent
    <3>3. ~pass'.mixed => ~mixed
      BY <1>1, <1>6
    <3> QED
      BY <3>2, <3>3 DEF WrittenOf
  <2>3. CASE ~claimed /\ ~Top.sink
    <3>1. out' = o /\ pass'.mixed
      BY <1>1, <1>6, <2>3
    <3> QED
      BY <1>7, <1>8, <2>3, <3>1, StageUnsent
  <2> QED
    BY <2>1, <2>2, <2>3
<1> QED
  BY <1>4, <1>5, <1>6, <1>9 DEF OutInv

\* What was sent: the reply ends.
LEMMA OutEnds ==
  ASSUME AnswerInv, Fits(st, asks), SinkInv, OutInv, Watched, Finish
  PROVE  RepliedInv'
<1> USE DEF AnswerInv
<1>1. pc = "done" /\ UNCHANGED <<pass, st>> /\ pass.kind = "request" /\ pass.stream
      /\ out' = IF st.sent < 0 /\ ~claimed THEN out \o Answer(st) ELSE out
  BY DEF Finish, CheckInv, Watched
<1>2. claimed => st.sent < 0 \/ pass.mixed
  BY <1>1 DEF SinkInv, ClaimInv, Last
<1>3. PICK s, b, o, o2, mixed : s = st /\ b = Base /\ o = out /\ o2 = out' /\ mixed = pass.mixed
  OBVIOUS
<1>4. (~claimed => WrittenOf(o, s.chat, b, mixed)) /\ (claimed => StreamedOf(o, s.chat, b, mixed))
  BY <1>1, <1>3 DEF OutInv, Heard
<1>5. /\ StateOK(s) /\ s.seed = 1 /\ s.chat # <<>> /\ Distinct(s.chat) /\ b = (IF s.sent < 0 THEN 1 ELSE s.sent)
      /\ s.chat \in Chats /\ b \in Nat /\ 1 <= b /\ b <= Len(s.chat) /\ 1 <= Len(s.chat)
  <2>1. StateOK(st) /\ st.seed = 1 /\ st.chat # <<>> /\ Distinct(st.chat) /\ Base \in Nat /\ 1 <= Base /\ Base <= Len(st.chat)
        /\ st.chat \in Chats /\ Len(st.chat) \in Nat
    BY BaseIs
  <2> QED
    BY <1>3, <2>1 DEF Base
<1>6. /\ s.sent < 0 => Answer(s) = <<s.chat[Len(s.chat)]>> /\ Answer(s) \in Chats
      /\ ~(s.sent < 0) => Answer(s) = SubSeq(s.chat, 2, s.sent)
  <2>1. <<s.chat[Len(s.chat)]>> \in Chats
    BY <1>5 DEF Chats
  <2> QED
    BY <1>5, <2>1, AnswerIs
<1>7. /\ Along(o2, s.chat, Len(s.chat)) \/ (s.sent < 0 /\ o2 = Answer(s))
      /\ ~mixed => o2 = Answer(s)
  <2>1. CASE claimed
    <3>1. o2 = o /\ (s.sent < 0 \/ mixed)
      BY <1>1, <1>2, <1>3, <2>1
    <3>2. Along(o2, s.chat, Len(s.chat))
      BY <1>4, <2>1, <3>1 DEF StreamedOf
    <3>3. ASSUME ~mixed PROVE o2 = Answer(s)
      <4>1. s.sent < 0 /\ b = 1 /\ StreamedOf(o, s.chat, 1, mixed)
        BY <1>4, <1>5, <2>1, <3>1, <3>3
      <4>2. o = <<s.chat[Len(s.chat)]>>
        BY <1>5, <3>3, <4>1, NothingSent
      <4> QED
        BY <1>6, <3>1, <4>1, <4>2
    <3> QED
      BY <3>2, <3>3
  <2>2. CASE ~claimed /\ s.sent < 0
    <3>1. b = 1 /\ o2 = o \o Answer(s)
      BY <1>1, <1>2, <1>3, <1>5, <2>2
    <3>2. o = <<>>
      BY <1>4, <1>5, <2>2, <3>1, NothingSent
    <3> QED
      BY <1>6, <2>2, <3>1, <3>2 DEF Chats
  <2>3. CASE ~claimed /\ ~(s.sent < 0)
    <3>1. b = s.sent /\ o2 = o
      BY <1>1, <1>2, <1>3, <1>5, <2>3
    <3>2. Along(o, s.chat, Len(s.chat))
      BY <1>4, <1>5, <2>3, <3>1, StageUnsent
    <3>3. ~mixed => o = SubSeq(s.chat, 2, s.sent)
      BY <1>4, <2>3, <3>1 DEF WrittenOf
    <3> QED
      BY <1>6, <2>3, <3>1, <3>2, <3>3
  <2> QED
    BY <2>1, <2>2, <2>3
<1>8. s = st' /\ mixed = pass'.mixed
  BY <1>1, <1>3
<1>9. Distinct(st'.chat)
  BY <1>5, <1>8
<1>10. Answer(s) = Answer(st)'
  BY <1>8 DEF Answer
<1>11. /\ Along(out', st'.chat, Len(st'.chat)) \/ (st'.sent < 0 /\ out' = Answer(st)')
       /\ ~pass'.mixed => out' = Answer(st)'
  BY <1>3, <1>7, <1>8, <1>10
<1> QED
  BY <1>9, <1>11 DEF RepliedInv

\* Every step keeps what a client has been sent.
LEMMA OutStep ==
  ASSUME NEW made, BuiltUp(made), WellMade, AnswerInv, StreamInv, [Next]_vars, TypeInv'
  PROVE  OutInv'
<1> USE DEF AnswerInv, StreamInv
<1> SUFFICES ASSUME Watched', pc' \in {"run", "armed", "ask", "save", "done"} PROVE OutInv'
  BY DEF OutInv
<1>1. ASSUME pass'.run = pass.run, pass'.stream = pass.stream, pc \in {"run", "armed", "ask", "save", "done"}
      PROVE  Watched /\ Fits(st, asks)
  BY <1>1, WatchedOn DEF Watched, ChatInv
<1>2. StateOK(st)
  BY DEF TypeInv, StandOK
<1>3. CASE \E r \in Clients, live \in BOOLEAN : Serve(r, live)
  <2>1. /\ pc = "idle" /\ UNCHANGED <<claimed, out>> /\ pc' = "run"
        /\ st' = [NoState EXCEPT !.chat = <<User>>, !.seed = Len(<<User>>)]
    BY <1>3 DEF Serve, NewPass, Begin
  <2>2. ~claimed' /\ out' = <<>> /\ st'.seed = 1 /\ st'.sent = -1 /\ st'.chat = <<User>>
    BY <2>1 DEF SinkInv, IdleInv, NoState
  <2>3. Base' = 1 /\ Heard' = <<User>>
    BY <2>2 DEF Base, Heard
  <2>4. PICK c \in Chats : c = <<User>> /\ Len(c) = 1 /\ 1 <= Len(c)
    <3>1. PICK m \in Msg : m = User
      BY DEF Msg
    <3>2. <<m>> \in Seq(Msg) /\ Len(<<m>>) = 1 /\ 1 <= 1
      OBVIOUS
    <3> QED
      BY <3>1, <3>2 DEF Chats
  <2>6. SubSeq(c, 2, 1) = <<>> /\ <<>> \in Chats
    BY <2>4, EmptyPart
  <2>7. Along(<<>>, c, 1)
    <3>1. PICK o : o = <<>>
      OBVIOUS
    <3>2. o \in [DOMAIN o -> 2..1] /\ \A i \in DOMAIN o : FALSE
      BY <3>1
    <3>3. Along(o, c, 1)
      BY <3>2 DEF Along
    <3> QED
      BY <3>1, <3>3
  <2>8. WrittenOf(out', Heard', Base', pass'.mixed)
    BY <2>2, <2>3, <2>4, <2>6, <2>7 DEF WrittenOf
  <2> QED
    BY <2>2, <2>8 DEF OutInv
<1>4. CASE ActivateDurable
  <2>1. /\ pass'.run = pass.run /\ pass'.stream = pass.stream /\ pass'.mixed = pass.mixed
        /\ pc = "run" /\ pc' = "armed" /\ UNCHANGED <<st, claimed, out>>
    BY <1>4 DEF ActivateDurable, Live, Stale, TypeInv, ProcessOK, PassFields
  <2> QED
    BY <1>1, <2>1, OutSame DEF Heard
<1>5. CASE EnterDecorated \/ SeqStep \/ SelectEnter
  <2>1. /\ UNCHANGED <<pass, claimed, out>> /\ pc \in {"run", "armed"} /\ pc' = "run"
        /\ st' = st \/ st' = [st EXCEPT !.sel = None]
    BY <1>5 DEF EnterDecorated, SeqStep, SelectEnter, Descend, Ready, SeqAt
  <2>2. st'.chat = st.chat /\ st'.sent = st.sent /\ st'.seed = st.seed
    BY <1>2, <2>1 DEF StateOK
  <2> QED
    BY <1>1, <2>1, <2>2, OutSame DEF Heard
<1>6. CASE Returns \/ Save
  <2>1. /\ UNCHANGED <<pass, claimed, out, st>> /\ pc \in {"run", "armed", "save"} /\ pc' \in {"run", "done"}
    BY <1>6 DEF Returns, Save, Return
  <2> QED
    BY <1>1, <2>1, OutSame DEF Heard
<1>7. CASE Miss
  <2>1. /\ UNCHANGED <<pass, claimed, out, st, stack>> /\ pc \in {"run", "armed"} /\ Top.flow.kind = "basic"
    BY <1>7 DEF Miss, Ready
  <2>2. StackOK(stack) /\ stack # <<>> /\ Top = stack[1] /\ Top.flow \in Flows
    BY <2>1, TopIs DEF TypeInv, Top
  <2>3. Watched /\ ~claimed
    BY <1>1, <2>1, <2>2, Solitary, NoRespond DEF SinkInv, ClaimInv, Frees
  <2> QED
    BY <2>1, <2>3, OutSame DEF Heard
<1>8. CASE Load
  <2>1. /\ UNCHANGED <<pass, claimed, out, asks>> /\ pc \in {"run", "armed"} /\ Top.flow.kind = "basic"
    BY <1>8 DEF Load, Ready, history
  <2>2. StackOK(stack) /\ stack # <<>> /\ Top = stack[1] /\ Top.flow \in Flows
    BY <2>1, TopIs DEF TypeInv, Top
  <2>3. Watched /\ Fits(st, asks) /\ ~claimed
    BY <1>1, <2>1, <2>2, Solitary, NoRespond DEF SinkInv, ClaimInv, Frees
  <2>4. Promise!Extends(st'.chat, st.chat) /\ st'.sent = st.sent /\ Key \in DOMAIN saved /\ st' = saved[Key]
    BY <1>8, <2>3, LoadGoesOn DEF Watched
  <2>5. st'.seed = 1 /\ st.seed = 1
    <3>1. Key[1] \in Clients
      BY <2>3 DEF Key, Watched
    <3> QED
      BY <2>3, <2>4, <3>1 DEF ChatInv, Fits
  <2>6. st'.chat \in Chats
    BY DEF TypeInv, StandOK, StateOK
  <2> QED
    BY <2>1, <2>3, <2>4, <2>5, <2>6, OutGrows
<1>9. CASE Collect
  <2>1. UNCHANGED <<pass, claimed, out, replies>> /\ pc = "ask" /\ pc' = "save"
    BY <1>9 DEF Collect
  <2>2. Watched /\ Fits(st, asks)
    BY <1>1, <2>1
  <2>3. /\ Fits(st', asks') /\ \E more \in Chats : st'.chat = st.chat \o more
        /\ DOMAIN replies = {1} /\ replies[1].said = <<Said(1)>> => st'.chat = Append(st.chat, Said(1))
    BY <1>9, <2>2, CollectFits
  <2>4. st'.sent = st.sent /\ st'.seed = st.seed
    BY <1>2, <1>9 DEF Collect, StateOK
  <2>5. CASE claimed
    <3>1. st'.chat = Heard
      BY <2>1, <2>2, <2>3, <2>5 DEF OutInv, Heard
    <3> QED
      BY <2>1, <2>2, <2>4, <3>1, OutSame
  <2>6. CASE ~claimed
    <3>1. st'.chat \in Chats /\ Promise!Extends(st'.chat, st.chat)
      <4>1. PICK c \in Chats, more \in Chats : c = st.chat /\ st'.chat = c \o more
        BY <1>2, <2>3 DEF StateOK
      <4> QED
        BY <4>1, JoinExtends
    <3> QED
      BY <2>1, <2>2, <2>4, <2>6, <3>1, OutGrows
  <2> QED
    BY <2>5, <2>6
<1>10. ASSUME NEW i \in DOMAIN replies, NEW x, NEW silent \in BOOLEAN, Reply(i, x, silent) PROVE OutInv'
  <2>1. UNCHANGED <<pass, claimed, out, st>> /\ pc = "ask" /\ replies[i] = NotYet
    BY <1>10 DEF Reply, Answered
  <2>2. Watched
    BY <1>1, <2>1
  <2>3. ~claimed
    BY <2>1, <2>2 DEF OutInv
  <2> QED
    BY <2>1, <2>2, <2>3, OutSame DEF Heard
<1>11. ASSUME NEW x, Streams(x) PROVE OutInv'
  <2>1. pass' = pass /\ pc = "ask"
    BY <1>11 DEF Streams
  <2> QED
    BY <1>1, <1>11, <2>1, OutClaimed
<1>12. CASE RespondRuns
  <2>1. pass'.run = pass.run /\ pass'.stream = pass.stream /\ pc \in {"run", "armed"}
    BY <1>12 DEF RespondRuns, Ready, TypeInv, ProcessOK, PassFields
  <2> QED
    BY <1>1, <1>12, <2>1, OutResponds
<1>13. CASE UNCHANGED vars
  <2>1. UNCHANGED <<pass, stack, st, pc, replies, claimed, out, asks>>
    BY <1>13 DEF vars, walking, history
  <2>2. Watched /\ OutInv
    BY <1>1, <2>1
  <2>3. Heard' = Heard /\ Base' = Base /\ Said(1)' = Said(1)
    BY <2>1 DEF Heard, Base, Said, Top
  <2> QED
    BY <2>1, <2>2, <2>3 DEF OutInv
<1>14. ~Finish /\ ~BeginsOther
  BY RequestAssumption DEF Finish, BeginsOther, Watched, Runs
<1> QED
  BY <1>3, <1>4, <1>5, <1>6, <1>7, <1>8, <1>9, <1>10, <1>11, <1>12, <1>13, <1>14, Steps

\* Every step keeps what a client has been replied.
LEMMA RepliedStep ==
  ASSUME AnswerInv, StreamInv, [Next]_vars
  PROVE  RepliedInv'
<1> USE DEF AnswerInv, StreamInv
<1> SUFFICES ASSUME Watched', pc' = "replied" PROVE RepliedInv'
  BY DEF RepliedInv
<1>1. CASE Finish
  <2>1. pass' = pass /\ pc = "done"
    BY <1>1 DEF Finish
  <2>2. Watched
    BY <2>1, WatchedOn
  <2>3. Fits(st, asks)
    BY <2>1, <2>2 DEF Watched, ChatInv
  <2> QED
    BY <1>1, <2>2, <2>3, OutEnds
<1>2. CASE UNCHANGED vars
  <2>1. UNCHANGED <<pass, st, pc, out>>
    BY <1>2 DEF vars, walking
  <2>2. Watched
    BY <2>1, WatchedOn
  <2>3. Answer(st)' = Answer(st)
    BY <2>1 DEF Answer
  <2> QED
    BY <2>1, <2>2, <2>3 DEF RepliedInv
<1>3. ~(Miss \/ ActivateDurable \/ Collect \/ EnterDecorated \/ SeqStep \/ SelectEnter \/ BeginsOther)
  BY DEF Miss, ActivateDurable, Collect, EnterDecorated, Descend, SeqStep, SelectEnter, BeginsOther
<1>4. ~(Load \/ Save \/ RespondRuns \/ Returns)
  BY DEF Load, Save, RespondRuns, Returns, Return
<1>5. ~(\E r \in Clients, live \in BOOLEAN : Serve(r, live))
  BY DEF Serve, Begin
<1>6. ~(\E i \in DOMAIN replies : \E x : Streams(x) \/ \E silent \in BOOLEAN : Reply(i, x, silent))
  BY DEF Streams, Reply
<1> QED
  BY <1>1, <1>2, <1>3, <1>4, <1>5, <1>6, Steps

\* The program starts with nothing sent.
LEMMA StreamInit == Init => StreamInv
<1> SUFFICES ASSUME Init PROVE StreamInv
  OBVIOUS
<1>1. pc = "down" /\ saved = <<>> /\ stack = <<>> /\ claimed = FALSE /\ out = <<>>
  BY DEF Init
<1>2. RepliesInv /\ ChatInv /\ OutInv /\ RepliedInv
  BY <1>1 DEF RepliesInv, ChatInv, OutInv, RepliedInv
<1>3. SinkInv
  BY <1>1 DEF SinkInv, Held, ClaimInv, StageInv, IdleInv
<1> QED
  BY <1>2, <1>3 DEF StreamInv

\* Every step keeps all of it.
LEMMA StreamStep ==
  ASSUME NEW made, BuiltUp(made), WellMade, DurableAtRoot, KeepsShape
  PROVE  AnswerInv /\ StreamInv /\ [Next]_vars => AnswerInv' /\ StreamInv'
<1> SUFFICES ASSUME AnswerInv, StreamInv, [Next]_vars PROVE AnswerInv' /\ StreamInv'
  OBVIOUS
<1>1. AnswerInv' /\ TypeInv'
  BY AnswerStep DEF AnswerInv
<1>2. RepliesInv' /\ ChatInv'
  BY <1>1, RepliesStep, ChatStep DEF AnswerInv, StreamInv
<1>3. SinkInv'
  BY <1>1, SinkStep DEF StreamInv
<1>4. OutInv' /\ RepliedInv'
  BY <1>1, OutStep, RepliedStep
<1> QED
  BY <1>1, <1>2, <1>3, <1>4 DEF StreamInv

\* What was sent along a conversation is in it, in its order.
LEMMA AlongOrdered ==
  ASSUME st.chat \in Chats, Distinct(st.chat), NEW o, NEW b \in Nat, b <= Len(st.chat), Along(o, st.chat, b)
  PROVE  /\ Positions(o) \subseteq Positions(st.chat)
         /\ \A i, j \in DOMAIN o : i < j => At(o[i]) < At(o[j])
<1>1. PICK h \in [DOMAIN o -> 2..b] : \A i, j \in DOMAIN o : o[i] = st.chat[h[i]] /\ (i < j => h[i] < h[j])
  BY DEF Along
<1>2. DOMAIN st.chat = 1..Len(st.chat) /\ Len(st.chat) \in Nat
  BY DEF Chats
<1>3. ASSUME NEW i \in DOMAIN o PROVE h[i] \in DOMAIN st.chat /\ o[i] = st.chat[h[i]] /\ At(o[i]) = h[i]
  <2>1. h[i] \in DOMAIN st.chat /\ o[i] = st.chat[h[i]]
    BY <1>1, <1>2
  <2>2. \A n \in DOMAIN st.chat : st.chat[n] = o[i] => n = h[i]
    BY <2>1 DEF Distinct
  <2> QED
    BY <2>1, <2>2 DEF At
<1>4. Positions(o) \subseteq Positions(st.chat)
  BY <1>3 DEF Positions
<1> QED
  BY <1>1, <1>3, <1>4

\* What a client is sent is what is answered: the messages of the conversation, in order.
THEOREM StreamedSame ==
  ASSUME NEW made, BuiltUp(made), WellMade, DurableAtRoot, KeepsShape
  PROVE  Spec => []StreamedAsAnswered
<1>1. AnswerInv /\ StreamInv /\ [Next]_vars => AnswerInv' /\ StreamInv'
  BY StreamStep
<1>2. AnswerInv /\ StreamInv => StreamedAsAnswered
  <2> SUFFICES ASSUME AnswerInv, StreamInv, pass.kind = "request", pass.stream, sound[pass.run],
                      pc \in {"run", "done", "replied"}
               PROVE  /\ Positions(out) \subseteq Positions(st.chat)
                      /\ \A i, j \in DOMAIN out : i < j => At(out[i]) < At(out[j])
                      /\ pc = "replied" /\ ~pass.mixed => out = Answer(st)
    BY DEF StreamedAsAnswered
  <2>1. Watched /\ StateOK(st) /\ st.chat \in Chats /\ Len(st.chat) \in Nat
    BY DEF AnswerInv, CheckInv, Watched, TypeInv, StandOK, StateOK, Chats
  <2>2. CASE pc \in {"run", "done"}
    <3>1. Fits(st, asks) /\ OutInv /\ TypeInv
      BY <2>1, <2>2 DEF AnswerInv, StreamInv, ChatInv, Watched
    <3>2. Heard = st.chat /\ Base \in Nat /\ Base <= Len(st.chat) /\ Distinct(st.chat)
      BY <2>2, <3>1, BaseIs DEF Heard
    <3>3. Along(out, st.chat, Base) \/ Along(out, st.chat, Len(st.chat))
      BY <2>1, <2>2, <3>1, <3>2 DEF OutInv, WrittenOf, StreamedOf
    <3>4. Len(st.chat) <= Len(st.chat)
      BY <2>1
    <3> QED
      BY <2>1, <2>2, <3>2, <3>3, <3>4, AlongOrdered
  <2>3. CASE pc = "replied"
    <3>1. /\ Distinct(st.chat)
          /\ Along(out, st.chat, Len(st.chat)) \/ (st.sent < 0 /\ out = Answer(st))
          /\ ~pass.mixed => out = Answer(st)
      BY <2>1, <2>3 DEF StreamInv, RepliedInv
    <3>2. CASE Along(out, st.chat, Len(st.chat))
      BY <2>1, <3>1, <3>2, AlongOrdered
    <3>3. CASE st.sent < 0 /\ out = Answer(st)
      <4>1. ~(st.sent >= 0)
        BY <2>1, <3>3 DEF StateOK
      <4>2. out = <<>> \/ (st.chat # <<>> /\ out = <<st.chat[Len(st.chat)]>>)
        BY <3>3, <4>1 DEF Answer
      <4>3. st.chat # <<>> => st.chat[Len(st.chat)] \in Positions(st.chat)
        BY <2>1 DEF Chats, Positions
      <4>4. Positions(out) \subseteq Positions(st.chat)
        BY <4>2, <4>3 DEF Positions
      <4>5. \A i, j \in DOMAIN out : ~(i < j)
        BY <4>2
      <4> QED
        BY <3>1, <4>4, <4>5
    <3> QED
      BY <3>1, <3>2, <3>3
  <2> QED
    BY <2>2, <2>3
<1> QED
  BY <1>1, <1>2, AnswerInit, StreamInit, PTL DEF Spec
=============================================================================
