--------------------------------- MODULE MCJob ---------------------------------
(***************************************************************************)
(* Job with three flows: a step whose backoff is long enough to yield and  *)
(* a sleep; a step retried forever, which waits inline before it yields;   *)
(* and two steps of one name.                                              *)
(***************************************************************************)
EXTENDS Job, TLC

CONSTANTS a, b, w1, w2

Step(n, retries, min) ==
  [kind |-> "step", name |-> n, retries |-> retries, min |-> min, max |-> 2, d |-> 0]
Rest(n, d) == [kind |-> "sleep", name |-> n, retries |-> 0, min |-> 0, max |-> 0, d |-> d]

Twin      == <<Step("send", 0, 1), Step("send", 0, 1)>>
MCScripts == {<<Step("send", 1, 2), Rest("nap", 1)>>, <<Step("send", -1, 1)>>, Twin}
Symmetry  == Permutations({a, b}) \cup Permutations(Workers)

\* A run that has been in two places is followed in one flow, through one setback
\* and one failure: most of what is checked is of a run that is in one.
Followed == twice => script = Twin /\ restarts + faults <= 1 /\ failures["send"] <= 1
=============================================================================
