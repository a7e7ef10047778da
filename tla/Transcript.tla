----------------------------- MODULE Transcript -----------------------------
(***************************************************************************)
(* What a durable flow promises to a client that retries under the same    *)
(* run id: a step that has been recorded is not done again, and an answer  *)
(* tells every recorded step as it was recorded.  A promise is withdrawn   *)
(* when the flow's structure changes (Forget), and no longer made once a   *)
(* record was lost (Doubt).                                                *)
(***************************************************************************)
EXTENDS Naturals, Sequences

CONSTANTS Runs,       \* the run ids clients retry under
          NotYet      \* no answer

VARIABLES log,        \* run -> recorded step -> the conversation up to it
          answer,     \* run -> the last conversation that was answered
          sound       \* run -> whether the promise still stands

vars == <<log, answer, sound>>

\* The conversation c goes on from d.
Extends(c, d) == Len(d) <= Len(c) /\ \A i \in DOMAIN d : c[i] = d[i]

Init ==
  /\ log = [r \in Runs |-> <<>>]
  /\ answer = [r \in Runs |-> NotYet]
  /\ sound = [r \in Runs |-> TRUE]

\* A new step is recorded; the steps recorded before it stay as they are.
Record(r) ==
  /\ DOMAIN log[r] \subseteq DOMAIN log'[r]
  /\ sound[r] => \A k \in DOMAIN log[r] : log'[r][k] = log[r][k]
  /\ \A q \in Runs \ {r} : log'[q] = log[q]
  /\ UNCHANGED <<answer, sound>>

\* The structure changed: some recorded steps are recorded no longer.
Forget(r) ==
  /\ DOMAIN log'[r] \subseteq DOMAIN log[r]
  /\ \A k \in DOMAIN log'[r] : log'[r][k] = log[r][k]
  /\ \A q \in Runs \ {r} : log'[q] = log[q]
  /\ UNCHANGED answer
  /\ \E b \in BOOLEAN : sound' = [sound EXCEPT ![r] = @ /\ b]

Answer(r) ==
  /\ answer' = [answer EXCEPT ![r] = answer'[r]]
  /\ sound[r] => \A k \in DOMAIN log[r] : Extends(answer'[r], log[r][k])
  /\ UNCHANGED <<log, sound>>

\* A record was lost, or the steps of two structures may mix.
Doubt(r) ==
  /\ sound' = [sound EXCEPT ![r] = FALSE]
  /\ UNCHANGED <<log, answer>>

Next == \E r \in Runs : Record(r) \/ Forget(r) \/ Answer(r) \/ Doubt(r)

Spec == Init /\ [][Next]_vars
=============================================================================
