-------------------------------- MODULE MCTools --------------------------------
(***************************************************************************)
(* Tools with two tools of the agent and one of the client's, and a model  *)
(* that answers, calls one tool, or two in parallel.                       *)
(***************************************************************************)
EXTENDS Tools, TLC

Asks(name, named, pieces) == [name |-> name, named |-> named, pieces |-> pieces]
Say(text, calls)          == [text |-> text, calls |-> calls]

MCSays == {
  Say(<<"say">>, <<>>),
  Say(<<>>, <<>>),
  Say(<<"say">>, <<Asks("sensor", TRUE, 0)>>),
  Say(<<>>, <<Asks("sensor", FALSE, 1), Asks("lamp", TRUE, 1)>>),
  Say(<<>>, <<Asks("lamp", TRUE, 1), Asks("door", TRUE, 1)>>),
  Say(<<"say">>, <<Asks("door", FALSE, 0), Asks("door", TRUE, 2)>>)}
=============================================================================
