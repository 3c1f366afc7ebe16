------------------------------ MODULE MCSessions ------------------------------
(***************************************************************************)
(* A managed ssh pane that is also restarted on failure.                  *)
(***************************************************************************)
EXTENDS Sessions

FirstOnFailure == [p \in Pane |-> IF p = 1 THEN "on_failure" ELSE "never"]
=============================================================================
