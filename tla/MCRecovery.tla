------------------------------ MODULE MCRecovery ------------------------------
(***************************************************************************)
(* Small workflows that survive a stop of the application.                 *)
(***************************************************************************)
EXTENDS Recovery

JoinAll == [s \in Step |-> 0]
NoRetry == [s \in Step |-> 0]
Single == [s \in Step |-> 1]
NoHandoff == [s \in Step |-> 0]

\* A step gated by a condition on the first, and one that joins the two and is
\* handed the first one's reply.
GateDeps == <<{}, {1}, {1, 2}>>
GateAgent == <<"lead", "worker", "lead">>
GateHandoff == <<3, 0, 0>>

\* A fan-out, and a step that waits for all of it.
FanDeps == <<{}, {1}>>
FanFan == <<2, 1>>
FanAgent == <<"worker", "lead">>

\* A retried step on its own.
SoloDeps == <<{}>>
SoloRetry == <<1>>
SoloAgent == <<"worker">>

\* A step that hands over to a retried one.
RelayDeps == <<{}, {1}>>
RelayHandoff == <<2, 0>>
RelayRetry == <<0, 1>>
RelayAgent == <<"lead", "worker">>
=============================================================================
