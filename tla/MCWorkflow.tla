------------------------------ MODULE MCWorkflow ------------------------------
(***************************************************************************)
(* Small workflows for TLC.  Each is chosen for the passes it exercises.   *)
(***************************************************************************)
EXTENDS Workflow

JoinAll == [s \in Step |-> 0]
NoRetry == [s \in Step |-> 0]
Single == [s \in Step |-> 1]

\* A lead, two racing attempts (joinOn: any, retried once), then the lead again.
RaceDeps == <<{}, {1}, {2}>>
RaceFan == <<1, 2, 1>>
RaceQuota == <<0, 1, 0>>
RaceRetry == <<0, 1, 0>>
RaceAgent == <<"lead", "worker", "lead">>

\* A step gated by a condition on the first, one behind it, and one that joins
\* the branch behind the gate with the first step.
GateDeps == <<{}, {1}, {2}, {1, 3}>>
GateAgent == <<"lead", "worker", "worker", "lead">>

\* A fan-out of which both must succeed, started at launch, and a retried step
\* behind it, on a grid that somebody else may fill first.
CrowdDeps == <<{}, {1}>>
CrowdFan == <<2, 1>>
CrowdQuota == <<2, 0>>
CrowdRetry == <<0, 1>>
CrowdAgent == <<"worker", "lead">>

\* Two independent steps on one agent, the first retried.
SiblingDeps == <<{}, {}>>
SiblingRetry == <<1, 0>>
SiblingAgent == <<"worker", "worker">>

\* A step and its dependent on one agent.
ChainDeps == <<{}, {1}>>
ChainAgent == <<"worker", "worker">>

\* A lead and a retried fan-out of two.
FanDeps == <<{}, {1}>>
FanFan == <<1, 2>>
FanRetry == <<0, 1>>
FanAgent == <<"lead", "worker">>
=============================================================================
