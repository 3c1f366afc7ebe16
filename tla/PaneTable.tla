------------------------------- MODULE PaneTable -------------------------------
(***************************************************************************)
(* What the session manager promises about a pane, whatever its threads do *)
(* (the contract session.rs keeps with the grid and with Queen): one step  *)
(* changes the status of one pane, along these arrows only.  A pane        *)
(* that was asked to close can end in no other way than closed, unless     *)
(* its owner restarts it, and a closed pane never comes back.              *)
(***************************************************************************)
CONSTANTS Pane

VARIABLES status

Status == {"unopened", "starting", "running", "restarting", "exited", "closing", "closed"}

Init == status = [p \in Pane |-> "unopened"]

Become(p, new) == status' = [status EXCEPT ![p] = new]

Open(p) ==
    /\ status[p] = "unopened"
    /\ Become(p, "starting")

Start(p) ==
    /\ status[p] \in {"starting", "restarting"}
    /\ Become(p, "running")

\* A process that could not be started leaves a revived pane exited.
GiveUp(p) ==
    /\ status[p] = "restarting"
    /\ Become(p, "exited")

End(p) ==
    /\ status[p] = "running"
    /\ \E s \in {"restarting", "exited"} : Become(p, s)

\* The owner restarts any open pane, a closing one included.
Restart(p) ==
    /\ status[p] \in {"starting", "running", "exited", "closing"}
    /\ Become(p, "restarting")

Close(p) ==
    /\ status[p] = "running"
    /\ Become(p, "closing")

\* The cell is freed: at once when there is no process, after it otherwise, and
\* when the thread that was creating the pane gives it up.
Closed(p) ==
    /\ status[p] \notin {"unopened", "closed"}
    /\ Become(p, "closed")

Next ==
    \E p \in Pane :
        \/ Open(p)
        \/ Start(p)
        \/ GiveUp(p)
        \/ End(p)
        \/ Restart(p)
        \/ Close(p)
        \/ Closed(p)

Spec == Init /\ [][Next]_status
=============================================================================
