-------------------------------- MODULE MCGrid --------------------------------
(***************************************************************************)
(* Two that rely on what PaneTable promises: the launch of a preset by the *)
(* window and by the tool, and the window itself, with one pane that ends  *)
(* and restarts or with two that are only opened and closed.  Each has a   *)
(* table of its own, so they take no turns: one of them moves.             *)
(***************************************************************************)
EXTENDS Presets, Window

VARIABLE part

MCInit ==
    /\ part \in {"preset", "pane", "panes"} /\ PresetInit /\ WindowInit
    /\ tile = [p \in Tile |-> IF part = "pane" /\ p # 1 THEN "closed" ELSE "unopened"]
    /\ turns = IF part = "pane" THEN 0 ELSE MaxTurns
    /\ ~configured
    /\ part # "panes" => restoring = 0

MCNext ==
    /\ UNCHANGED part
    /\ \/ part = "preset" /\ PresetNext /\ UNCHANGED windowVars
       \/ part = "pane" /\ WindowNext /\ UNCHANGED <<configured, ready, presetVars>>
       \/ part = "panes" /\ WindowNext /\ UNCHANGED presetVars

MCSpec == MCInit /\ [][MCNext]_<<part, presetVars, windowVars>>

FirstOnSuccess == [p \in Tile |-> IF p = 1 THEN "success" ELSE "always"]
=============================================================================
