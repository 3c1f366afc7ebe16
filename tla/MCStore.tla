-------------------------------- MODULE MCStore --------------------------------
(***************************************************************************)
(* The Queen store: two agents at one pin and two notes; runs of two       *)
(* projects, of which the registry shows one that is over and the store    *)
(* keeps two; and two callers that wait on one mailbox of two.             *)
(***************************************************************************)
EXTENDS QueenStore, Mailbox, TLC

CONSTANTS w1, w2, a, b

VARIABLE part   \* which part moves: they share no variable, and are not interleaved

TwoProjects == [r \in Run |-> IF r = 2 THEN "q" ELSE "p"]
BoxOf == w1 :> a @@ w2 :> a

MCInit == part \in {"records", "runs", "mailbox"} /\ StoreInit /\ MailInit

MCNext ==
    /\ UNCHANGED part
    /\ \/ part = "records" /\ Next /\ UNCHANGED <<runs, mailVars>>
       \/ part = "runs" /\ RunsNext /\ UNCHANGED <<vars, mailVars>>
       \/ part = "mailbox" /\ MailNext /\ UNCHANGED storeVars

MCSpec == MCInit /\ [][MCNext]_<<part, storeVars, mailVars>> /\ MailFairness
=============================================================================
