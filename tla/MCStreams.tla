------------------------------- MODULE MCStreams -------------------------------
(***************************************************************************)
(* Two consumers of one stream; the first one's copies and the stream      *)
(* itself may be retried.                                                  *)
(***************************************************************************)
EXTENDS Streams

Once == [t \in Target \cup {0} |-> 1]
TwiceStream == [t \in Target \cup {0} |-> IF t = 0 THEN 2 ELSE 1]
TwiceFirst == [t \in Target \cup {0} |-> IF t = 1 THEN 2 ELSE 1]
=============================================================================
