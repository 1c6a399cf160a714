----------------------------- MODULE AtMostOnce -----------------------------
(***************************************************************************)
(* What the message queue really promises about one message: it is handed  *)
(* to a consumer at most once.  A message that was taken is finished, or   *)
(* stranded with nobody working on it, and it never goes back to the       *)
(* queue.  LaneQueue implements this specification.                        *)
(***************************************************************************)
CONSTANT Msgs

VARIABLE status

Statuses == {"absent", "queued", "dropped", "running", "done", "stranded"}

Init == status = [m \in Msgs |-> "absent"]

\* the moves one message may make
Moves == {<<"absent", "queued">>,
          <<"queued", "running">>, <<"queued", "stranded">>, <<"queued", "dropped">>,
          <<"running", "done">>, <<"running", "stranded">>}

Next ==
    /\ status' \in [Msgs -> Statuses]
    /\ \A m \in Msgs : status'[m] = status[m] \/ <<status[m], status'[m]>> \in Moves

Spec == Init /\ [][Next]_status
=============================================================================
