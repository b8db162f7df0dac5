------------------------------- MODULE PtpLink -------------------------------
(***************************************************************************)
(* What one PTP session promises its callers: a call ends in exactly one   *)
(* of three ways.  Accepted means that the camera executed the command,    *)
(* Rejected that it did not and never will, Lost that nobody knows and     *)
(* that the session is of no further use.  SelectedSlotIo is written       *)
(* against this promise; PtpTransport keeps it.                            *)
(***************************************************************************)
VARIABLES
    healthy,  \* the session may still be used
    verdict,  \* how the current call ended
    acted     \* the camera executed the current call

linkVars == <<healthy, verdict, acted>>

LinkInit == healthy = TRUE /\ verdict = "none" /\ acted = FALSE

Call ==
    /\ verdict # "pending"
    /\ verdict' = "pending" /\ acted' = FALSE
    /\ UNCHANGED healthy

\* The camera may act while the call runs, or after it was lost.
Act ==
    /\ verdict \in {"pending", "lost"}
    /\ ~acted /\ acted' = TRUE
    /\ UNCHANGED <<healthy, verdict>>

Accept ==
    /\ verdict = "pending" /\ healthy /\ acted
    /\ verdict' = "accepted"
    /\ UNCHANGED <<healthy, acted>>

\* A call on an unhealthy session is refused at once.
Reject ==
    /\ verdict = "pending" /\ ~acted
    /\ verdict' = "rejected"
    /\ UNCHANGED <<healthy, acted>>

Refuse ==
    /\ verdict # "pending"
    /\ verdict' = "rejected" /\ acted' = FALSE
    /\ UNCHANGED healthy

Lose ==
    /\ verdict = "pending" /\ healthy
    /\ verdict' = "lost" /\ healthy' = FALSE
    /\ UNCHANGED acted

LinkSpec == LinkInit /\ [][Call \/ Act \/ Accept \/ Reject \/ Refuse \/ Lose]_linkVars
=============================================================================
