-------------------------- MODULE StateChangeAudit --------------------------
(***************************************************************************)
(* What a state-changing operation reports of itself: whether its bytes    *)
(* went out, what the camera answered, whether the requested state was     *)
(* seen, and whether it was seen to persist (StateChangeAudit).            *)
(***************************************************************************)

OutcomeStatus == {"NotAttempted", "Succeeded", "Failed", "Unknown"}

Audits == [transport : OutcomeStatus, ptp_response : OutcomeStatus,
           semantic : OutcomeStatus, persistence : OutcomeStatus]

\* The two statuses of the wire, and one for both of what they led to.
Audit(transport, response, effect) ==
    [transport |-> transport, ptp_response |-> response,
     semantic |-> effect, persistence |-> effect]

not_attempted == Audit("NotAttempted", "NotAttempted", "NotAttempted")
ptp_accepted == Audit("Succeeded", "Succeeded", "NotAttempted")
attempt_unknown == Audit("Unknown", "Unknown", "Unknown")
transport_failed == Audit("Failed", "Unknown", "Unknown")

\* What an error of a PTP command is: a framed response code, a malformed
\* container, a failure of the bus, or anything else.
WriteErrors == {"Response", "Malformed", "Usb", "Other"}

from_write_error(error) ==
    CASE error = "Response" -> Audit("Succeeded", "Failed", "NotAttempted")
      [] error = "Malformed" -> Audit("Succeeded", "Unknown", "Unknown")
      [] error = "Usb" -> transport_failed
      [] error = "Other" -> attempt_unknown

with_semantic(audit, status) == [audit EXCEPT !.semantic = status]
with_persistence(audit, status) == [audit EXCEPT !.persistence = status]

=============================================================================
