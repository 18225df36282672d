---------------------------- MODULE RelayPromise ----------------------------
(* The executors keep the promise of DispatchPromise.                      *)
EXTENDS RelayExecutor

\* A recipient is reported when its row says 'sent'.
Reported == {r \in Recipients : recipient_state[r] = "sent"}

\* The judgement of a dispatch is the state of its queue row.
Verdict ==
  [c \in Campaigns |->
     IF queue_state[c] \in {"completed", "failed"} THEN queue_state[c] ELSE "open"]

Planned == [c \in Campaigns |-> UNION {RecipientsOf(b) : b \in BatchesOf(c)}]

Promise == INSTANCE DispatchPromise
  WITH reported <- Reported, verdict <- Verdict, RecipientsOfCampaign <- Planned

\* Every step of executors, recoveries and faults is a step of the promise or
\* none: 'sent' follows an accepted mail and is never taken back, a repeated mail
\* has a fault of its own, and a dispatch is closed once, as completed only with
\* everybody reported and as failed only after a fault.
KeepsPromise == Promise!Spec

=============================================================================
