--------------------------- MODULE DispatchPromise --------------------------
(***************************************************************************)
(* What the executors promise of a dispatch, without batches, processes or *)
(* statements: recipients are mailed and then reported, and a dispatch is  *)
(* judged once.  Faults are what the environment does to the executors;    *)
(* each may cost a recipient one repeated mail and nothing else.           *)
(***************************************************************************)
EXTENDS Naturals

CONSTANTS
  Campaigns,
  Recipients,
  RecipientsOfCampaign    \* for each campaign, the recipients it was planned for

VARIABLES
  mails,     \* mails the relay accepted for a recipient
  reported,  \* recipients reported 'sent'
  verdict,   \* "open", "completed" or "failed"
  faults     \* faults so far

promised == <<mails, reported, verdict, faults>>

Init ==
  /\ mails = [r \in Recipients |-> 0]
  /\ reported = {}
  /\ verdict = [c \in Campaigns |-> "open"]
  /\ faults = 0

FaultCount == faults' = faults \/ faults' = faults + 1

\* A first mail is free, each further one is paid for by a fault.
Mail(r) ==
  /\ mails[r] <= faults
  /\ mails' = [mails EXCEPT ![r] = @ + 1]
  /\ FaultCount
  /\ UNCHANGED <<reported, verdict>>

Report(r) ==
  /\ mails[r] > 0
  /\ reported' = reported \union {r}
  /\ UNCHANGED <<mails, verdict, faults>>

CloseCompleted(c) ==
  /\ verdict[c] = "open"
  /\ RecipientsOfCampaign[c] \subseteq reported
  /\ verdict' = [verdict EXCEPT ![c] = "completed"]
  /\ UNCHANGED <<mails, reported, faults>>

\* Only a fault makes a dispatch fail.
CloseFailed(c) ==
  /\ verdict[c] = "open"
  /\ faults > 0
  /\ verdict' = [verdict EXCEPT ![c] = "failed"]
  /\ UNCHANGED <<mails, reported, faults>>

Disturbed == faults' = faults + 1 /\ UNCHANGED <<mails, reported, verdict>>

Next ==
  \/ \E r \in Recipients : Mail(r) \/ Report(r)
  \/ \E c \in Campaigns : CloseCompleted(c) \/ CloseFailed(c)
  \/ Disturbed

Spec == Init /\ [][Next]_promised

=============================================================================
