-------------------------- MODULE NotificationLedger --------------------------
(***************************************************************************)
(* What the notification system promises of the e-mail channel: for each   *)
(* published event and user at most one entry, opened only while the       *)
(* revision it announces is the published one, then settled once, and      *)
(* settled for good.                                                       *)
(***************************************************************************)
CONSTANTS Events, Emails   \* an e-mail is a pair of an event and a user

VARIABLES source, ledger

Status == {"DRAFT", "PUBLISHED", "SUPERSEDED", "RETIRED"}

Init ==
    /\ source \in [Events -> {"DRAFT", "RETIRED"}]   \* not every revision is published
    /\ ledger = [d \in Emails |-> "none"]

\* An editor moves the revisions on; no entry is touched.
Govern ==
    /\ source' \in [Events -> Status]
    /\ \A e \in Events : source[e] # "DRAFT" => source'[e] # "DRAFT"
    /\ UNCHANGED ledger

Open(d) ==
    /\ ledger[d] = "none"
    /\ source[d[1]] = "PUBLISHED"
    /\ \E entry \in {"owed", "declined"} : ledger' = [ledger EXCEPT ![d] = entry]
    /\ UNCHANGED source

Settle(d) ==
    /\ ledger[d] = "owed"
    /\ \E entry \in {"delivered", "declined"} : ledger' = [ledger EXCEPT ![d] = entry]
    /\ UNCHANGED source

Next == Govern \/ \E d \in Emails : Open(d) \/ Settle(d)

Spec == Init /\ [][Next]_<<source, ledger>>
=============================================================================
