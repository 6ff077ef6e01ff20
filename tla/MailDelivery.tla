---------------------------- MODULE MailDelivery ----------------------------
(***************************************************************************)
(* What the outbox promises the rest of the system: a mail is accepted by  *)
(* the SMTP server while its row is Queued, and leaves Queued with a       *)
(* verdict that says whether it was; one business fact posts one mail.  A  *)
(* batch settles together or is lost together.  EmailOutbox implements it. *)
(***************************************************************************)
CONSTANTS Mails, KeyOf, NoKey

VARIABLES told,     \* what the table says of each mail
          accepted  \* mails the server has accepted, but for lost batches

mailVars == <<told, accepted>>

Verdicts == {"Sent", "Failed", "Skipped"}
Queued == {m \in Mails : told[m] = "Queued"}

MailInit ==
    /\ told = [m \in Mails |-> "Absent"]
    /\ accepted = {}

Post(m) ==
    /\ told[m] = "Absent"
    /\ KeyOf[m] # NoKey =>
          \A n \in Mails : KeyOf[n] = KeyOf[m] => told[n] = "Absent"
    /\ told' = [told EXCEPT ![m] = "Queued"]
    /\ UNCHANGED accepted

Accept(m) ==
    /\ m \in Queued \ accepted
    /\ accepted' = accepted \cup {m}
    /\ UNCHANGED told

\* The verdicts on a batch; a mail that failed may stay Queued.
Settle(S) ==
    /\ S \subseteq Queued
    /\ \E verdict \in [S -> Verdicts \cup {"Queued"}] :
          /\ \A m \in S : verdict[m] = "Sent" <=> m \in accepted
          /\ told' = [m \in Mails |-> IF m \in S THEN verdict[m] ELSE told[m]]
    /\ UNCHANGED accepted

\* A batch is lost: what it had sent will be sent again.
Lose(S) ==
    /\ S \subseteq Queued \cap accepted
    /\ accepted' = accepted \ S
    /\ UNCHANGED told

\* An admin has a settled mail tried again.
Reopen(m) ==
    /\ told[m] \in Verdicts
    /\ told' = [told EXCEPT ![m] = "Queued"]
    /\ accepted' = accepted \ {m}

MailNext ==
    \/ \E m \in Mails : Post(m) \/ Accept(m) \/ Reopen(m)
    \/ \E S \in SUBSET Mails : Settle(S) \/ Lose(S)

Spec == MailInit /\ [][MailNext]_mailVars

\* The table tells the truth, and tells it once for each business fact.
ToldTrue ==
    \A m \in Mails :
        /\ told[m] = "Sent" => m \in accepted
        /\ told[m] \in {"Absent", "Failed", "Skipped"} => m \notin accepted
        /\ \A n \in Mails \ {m} : KeyOf[m] = KeyOf[n] /\ KeyOf[m] # NoKey
              => told[m] = "Absent" \/ told[n] = "Absent"
=============================================================================
