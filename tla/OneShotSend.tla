----------------------------- MODULE OneShotSend -----------------------------
(***************************************************************************)
(* What the delivery code promises about one outbound message: the         *)
(* customer gets it once, and once more at most for every race of two      *)
(* senders, and without a race the recorded verdict never claims more than *)
(* what happened.  WhatsAppDelivery implements this.                       *)
(***************************************************************************)
EXTENDS Naturals

VARIABLES copies,  \* copies the provider accepted for the customer
          verdict, \* what the row says: open, sent, refused or unknown
          races    \* times a sender decided on an outdated verdict

Init == copies = 0 /\ verdict = "open" /\ races = 0

\* A copy may leave while nothing has been decided, or after an observer gave
\* up on knowing.
Send ==
    /\ copies <= races
    /\ verdict \in {"open", "unknown"} \/ races > 0
    /\ copies' = copies + 1
    /\ UNCHANGED <<verdict, races>>

\* "sent" is only written when a copy left; "refused" when none did, or when
\* the provider later reports that it could not deliver the one that did;
\* another attempt is only opened after a refusal, while one is allowed.
Decide ==
    /\ \/ verdict' = "sent" /\ copies > 0
       \/ verdict' = "refused" /\ (copies = 0 \/ verdict = "sent" \/ races > 0)
       \/ verdict' = "unknown" /\ (verdict = "open" \/ races > 0)
       \/ verdict' = "open" /\ verdict = "refused" /\ copies <= races
    /\ UNCHANGED <<copies, races>>

\* A race: an outdated verdict is overwritten.
Race ==
    /\ races' = races + 1
    /\ verdict' \in {"open", "unknown"}
    /\ UNCHANGED copies

Next == Send \/ Decide \/ Race

Spec == Init /\ [][Next]_<<copies, verdict, races>>
=============================================================================
