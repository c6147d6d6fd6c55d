---------------------------- MODULE EmailOutreach ----------------------------
(***************************************************************************)
(* A campaign of application e-mails (email_outreach.py): a JSON file of   *)
(* leads that command after command reads whole, changes and writes whole. *)
(* A lead is screened and drafted by the AI, approved and released by the  *)
(* operator, handed to the mail connector and closed by its receipt.       *)
(* Commands may be killed anywhere; two may run side by side.              *)
(***************************************************************************)
EXTENDS Naturals

CONSTANTS
    Procs,          \* command lines that may run at the same time
    Leads,
    Emails,         \* addresses as the screening spells them
    Recipient,      \* the mailbox behind a spelling: [Emails -> mailboxes]
    MaxMails        \* bound: mails the operator sends for one lead

EmailOutreachAssumption == Emails \subseteq DOMAIN Recipient /\ MaxMails \in Nat

VARIABLES
    file,           \* the campaign on disk: [Leads -> lead]
    copy,           \* the campaign as each command has loaded it
    run,            \* what each command does: [cmd, todo]
    released,       \* leads whose draft the operator has read and released
    handed,         \* payloads printed and not yet sent
    mailed,         \* mails the connector has sent for a lead
    receipt         \* what the connector answered for a lead
vars == <<file, copy, run, released, handed, mailed, receipt>>

NewLead == [status |-> "research", eligible |-> FALSE, email |-> "none"]
Idle == [cmd |-> "idle", todo |-> {}]

Init ==
    /\ file = [l \in Leads |-> NewLead]
    /\ copy = [p \in Procs |-> file]
    /\ run = [p \in Procs |-> Idle]
    /\ released = {} /\ handed = {}
    /\ mailed = [l \in Leads |-> 0]
    /\ receipt = [l \in Leads |-> "none"]

----------------------------------------------------------------------------
(* main: the command loads the file and finds its work in it.              *)

Waiting(c, cmd) ==
    {l \in Leads : c[l].status = (IF cmd = "screen" THEN "research" ELSE "approved")}

Begin(p) ==
    /\ run[p] = Idle
    /\ copy' = [copy EXCEPT ![p] = file]
    /\ \/ \E cmd \in {"screen", "draft"} :
            run' = [run EXCEPT ![p] = [cmd |-> cmd, todo |-> Waiting(file, cmd)]]
       \/ \E cmd \in {"approve", "ready", "payload", "record", "bounce"}, l \in Leads :
            run' = [run EXCEPT ![p] = [cmd |-> cmd, todo |-> {l}]]
    /\ UNCHANGED <<file, released, handed, mailed, receipt>>

\* save_campaign replaces the file by the copy of this command.
Save(p, l, lead) ==
    /\ copy' = [copy EXCEPT ![p][l] = lead]
    /\ file' = copy'[p]
Done(p, l) == run' = [run EXCEPT ![p] = IF @.todo = {l} THEN Idle ELSE [cmd |-> @.cmd, todo |-> @.todo \ {l}]]

\* screen and draft: the AI answers lead by lead, in any order, and the file
\* is written after each; a failure, and fetch, which only adds the page,
\* leave the lead where it is.
Work(p) ==
    /\ run[p].cmd \in {"screen", "draft"}
    /\ \E l \in run[p].todo :
         /\ \/ run[p].cmd = "screen" /\ \E e \in Emails, ok \in BOOLEAN :
                 Save(p, l, [status |-> "screened", eligible |-> ok, email |-> e])
            \/ run[p].cmd = "draft" /\ Save(p, l, [copy[p][l] EXCEPT !.status = "draft"])
            \/ Save(p, l, copy[p][l])
         /\ Done(p, l)
    /\ UNCHANGED <<released, handed, mailed, receipt>>
Nothing(p) ==
    /\ run[p].cmd \in {"screen", "draft"} /\ run[p].todo = {}
    /\ run' = [run EXCEPT ![p] = Idle]
    /\ UNCHANGED <<file, copy, released, handed, mailed, receipt>>

\* apply_review, one review of the list; a refused one saves nothing.
\* The operator may correct the address.
MayApprove(lead) == lead.status = "screened" /\ lead.eligible
Review(p) ==
    /\ run[p].cmd \in {"approve", "ready"}
    /\ \E l \in run[p].todo :
         LET lead == copy[p][l] IN
         /\ \/ /\ run[p].cmd = "approve" /\ MayApprove(lead)
               /\ \E e \in Emails : Save(p, l, [lead EXCEPT !.status = "approved", !.email = e])
               /\ UNCHANGED released
            \/ /\ run[p].cmd = "ready" /\ lead.status = "draft"
               /\ Save(p, l, [lead EXCEPT !.status = "ready"]) /\ released' = released \cup {l}
         /\ Done(p, l)
    /\ UNCHANGED <<handed, mailed, receipt>>

\* payload: nobody else with this address is sent to or waits for a receipt.
InFlight == {"sent", "bounced", "dispatching", "uncertain"}
Clash(c, l) == \E o \in Leads \ {l} : c[o].email = c[l].email /\ c[o].status \in InFlight
Sendable(lead) == lead.status = "ready"
Payload(p) ==
    /\ run[p].cmd = "payload"
    /\ \E l \in run[p].todo :
         /\ ~Clash(copy[p], l) /\ Sendable(copy[p][l])
         /\ Save(p, l, [copy[p][l] EXCEPT !.status = "dispatching"])
         /\ run' = [run EXCEPT ![p].cmd = "print"]
    /\ UNCHANGED <<released, handed, mailed, receipt>>
HandOver(p) ==
    /\ run[p].cmd = "print"
    /\ handed' = handed \cup run[p].todo
    /\ run' = [run EXCEPT ![p] = Idle]
    /\ UNCHANGED <<file, copy, released, mailed, receipt>>

\* record_receipt; only a receipt with an id and the label SENT is a sending.
OutcomeOf(r) == IF r = "sent" THEN "sent" ELSE "uncertain"
Record(p) ==
    /\ run[p].cmd = "record"
    /\ \E l \in run[p].todo :
         /\ copy[p][l].status = "dispatching" /\ receipt[l] # "none"
         /\ Save(p, l, [copy[p][l] EXCEPT !.status = OutcomeOf(receipt[l])])
         /\ Done(p, l)
    /\ UNCHANGED <<released, handed, mailed, receipt>>

\* bounce: the failure names an address, which must be that of one sent lead.
Bounce(p) ==
    /\ run[p].cmd = "bounce"
    /\ \E l \in run[p].todo :
         /\ mailed[l] > 0
         /\ {o \in Leads : copy[p][o].email = copy[p][l].email /\ copy[p][o].status = "sent"} = {l}
         /\ Save(p, l, [copy[p][l] EXCEPT !.status = "bounced"])
         /\ Done(p, l)
    /\ UNCHANGED <<released, handed, mailed, receipt>>

\* A command raises or is killed; what it has saved stays.
Stop(p) ==
    /\ run[p] # Idle
    /\ run' = [run EXCEPT ![p] = Idle]
    /\ UNCHANGED <<file, copy, released, handed, mailed, receipt>>

----------------------------------------------------------------------------
(* The operator sends a printed payload once, through the connector.       *)

Send(l) ==
    /\ l \in handed /\ mailed[l] < MaxMails
    /\ handed' = handed \ {l}
    /\ \/ mailed' = [mailed EXCEPT ![l] = @ + 1]
          /\ receipt' \in {[receipt EXCEPT ![l] = r] : r \in {"sent", "queued", "none"}}
       \/ receipt' = [receipt EXCEPT ![l] = "queued"] /\ UNCHANGED mailed
    /\ UNCHANGED <<file, copy, run, released>>

Next ==
    \/ \E p \in Procs : \/ Begin(p) \/ Work(p) \/ Nothing(p) \/ Review(p) \/ Payload(p)
                        \/ HandOver(p) \/ Record(p) \/ Bounce(p) \/ Stop(p)
    \/ \E l \in Leads : Send(l)
Spec == Init /\ [][Next]_vars

----------------------------------------------------------------------------
\* Mails sent for a lead, with the one the operator has yet to send.
Sendings(l) == mailed[l] + (IF l \in handed THEN 1 ELSE 0)
MailedOnce(S) == \A l, o \in S : Sendings(l) <= 1 /\ (Sendings(l) = 1 /\ Sendings(o) = 1 => l = o)
To(e) == {l \in Leads : file[l].email = e}

\* An interrupted delivery is not retried: one mail to each address as it is
\* spelled in the file, whatever command was killed where (payload).
OneMailPerSpelling == \A e \in Emails : MailedOnce(To(e))

\* One mail for a lead, in the face of another command running beside.
OneMailPerLead == \A l \in Leads : mailed[l] <= 1

\* One mail to each mailbox.
OneMailPerRecipient ==
    \A b \in {Recipient[e] : e \in Emails} :
        MailedOnce({l \in Leads : file[l].email \in Emails /\ Recipient[file[l].email] = b})

\* A mail goes out only for a lead the operator approved and whose draft the
\* operator released (apply_review before gmail_payload).
MailedWasReleased == \A l \in Leads : mailed[l] > 0 \/ l \in handed => l \in released /\ file[l].eligible

\* "sent" stands only where the connector has sent (record_receipt).
SentIsReal == \A l \in Leads : file[l].status \in {"sent", "bounced"} => mailed[l] > 0
=============================================================================
