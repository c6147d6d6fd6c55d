------------------------------- MODULE Replies -------------------------------
(***************************************************************************)
(* Answers to an employer in one chat.  Three commands write into it: the  *)
(* automatic reply (reply_hh_employers), the same over the Chatik site     *)
(* (reply_hh_chatik), and a reply the operator plans, lets be approved if  *)
(* it is risky, and confirms (plan_hh_reply, confirm_hh_reply).  Each      *)
(* remembers what it did as rows of hh_agent_outbox, written after the     *)
(* sending; a question the AI cannot answer goes to the approval queue.    *)
(* A message is known by its place in the thread, its fingerprint.         *)
(***************************************************************************)
EXTENDS Naturals, Sequences, FiniteSets

CONSTANTS
    Procs,          \* commands that may run side by side
    MaxThread,      \* bound: messages in the chat
    MaxRows,        \* bound: rows of the outbox
    MaxApprovals    \* bound: entries of the approval queue

RepliesAssumption == MaxThread \in Nat /\ MaxRows \in Nat /\ MaxApprovals \in Nat

VARIABLES
    thread,         \* the chat as HH keeps it
    seen,           \* the employer has read our last message
    keys,           \* idempotency keys the Chatik site has taken
    outbox,         \* rows of hh_agent_outbox, by id
    approvals,      \* rows of hh_pending_messages, by id
    run,            \* what each command is doing
    granted,        \* <<approval, text>> the operator has approved
    refused,        \* approvals the operator has ever rejected
    closed          \* the chat was left
vars == <<thread, seen, keys, outbox, approvals, run, granted, refused, closed>>

Questions == {"plain", "salary"}       \* what an employer writes; "salary" is risky
Idle == [pc |-> "idle"]
Mine(ch, f, t, a) == [by |-> "me", ch |-> ch, for |-> f, text |-> t, approval |-> a]
Theirs(q) == [by |-> "employer", text |-> q]

Init ==
    /\ thread = <<>> /\ seen = FALSE /\ keys = {}
    /\ outbox = <<>> /\ approvals = <<>>
    /\ run = [p \in Procs |-> Idle]
    /\ granted = {} /\ refused = {} /\ closed = FALSE

\* _last_text_message and its fingerprint.
Fingerprint == Len(thread)
Last == thread[Fingerprint]
Awaiting == thread # <<>> /\ Last.by = "employer"

SentFor(ch) == {outbox[i].for : i \in {j \in DOMAIN outbox : outbox[j].ch = ch /\ outbox[j].status = "sent"}}

----------------------------------------------------------------------------
(* The approval queue (hh_agent/approval.py).                              *)

\* _approved_reply_answer: an answer approved for this question before.
Answered(q) == {i \in DOMAIN approvals : /\ approvals[i].kind = "question" /\ approvals[i].key = q
                                         /\ approvals[i].status = "approved" /\ approvals[i].text # "none"}

\* _queue_reply_question: one entry for one question, whatever became of it.
QueueQuestion(q) ==
    IF \E i \in DOMAIN approvals : approvals[i].kind = "question" /\ approvals[i].key = q
    THEN UNCHANGED approvals
    ELSE /\ Len(approvals) < MaxApprovals
         /\ approvals' = Append(approvals, [kind |-> "question", key |-> q, status |-> "pending", text |-> "none"])

----------------------------------------------------------------------------
(* Planning: a command reads the chat and the outbox and keeps its reply.  *)

\* reply_hh_employers.  An own message is followed up if it was not read and
\* no automatic reply was ever recorded in this chat.
AutoWants ==
    /\ thread # <<>>
    /\ IF Awaiting THEN Fingerprint \notin SentFor("auto")
                   ELSE SentFor("auto") = {} /\ ~seen
\* reply_hh_chatik lists chats whose last message is not ours.
ChatikWants == Awaiting /\ ~closed /\ Fingerprint \notin SentFor("chatik")

\* An approved answer first, then the AI or the template; a draft that fails
\* becomes a question.
Draft(p, ch) ==
    \/ /\ \E t \in (IF Answered(Last.text) # {} THEN {"answer"} ELSE {"draft"}) :
            run' = [run EXCEPT ![p] = [pc |-> "send", ch |-> ch, for |-> Fingerprint, text |-> t, row |-> 0]]
       /\ UNCHANGED approvals
    \/ /\ Answered(Last.text) = {} /\ QueueQuestion(Last.text) /\ UNCHANGED run

PlanAuto(p) ==
    /\ run[p] = Idle /\ AutoWants /\ Draft(p, "auto")
    /\ UNCHANGED <<thread, seen, keys, outbox, granted, refused, closed>>
PlanChatik(p) ==
    /\ run[p] = Idle /\ ChatikWants /\ Draft(p, "chatik")
    /\ UNCHANGED <<thread, seen, keys, outbox, granted, refused, closed>>

\* plan_reply: nothing if this message was ever planned for or no reply is
\* due.  Without a template, or for a risky message, the plan is held
\* (should_escalate): first the approval is written, then the plan.
Planned(f) == \E i \in DOMAIN outbox : outbox[i].ch = "plan" /\ outbox[i].for = f
PlanRow(f, s, t, a) == [ch |-> "plan", for |-> f, status |-> s, text |-> t, approval |-> a]
Escalates(t) == t = "none" \/ Last.text = "salary"
PlanReply(p) ==
    /\ run[p] = Idle /\ Awaiting /\ ~Planned(Fingerprint) /\ Len(outbox) < MaxRows
    /\ \E t \in {"draft", "none"} :
         IF Escalates(t)
         THEN /\ Len(approvals) < MaxApprovals
              /\ approvals' = Append(approvals, [kind |-> "reply", key |-> Last.text, status |-> "pending", text |-> t])
              /\ run' = [run EXCEPT ![p] = [pc |-> "hold", for |-> Fingerprint, text |-> t, approval |-> Len(approvals')]]
              /\ UNCHANGED outbox
         ELSE /\ \E s \in {"planned", "scheduled"} : outbox' = Append(outbox, PlanRow(Fingerprint, s, t, 0))
              /\ UNCHANGED <<approvals, run>>
    /\ UNCHANGED <<thread, seen, keys, granted, refused, closed>>
HoldPlan(p) ==
    /\ run[p].pc = "hold" /\ Len(outbox) < MaxRows
    /\ outbox' = Append(outbox, PlanRow(run[p].for, "pending_approval", run[p].text, run[p].approval))
    /\ run' = [run EXCEPT ![p] = Idle]
    /\ UNCHANGED <<thread, seen, keys, approvals, granted, refused, closed>>

\* confirm_hh_reply, up to the sending.
Confirmable(row) == row.ch = "plan" /\ row.status \notin {"sent", "pending_approval"}
Confirm(p) ==
    /\ run[p] = Idle
    /\ \E i \in DOMAIN outbox :
         /\ Confirmable(outbox[i])
         /\ run' = [run EXCEPT ![p] = [pc |-> "send", ch |-> "plan", for |-> outbox[i].for,
                                       text |-> outbox[i].text, row |-> i]]
    /\ UNCHANGED <<thread, seen, keys, outbox, approvals, granted, refused, closed>>

----------------------------------------------------------------------------
(* Sending and recording.                                                  *)

\* The key of a Chatik message is made from the account, the chat and the
\* fingerprint; the other site has none.
Key(r) == IF r.ch = "chatik" THEN {r.for} ELSE {}
Approval(r) == IF r.row = 0 THEN 0 ELSE outbox[r.row].approval

\* The site takes the message or not, and the answer is "ok", a refusal or
\* lost.  It refuses an empty one, and drops one whose key it knows.
Send(p) ==
    /\ run[p].pc = "send"
    /\ LET r == run[p] IN
       \/ /\ r.text # "none"
          /\ IF Key(r) # {} /\ Key(r) \subseteq keys THEN UNCHANGED <<thread, seen, keys>>
             ELSE /\ Len(thread) < MaxThread
                  /\ thread' = Append(thread, Mine(r.ch, r.for, r.text, Approval(r)))
                  /\ seen' = FALSE /\ keys' = keys \cup Key(r)
          /\ \E ok \in BOOLEAN : run' = [run EXCEPT ![p].pc = IF ok THEN "sent" ELSE "error"]
       \/ /\ run' = [run EXCEPT ![p].pc = "error"]
          /\ UNCHANGED <<thread, seen, keys>>
    /\ UNCHANGED <<outbox, approvals, granted, refused, closed>>

\* The row is written with what the command believes; a plan's row is updated.
\* An error row of the automatic commands is left out: nobody reads it.
Row(r, s) == [ch |-> r.ch, for |-> r.for, status |-> s, text |-> "none", approval |-> 0]
Record(p) ==
    /\ run[p].pc \in {"sent", "error"}
    /\ LET r == run[p] IN
       IF r.row = 0
       THEN \/ r.pc = "error" /\ UNCHANGED outbox
            \/ r.pc = "sent" /\ Len(outbox) < MaxRows /\ outbox' = Append(outbox, Row(r, r.pc))
       ELSE outbox' = [outbox EXCEPT ![r.row].status = r.pc, ![r.row].text = r.text]
    /\ run' = [run EXCEPT ![p] = Idle]
    /\ UNCHANGED <<thread, seen, keys, approvals, granted, refused, closed>>

\* A command is killed; what it has not written is lost.
Killed(p) ==
    /\ run[p] # Idle /\ run' = [run EXCEPT ![p] = Idle]
    /\ UNCHANGED <<thread, seen, keys, outbox, approvals, granted, refused, closed>>

\* reply_hh_chatik also leaves a chat that has ended in a refusal, once.
Leave ==
    /\ Awaiting /\ ~closed /\ closed' = TRUE
    /\ UNCHANGED <<thread, seen, keys, outbox, approvals, run, granted, refused>>

----------------------------------------------------------------------------
(* The operator decides on an approval.                                    *)

Linked(a) == {i \in DOMAIN outbox : outbox[i].ch = "plan" /\ outbox[i].approval = a /\ outbox[i].status = "pending_approval"}

\* approve_hh_approval: the plan takes over the text of the approval; killed
\* between the two writes, the plan stays held.
TakesOver(a, i) == [outbox[i] EXCEPT !.status = "planned", !.text = approvals[a].text]
Approve(a) ==
    /\ approvals[a].text # "none" \/ (approvals[a].kind = "reply" /\ Linked(a) = {})
    /\ approvals' = [approvals EXCEPT ![a].status = "approved"]
    /\ granted' = granted \cup {<<a, approvals[a].text>>}
    /\ \/ outbox' = [i \in DOMAIN outbox |-> IF i \in Linked(a) THEN TakesOver(a, i) ELSE outbox[i]]
       \/ UNCHANGED outbox
    /\ UNCHANGED <<thread, seen, keys, run, refused, closed>>
\* reject_hh_approval, and modify and flag, which touch the approval alone.
Reject(a) ==
    /\ approvals' = [approvals EXCEPT ![a].status = "rejected"]
    /\ refused' = refused \cup {a}
    /\ outbox' = [i \in DOMAIN outbox |->
                    IF i \in Linked(a) THEN [outbox[i] EXCEPT !.status = "cancelled"] ELSE outbox[i]]
    /\ UNCHANGED <<thread, seen, keys, run, granted, closed>>
Modify(a) ==
    /\ \/ approvals' = [approvals EXCEPT ![a].status = "modified", ![a].text = "edited"]
       \/ approvals' = [approvals EXCEPT ![a].status = "flagged"]
    /\ UNCHANGED <<thread, seen, keys, outbox, run, granted, refused, closed>>

----------------------------------------------------------------------------
(* The employer.                                                           *)

Employer ==
    \/ /\ Len(thread) < MaxThread
       /\ \E q \in Questions : thread' = Append(thread, Theirs(q))
       /\ UNCHANGED <<seen, keys, outbox, approvals, run, granted, refused, closed>>
    \/ /\ thread # <<>> /\ ~seen /\ seen' = TRUE
       /\ UNCHANGED <<thread, keys, outbox, approvals, run, granted, refused, closed>>

Next ==
    \/ \E p \in Procs : \/ PlanAuto(p) \/ PlanChatik(p) \/ PlanReply(p) \/ HoldPlan(p) \/ Confirm(p)
                        \/ Send(p) \/ Record(p) \/ Killed(p)
    \/ \E a \in DOMAIN approvals : Approve(a) \/ Reject(a) \/ Modify(a)
    \/ Leave \/ Employer
Spec == Init /\ [][Next]_vars

----------------------------------------------------------------------------
Ours(ch) == {i \in DOMAIN thread : thread[i].by = "me" /\ thread[i].ch = ch}

\* However often a Chatik reply is retried, after a lost answer, a kill or by
\* a second command, the employer reads one (reply_hh_chatik, its stable key).
ChatikOnce == \A i, j \in Ours("chatik") : thread[i].for = thread[j].for => i = j

\* What goes out for a held plan is a text the operator has approved, unless
\* a rejection took the plan out of the queue (plan_reply, approve_hh_approval,
\* confirm_hh_reply).
HeldUntilApproved ==
    \A i \in Ours("plan") : LET a == thread[i].approval IN
        a # 0 /\ a \notin refused => <<a, thread[i].text>> \in granted

\* A reply the outbox calls sent is in the chat (the row follows the answer).
SentRowIsReal ==
    \A k \in DOMAIN outbox : outbox[k].status = "sent" =>
        \E i \in Ours(outbox[k].ch) : thread[i].for = outbox[k].for

\* The automatic reply answers an employer's message once.
OneReplyPerMessage ==
    \A i, j \in Ours("auto") : i < j => \E k \in (i + 1)..(j - 1) : thread[k].by = "employer"

\* A plan is sent once, however often it is confirmed.
PlanSentOnce == \A i, j \in Ours("plan") : thread[i].for = thread[j].for => i = j

\* Nothing is sent while its rejection stands.
RejectedIsNotSent ==
    \A i \in DOMAIN thread' \ DOMAIN thread :
          LET m == thread'[i] IN
          m.by = "me" /\ m.approval # 0 => approvals[m.approval].status # "rejected"
=============================================================================
