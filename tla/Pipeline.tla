------------------------------ MODULE Pipeline ------------------------------
(***************************************************************************)
(* One live run of engine.HHAutopilot with its single sender: the          *)
(* coordinator thread (HHAutopilot.run) finds vacancies, hands the ready   *)
(* ones over (_DispatchPipeline.enqueue), drains, idles between passes and *)
(* closes the run; letters are prepared in a shared pool; the sender       *)
(* thread (_DispatchPipeline._consume) takes them from the queue and       *)
(* dispatches them one at a time.  What one dispatch does to the database  *)
(* is module Dispatch; here it is an outcome.                              *)
(*                                                                         *)
(* Items are numbered by rank: ready_items sorts best first, so a smaller  *)
(* number stands before a larger one in every window.                      *)
(***************************************************************************)
EXTENDS Naturals, FiniteSets, Sequences, FiniteSetsExt

CONSTANTS
    N,              \* number of vacancies the search can bring
    Limit,          \* limits.per_run_success
    Cap,            \* positions in preparation and queue (20 in the code)
    Passes,         \* passes of a continuous run
    MayLoseLease    \* whether the account lease may be lost during the run

PipelineAssumption ==
    /\ {N, Limit, Cap, Passes} \subseteq Nat \ {0}
    /\ MayLoseLease \in BOOLEAN

Items == 1 .. N
Close == 0                          \* the None that ends the sender

VARIABLES
    item,       \* the item's row: "absent", "ready", "applied", "gone"
    fresh,      \* counters.fresh_ranked of the coordinator
    queued,     \* pipeline.queued: handed over in this pass
    letters,    \* pipeline.preparing: item -> state of its future
    queue,      \* pipeline.queue
    undone,     \* queue.unfinished_tasks (without the closing None)
    seen,       \* the sender's counters.dispatch_seen
    sent,       \* the sender's counters.applied
    current,    \* the item the sender holds, or Close
    stop,       \* the pipeline's stop Event
    asked,      \* what the operator asked for: "none", "pause", "stop"
    lost,       \* the account lease is no longer ours
    status,     \* coordinator's status
    sstatus,    \* pipeline.status
    failed,     \* pipeline.error is set
    mpc, spc,   \* program counters of coordinator and sender
    pass,       \* pass of the continuous run
    row         \* status of the run's row

vars == <<item, fresh, queued, letters, queue, undone, seen, sent, current,
          stop, asked, lost, status, sstatus, failed, mpc, spc, pass, row>>

rows   == <<item, fresh, pass, row>>
hand   == <<queued, letters, queue, undone>>
sender == <<seen, sent, current, sstatus, failed, spc>>
world  == <<asked, lost>>

Ready == {i \in Items : item[i] = "ready"}

\* repository.ready_items: the n best ready items.
Window(n) == {i \in Ready : Cardinality({j \in Ready : j < i}) < n}

Statuses == {"completed", "interrupted", "failed"}

Init ==
    \* what an earlier run left ready, and what of it passed _refresh_ready
    /\ item \in [Items -> {"absent", "ready"}]
    /\ fresh \in SUBSET Window(Limit)
    /\ queued = {} /\ letters = [i \in Items |-> "none"]
    /\ queue = <<>> /\ undone = 0
    /\ seen = {} /\ sent = 0 /\ current = Close
    /\ stop = FALSE /\ asked = "none" /\ lost = FALSE
    /\ status = "completed" /\ sstatus = "completed" /\ failed = FALSE
    /\ mpc = "find" /\ spc = "check" /\ pass = 1 /\ row = "running"

----------------------------------------------------------------------------
(* What both threads read.                                                 *)

Preparing == {i \in Items : letters[i] # "none"}

\* _stop_requested of a live run: the pipeline's event, a stop of this run,
\* a pause or the kill switch.
StopRequested == stop \/ asked # "none"

----------------------------------------------------------------------------
(* The coordinator.                                                        *)

\* _discover and its relatives bring an item to ready and call on_ready.
Find ==
    /\ mpc = "find" /\ ~StopRequested
    /\ \E i \in Items :
          /\ item[i] = "absent"
          /\ item' = [item EXCEPT ![i] = "ready"]
          /\ fresh' = fresh \union {i}
    /\ mpc' = "offer"
    /\ UNCHANGED <<hand, sender, world, stop, status, pass, row>>

\* The search of this pass is over, or a stop cut it short.
FindEnds ==
    /\ mpc = "find"
    /\ mpc' = "drain"
    /\ UNCHANGED <<rows, hand, sender, world, stop, status>>

\* collect_letters: a prepared letter leaves the set; a failed one leaves an
\* event behind, the item stays ready.
Collected == [i \in Items |-> IF letters[i] \in {"done", "error"} THEN "none" ELSE letters[i]]

\* enqueue: the fresh ready items not handed over yet, best first, as long as
\* preparation and queue together hold fewer than Cap.
Room == LET used == Cardinality({i \in Items : Collected[i] # "none"}) + undone
        IN  IF used < Cap THEN Cap - used ELSE 0
OfferedAgain == {i \in Window(Limit) : i \in fresh /\ letters[i] = "none"}
Offered == {i \in Window(Limit) : i \in fresh /\ i \notin queued}
Taken == {i \in Offered : Cardinality({j \in Offered : j < i}) < Room}

Enqueue ==
    LET new == IF stop THEN {} ELSE Taken IN
    /\ queued' = queued \union new
    /\ letters' = [i \in Items |-> IF i \in new THEN "running" ELSE Collected[i]]
    /\ UNCHANGED <<queue, undone>>

\* dispatch_pending(drain=False), called for every item selected; it answers
\* whether the search goes on.
Offer ==
    /\ mpc = "offer" /\ ~lost
    /\ Enqueue
    /\ status' = sstatus
    /\ mpc' = IF stop THEN "drain" ELSE "find"
    /\ UNCHANGED <<rows, sender, world, stop>>

\* dispatch_pending(drain=True): hand over, drain, and again while the window
\* held items that had not been handed over.
DrainOffer ==
    /\ mpc = "drain" /\ ~lost /\ status = "completed"
    /\ Enqueue
    /\ mpc' = CASE stop -> "passed" [] Offered # {} -> "again" [] OTHER -> "last"
    /\ status' = IF stop THEN sstatus ELSE status
    /\ UNCHANGED <<rows, sender, world, stop>>

DrainSkipped ==
    /\ mpc = "drain" /\ status # "completed"
    /\ mpc' = "passed"
    /\ UNCHANGED <<rows, hand, sender, world, stop, status>>

\* drain(): waits for the pool and the sender, collecting letters, until both
\* are empty or the run is to stop.
Drained ==
    /\ mpc \in {"again", "last", "finish"} /\ ~lost
    /\ letters' = Collected
    /\ IF stop \/ (undone = 0 /\ \A i \in Items : Collected[i] = "none")
       THEN UNCHANGED stop
       ELSE asked # "none" /\ stop' = TRUE
    /\ mpc' = CASE mpc = "again" -> "drain" [] mpc = "last" -> "passed" [] OTHER -> "close"
    /\ status' = IF mpc = "last" THEN sstatus ELSE status
    /\ UNCHANGED <<rows, queued, queue, undone, sender, world>>

\* A continuous run idles for thirty seconds and starts the next pass with
\* cleared memory, looking again at the best of what is ready (_refresh_ready,
\* which may put an item off); every other run is over.
Passed ==
    /\ mpc = "passed"
    /\ \/ /\ pass < Passes /\ status = "completed" /\ ~StopRequested /\ sent < Limit /\ ~lost
          /\ pass' = pass + 1 /\ mpc' = "find"
          /\ queued' = {} /\ seen' = {}
          /\ fresh' \in SUBSET Window(Limit)
          /\ UNCHANGED status
       \/ /\ pass < Passes /\ status = "completed" /\ StopRequested
          /\ status' = "interrupted" /\ mpc' = "final"
          /\ UNCHANGED <<pass, queued, seen, fresh>>
       \/ /\ mpc' = "final"
          /\ pass = Passes \/ status # "completed" \/ StopRequested \/ sent >= Limit
          /\ UNCHANGED <<pass, queued, seen, fresh, status>>
    /\ UNCHANGED <<item, row, letters, queue, undone, sent, current, sstatus, failed, spc, stop, world>>

\* _touch_lease raises LostLease in the body of the run ...
BodyLosesLease ==
    /\ mpc \in {"offer", "drain", "again", "last"} \/ (mpc = "passed" /\ pass < Passes)
    /\ lost
    /\ status' = "interrupted" /\ mpc' = "final"
    /\ UNCHANGED <<rows, hand, sender, world, stop>>

\* ... or in the drain of finish(), which then is called again with cancel.
FinishLosesLease ==
    /\ mpc = "finish" /\ lost
    /\ status' = "failed" /\ stop' = TRUE /\ mpc' = "close"
    /\ UNCHANGED <<rows, hand, sender, world>>

\* finally: finish(cancel): cancel when the run did not complete or was stopped.
Final ==
    /\ mpc = "final"
    /\ IF status # "completed" \/ asked = "stop"
       THEN stop' = TRUE /\ mpc' = "close"
       ELSE UNCHANGED stop /\ mpc' = "finish"
    /\ UNCHANGED <<rows, hand, sender, world, status>>

\* Futures not started yet are cancelled and the sender is told to end.
CloseQueue ==
    /\ mpc = "close"
    /\ \E dropped \in SUBSET {i \in Items : letters[i] = "running"} :
          letters' = [i \in Items |-> IF i \in dropped THEN "none" ELSE letters[i]]
    /\ queue' = Append(queue, Close)
    /\ mpc' = "join"
    /\ UNCHANGED <<rows, queued, undone, sender, world, stop, status>>

\* while thread.is_alive(): join(0.2); _touch_lease
Join ==
    /\ mpc = "join" /\ spc = "ended"
    /\ status' = IF failed THEN "failed" ELSE IF status = "completed" THEN sstatus ELSE status
    /\ mpc' = "record"
    /\ UNCHANGED <<rows, hand, sender, world, stop>>

\* A lease that is lost here leaves the run through its finally clause.
JoinLosesLease ==
    /\ mpc = "join" /\ spc # "ended" /\ lost
    /\ mpc' = "raised"
    /\ UNCHANGED <<rows, hand, sender, world, stop, status>>

\* The pool is shut down and the row is closed; the fence is checked unless
\* the run was interrupted by the loss of its lease.
Record ==
    /\ mpc = "record" /\ \A i \in Items : letters[i] # "running"
    /\ IF lost /\ status # "interrupted"
       THEN mpc' = "raised" /\ UNCHANGED row
       ELSE mpc' = "ended" /\ row' = status
    /\ UNCHANGED <<item, fresh, pass, hand, sender, world, stop, status>>

----------------------------------------------------------------------------
(* A letter being prepared in the pool (prepare_and_enqueue).              *)

\* The item goes into the queue unless the run is stopping.
LetterReady(i) ==
    /\ letters[i] = "running"
    /\ letters' = [letters EXCEPT ![i] = "done"]
    /\ IF stop THEN UNCHANGED <<queue, undone>>
       ELSE queue' = Append(queue, i) /\ undone' = undone + 1
    /\ UNCHANGED <<rows, queued, sender, world, stop, status, mpc>>

LetterFails(i) ==
    /\ letters[i] = "running"
    /\ letters' = [letters EXCEPT ![i] = "error"]
    /\ UNCHANGED <<rows, queued, queue, undone, sender, world, stop, status, mpc>>

----------------------------------------------------------------------------
(* The sender (_consume).                                                  *)

SenderChecks ==
    /\ spc = "check"
    /\ IF StopRequested
       THEN sstatus' = "interrupted" /\ stop' = TRUE /\ spc' = "ended"
       ELSE UNCHANGED <<sstatus, stop>> /\ spc' = "get"
    /\ UNCHANGED <<rows, hand, seen, sent, current, failed, world, status, mpc>>

\* queue.get(timeout=0.2): an item, the closing None, or nothing.
SenderGets ==
    /\ spc = "get"
    /\ IF queue = <<>> THEN spc' = "check" /\ UNCHANGED <<queue, current>>
       ELSE /\ queue' = Tail(queue) /\ current' = Head(queue)
            /\ spc' = IF Head(queue) = Close THEN "ended" ELSE "dispatch"
    /\ UNCHANGED <<rows, queued, letters, undone, seen, sent, sstatus, failed, world, stop, status, mpc>>

\* _dispatch of one item: the window of ready items is recomputed, and an item
\* outside of it is passed over without a word.
InWindow == current \in Window(Limit + Cardinality(seen))

Outcomes == {"applied", "gone", "ready"}

Dispatched ==
    /\ spc = "dispatch"
    /\ \/ /\ ~StopRequested /\ sent < Limit /\ InWindow /\ ~lost
          /\ seen' = seen \union {current}
          /\ \E out \in Outcomes :
                /\ item' = [item EXCEPT ![current] = out]
                /\ sent' = IF out = "applied" THEN sent + 1 ELSE sent
          /\ sstatus' = "completed"
       \/ /\ ~StopRequested /\ (sent >= Limit \/ ~InWindow)
          /\ sstatus' = "completed"
          /\ UNCHANGED <<item, seen, sent>>
       \/ \* a stop, a cooldown or a refused authorization
          /\ sstatus' = "interrupted"
          /\ StopRequested \/ InWindow
          /\ UNCHANGED <<item, seen, sent>>
    /\ undone' = undone - 1 /\ current' = Close
    /\ spc' = "after"
    /\ UNCHANGED <<fresh, pass, row, queued, letters, queue, failed, world, stop, status, mpc>>

\* An error of HH access or a lost lease leaves the loop through task_done and
\* then through the handler around it.
SenderRaises ==
    /\ spc = "dispatch" /\ ~StopRequested /\ sent < Limit /\ InWindow
    /\ undone' = undone - 1 /\ current' = Close
    /\ spc' = "broken"
    /\ UNCHANGED <<rows, queued, letters, queue, seen, sent, sstatus, failed, world, stop, status, mpc>>

FailsSilently ==
    /\ spc = "broken"
    /\ sstatus' = "failed" /\ failed' = TRUE
    /\ spc' = "ended"
    /\ UNCHANGED <<rows, hand, seen, sent, current, stop, world, status, mpc>>

SenderFails ==
    /\ spc = "broken"
    /\ sstatus' = "failed" /\ failed' = TRUE /\ stop' = TRUE
    /\ spc' = "ended"
    /\ UNCHANGED <<rows, hand, seen, sent, current, world, status, mpc>>

SenderAfter ==
    /\ spc = "after"
    /\ IF sstatus # "completed" \/ sent >= Limit
       THEN stop' = TRUE /\ spc' = "ended"
       ELSE UNCHANGED stop /\ spc' = "check"
    /\ UNCHANGED <<rows, hand, seen, sent, current, sstatus, failed, world, status, mpc>>

----------------------------------------------------------------------------
(* The operator and the lease.                                             *)

Ask ==
    /\ asked = "none"
    /\ asked' \in {"pause", "stop"}
    /\ UNCHANGED <<rows, hand, sender, lost, stop, status, mpc>>

LoseLease ==
    /\ MayLoseLease /\ ~lost
    /\ lost' = TRUE
    /\ UNCHANGED <<rows, hand, sender, asked, stop, status, mpc>>

Main == \/ Find \/ FindEnds \/ Offer \/ DrainOffer \/ DrainSkipped \/ Drained
        \/ Passed \/ BodyLosesLease \/ FinishLosesLease \/ Final \/ CloseQueue
        \/ Join \/ JoinLosesLease \/ Record
Letter(i) == LetterReady(i) \/ LetterFails(i)
Sender == SenderChecks \/ SenderGets \/ Dispatched \/ SenderRaises \/ SenderFails \/ SenderAfter

Next ==
    \/ Main
    \/ \E i \in Items : Letter(i)
    \/ Sender
    \/ Ask
    \/ LoseLease

Spec == Init /\ [][Next]_vars

\* Threads that can run do run; a letter ends because the model's call has a
\* timeout.  Neither the operator nor the loss of the lease is assumed.
FairSpec ==
    /\ Spec
    /\ WF_vars(Main) /\ WF_vars(Sender)
    /\ \A i \in Items : WF_vars(Letter(i))

----------------------------------------------------------------------------
(* Properties.                                                             *)

\* Types of the variables of one run.
TypeOK ==
    /\ item \in [Items -> {"absent", "ready", "applied", "gone"}]
    /\ fresh \subseteq Items /\ queued \subseteq Items /\ seen \subseteq Items
    /\ letters \in [Items -> {"none", "running", "done", "error"}]
    /\ queue \in Seq(Items \union {Close}) /\ undone \in Nat /\ sent \in 0 .. Limit
    /\ current \in Items \union {Close}
    /\ {stop, lost, failed} \subseteq BOOLEAN /\ asked \in {"none", "pause", "stop"}
    /\ {status, sstatus} \subseteq Statuses /\ row \in Statuses \union {"running"}
    /\ mpc \in {"find", "offer", "drain", "again", "last", "passed", "finish", "final",
                "close", "join", "record", "ended", "raised"}
    /\ spc \in {"check", "get", "dispatch", "after", "broken", "ended"}
    /\ pass \in 1 .. Passes

Members(q) == {q[n] : n \in DOMAIN q}
Waiting == (Preparing \union Members(queue) \union {current}) \ {Close}

\* Preparation and queue never hold more than Cap items (docs/hh-autopilot.md,
\* "no more than 20 positions"), whatever the pool and the sender do between
\* two counts of the coordinator.
BoundedHandover == Cardinality(Waiting) <= Cap

\* One item is never with the sender and still on its way to it, nor twice in
\* the queue: clearing the memory of a pass happens only when all is drained.
NoItemTwice ==
    /\ \A m, n \in DOMAIN queue : m # n => queue[m] # queue[n]
    /\ current # Close => current \notin Members(queue)

\* A run that ended leaves nothing behind: its sender has ended, and what it
\* recorded is what happened: a run recorded as completed met no failure.
EndedRunIsQuiet ==
    mpc = "ended" =>
        /\ spc = "ended"
        /\ \A i \in Items : letters[i] # "running"
        /\ row # "running"
        /\ row = "completed" => ~failed

\* A stop, a lost lease or a failure never leaves the coordinator waiting for a
\* sender that is gone, or the sender waiting for a coordinator: every run
\* ends, by its record or by the exception of a lost lease.
BothEnded == mpc \in {"ended", "raised"} /\ spc = "ended"
RunEnds == <>BothEnded

\* docs/hh-autopilot.md: the coordinator puts the item chosen for every prepared
\* vacancy into the sender's queue, and the one sender prepares, checks and
\* sends it.  An item the sender takes while the run goes on and below its
\* limit is looked at.
TakenIsHandled ==
    spc = "dispatch" /\ spc' = "after" /\ sstatus' = "completed" /\ sent < Limit
         => current \in seen'
=============================================================================
