------------------------------- MODULE Outbox -------------------------------
(***************************************************************************)
(* The notification outbox of the scheduler tick: events that call for the *)
(* operator (open challenges, failed runs) become one delivery per sink in *)
(* SQLite, and every tick sends what is due.  Ticks of two processes may   *)
(* overlap, a sink may fail, a process may die between any two steps.      *)
(*                                                                         *)
(* Times are kept as the number of steps a delivery still has to wait: a   *)
(* failed send sets next_attempt_at from the instant the tick began, so    *)
(* any part of the delay may already be over when the row is written.      *)
(***************************************************************************)
EXTENDS Naturals, FiniteSets, Sequences, SequencesExt

CONSTANTS
    Challenges,     \* challenge events that may be opened
    Failures,       \* failed runs that may appear
    Sinks,          \* configured notification sinks
    Tickers,        \* processes that may be in a tick
    Batch,          \* LIMIT of due_notification_deliveries (100 in the code)
    MaxDelay,       \* cap of the exponential delay, in steps
    SinkFailures,   \* how often sends fail
    MayCrash        \* whether a process may die in a tick

OutboxAssumption ==
    /\ Challenges \intersect Failures = {}
    /\ IsFiniteSet(Challenges) /\ IsFiniteSet(Failures)
    /\ IsFiniteSet(Sinks) /\ IsFiniteSet(Tickers)
    /\ {Batch, MaxDelay} \subseteq Nat \ {0} /\ SinkFailures \in Nat
    /\ MayCrash \in BOOLEAN

Events == Challenges \union Failures
Kinds == {"challenge", "run_failure"}
KindOf(e) == IF e \in Challenges THEN "challenge" ELSE "run_failure"

VARIABLES
    open,       \* events that exist: open challenges, runs recorded as failed
    enabled,    \* notifications.challenge and notifications.run_failure
    rows,       \* hh_autopilot_notification_deliveries, in the order of their ids
    tick,       \* per process: where it is and what it holds
    fails,      \* sends that may still fail
    sends       \* per event and sink: how often the sink accepted it (saturates at 2)

vars == <<open, enabled, rows, tick, fails, sends>>

Idle == [at |-> "idle", kinds |-> {}, found |-> {}, batch |-> {}]

Init ==
    /\ open = {} /\ enabled = Kinds
    /\ rows = <<>> /\ fails = SinkFailures
    /\ tick = [t \in Tickers |-> Idle]
    /\ sends = [e \in Events |-> [s \in Sinks |-> 0]]

----------------------------------------------------------------------------
(* The rest of the program.                                                *)

Appears(e) ==
    /\ e \notin open
    /\ open' = open \union {e}
    /\ UNCHANGED <<enabled, rows, tick, fails, sends>>

\* A challenge is resolved, dismissed or expires.
Closes(e) ==
    /\ e \in open \intersect Challenges
    /\ open' = open \ {e}
    /\ UNCHANGED <<enabled, rows, tick, fails, sends>>

\* The operator turns one kind of notification off.
TurnOff(kind) ==
    /\ kind \in enabled
    /\ enabled' = enabled \ {kind}
    /\ UNCHANGED <<open, rows, tick, fails, sends>>

TimePasses ==
    /\ \E n \in DOMAIN rows : rows[n].wait > 0
    /\ rows' = [n \in DOMAIN rows |->
                  [rows[n] EXCEPT !.wait = IF @ > 0 THEN @ - 1 ELSE 0]]
    /\ UNCHANGED <<open, enabled, tick, fails, sends>>

----------------------------------------------------------------------------
(* One tick (_deliver_notifications).                                      *)

HasRow(e, s) == \E n \in DOMAIN rows : rows[n].event = e /\ rows[n].sink = s

\* enqueue_notification_candidates reads the events that lack a delivery for
\* some sink ...
Scan(t) ==
    /\ tick[t].at = "idle" /\ enabled # {}
    /\ tick' = [tick EXCEPT ![t] =
                  [Idle EXCEPT !.at = "scanned", !.kinds = enabled,
                     !.found = {e \in open : KindOf(e) \in enabled
                                             /\ \E s \in Sinks : ~HasRow(e, s)}]]
    /\ UNCHANGED <<open, enabled, rows, fails, sends>>

\* ... and inserts in one transaction what is still missing
\* (ON CONFLICT (event_key, sink_key) DO NOTHING).
Missing(found) == {p \in found \X Sinks : ~HasRow(p[1], p[2])}

Insert(t) ==
    /\ tick[t].at = "scanned"
    /\ rows' = rows \o [n \in 1 .. Cardinality(Missing(tick[t].found)) |->
                          LET p == SetToSeq(Missing(tick[t].found))[n]
                          IN  [event |-> p[1], sink |-> p[2], status |-> "pending",
                               tries |-> 0, wait |-> 0]]
    /\ tick' = [tick EXCEPT ![t].at = "inserted"]
    /\ UNCHANGED <<open, enabled, fails, sends>>

DueFirst(n) == rows[n].status = "pending" /\ rows[n].tries = 0
Due(n) == rows[n].status = "pending" /\ rows[n].wait = 0

\* due_notification_deliveries: the oldest Batch that are due.
Read(t) ==
    /\ tick[t].at = "inserted"
    /\ LET due == {n \in DOMAIN rows : Due(n)}
           before(n) == {m \in due : m < n}
       IN  tick' = [tick EXCEPT ![t].at = "sending",
                      ![t].batch = {n \in due : Cardinality(before(n)) < Batch}]
    /\ UNCHANGED <<open, enabled, rows, fails, sends>>

\* The delivery a tick is at, and its batch when that one is done.
Current(t) == Min(tick[t].batch)
Rest(t) == tick[t].batch \ {Current(t)}

\* A delivery of a kind that is turned off stays pending.
Pass(t) ==
    /\ tick[t].at = "sending" /\ tick[t].batch # {}
    /\ KindOf(rows[Current(t)].event) \notin tick[t].kinds
    /\ tick' = [tick EXCEPT ![t].batch = Rest(t)]
    /\ UNCHANGED <<open, enabled, rows, fails, sends>>

\* The count of acceptances stops at two.
Counted(n) == IF n = 0 THEN 1 ELSE 2

\* sink.send answers; the row is not written yet.
Send(t) ==
    /\ tick[t].at = "sending" /\ tick[t].batch # {}
    /\ LET row == rows[Current(t)] IN
       /\ KindOf(row.event) \in tick[t].kinds
       /\ \/ /\ sends' = [sends EXCEPT ![row.event][row.sink] = Counted(@)]
             /\ tick' = [tick EXCEPT ![t].at = "accepted"]
             /\ UNCHANGED fails
          \/ /\ fails > 0 /\ fails' = fails - 1
             /\ tick' = [tick EXCEPT ![t].at = "refused"]
             /\ UNCHANGED sends
    /\ UNCHANGED <<open, enabled, rows>>

\* mark_notification_sent
MarkSent(t) ==
    /\ tick[t].at = "accepted"
    /\ rows' = [rows EXCEPT ![Current(t)].status = "sent"]
    /\ tick' = [tick EXCEPT ![t].at = "sending", ![t].batch = Rest(t)]
    /\ UNCHANGED <<open, enabled, fails, sends>>

\* The delay doubles with each try, up to MaxDelay; some of it may be over.
Delays(tries) == {left \in 0 .. MaxDelay : left <= 2 ^ tries}

\* mark_notification_failed: a delivery another tick has sent stays as it is.
MarkFailed(t) ==
    /\ tick[t].at = "refused"
    /\ LET n == Current(t) IN
       IF rows[n].status = "sent" THEN UNCHANGED rows
       ELSE \E left \in Delays(rows[n].tries) :
              rows' = [rows EXCEPT ![n].wait = left,
                          ![n].tries = IF rows[n].tries < MaxDelay THEN rows[n].tries + 1
                                       ELSE rows[n].tries]
    /\ tick' = [tick EXCEPT ![t].at = "sending", ![t].batch = Rest(t)]
    /\ UNCHANGED <<open, enabled, fails, sends>>

TickEnds(t) ==
    /\ tick[t].at = "sending" /\ tick[t].batch = {}
    /\ tick' = [tick EXCEPT ![t] = Idle]
    /\ UNCHANGED <<open, enabled, rows, fails, sends>>

Crash(t) ==
    /\ MayCrash /\ tick[t].at # "idle"
    /\ tick' = [tick EXCEPT ![t] = Idle]
    /\ UNCHANGED <<open, enabled, rows, fails, sends>>

Tick(t) == \/ Scan(t) \/ Insert(t) \/ Read(t) \/ Pass(t) \/ Send(t)
           \/ MarkSent(t) \/ MarkFailed(t) \/ TickEnds(t)

Next ==
    \/ \E e \in Events : Appears(e) \/ Closes(e)
    \/ \E kind \in Kinds : TurnOff(kind)
    \/ TimePasses
    \/ \E t \in Tickers : Tick(t) \/ Crash(t)

Spec == Init /\ [][Next]_vars

\* The task scheduler keeps starting ticks and time goes on; sinks fail a
\* bounded number of times.
FairSpec ==
    /\ Spec
    /\ WF_vars(TimePasses)
    /\ \A t \in Tickers : WF_vars(Tick(t))

----------------------------------------------------------------------------
(* Properties.                                                             *)

\* Types of the rows and of the ticks.
TypeOK ==
    /\ open \subseteq Events /\ enabled \subseteq Kinds
    /\ rows \in Seq([event : Events, sink : Sinks, status : {"pending", "sent"},
                     tries : 0 .. MaxDelay, wait : 0 .. MaxDelay])
    /\ \A t \in Tickers :
          /\ tick[t].at \in {"idle", "scanned", "inserted", "sending", "accepted", "refused"}
          /\ tick[t].at \in {"accepted", "refused"} => tick[t].batch # {}
    /\ fails \in 0 .. SinkFailures
    /\ sends \in [Events -> [Sinks -> 0 .. 2]]

\* Overlapping ticks never give an event two deliveries to one sink.
OneRowPerSink ==
    \A m, n \in DOMAIN rows :
        rows[m].event = rows[n].event /\ rows[m].sink = rows[n].sink => m = n

\* What is recorded as sent was accepted by the sink, in spite of crashes,
\* failing sinks and ticks that overlap.
SentIsReal ==
    \A n \in DOMAIN rows :
        rows[n].status = "sent" => sends[rows[n].event][rows[n].sink] > 0

\* A channel that works gets every event once: the outbox records success per
\* sink, and a sink that fails is repeated alone (docs/hh-autopilot.md, "a
\* successful channel is not duplicated").
DeliveredOnce == \A e \in Events, s \in Sinks : sends[e][s] < 2

\* A delivery of a kind that is not turned off is sent in the end, however the
\* sinks fail before and whatever else waits in the outbox.
EnabledIsDelivered ==
    \A e \in Events, s \in Sinks :
        []((HasRow(e, s) /\ [](KindOf(e) \in enabled)) => <>(sends[e][s] > 0))
=============================================================================
