------------------------------- MODULE StreamJobs -------------------------------
(***************************************************************************)
(* CdcUserEventCountJob ("live"), BackfillJob ("backfill") and             *)
(* DlqReprocessingJob over the topic of CDC messages, the Iceberg table    *)
(* and the topic of counts.                                                *)
(*                                                                         *)
(* One partition, one subtask per operator.  What Flink does around the    *)
(* code is external: a job's record is its state, and what its operators   *)
(* have emitted so far; a checkpoint saves it, a restart goes back to it.  *)
(* What a Kafka sink has taken stays: it follows no checkpoint.            *)
(* A watermark fires the windows that are due before the next message.     *)
(* Arrival times in the topic are positions.                               *)
(***************************************************************************)
EXTENDS CdcSchema

CONSTANTS Window,    \* WINDOW_SIZE_SECONDS
          Lag,       \* OUT_OF_ORDERNESS_SECONDS
          Horizon,   \* bound: no message has a later time, and the clock stops there
          MaxFails,  \* bound: crashes of the jobs
          MinCount, DeltaPercent, SkewPercent,  \* DRIFT_MIN_WINDOW_COUNT and the thresholds
          JobSettings

StreamJob == {"live", "backfill"}

\* The messages in the order they are produced and how many are there at first,
\* when, the jobs that are submitted, COLUMN_ALIASES of the two jobs and of the
\* DLQ job, the backfill's mode and range, ICEBERG_ENABLED, ICEBERG_CATALOG_TYPE and
\* whether there is an ICEBERG_REST_URI, and whether jobs crash.
JobCircumstances(messages) ==
    [feed : Seq(messages), present : Nat, start : Nat, jobs : SUBSET StreamJob, aliases : Seq(Seq(STRING)),
     fixed : Seq(Seq(STRING)), replays : BOOLEAN, mode : {"kafka_range", "cdc_snapshot"}, from : Nat, to : Nat,
     iceberg : BOOLEAN, catalog : {"hadoop", "hive", "rest", "other"}, uri : BOOLEAN, crashes : BOOLEAN]

ASSUME StreamAssumption ==
    /\ Window \in Nat \ {0} /\ Lag \in Nat /\ Horizon \in Nat /\ MaxFails \in Nat
    /\ MinCount \in Nat /\ DeltaPercent \in Nat /\ SkewPercent \in Nat
    /\ JobSettings \subseteq JobCircumstances(UNION {Range(b.feed) : b \in JobSettings})
    /\ \A b \in JobSettings :
          b.present <= Len(b.feed) /\ \A m \in Range(b.feed) : m # None => m.ts \in Nat
    /\ None \notin Nat

VARIABLES bus,         \* the circumstances
          topic, fed,  \* the source topic and how much of the feed it has
          clock,       \* wall-clock time
          job, saved,  \* per job: its state, and the checkpoint it goes back to
          fails,       \* crashes so far
          created, table, commits,  \* the Iceberg table: whether it exists, its rows, its snapshots
          unsent, counts,           \* counts in the producers' buffers and in their topic
          dead, dlq, unresolved,    \* dead letters, the job that reads them, what it cannot repair
          unsentSignals, signals    \* snapshots in the producer's buffer and in feature.drift.signals

inputVars == <<bus, topic, fed, clock>>
lakeVars == <<created, table, commits>>
dlqVars == <<dead, dlq, unresolved>>
signalVars == <<unsentSignals, signals>>
jobVars == <<inputVars, job, saved, fails, lakeVars, unsent, counts, dlqVars, signalVars>>

-----------------------------------------------------------------------------
(* Windows                                                                 *)

WindowOf(t) == t - (t % Window)
EndOf(w) == w + Window
NoTime == 0 - 1
MarkOf(time) == time - Lag - 1

\* isWindowLate: the watermark has reached the window's last moment.
Passed(j, w) == EndOf(w) - 1 <= job[j].mark

Plus(f, key, n) == [x \in DOMAIN f \cup {key} |-> (IF x \in DOMAIN f THEN f[x] ELSE 0) + (IF x = key THEN n ELSE 0)]
Without(f, keys) == [x \in DOMAIN f \ keys |-> f[x]]
SumOf(f) == FoldFunction(LAMBDA n, sum : n + sum, 0, f)

\* Counts per <<user, window>>: those of one window, per user.
InWindow(f, w) == [u \in {p[1] : p \in {q \in DOMAIN f : q[2] = w}} |-> f[<<u, w>>]]

\* The windows an operator's watermark timers are due for.
Due(j, f) == {p[2] : p \in {q \in DOMAIN f : Passed(j, q[2])}}
Settled(j) == Due(j, job[j].panes) = {} /\ Due(j, job[j].seen) = {}
First(windows) == {w \in windows : \A v \in windows : w <= v}

-----------------------------------------------------------------------------
\* panes, late: counts of the aggregation and of what came too late for it;
\* seen, prev, totals, alerts: the drift monitor; users, timers, flushed: the
\* snapshots of DriftSignalFunction; rows: counts Iceberg has yet to commit.
NewJob == [pc |-> "off", from |-> 0, pos |-> 0, end |-> None, top |-> NoTime, mark |-> MarkOf(NoTime),
           panes |-> <<>>, late |-> <<>>, rows |-> <<>>, held |-> {},
           seen |-> <<>>, prev |-> None, totals |-> <<>>, alerts |-> {},
           users |-> <<>>, timers |-> {}, flushed |-> <<>>]

JobInit ==
    /\ bus \in JobSettings
    /\ topic = SubSeq(bus.feed, 1, bus.present) /\ fed = bus.present /\ clock = bus.start
    /\ job = [j \in StreamJob |-> NewJob] /\ saved = [j \in StreamJob |-> NewJob] /\ fails = 0
    /\ created = FALSE /\ table = <<>> /\ commits = <<>>
    /\ unsent = [j \in StreamJob |-> <<>>] /\ counts = <<>>
    /\ dead = <<>> /\ dlq = [at |-> 0, end |-> 0] /\ unresolved = <<>>
    /\ unsentSignals = <<>> /\ signals = <<>>

Goes(j, rec) == job' = [job EXCEPT ![j] = rec]
Runs(j) == job[j].pc = "running"

Produce ==
    /\ fed < Len(bus.feed)
    /\ topic' = Append(topic, bus.feed[fed + 1]) /\ fed' = fed + 1
    /\ UNCHANGED <<bus, clock, job, saved, fails, lakeVars, unsent, counts, dlqVars, signalVars>>

Tick ==
    /\ clock < Horizon /\ clock' = clock + 1
    /\ UNCHANGED <<bus, topic, fed, job, saved, fails, lakeVars, unsent, counts, dlqVars, signalVars>>

-----------------------------------------------------------------------------
(* Submission                                                              *)

Before(time) == IF time > Len(topic) THEN Len(topic) ELSE time - 1

\* Where the source starts and where it stops: a range of arrival times, or all
\* there is when the job is submitted.  The live job has no end.
Offsets(j) ==
    IF j = "live" THEN [from |-> 0, end |-> None]
    ELSE IF bus.mode = "cdc_snapshot" THEN [from |-> 0, end |-> Len(topic)]
    ELSE [from |-> Before(bus.from), end |-> Before(bus.to)]

Refused(j) ==
    \/ j = "backfill" /\ bus.mode = "kafka_range" /\ bus.from = 0
    \/ bus.iceberg /\ (bus.catalog = "other" \/ (bus.catalog = "rest" /\ ~bus.uri))

\* main up to the question whether the table exists, which only the Iceberg sink asks.
Submit(j) ==
    /\ job[j].pc = "off" /\ j \in bus.jobs
    /\ Goes(j, IF Refused(j) THEN [job[j] EXCEPT !.pc = "failed"]
               ELSE [job[j] EXCEPT !.pc = IF bus.iceberg => created THEN "running" ELSE "creating", !.from = Offsets(j).from,
                         !.pos = Offsets(j).from, !.end = Offsets(j).end])
    /\ saved' = [saved EXCEPT ![j] = job'[j]]
    /\ UNCHANGED <<inputVars, fails, lakeVars, unsent, counts, dlqVars, signalVars>>

\* createTable fails when the other job has created it since.
CreateTable(j) ==
    /\ job[j].pc = "creating"
    /\ created' = TRUE
    /\ Goes(j, [job[j] EXCEPT !.pc = IF created THEN "failed" ELSE "running"])
    /\ saved' = [saved EXCEPT ![j] = job'[j]]
    /\ UNCHANGED <<inputVars, fails, table, commits, unsent, counts, dlqVars, signalVars>>

-----------------------------------------------------------------------------
(* One message                                                             *)

Limit(j) == IF job[j].end = None THEN Len(topic) ELSE job[j].end
Reading(j) == Runs(j) /\ Settled(j) /\ job[j].pos < Limit(j)
Parsed(j) == Deserialize(topic[job[j].pos + 1], WithDefaults(bus.aliases))
Event(j) == Copied(Parsed(j))

\* The event's time counts for the watermark whatever becomes of the event.
Read(j) == [job[j] EXCEPT !.pos = @ + 1, !.top = IF Event(j).ts > @ THEN Event(j).ts ELSE @]

\* The validator is part of the live job alone.
Violation(j) == IF j = "live" THEN Validate(Event(j), clock) ELSE None

AcceptedOp(j, op) == op = "c" \/ (j = "backfill" /\ bus.mode = "cdc_snapshot" /\ op = "r")

Skip(j) ==
    /\ Reading(j) /\ Parsed(j) = None
    /\ Goes(j, [job[j] EXCEPT !.pos = @ + 1])
    /\ UNCHANGED <<inputVars, saved, fails, lakeVars, unsent, counts, dlqVars, signalVars>>

Reject(j) ==
    /\ Reading(j) /\ Parsed(j) # None /\ Classify(Event(j)) # None
    /\ Goes(j, Read(j)) /\ dead' = Append(dead, Classify(Event(j)))
    /\ UNCHANGED <<inputVars, saved, fails, lakeVars, unsent, counts, dlq, unresolved, signalVars>>

Quarantine(j) ==
    /\ Reading(j) /\ Parsed(j) # None /\ Classify(Event(j)) = None /\ Violation(j) # None
    /\ Goes(j, [Read(j) EXCEPT !.held = @ \cup {[at |-> job[j].pos + 1, raw |-> ToJson(Event(j)), type |-> Violation(j)]}])
    /\ UNCHANGED <<inputVars, saved, fails, lakeVars, unsent, counts, dlqVars, signalVars>>

\* Into the window of the user, and into that of the drift monitor, unless
\* they have been fired.
Count(j) ==
    /\ Reading(j) /\ Parsed(j) # None /\ Classify(Event(j)) = None /\ Violation(j) = None
    /\ LET e == Event(j)
           key == <<e.after.user, WindowOf(e.ts)>>
           onTime == ~Passed(j, WindowOf(e.ts))
           counted == AcceptedOp(j, e.op) /\ ~LacksUserId(e)
           watched == j = "live" /\ CarriesRow(e)
       IN Goes(j, [Read(j) EXCEPT !.panes = IF counted /\ onTime THEN Plus(@, key, 1) ELSE @,
                                  !.late = IF counted /\ ~onTime THEN Plus(@, key, 1) ELSE @,
                                  !.seen = IF watched /\ onTime THEN Plus(@, key, 1) ELSE @])
    /\ UNCHANGED <<inputVars, saved, fails, lakeVars, unsent, counts, dlqVars, signalVars>>

-----------------------------------------------------------------------------
(* Watermarks and timers                                                   *)

\* The periodic watermark.
Advance(j) ==
    /\ Runs(j) /\ Settled(j) /\ job[j].mark < MarkOf(job[j].top)
    /\ Goes(j, [job[j] EXCEPT !.mark = MarkOf(job[j].top)])
    /\ UNCHANGED <<inputVars, saved, fails, lakeVars, unsent, counts, dlqVars, signalVars>>

\* Behind the last message of a bounded source every window is due.
EndOfInput(j) ==
    /\ Runs(j) /\ Settled(j) /\ job[j].pos = job[j].end /\ job[j].mark < EndOf(Horizon)
    /\ Goes(j, [job[j] EXCEPT !.mark = EndOf(Horizon)])
    /\ UNCHANGED <<inputVars, saved, fails, lakeVars, unsent, counts, dlqVars, signalVars>>

\* The count of a user's window goes to Kafka, to Iceberg where
\* that is enabled, and to the snapshots of the live job.
Fire(j) ==
    \E p \in {q \in DOMAIN job[j].panes : q[2] \in First(Due(j, job[j].panes))} :
       LET row == [user |-> p[1], win |-> p[2], n |-> job[j].panes[p], by |-> j]
           fired == [job[j] EXCEPT !.panes = Without(@, {p}), !.rows = IF bus.iceberg THEN Append(@, row) ELSE @]
       IN /\ Runs(j)
          /\ Goes(j, IF j = "backfill" THEN fired
                     ELSE [fired EXCEPT !.users = [x \in DOMAIN @ \cup {p} |-> IF x = p THEN row.n ELSE @[x]],
                                        !.timers = @ \cup {p[2]}])
          /\ unsent' = [unsent EXCEPT ![j] = Append(@, row)]
          /\ UNCHANGED <<inputVars, saved, fails, lakeVars, counts, dlqVars, signalVars>>

Exceeds(total, prev) ==
    prev # None /\ LET gap == IF total > prev THEN total - prev ELSE prev - total IN gap * 100 > DeltaPercent * prev
Skewed(perUser, total) == \E u \in DOMAIN perUser : perUser[u] * 100 > SkewPercent * total

\* Mutant: a window that is too small for a signal is not remembered.
MonitorSkipsSmall(j) ==
    \E w \in First(Due(j, job[j].seen)) :
       LET perUser == InWindow(job[j].seen, w)
           total == SumOf(perUser)
           alert == [at |-> Len(job[j].totals) + 1, prev |-> job[j].prev,
                     delta |-> Exceeds(total, job[j].prev), skew |-> Skewed(perUser, total)]
           quiet == [job[j] EXCEPT !.seen = Without(@, {q \in DOMAIN @ : q[2] = w}), !.totals = Append(@, total)]
       IN /\ Runs(j)
          /\ Goes(j, IF total >= MinCount /\ (alert.delta \/ alert.skew)
                     THEN [quiet EXCEPT !.alerts = @ \cup {alert}, !.prev = total]
                     ELSE IF total >= MinCount THEN [quiet EXCEPT !.prev = total] ELSE quiet)
          /\ UNCHANGED <<inputVars, saved, fails, lakeVars, unsent, counts, dlqVars, signalVars>>

\* DriftMonitorFunction.  A window nothing fell into is never processed.
Monitor(j) ==
    \E w \in First(Due(j, job[j].seen)) :
       LET perUser == InWindow(job[j].seen, w)
           total == SumOf(perUser)
           alert == [at |-> Len(job[j].totals) + 1, prev |-> job[j].prev,
                     delta |-> Exceeds(total, job[j].prev), skew |-> Skewed(perUser, total)]
           quiet == [job[j] EXCEPT !.seen = Without(@, {q \in DOMAIN @ : q[2] = w}),
                                   !.totals = Append(@, total), !.prev = total]
       IN /\ Runs(j)
          /\ Goes(j, IF total >= MinCount /\ (alert.delta \/ alert.skew)
                     THEN [quiet EXCEPT !.alerts = @ \cup {alert}] ELSE quiet)
          /\ UNCHANGED <<inputVars, saved, fails, lakeVars, unsent, counts, dlqVars, signalVars>>

\* Mutant: the counts stay behind when their snapshot is emitted.
FlushKeeps(j) ==
    \E w \in job[j].timers :
       /\ Runs(j) /\ clock >= EndOf(w) + 2 * Lag
       /\ Goes(j, [job[j] EXCEPT !.timers = @ \ {w}, !.flushed = Plus(@, w, SumOf(InWindow(job[j].users, w)))])
       /\ unsentSignals' = Append(unsentSignals, [win |-> w, n |-> SumOf(InWindow(job[j].users, w))])
       /\ UNCHANGED <<inputVars, saved, fails, lakeVars, unsent, counts, dlqVars, signals>>

\* A timer of DriftSignalFunction, by the wall clock; only the live job has it.
Flush(j) ==
    \E w \in job[j].timers :
       /\ Runs(j) /\ clock >= EndOf(w) + 2 * Lag
       /\ Goes(j, [job[j] EXCEPT !.timers = @ \ {w}, !.users = Without(@, {q \in DOMAIN @ : q[2] = w}),
                                 !.flushed = Plus(@, w, SumOf(InWindow(job[j].users, w)))])
       /\ unsentSignals' = Append(unsentSignals, [win |-> w, n |-> SumOf(InWindow(job[j].users, w))])
       /\ UNCHANGED <<inputVars, saved, fails, lakeVars, unsent, counts, dlqVars, signals>>

-----------------------------------------------------------------------------
(* Sinks, checkpoints, crashes                                             *)

\* The producers send in the background.  No sink asks for a delivery
\* guarantee, so a checkpoint does not wait for them.
Send(j) ==
    /\ unsent[j] # <<>>
    /\ counts' = Append(counts, Head(unsent[j])) /\ unsent' = [unsent EXCEPT ![j] = Tail(@)]
    /\ UNCHANGED <<inputVars, job, saved, fails, lakeVars, dlqVars, signalVars>>

SendSignal ==
    /\ unsentSignals # <<>>
    /\ signals' = Append(signals, Head(unsentSignals)) /\ unsentSignals' = Tail(unsentSignals)
    /\ UNCHANGED <<inputVars, job, saved, fails, lakeVars, unsent, counts, dlqVars>>

\* A commit adds a manifest and a file to those of the snapshot before.
Snapshot(rows) ==
    IF commits = <<>> THEN [id |-> 1, at |-> clock, manifests |-> 1, files |-> <<Len(rows)>>]
    ELSE [id |-> Last(commits).id + 1, at |-> clock, manifests |-> Last(commits).manifests + 1,
          files |-> Append(Last(commits).files, Len(rows))]

\* Iceberg commits with the checkpoint.
Commit(j) ==
    /\ table' = table \o job[j].rows
    /\ commits' = IF job[j].rows = <<>> THEN commits ELSE Append(commits, Snapshot(job[j].rows))
    /\ UNCHANGED created

\* Mutant: the state is saved before the rows are handed over.
CheckpointEarly(j) ==
    /\ Runs(j) /\ Settled(j) /\ (job[j].rows # <<>> \/ (bus.crashes /\ job[j] # saved[j]))
    /\ Commit(j) /\ Goes(j, [job[j] EXCEPT !.rows = <<>>]) /\ saved' = [saved EXCEPT ![j] = job[j]]
    /\ UNCHANGED <<inputVars, fails, unsent, counts, dlqVars, signalVars>>

\* Where nothing crashes a checkpoint matters for what it commits.
Checkpoint(j) ==
    /\ Runs(j) /\ Settled(j) /\ (job[j].rows # <<>> \/ (bus.crashes /\ job[j] # saved[j]))
    /\ Commit(j) /\ Goes(j, [job[j] EXCEPT !.rows = <<>>]) /\ saved' = [saved EXCEPT ![j] = job'[j]]
    /\ UNCHANGED <<inputVars, fails, unsent, counts, dlqVars, signalVars>>

\* The last checkpoint of a bounded job; its producer is flushed.
Finish(j) ==
    /\ Runs(j) /\ Settled(j) /\ job[j].pos = job[j].end /\ job[j].mark = EndOf(Horizon)
    /\ Commit(j) /\ Goes(j, [job[j] EXCEPT !.rows = <<>>, !.pc = "done"])
    /\ counts' = counts \o unsent[j] /\ unsent' = [unsent EXCEPT ![j] = <<>>]
    /\ UNCHANGED <<inputVars, saved, fails, dlqVars, signalVars>>

Crash(j) ==
    /\ Runs(j) /\ bus.crashes /\ fails < MaxFails
    /\ fails' = fails + 1 /\ Goes(j, [job[j] EXCEPT !.pc = "down"]) /\ unsent' = [unsent EXCEPT ![j] = <<>>]
    /\ unsentSignals' = IF j = "live" THEN <<>> ELSE unsentSignals
    /\ UNCHANGED <<inputVars, saved, lakeVars, counts, dlqVars, signals>>

\* The checkpoint has the offset, the windows and the timers, but no watermark.
\* What Kafka has been sent since is sent again.
Restart(j) ==
    /\ job[j].pc = "down"
    /\ Goes(j, [saved[j] EXCEPT !.top = NoTime, !.mark = MarkOf(NoTime)])
    /\ UNCHANGED <<inputVars, saved, fails, lakeVars, unsent, counts, dlqVars, signalVars>>

-----------------------------------------------------------------------------
(* DlqReprocessingJob                                                      *)

\* It reads the dead letters that are there, from the first one.
DlqStart ==
    /\ bus.replays /\ dlq.end = 0 /\ dead # <<>>
    /\ dlq' = [at |-> 0, end |-> Len(dead)]
    /\ UNCHANGED <<inputVars, job, saved, fails, lakeVars, unsent, counts, dead, unresolved, signalVars>>

\* An object's identity is no JSON: the letter is logged and passed over.
Reparsed(letter) ==
    IF letter.raw = Identity THEN None ELSE Copied(Handle(letter.raw, WithDefaults(bus.fixed)))

Repaired(e) == IF e # None /\ Classify(e) = None THEN <<ToJson(e)>> ELSE <<>>
Unrepaired(e) == IF e # None /\ Classify(e) # None THEN <<Classify(e)>> ELSE <<>>

DlqRead ==
    /\ dlq.at < dlq.end
    /\ dlq' = [dlq EXCEPT !.at = @ + 1]
    /\ topic' = topic \o Repaired(Reparsed(dead[dlq.at + 1]))
    /\ unresolved' = unresolved \o Unrepaired(Reparsed(dead[dlq.at + 1]))
    /\ UNCHANGED <<bus, fed, clock, job, saved, fails, lakeVars, unsent, counts, dead, signalVars>>

JobNext ==
    \/ Produce \/ Tick \/ DlqStart \/ DlqRead \/ SendSignal
    \/ \E j \in StreamJob :
          \/ Submit(j) \/ CreateTable(j)
          \/ Skip(j) \/ Reject(j) \/ Quarantine(j) \/ Count(j)
          \/ Advance(j) \/ EndOfInput(j) \/ Fire(j) \/ Monitor(j) \/ Flush(j)
          \/ Send(j) \/ Checkpoint(j) \/ Finish(j) \/ Crash(j) \/ Restart(j)
-----------------------------------------------------------------------------
(* Properties                                                              *)

\* The rows of the table and the records of the counts, whatever a user is.
IsCount(r) == r \in [user : {r.user}, win : Nat, n : Nat \ {0}, by : StreamJob]
AreCounts(rows) == rows \in Seq(Range(rows)) /\ \A i \in DOMAIN rows : IsCount(rows[i])
Tally(keys) == {f \in [keys -> Nat] : \A k \in keys : f[k] > 0}

\* A job is somewhere in its range of the topic, its checkpoint not ahead of it
\* and without rows; open windows have counts.
JobTypeOK ==
    /\ fed \in 0..Len(bus.feed) /\ clock \in Nat /\ fails \in 0..MaxFails /\ created \in BOOLEAN
    /\ \A j \in StreamJob :
          /\ job[j].pc \in {"off", "creating", "failed", "running", "down", "done"}
          /\ job[j].from <= job[j].pos /\ job[j].pos <= Len(topic)
          /\ job[j].panes \in Tally(DOMAIN job[j].panes) /\ job[j].seen \in Tally(DOMAIN job[j].seen)
          /\ saved[j].rows = <<>> /\ saved[j].pos <= job[j].pos
          /\ AreCounts(job[j].rows) /\ AreCounts(unsent[j])
    /\ AreCounts(table) /\ AreCounts(counts)
    /\ created \/ table = <<>>
    /\ dlq.at <= dlq.end /\ dlq.end <= Len(dead) /\ Len(unresolved) <= dlq.at

\* The rows that are in the table, and those that will be at a job's next checkpoint.
RowsFor(j) == table \o job[j].rows
CountIn(j, u, w) ==
    FoldSeq(LAMBDA r, n : (IF r.by = j /\ r.user = u /\ r.win = w THEN r.n ELSE 0) + n, 0, RowsFor(j))

ReadBy(j) == (job[j].from + 1)..job[j].pos
HeldBy(j) == {h.at : h \in job[j].held}
At(f, x) == IF x \in DOMAIN f THEN f[x] ELSE 0

\* The messages a job has read that are to be counted for a user's window.
ToCount(j, u, w) ==
    {i \in ReadBy(j) \ HeldBy(j) : /\ topic[i] # None
                                   /\ topic[i].of = u /\ WindowOf(topic[i].ts) = w /\ AcceptedOp(j, topic[i].op)}

\* Every message that tells of a user is counted once in its window: in the
\* rows of the table, in an open window, or among the late ones, through
\* crashes and restarts ("each checkpoint exactly-once within a single job
\* run", stream-processor/docs/sink-idempotency.md:67-70).  None is late while times in the
\* topic step back by no more than the allowed disorder.  Rows are what Iceberg
\* commits: of the topic of counts, which follows no checkpoint, this does not
\* hold, and the rows of a window that fired twice each tell of their part
\* (CountsAreDelivered, SameKeySameAggregate).
CountsAddUp ==
    bus.iceberg => \A j \in StreamJob :
        LET events == {i \in ReadBy(j) : topic[i] # None}
        IN /\ \A i \in events : topic[i].of # None =>
                 LET u == topic[i].of
                     w == WindowOf(topic[i].ts)
                 IN CountIn(j, u, w) + At(job[j].panes, <<u, w>>) + At(job[j].late, <<u, w>>)
                        = Cardinality(ToCount(j, u, w))
           /\ (\A i, k \in events : i < k => topic[i].ts - Lag <= topic[k].ts) => job[j].late = <<>>

\* What the producer has taken of a window's snapshots, sent or not.
Taken == signals \o unsentSignals
Received(w) ==
    LET mine == {i \in DOMAIN Taken : Taken[i].win = w}
    IN SumOf([i \in mine |-> Taken[i].n])

\* The snapshots DriftSignalFunction emits for a window add up, as its
\* checkpoints know them, to the counts that left it, in however many pieces the
\* timers cut them; only a window fired twice, which takes a restart, can lose
\* the first count under the second.  Consumers receive the same total; more or
\* less than that they receive only where a job has crashed, since what the
\* producer has sent stays and what it holds is lost.
SnapshotsAddUp ==
    /\ bus.iceberg => \A w \in job["live"].timers \cup DOMAIN job["live"].flushed :
           LET rows == RowsFor("live")
               mine == {i \in DOMAIN rows : rows[i].by = "live" /\ rows[i].win = w}
               left == SumOf([i \in mine |-> rows[i].n])
               told == At(job["live"].flushed, w) + SumOf(InWindow(job["live"].users, w))
               twice == \E i, k \in mine : i # k /\ rows[i].user = rows[k].user
           IN /\ told <= left
              /\ twice \/ told = left
              /\ twice => fails > 0
    /\ fails = 0 => \A w \in DOMAIN job["live"].flushed \cup {Taken[i].win : i \in DOMAIN Taken} :
                       Received(w) = At(job["live"].flushed, w)

\* A drift signal compares a window with the one fired before it, however
\* small that was, and every fired window that differs enough has its signal:
\* so the operator emits them, whatever becomes of them in the producer.
DeltasFollowTheWindows ==
    LET j == job["live"]
        Prev(i) == IF i = 1 THEN None ELSE j.totals[i - 1]
    IN /\ \A a \in j.alerts : a.prev = Prev(a.at)
       /\ \A i \in DOMAIN j.totals :
             j.totals[i] >= MinCount /\ Exceeds(j.totals[i], Prev(i)) => \E a \in j.alerts : a.at = i /\ a.delta

-----------------------------------------------------------------------------
(* What the repository's documents say and the code does not do            *)

\* "KafkaSink is configured without an explicit DeliveryGuarantee, which
\* defaults to AT_LEAST_ONCE.  [...] Flink flushes records on each checkpoint"
\* (stream-processor/docs/sink-idempotency.md:14-16): a count that is committed
\* with a checkpoint reaches the topic.
CountsAreDelivered ==
    \A i \in DOMAIN table : table[i] \in Range(counts) \cup Range(unsent[table[i].by])

\* "Two records with the same tuple represent the same logical aggregate for
\* the same user in the same time window" (stream-processor/docs/sink-idempotency.md:29-31),
\* so that consumers may keep one of them: the two say the same count.
SameKeySameAggregate ==
    \A r, s \in Range(counts) : r.user = s.user /\ r.win = s.win /\ r.by = s.by => r.n = s.n

\* "Incompatible type changes [...] are routed to the DLQ"
\* (SchemaEvolutionHandler.java:44, docs/SCHEMA_EVOLUTION.md:87-89).
TypeChangesAreDeadLetters ==
    \A i \in ReadBy("live") :
       LET e == Deserialize(topic[i], WithDefaults(bus.aliases))
       IN e # None /\ (\E c \in e.changes : c.type = "INCOMPATIBLE_TYPE") =>
              \E k \in DOMAIN dead : dead[k].type = "INCOMPATIBLE_TYPE"

\* "emits a DriftSignal when the window is complete" (DriftSignalFunction.java:16),
\* a "per-window snapshot" (DriftSignal.java:6): a window has one.
OneSnapshotPerWindow == \A i, k \in DOMAIN signals : signals[i].win = signals[k].win => i = k

\* A dead letter carries the "Original Debezium JSON for replay"
\* (docs/SCHEMA_EVOLUTION.md:101): the job that reads it finds a message there.
DeadLettersCanBeReplayed == \A k \in 1..dlq.at : Reparsed(dead[k]) # None
=============================================================================
