-------------------------- MODULE OnlineStoreWriter --------------------------
(***************************************************************************)
(* examples/feature-read-paths/kafka_to_online_store.py: the process that  *)
(* consumes feature windows from Kafka and keeps, in Redis, the latest     *)
(* window and the recent history of a user.                                *)
(*                                                                         *)
(* One user is modelled: users share no key.  A record is its window and   *)
(* its event count; a window emitted again carries another count.  The     *)
(* consumer's position moves when a record is handed out, offsets are      *)
(* committed between records or when the consumer is closed, and a process *)
(* that is killed commits nothing.                                         *)
(***************************************************************************)
EXTENDS Naturals, Sequences, FiniteSets, FiniteSetsExt

CONSTANTS MaxWindow,  \* windows are numbered 1..MaxWindow
          Counts,     \* event counts a window may be emitted with
          Malformed,  \* a message that is not JSON or lacks a field
          NonNumeric, \* a message with a field that is no number
          MaxLog,     \* bound on the messages of the topic
          HistSpan,   \* ONLINE_HIST_TTL, in windows
          MaxHist,    \* MAX_HIST_WINDOWS
          Settings,   \* the circumstances considered
          NoRecord    \* an absent hash, an idle consumer

Records == [window : 1..MaxWindow, count : Counts]

\* The messages the topic may carry, how many at most, whether Redis
\* transactions may fail, whether the process may be sent SIGINT or SIGTERM, and
\* whether keys may reach their TTL.
Circumstances ==
    [messages : SUBSET (Records \cup {Malformed, NonNumeric}), length : 0..MaxLog,
     writesFail : BOOLEAN, signals : BOOLEAN, keysExpire : BOOLEAN]

ASSUME OSWAssumption ==
    /\ MaxWindow \in Nat /\ Counts \subseteq Nat /\ MaxLog \in Nat
    /\ HistSpan \in Nat \ {0} /\ MaxHist \in Nat \ {0}
    /\ Settings \subseteq Circumstances
    /\ NoRecord \notin Records \cup {Malformed, NonNumeric}
    /\ Malformed # NonNumeric /\ {Malformed, NonNumeric} \cap Records = {}

VARIABLES setting,    \* the circumstances
          log,        \* the topic's partition
          committed,  \* the group's offset; MaxLog + 1 before the first commit
          up,         \* the process is running
          position,   \* messages its consumer has handed out
          hand,       \* the message the loop body is working on
          latest,     \* HASH sf:feat:u:{user}
          hist,       \* ZSET sf:feat:u:{user}:hist
          written     \* offsets written to Redis at least once

vars == <<setting, log, committed, up, position, hand, latest, hist, written>>

NoCommit == MaxLog + 1

TypeOK ==
    /\ setting \in Settings
    /\ log \in Seq(setting.messages) /\ Len(log) <= setting.length
    /\ committed \in 0..NoCommit
    /\ up \in BOOLEAN
    /\ position \in 0..MaxLog
    /\ hand \in setting.messages \cup {NoRecord}
    /\ latest \in Records \cup {NoRecord}
    /\ hist \in SUBSET Records
    /\ written \in SUBSET (1..MaxLog)

Init ==
    /\ setting \in Settings
    /\ log = <<>> /\ committed = NoCommit
    /\ up = FALSE /\ position = 0 /\ hand = NoRecord
    /\ latest = NoRecord /\ hist = {} /\ written = {}

-----------------------------------------------------------------------------
(* One transaction: HSET, ZADD, prune by age, cap by rank                  *)

Below(a, b) == a.window < b.window \/ (a.window = b.window /\ a.count < b.count)

\* The k highest members of a sorted set.
Highest(h, k) == {m \in h : Cardinality({x \in h : Below(m, x)}) < k}

\* Mutant: the score bound counts from the newest entry upwards.
PrunedByNewest(h, rec) == {m \in h : m.window >= rec.window}

\* ZREMRANGEBYSCORE -inf cutoff, the cutoff counted from the record's window.
Pruned(h, rec) == {m \in h : m.window + HistSpan > rec.window}

\* ZREMRANGEBYRANK 0 -(MAX_HIST_WINDOWS + 2).
Capped(h) == Highest(h, MaxHist + 1)

HistAfter(h, rec) == Capped(Pruned(h \cup {rec}, rec))

-----------------------------------------------------------------------------
(* The consumer process                                                    *)

\* Mutant: always seeks to the end of the topic.
StartAtEnd ==
    /\ ~up
    /\ up' = TRUE
    /\ position' = Len(log)
    /\ UNCHANGED <<setting, log, committed, hand, latest, hist, written>>

\* auto_offset_reset="latest": without a commit the backlog is passed over.
Start ==
    /\ ~up
    /\ up' = TRUE
    /\ position' = IF committed = NoCommit THEN Len(log) ELSE committed
    /\ UNCHANGED <<setting, log, committed, hand, latest, hist, written>>

Fetch ==
    /\ up /\ hand = NoRecord /\ position < Len(log)
    /\ position' = position + 1
    /\ hand' = log[position + 1]
    /\ UNCHANGED <<setting, log, committed, up, latest, hist, written>>

\* A message that is not JSON, or lacks a field, is counted and passed over.
SkipMalformed ==
    /\ hand = Malformed
    /\ hand' = NoRecord
    /\ UNCHANGED <<setting, log, committed, up, position, latest, hist, written>>

\* int() of a field that is no number raises outside the loop's try block.
DieOnNonNumeric ==
    /\ hand = NonNumeric
    /\ up' = FALSE /\ hand' = NoRecord
    /\ UNCHANGED <<setting, log, committed, position, latest, hist, written>>

\* Mutant: a window older than the snapshot is not added to the history.
WriteLateDropped ==
    /\ hand \in Records
    /\ latest' = hand
    /\ hist' = IF latest # NoRecord /\ Below(hand, latest) THEN hist ELSE HistAfter(hist, hand)
    /\ written' = written \cup {position}
    /\ hand' = NoRecord
    /\ UNCHANGED <<setting, log, committed, up, position>>

Write ==
    /\ hand \in Records
    /\ latest' = hand
    /\ hist' = HistAfter(hist, hand)
    /\ written' = written \cup {position}
    /\ hand' = NoRecord
    /\ UNCHANGED <<setting, log, committed, up, position>>

\* The exception is counted and the loop goes on: the record is given up.
WriteFails ==
    /\ setting.writesFail /\ hand \in Records
    /\ hand' = NoRecord
    /\ UNCHANGED <<setting, log, committed, up, position, latest, hist, written>>

\* enable_auto_commit, in a poll between two records.
AutoCommit ==
    /\ up /\ hand = NoRecord /\ committed # position
    /\ committed' = position
    /\ UNCHANGED <<setting, log, up, position, hand, latest, hist, written>>

\* consumer_timeout_ms: on an idle topic the loop ends and the process exits.
IdleExit ==
    /\ up /\ hand = NoRecord /\ position = Len(log)
    /\ committed' = position
    /\ up' = FALSE
    /\ UNCHANGED <<setting, log, position, hand, latest, hist, written>>

\* SIGINT or SIGTERM at any point of the loop: close() commits the position.
Shutdown ==
    /\ setting.signals /\ up
    /\ committed' = position
    /\ up' = FALSE /\ hand' = NoRecord
    /\ UNCHANGED <<setting, log, position, latest, hist, written>>

Crash ==
    /\ up
    /\ up' = FALSE /\ hand' = NoRecord
    /\ UNCHANGED <<setting, log, committed, position, latest, hist, written>>

-----------------------------------------------------------------------------
(* The topic and the store                                                 *)

Produce(m) ==
    /\ Len(log) < setting.length /\ m \in setting.messages
    /\ log' = Append(log, m)
    /\ UNCHANGED <<setting, committed, up, position, hand, latest, hist, written>>

\* The history has the shorter TTL of the two keys.
ExpireHist ==
    /\ setting.keysExpire /\ hist # {}
    /\ hist' = {}
    /\ UNCHANGED <<setting, log, committed, up, position, hand, latest, written>>

ExpireLatest ==
    /\ setting.keysExpire /\ hist = {} /\ latest # NoRecord
    /\ latest' = NoRecord
    /\ UNCHANGED <<setting, log, committed, up, position, hand, hist, written>>

-----------------------------------------------------------------------------
Handle == SkipMalformed \/ DieOnNonNumeric \/ Write \/ WriteFails

Next ==
    \/ Start \/ Fetch \/ Handle \/ AutoCommit \/ IdleExit \/ Shutdown \/ Crash
    \/ \E m \in Records \cup {Malformed, NonNumeric} : Produce(m)
    \/ ExpireHist \/ ExpireLatest

\* The process is restarted whenever it is down, and works while it is up.
Fairness == WF_vars(Start) /\ SF_vars(Fetch) /\ SF_vars(Handle) /\ SF_vars(AutoCommit)

Spec == Init /\ [][Next]_vars
FairSpec == Spec /\ Fairness

-----------------------------------------------------------------------------
(* Safety                                                                  *)

WrittenRecords == {log[n] : n \in written}

\* A record may be missing from the history only when it is a day older than
\* another one, or when the cap is filled with later ones.
MayBeGone(rec) ==
    \/ \E other \in WrittenRecords : rec.window + HistSpan <= other.window
    \/ Cardinality({other \in WrittenRecords : Below(rec, other)}) > MaxHist

\* Whatever the order, the failures and the replays, the sorted set holds
\* every written record that is due (or none, expired), and nothing a day older
\* than the snapshot.  It is as large as the rank bound of the code lets it be,
\* which is one record more than "at most this many history windows per user"
\* (kafka_to_online_store.py:52): FeatureStore.HistoryWithinCap.
HistoryExact ==
    /\ hist \subseteq WrittenRecords
    /\ \A rec \in WrittenRecords \ hist : setting.keysExpire \/ MayBeGone(rec)
    /\ Cardinality(hist) <= MaxHist + 1
    /\ latest # NoRecord => \A m \in hist : m.window + HistSpan > latest.window

CaughtUp == up /\ position = Len(log) /\ hand = NoRecord /\ written # {}

\* The process may be killed at any point, but the store keeps what it is told,
\* and nothing commits the record in hand.
NothingGivenUp == ~setting.writesFail /\ ~setting.keysExpire /\ ~setting.signals

\* What writing each record once, in the order of the topic, makes of the
\* history.
OncePerRecord[n \in 0..MaxLog] ==
    IF n = 0 THEN {}
    ELSE IF n \in written THEN HistAfter(OncePerRecord[n - 1], log[n])
    ELSE OncePerRecord[n - 1]

\* Redelivered records leave no trace: a consumer that has caught up after kills and
\* replays has left the last record it ever wrote as the snapshot, and the
\* history that one delivery of each written record gives.
ReplayIdempotent ==
    NothingGivenUp /\ CaughtUp =>
        latest = log[Max(written)] /\ hist = OncePerRecord[Len(log)]

(* Liveness                                                                *)

\* A record the group has not passed over is written in the end, whatever
\* crashes happen, if the process is restarted.  Not promised: failed writes are
\* given up, a signal commits the record in hand, and a field that is no number
\* kills every process that meets it.
CommittedOffsetMoves ==
    ~setting.writesFail /\ ~setting.signals /\ NonNumeric \notin setting.messages =>
    \A n \in 1..MaxLog :
        Len(log) >= n /\ committed < n /\ log[n] \in Records ~> n \in written
=============================================================================
