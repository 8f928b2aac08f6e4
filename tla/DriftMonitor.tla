---------------------------- MODULE DriftMonitor ----------------------------
(***************************************************************************)
(* src/drift-monitor: the process that compares each window of the topic   *)
(* feature.drift.signals with a baseline, which it bootstraps from the     *)
(* first windows, keeps on disk or in MinIO and moves with an exponential  *)
(* moving average while the windows are stable.                            *)
(*                                                                         *)
(* A window is reduced to the count of one bucket of its histogram, and a  *)
(* baseline likewise.  Its PSI, a sum of logarithms over all buckets, is   *)
(* left open: a window may be found at any level.  Saving a baseline to a  *)
(* file truncates it first and writes it then.                             *)
(***************************************************************************)
EXTENDS Naturals, Sequences, FiniteSets, FiniteSetsExt

CONSTANTS MaxCount,    \* a bucket counts 0..MaxCount users
          Malformed,   \* a message without one of the fields
          Unreadable,  \* a message that is not JSON, or has a count that is no number
          MaxLog,      \* bound on the messages of the topic
          WarmupWindows, OkInterval, \* BASELINE_WARMUP_WINDOWS, BASELINE_EMA_UPDATE_INTERVAL
          AlphaNum, AlphaDen,        \* BASELINE_EMA_ALPHA
          Settings,    \* the circumstances considered
          None, Torn   \* no baseline, a truncated file

Windows == 0..MaxCount
Messages == Windows \cup {Malformed, Unreadable}
Levels == {"OK", "WARNING", "ALERT"}

\* BASELINE_BACKEND, the storage calls that may fail, the messages the topic may
\* carry and how many at most.
Circumstances ==
    [backend : {"file", "minio"}, faults : SUBSET {"load", "save"},
     messages : SUBSET Messages, length : 0..MaxLog]

ASSUME DMAssumption ==
    /\ MaxCount \in Nat /\ MaxLog \in Nat
    /\ WarmupWindows \in Nat \ {0} /\ OkInterval \in Nat \ {0}
    /\ AlphaNum \in Nat \ {0} /\ AlphaDen \in Nat \ {0} /\ AlphaNum <= AlphaDen
    /\ {Malformed, Unreadable, None, Torn} \cap Nat = {}
    /\ Malformed # Unreadable /\ None # Torn
    /\ Settings \subseteq Circumstances

VARIABLES setting,   \* the circumstances
          log,       \* the topic's partition
          committed, \* the group's offset; NoCommit before the first commit
          up,        \* the process is running
          position,  \* the message its consumer handed out last
          pc,        \* "poll", "body", or a step of a save: "save", "dump"
          warmups, warmupSum, \* _warmup_buffer: its length, the sum of its counts
          baseline,  \* _baseline
          okCount,   \* ok_window_count
          file,      \* the stored baseline: None, Torn or a baseline
          handled,   \* offsets warmed up with or evaluated (history)
          skipped,   \* offsets passed over by a first start (history)
          stored,    \* a whole baseline was stored once (history)
          recent     \* the levels this process found, the last OkInterval (history)

kafka == <<setting, log, committed>>
warmup == <<warmups, warmupSum>>
history == <<handled, skipped, stored, recent>>
vars == <<kafka, up, position, pc, warmup, baseline, okCount, file, history>>

NoCommit == MaxLog + 1

TopicTypes ==
    /\ setting \in Settings
    /\ log \in Seq(Messages) /\ Len(log) <= MaxLog
    /\ committed \in 0..NoCommit /\ position \in 0..MaxLog

ProcessTypes ==
    /\ up \in BOOLEAN /\ pc \in {"poll", "body", "save", "dump"}
    /\ warmups \in 0..WarmupWindows /\ warmupSum \in Nat
    /\ baseline \in Nat \cup {None}
    /\ okCount \in Nat

StoreTypes ==
    /\ file \in Nat \cup {None, Torn} /\ stored \in BOOLEAN
    /\ handled \subseteq 1..MaxLog /\ skipped \subseteq 1..MaxLog

TypeOK ==
    /\ TopicTypes /\ ProcessTypes /\ StoreTypes
    /\ recent \in Seq(Levels) /\ Len(recent) <= OkInterval

Init ==
    /\ setting \in Settings
    /\ log = <<>> /\ committed = NoCommit
    /\ up = FALSE /\ position = 0 /\ pc = "poll"
    /\ warmups = 0 /\ warmupSum = 0 /\ baseline = None /\ okCount = 0 /\ file = None
    /\ handled = {} /\ skipped = {} /\ stored = FALSE /\ recent = <<>>

Backend == setting.backend
Faults == setting.faults

-----------------------------------------------------------------------------
(* The process and its consumer                                            *)

\* A torn file does not parse; a failing read is taken for an absent baseline.
Loaded == {IF file = Torn THEN None ELSE file} \cup (IF "load" \in Faults THEN {None} ELSE {})

\* Mutant: seeks to the end of the topic.
StartAtEnd ==
    /\ ~up
    /\ up' = TRUE
    /\ baseline' \in Loaded
    /\ position' = Len(log)
    /\ skipped' = IF committed = NoCommit THEN 1..Len(log) ELSE skipped
    /\ UNCHANGED <<kafka, pc, warmup, okCount, file, handled, stored, recent>>

Start ==
    /\ ~up
    /\ up' = TRUE
    /\ baseline' \in Loaded
    /\ position' = IF committed = NoCommit THEN Len(log) ELSE committed
    /\ skipped' = IF committed = NoCommit THEN 1..Len(log) ELSE skipped
    /\ UNCHANGED <<kafka, pc, warmup, okCount, file, handled, stored, recent>>

Fetch ==
    /\ up /\ pc = "poll" /\ position < Len(log)
    /\ position' = position + 1
    /\ pc' = "body"
    /\ UNCHANGED <<kafka, up, warmup, baseline, okCount, file, history>>

\* enable_auto_commit, in a poll between two messages.
AutoCommit ==
    /\ up /\ pc = "poll" /\ committed # position
    /\ committed' = position
    /\ UNCHANGED <<setting, log, up, position, pc, warmup, baseline, okCount, file, history>>

\* The process dies: what it held in memory is gone.
Dies ==
    /\ up' = FALSE
    /\ position' = 0 /\ pc' = "poll"
    /\ warmups' = 0 /\ warmupSum' = 0 /\ baseline' = None /\ okCount' = 0 /\ recent' = <<>>
    /\ UNCHANGED <<kafka, file, handled, skipped, stored>>

Crash == up /\ Dies

-----------------------------------------------------------------------------
(* The loop body                                                           *)

Message == log[position]
InBody == up /\ pc = "body"

SkipMalformed ==
    /\ InBody /\ Message = Malformed
    /\ pc' = "poll"
    /\ UNCHANGED <<kafka, up, position, warmup, baseline, okCount, file, history>>

\* Neither the deserializer's exception nor int()'s is caught.
DieOnUnreadable ==
    /\ InBody /\ Message = Unreadable
    /\ Dies

\* Mutant: the baseline is not saved until it is first updated.
WarmUpUnsaved ==
    /\ InBody /\ Message \in Windows /\ baseline = None
    /\ warmups' = warmups + 1
    /\ warmupSum' = warmupSum + Message
    /\ handled' = handled \cup {position}
    /\ baseline' = IF warmups' >= WarmupWindows THEN warmupSum' \div warmups' ELSE None
    /\ pc' = "poll"
    /\ UNCHANGED <<kafka, up, position, okCount, file, skipped, stored, recent>>

WarmUp ==
    /\ InBody /\ Message \in Windows /\ baseline = None
    /\ warmups' = warmups + 1
    /\ warmupSum' = warmupSum + Message
    /\ handled' = handled \cup {position}
    /\ IF warmups' >= WarmupWindows
         THEN baseline' = warmupSum' \div warmups' /\ pc' = "save"
         ELSE baseline' = None /\ pc' = "poll"
    /\ UNCHANGED <<kafka, up, position, okCount, file, skipped, stored, recent>>

\* int(old * (1 - alpha) + new * alpha) in floating point: the sum may come out
\* just below an integer it should equal, and is truncated.
Ema(old, new) ==
    LET sum == old * (AlphaDen - AlphaNum) + new * AlphaNum
        exact == sum \div AlphaDen
    IN {exact} \cup (IF sum % AlphaDen = 0 /\ exact > 0 THEN {exact - 1} ELSE {})

Found(level) ==
    /\ InBody /\ Message \in Windows /\ baseline # None
    /\ handled' = handled \cup {position}
    /\ recent' = LET all == Append(recent, level)
                 IN IF Len(all) > OkInterval THEN Tail(all) ELSE all
    /\ UNCHANGED <<kafka, up, position, warmup, file, skipped, stored>>

\* The baseline moves with every OkInterval-th stable window.
FoundOk ==
    /\ Found("OK")
    /\ okCount' = okCount + 1
    /\ IF okCount' % OkInterval = 0
         THEN baseline' \in Ema(baseline, Message) /\ pc' = "save"
         ELSE baseline' = baseline /\ pc' = "poll"

\* Mutant: a drifting window does not start the count again.
FoundDriftCounting ==
    /\ \E level \in {"WARNING", "ALERT"} : Found(level)
    /\ pc' = "poll"
    /\ UNCHANGED <<okCount, baseline>>

FoundDrift ==
    /\ \E level \in {"WARNING", "ALERT"} : Found(level)
    /\ okCount' = 0 /\ pc' = "poll"
    /\ UNCHANGED baseline

-----------------------------------------------------------------------------
(* _save                                                                   *)

Saving(step) == up /\ pc = step

\* open(..., "w") truncates the file.
SaveOpen ==
    /\ Saving("save") /\ Backend = "file"
    /\ file' = Torn /\ pc' = "dump"
    /\ UNCHANGED <<kafka, up, position, warmup, baseline, okCount, history>>

Stored ==
    /\ file' = baseline /\ pc' = "poll" /\ stored' = TRUE
    /\ UNCHANGED <<kafka, up, position, warmup, baseline, okCount, handled, skipped, recent>>

SaveDump == Saving("dump") /\ Stored

SavePut == Saving("save") /\ Backend = "minio" /\ Stored

\* The exception is logged, the process goes on with its own baseline.
SaveFails ==
    /\ "save" \in Faults /\ (Saving("save") \/ Saving("dump"))
    /\ pc' = "poll"
    /\ UNCHANGED <<kafka, up, position, warmup, baseline, okCount, file, history>>

-----------------------------------------------------------------------------
Produce(m) ==
    /\ m \in setting.messages /\ Len(log) < setting.length
    /\ log' = Append(log, m)
    /\ UNCHANGED <<setting, committed, up, position, pc, warmup, baseline, okCount, file, history>>

Body == SkipMalformed \/ DieOnUnreadable \/ WarmUp \/ FoundOk \/ FoundDrift

Save == SaveOpen \/ SaveDump \/ SavePut \/ SaveFails

Next ==
    \/ Start \/ Fetch \/ AutoCommit \/ Crash \/ Body \/ Save
    \/ \E m \in Messages : Produce(m)

\* The process is restarted when it is down; whatever it can do again and again
\* it does in the end, so kills do not always hit the same step.
Fairness ==
    /\ WF_vars(Start) /\ SF_vars(Fetch) /\ SF_vars(Body) /\ SF_vars(AutoCommit)
    /\ SF_vars(SaveOpen) /\ SF_vars(SaveDump) /\ SF_vars(SavePut)

Spec == Init /\ [][Next]_vars
FairSpec == Spec /\ Fairness

-----------------------------------------------------------------------------
(* Safety                                                                  *)

\* No window is lost between the consumer and the monitor: whatever the group
\* has committed past was evaluated, warmed up with, or could not be.
CommittedIsHandled ==
    committed # NoCommit =>
        \A n \in 1..committed : log[n] \in Windows => n \in handled \cup skipped

\* "Apply EMA update every N consecutive OK windows" (config.example.env:14):
\* the process that moves the baseline found its last N windows stable.
UpdateAfterOkRun ==
    [][up /\ up' /\ baseline # None /\ baseline' # baseline
         => recent' = [i \in 1..OkInterval |-> "OK"]]_vars

\* Storage whose calls do not fail holds the baseline in use whenever the process
\* waits for a message: a kill there loses nothing.
StoredIsInUse ==
    Faults = {} /\ up /\ pc = "poll" /\ baseline # None => file = baseline

Bootstraps == up /\ pc = "body" /\ baseline = None /\ baseline' # None

\* "automatically bootstrapped from the first N windows of data when no prior
\* baseline exists" (baseline_store.py:8-9): on MinIO, where a PUT is whole or not
\* at all, and with reads that succeed, never once a baseline has been stored.
BootstrapWithoutPrior ==
    [][Bootstraps /\ Backend = "minio" /\ "load" \notin Faults => ~stored]_vars

(* Liveness                                                                *)

\* Every window the group has not passed over is dealt with in the end, unless a
\* message that cannot be read kills every process that meets it.
EveryWindowIsHandled ==
    Unreadable \notin setting.messages =>
    \A n \in 1..MaxLog :
        Len(log) >= n /\ committed < n /\ log[n] \in Windows ~> n \in handled

(* What the documentation says and the code does not do                    *)

\* "when no prior baseline exists" (baseline_store.py:9), on any backend.
BootstrapOnlyWithoutPrior == [][Bootstraps => ~stored]_vars
=============================================================================
