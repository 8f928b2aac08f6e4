-------------------------- MODULE MCStreamProcessor --------------------------
(* Instances of StreamProcessor for TLC                                     *)
EXTENDS StreamProcessor, TLC

of(u, op, t, row) == [of |-> u, op |-> op, ts |-> t, after |-> row]
plain(u) == [user_id |-> Text(u), event_type |-> Text("view"), created_at |-> Num(1)]
c(u, t) == of(u, "c", t, plain(u))

\* Rows under old names, with widened and changed types, without their
\* columns; messages out of range, deletions, and what is no message at all.
renamed == of("u1", "c", 1, [uid |-> Text("u1"), type |-> Text("view"), ts |-> Num(99), session_id |-> Null])
typed == of("u1", "c", 2, [user_id |-> Null, uid |-> Text("u1"), event_type |-> Text("view"), created_at |-> Text("today"), metadata |-> Text("m")])
customer == [customer |-> Text("u2"), event_type |-> Text("view"), created_at |-> Num(1)]
kindless == of("u1", "c", 2, [user_id |-> Text("u1")])
tooLong == of("u9", "r", 2, plain("u9"))
deletion == of(None, "d", 3, None)
unknownOp == of(None, "t", 3, None)
tombstone == None

none == [feed |-> <<>>, present |-> 0, start |-> 0, jobs |-> {}, aliases |-> <<>>, fixed |-> <<>>, replays |-> FALSE,
         mode |-> "kafka_range", from |-> 0, to |-> 0, iceberg |-> TRUE, catalog |-> "rest", uri |-> TRUE, crashes |-> FALSE]
live(feed) == [none EXCEPT !.feed = feed, !.present = Len(feed), !.start = Horizon, !.jobs = {"live"}]

\* A message behind the watermark, read again after a restart.
Crashes == [live(<<c("u1", 1), c("u2", 1), c("u1", 4), c("u1", 1)>>) EXCEPT !.crashes = TRUE]
\* Three windows, the one in the middle too small for a signal, while time goes by.
Drifts == [live(<<c("u1", 1), c("u2", 1), c("u1", 2), c("u1", 5), c("u2", 4), c("u1", 8)>>) EXCEPT !.start = 7, !.iceberg = FALSE]
\* Snapshots of a window in pieces, beside the commits.
Pieces == [live(<<c("u1", 1), c("u2", 1), c("u1", 1), c("u1", 5), c("u2", 5)>>) EXCEPT !.start = 3, !.present = 4]
\* Messages of every kind, and the dead letters read again with a new alias.
Kinds == [live(<<renamed, of(None, "c", 2, customer), tombstone, typed, kindless, tooLong, deletion, unknownOp, c("u2", 5)>>)
             EXCEPT !.start = 2, !.replays = TRUE, !.fixed = <<<<"customer", "user_id">>, <<Blank, "user_id">>>>]
Aliased == [live(<<of("u2", "c", 2, customer), c("u1", 5)>>) EXCEPT !.aliases = <<<<"customer", "user_id">>>>]
\* A backfill beside the live job; one of the snapshot; one without a range.
Ranges == [live(<<c("u1", 1), kindless, of("u2", "r", 3, plain("u2")), c("u1", 5)>>)
              EXCEPT !.present = 3, !.jobs = StreamJob, !.from = 2, !.to = 5]
Snapshots == [Ranges EXCEPT !.jobs = {"backfill"}, !.mode = "cdc_snapshot", !.crashes = TRUE]
NoCatalog == [Ranges EXCEPT !.uri = FALSE]
Rangeless == [Ranges EXCEPT !.jobs = {"backfill"}, !.from = 0]
\* Without Iceberg; its catalog is not asked for.
Bare == [NoCatalog EXCEPT !.iceberg = FALSE, !.present = 4, !.start = 6]
\* Counts for the model server, commits for the maintenance.
Served == [live(<<c("u1", 1), c("u2", 1)>>) EXCEPT !.jobs = {"backfill"}, !.mode = "cdc_snapshot", !.iceberg = FALSE]
Stored == [live(<<c("u1", 1), c("u1", 3), c("u1", 5), c("u1", 8)>>)
              EXCEPT !.start = 7, !.jobs = {"backfill"}, !.mode = "cdc_snapshot"]

rest == [runs |-> FALSE, dryRun |-> FALSE]
idle == [runs |-> FALSE, badUrl |-> FALSE, crashes |-> FALSE, capacity |-> 1]
serving == [idle EXCEPT !.runs = TRUE]

\* A window that fires, a restart, and late messages for the same window; a row of changed
\* types, and one whose dead letter is read again.
Documented ==
    [live(<<[typed EXCEPT !.ts = 1], c("u1", 1), c("u2", 1), of(None, "c", 1, customer), c("u1", 4), c("u1", 1), c("u1", 4)>>)
        EXCEPT !.crashes = TRUE, !.replays = TRUE]

MCJobSettings == {Crashes, Drifts, Pieces, Kinds, Aliased, Ranges, Snapshots, Rangeless, NoCatalog, Bare, Served, Stored, Documented}
MCCareSettings == [runs : BOOLEAN, dryRun : BOOLEAN]
MCServeSettings == [runs : BOOLEAN, badUrl : BOOLEAN, crashes : BOOLEAN, capacity : {1, 2}]
MCStreamSettings ==
    {[bus |-> b, order |-> rest, serve |-> idle] : b \in {Crashes, Drifts, Pieces, Kinds, Aliased, Ranges, Snapshots, Rangeless, NoCatalog, Bare}}
    \cup {[bus |-> Served, order |-> rest, serve |-> s] :
             s \in {[serving EXCEPT !.crashes = TRUE], [serving EXCEPT !.capacity = 2], [serving EXCEPT !.badUrl = TRUE, !.crashes = TRUE, !.capacity = 2]}}
    \cup {[bus |-> Stored, order |-> [runs |-> TRUE, dryRun |-> d], serve |-> idle] : d \in BOOLEAN}

MCDocumented == {[bus |-> Documented, order |-> rest, serve |-> idle]}
=============================================================================
