----------------------------- MODULE MCFeatureLake -----------------------------
(* Instances of FeatureLake for TLC                                           *)
EXTENDS FeatureLake, TLC

lake(u, w) == [user |-> u, win |-> w, by |-> "lake"]
row(u, w, by) == [user |-> u, win |-> w, by |-> by]

\* Two windows a day, two days; object 3 has a window of the day before.
MCFileDay == <<1, 1, 2>>
MCRowsOf == <<{lake("u1", 1)}, {lake("u1", 2), lake("u2", 1)}, {lake("u1", 4), lake("u2", 2)}>>
MCFeaturesOf == [v \in {"stats", "rate"} |-> IF v = "stats" THEN {"count"} ELSE {"norm"}]

quiet == [procs |-> {}, minioFails |-> FALSE, redisFails |-> FALSE, stops |-> FALSE, expires |-> FALSE,
          ranges |-> {}, frames |-> {}, batches |-> {}, streamed |-> {}, applies |-> {}, asked |-> {}]
store == [quiet EXCEPT !.procs = {"p1"}]
stores == [quiet EXCEPT !.procs = Procs]

\* Range reads over a bucket that fills, for a job and for Redis.
Reads == [store EXCEPT !.minioFails = TRUE, !.ranges = {<<1, 1>>, <<1, 2>>},
             !.frames = {[users |-> {"u1"}, days |-> {2}], [users |-> {"u2"}, days |-> {}]}]
\* Two jobs read up to a day while the Kafka writer is at work.
OneDay == [stores EXCEPT !.frames = {[users |-> {"u1"}, days |-> {1}]}, !.streamed = {row("u1", 1, "stream"), row("u1", 2, "stream")}]
\* Pushes against pushes and the Kafka writer, with kills and lost connections.
Pushes == [stores EXCEPT !.stops = TRUE, !.batches = {{row("u1", 1, "push"), row("u2", 2, "push")}, {row("u1", 2, "push")}},
             !.streamed = {row("u1", 3, "stream"), row("u1", 1, "stream")}]
Losses == [stores EXCEPT !.redisFails = TRUE, !.expires = TRUE, !.batches = {{row("u1", 1, "push")}, {row("u1", 2, "push")}},
             !.streamed = {row("u1", 4, "stream")}]
\* Requests while rows change.
Requests == [store EXCEPT !.redisFails = TRUE, !.batches = {{row("u1", 1, "push")}},
             !.streamed = {row("u2", 2, "stream")}, !.applies = {<<"stats", None, "rate">>, <<"rate">>},
             !.asked = {<<{<<"stats", "*">>, <<"rate", "norm">>}, <<"u1", None, "u2">>>>,
                        <<ServiceRefs({"rate"}), <<"u2", "u2">>>>}]

\* Object 1 holds nothing that parses, object 2 is not text; 8 and 9 are synthetic.
MCPathOf == [f \in Files |-> IF f = 1 THEN <<"09", "/", "part-0">> ELSE IF f = 2 THEN <<"10", "/", "part-0">>
                             ELSE IF f = 3 THEN <<"10", "/", "part-1">>
                             ELSE IF f = 8 THEN <<"demo", "/", "a">> ELSE <<"demo", "/", "b">>]
\* Objects 2 and 3 have one local name: v2/x_a and v2_x/a.
OnePath == [f \in Files |-> IF f = 2 THEN <<"v2", "/", "x", "_", "a">>
                            ELSE IF f = 3 THEN <<"v2", "_", "x", "/", "a">> ELSE MCPathOf[f]]
MCRecords == [f \in Files |-> IF f = 3 THEN 2 ELSE IF f \in DemoFiles THEN 1 ELSE 0]
MCHeat == [f \in Files |-> f]

idle == [runs |-> {}, minioFails |-> FALSE, diskFails |-> FALSE, kills |-> FALSE, iceberg |-> FALSE,
         tableRows |-> 2, uploads |-> TRUE, id |-> [j \in Jobs |-> j]]
jobs == [idle EXCEPT !.runs = Jobs]
Faulty == [jobs EXCEPT !.minioFails = TRUE, !.diskFails = TRUE]
Killed == [jobs EXCEPT !.kills = TRUE]
OneJob == [idle EXCEPT !.runs = {"j1"}]
OneRow == [OneJob EXCEPT !.iceberg = TRUE, !.tableRows = 1]
OneId == [jobs EXCEPT !.iceberg = TRUE, !.id = [j \in Jobs |-> "j1"]]

off == [active |-> {}, minio |-> TRUE, minioFails |-> FALSE, emitFails |-> FALSE, removes |-> FALSE,
        kills |-> FALSE, id |-> [r \in Runs |-> r]]
runs == [off EXCEPT !.active = Runs]
Removing == [runs EXCEPT !.removes = TRUE]
Failing == [runs EXCEPT !.minioFails = TRUE, !.emitFails = TRUE]
Shared == [runs EXCEPT !.kills = TRUE, !.minio = FALSE, !.id = [r \in Runs |-> "r1"]]

\* One object of each day; object 2 states its own date and object 3 has no records.
MCSinkRows == <<{[id |-> 1, date |-> None], [id |-> 2, date |-> None]}, {[id |-> 3, date |-> 1]}, {}>>
MCSinkDay == <<1, 2, 3>>
MCTableRows == {[id |-> 1, date |-> 1], [id |-> 3, date |-> 2], [id |-> 4, date |-> 3]}

reading == [requested |-> "auto", pyiceberg |-> TRUE, minio |-> TRUE, icebergFails |-> FALSE,
            minioFails |-> FALSE, ranges |-> {<<1, 2>>, <<2, 3>>}]
MCBatchSettings == {None, [reading EXCEPT !.icebergFails = TRUE, !.minioFails = TRUE],
                    [reading EXCEPT !.pyiceberg = FALSE], [reading EXCEPT !.pyiceberg = FALSE, !.minio = FALSE],
                    [reading EXCEPT !.requested = "minio", !.minio = FALSE]}

of(w, t, s, b, present, filling) ==
    [world |-> w, trial |-> t, setting |-> s, batch |-> b, present |-> present, fills |-> filling]

MCStoreSettings == {quiet, Reads, OneDay, Pushes, Losses, Requests}
MCTrainSettings == {idle, OneJob, OneRow, Faulty, Killed, OneId}
MCEngineSettings == {off, Removing, Failing, Shared}
MCLakeSettings ==
    {of(Reads, idle, off, None, {}, TRUE)}
    \cup {of(w, idle, off, None, {}, FALSE) : w \in {Pushes, Losses, Requests}}
    \cup {of(quiet, t, off, None, {}, TRUE) : t \in {Faulty, OneRow, OneId}}
    \cup {of(quiet, Killed, off, None, {1, 3}, FALSE)}
    \cup {of(quiet, idle, s, None, {}, FALSE) : s \in {Removing, Failing, Shared}}
    \cup {of(quiet, idle, off, b, {}, TRUE) : b \in MCBatchSettings \ {None}}

\* A day is read twice while its objects arrive and Redis is written to, a job trains
\* on two objects, a reader is told to use MinIO.
Documented == {of(OneDay, OneJob, off, [reading EXCEPT !.requested = "minio", !.minio = FALSE], {2, 3}, TRUE)}
=============================================================================
