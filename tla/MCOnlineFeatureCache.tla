------------------------ MODULE MCOnlineFeatureCache ------------------------
(* Instances of OnlineFeatureCache for TLC                                  *)
EXTENDS OnlineFeatureCache

CONSTANTS u1, u2, s1, k1, k2, k3, r1, r2

\* Every user id has an object of its own.
OwnKeys == [u \in Users |-> IF u = u1 THEN k1 ELSE IF u = u2 THEN k2 ELSE k3]

\* A run covers the table, or yesterday; an operator may run the job for older dates.
Nightly == {Windows}
Yesterday == {{MaxWindow}}
AnyDates == {Windows, {1}}

deployment(us, ws, rs, ops, minio, faults, ranges) ==
    [users |-> us, windows |-> ws, readers |-> rs, ops |-> ops, redis |-> TRUE,
     minio |-> minio, faults |-> faults, ranges |-> ranges,
     packages |-> {"pyiceberg", "minio"}, filed |-> {}]

\* Two readers over one user race the job and failing services; a reader makes
\* batch calls for two users; so does a reader that found no MinIO client; two
\* readers race the runs over the table for one user; the same with yesterday's runs;
\* a batch call alone; a lookup whose Iceberg scan may fail.
Racing == deployment({u1}, Windows, {r1, r2}, {"get"}, TRUE, {"redis", "minio"}, AnyDates)
TwoUsers == deployment({u1, u2}, Windows, {r1}, {"mget"}, TRUE, {}, Nightly)
NoMinio == deployment({u1, u2}, {1}, {r1}, {"mget"}, FALSE, {"redis"}, Nightly)
Nights == deployment({u1}, Windows, {r1, r2}, {"get"}, TRUE, {}, Nightly)
Days == deployment({u1}, Windows, {r1, r2}, {"get"}, TRUE, {}, Yesterday)
Batches == deployment({u1}, {1}, {r1}, {"mget"}, TRUE, {}, Nightly)
NoScan == deployment({u1}, {1}, {r1}, {"get"}, TRUE, {"iceberg"}, Nightly)

\* The job falls back to files, some filed a day late, and to made-up rows: its
\* catalog and the bucket may fail, or pyiceberg is missing, or both packages.
FallsBack == [deployment({u1}, {1}, {r1}, {"get"}, TRUE, {"iceberg", "minio"}, AnyDates)
                  EXCEPT !.filed = {<<1, 1>>, <<2, 2>>, <<1, 2>>}]
FilesOnly == [deployment({u1}, {1}, {r1}, {"get"}, TRUE, {}, AnyDates)
                  EXCEPT !.packages = {"minio"}, !.filed = {<<1, 1>>, <<1, 2>>}]
Bare == [deployment({s1}, {1}, {r1}, {"get"}, TRUE, {}, Nightly) EXCEPT !.packages = {}]

All == {Racing, TwoUsers, NoMinio, Nights, Days, FallsBack, FilesOnly, Bare}
NotAsked == {Batches, NoScan}
=============================================================================
