-------------------------- MODULE OnlineFeatureCache --------------------------
(***************************************************************************)
(* The three-level online read path of examples/feature-consumption:       *)
(* OnlineFeatureReader (online/online_reader.py) reads Redis, then the     *)
(* MinIO serving layout, then Iceberg, and writes what it found into the   *)
(* levels above; the materialisation job (online/materialize.py) rewrites  *)
(* the serving layout and Redis from what BatchFeatureReader finds in the  *)
(* offline table, or in the bucket's raw files, or makes up.               *)
(*                                                                         *)
(* Every remote call is an action, so reader processes, the job, the       *)
(* expiry of Redis keys and the appends of the stream job interleave       *)
(* between any two of them.  A feature vector is its user and its window;  *)
(* windows are ordered by window_start_ms, and each has a date of its own, *)
(* so that a set of windows is a set of dates as well.                     *)
(***************************************************************************)
EXTENDS Naturals, FiniteSets, FiniteSetsExt

CONSTANTS Users,       \* user ids
          Keys,        \* object names of the serving layout
          ObjectKey,   \* the object name serving_key_for gives a user id
          MaxWindow,   \* windows the stream job has data for: 1..MaxWindow
          Readers,     \* reader processes, each with one reader object
          Synthetic,   \* the user ids BatchFeatureReader makes up rows for
          Settings,    \* the deployments considered
          Unset        \* a user id that is no key of the result dict yet

Windows == 1..MaxWindow
Vector  == [user : Users, window : Windows]
Nothing == [user |-> Unset, window |-> 0]

\* A deployment: its users and windows, its readers, the calls these make, whether they
\* connected to Redis and MinIO when constructed, the services whose calls may
\* fail, the window ranges the job is run for, the packages the job can import, and
\* the windows the feature sink writes files of, with the dates it files them under.
Deployments ==
    [users : SUBSET Users, windows : SUBSET Windows, readers : SUBSET Readers, ops : SUBSET {"get", "mget"},
     redis : BOOLEAN, minio : BOOLEAN, faults : SUBSET {"redis", "minio", "iceberg"},
     ranges : SUBSET SUBSET Windows, packages : SUBSET {"pyiceberg", "minio"},
     filed : SUBSET (Windows \X Windows)]

ASSUME OFCAssumption ==
    /\ ObjectKey \in [Users -> Keys]
    /\ IsFiniteSet(Users) /\ MaxWindow \in Nat /\ Synthetic \subseteq Users
    /\ Settings \subseteq Deployments
    /\ Unset \notin Vector \cup {Nothing}

VARIABLES setting,   \* the deployment
          offline,   \* the windows of each user in the Iceberg table
          raw,       \* the windows of each user in the bucket's raw files, by the file's date
          redis,     \* the vector under each user's Redis key
          objects,   \* the vector in each object of the serving layout
          pc, op, ask,  \* per reader: stage, method and user ids of its call
          result,    \* per reader: the result dict
          fills,     \* per reader: users found in MinIO and not yet set in Redis
          hand,      \* per reader: the vector of an Iceberg hit being written back
          tally,     \* per reader: what the call has added to LookupStats.total
          job,       \* the materialisation job: "idle", "put" or "warm"
          vectors,   \* its latest vector per user, kept after it has ended
          pending    \* users whose vector the current phase has not written yet

stores  == <<setting, offline, raw, redis, objects>>
readers == <<pc, op, ask, result, fills, hand, tally>>
jobVars == <<job, vectors, pending>>
vars == <<stores, readers, jobVars>>

Stages  == {"idle", "l1", "l2", "fill", "l3", "l3redis", "l3minio"}

TypeOK ==
    /\ setting \in Settings
    /\ offline \in [Users -> SUBSET Windows]
    /\ raw \in [Users -> SUBSET (Windows \X Windows)]
    /\ redis \in [Users -> Vector \cup {Nothing}]
    /\ objects \in [Keys -> Vector \cup {Nothing}]
    /\ pc \in [Readers -> Stages]
    /\ op \in [Readers -> {"get", "mget"}]
    /\ ask \in [Readers -> SUBSET Users]
    /\ result \in [Readers -> [Users -> Vector \cup {Nothing, Unset}]]
    /\ fills \in [Readers -> SUBSET Users]
    /\ hand \in [Readers -> Vector \cup {Nothing}]
    /\ tally \in [Readers -> Nat]
    /\ job \in {"idle", "put", "warm"}
    /\ vectors \in [Users -> Vector \cup {Nothing}]
    /\ pending \in SUBSET Users

NoResult == [u \in Users |-> Unset]

Init ==
    /\ setting \in Settings
    /\ offline = [u \in Users |-> {}]
    /\ raw = [u \in Users |-> {}]
    /\ redis = [u \in Users |-> Nothing]
    /\ objects = [k \in Keys |-> Nothing]
    /\ pc = [r \in Readers |-> "idle"]
    /\ op = [r \in Readers |-> "get"]
    /\ ask = [r \in Readers |-> {}]
    /\ result = [r \in Readers |-> NoResult]
    /\ fills = [r \in Readers |-> {}]
    /\ hand = [r \in Readers |-> Nothing]
    /\ tally = [r \in Readers |-> 0]
    /\ job = "idle"
    /\ vectors = [u \in Users |-> Nothing]
    /\ pending = {}

Ops == setting.ops
HasRedis == setting.redis
HasMinio == setting.minio
Faults == setting.faults
Ranges == setting.ranges
Packages == setting.packages

\* Whether a call to a service succeeds; every caller swallows the exception.
Succeeds(service) == IF service \in Faults THEN BOOLEAN ELSE {TRUE}

\* Mutant: one object per shard prefix instead of one per user.
ShardKey(u) == CHOOSE k \in Keys : TRUE

ServingKey(u) == ObjectKey[u]

RedisPut(fv) == [redis EXCEPT ![fv.user] = fv]
MinioPut(fv) == [objects EXCEPT ![ServingKey(fv.user)] = fv]

Unanswered(res, users) == {u \in users : res[u] = Unset}

-----------------------------------------------------------------------------
(* The reader: get (one user id) and mget (a list of them)                 *)

Call(r, how, users) ==
    /\ pc[r] = "idle" /\ r \in setting.readers /\ users \subseteq setting.users
    /\ pc' = [pc EXCEPT ![r] = "l1"]
    /\ op' = [op EXCEPT ![r] = how]
    /\ ask' = [ask EXCEPT ![r] = users]
    /\ result' = [result EXCEPT ![r] = NoResult]
    /\ tally' = [tally EXCEPT ![r] = 0]
    /\ UNCHANGED <<stores, fills, hand, jobVars>>

CallGet(r, u) == "get" \in Ops /\ Call(r, "get", {u})

CallMget(r, users) == "mget" \in Ops /\ users # {} /\ Call(r, "mget", users)

\* GET, or one MGET for the whole list; a failed call finds nothing.
L1Read(r) ==
    /\ pc[r] = "l1"
    /\ \E ok \in Succeeds("redis") :
         LET hits == IF HasRedis /\ ok
                     THEN {u \in ask[r] : redis[u] # Nothing} ELSE {}
         IN /\ result' = [result EXCEPT ![r] =
                            [u \in Users |-> IF u \in hits THEN redis[u] ELSE Unset]]
            /\ tally' = [tally EXCEPT ![r] = @ + Cardinality(hits)]
            /\ pc' = [pc EXCEPT ![r] = IF hits = ask[r] THEN "idle"
                                       ELSE IF HasMinio THEN "l2" ELSE "l3"]
    /\ UNCHANGED <<stores, op, ask, fills, hand, jobVars>>

\* Mutant: a get stores the miss as mget does.
L2MissNone(r) == Nothing

\* get leaves a miss open for Iceberg; mget stores the None of _l2_mget in
\* the result dict.
L2Miss(r) == IF op[r] = "get" THEN Unset ELSE Nothing

\* One object GET; the misses of mget are read one after the other, and only
\* then is Redis filled.
L2Read(r, u) ==
    /\ pc[r] = "l2" /\ u \in Unanswered(result[r], ask[r])
    /\ \E ok \in Succeeds("minio") :
         LET found == IF ok THEN objects[ServingKey(u)] ELSE Nothing
             next  == [result[r] EXCEPT ![u] = IF found = Nothing THEN L2Miss(r) ELSE found]
             more  == Unanswered(next, ask[r])
         IN /\ result' = [result EXCEPT ![r] = next]
            /\ fills' = [fills EXCEPT ![r] = IF found = Nothing THEN @ ELSE @ \cup {u}]
            /\ pc' = [pc EXCEPT ![r] = IF op[r] = "mget" /\ more # {} THEN "l2"
                                       ELSE IF fills'[r] # {} THEN "fill"
                                       ELSE IF more # {} THEN "l3" ELSE "idle"]
    /\ UNCHANGED <<stores, op, ask, hand, tally, jobVars>>

\* SETEX of a MinIO hit, under the Redis key of the user the object names.
L2Fill(r, u) ==
    /\ pc[r] = "fill" /\ u \in fills[r]
    /\ \E ok \in Succeeds("redis") :
         redis' = IF HasRedis /\ ok THEN RedisPut(result[r][u]) ELSE redis
    /\ fills' = [fills EXCEPT ![r] = @ \ {u}]
    /\ tally' = [tally EXCEPT ![r] = @ + 1]
    /\ pc' = [pc EXCEPT ![r] = IF fills'[r] = {} THEN "idle" ELSE "fill"]
    /\ UNCHANGED <<setting, offline, raw, objects, op, ask, result, hand, jobVars>>

\* After a user id was settled: the next one without a result, or the end.
L3Goes(r, res) == IF Unanswered(res, ask[r]) = {} THEN "idle" ELSE "l3"

\* No row of the user, or an exception of the scan, or no pyiceberg: all are None.
L3Miss(r, u) ==
    /\ pc[r] = "l3" /\ u \in Unanswered(result[r], ask[r])
    /\ offline[u] = {} \/ "iceberg" \in Faults
    /\ result' = [result EXCEPT ![r][u] = Nothing]
    /\ tally' = [tally EXCEPT ![r] = @ + 1]
    /\ pc' = [pc EXCEPT ![r] = L3Goes(r, result'[r])]
    /\ UNCHANGED <<stores, op, ask, fills, hand, jobVars>>

\* The last row of a scan in file order: any of the user's windows.
L3Hit(r, u, w) ==
    /\ pc[r] = "l3" /\ u \in Unanswered(result[r], ask[r]) /\ w \in offline[u]
    /\ LET fv == [user |-> u, window |-> w]
       IN /\ result' = [result EXCEPT ![r][u] = fv]
          /\ hand' = [hand EXCEPT ![r] = fv]
    /\ pc' = [pc EXCEPT ![r] = "l3redis"]
    /\ UNCHANGED <<stores, op, ask, fills, tally, jobVars>>

L3FillRedis(r) ==
    /\ pc[r] = "l3redis"
    /\ \E ok \in Succeeds("redis") :
         redis' = IF HasRedis /\ ok THEN RedisPut(hand[r]) ELSE redis
    /\ pc' = [pc EXCEPT ![r] = "l3minio"]
    /\ UNCHANGED <<setting, offline, raw, objects, op, ask, result, fills, hand, tally, jobVars>>

\* The PUT is unconditional, whatever the job has written meanwhile.
L3FillMinio(r) ==
    /\ pc[r] = "l3minio"
    /\ \E ok \in Succeeds("minio") :
         objects' = IF HasMinio /\ ok THEN MinioPut(hand[r]) ELSE objects
    /\ hand' = [hand EXCEPT ![r] = Nothing]
    /\ tally' = [tally EXCEPT ![r] = @ + 1]
    /\ pc' = [pc EXCEPT ![r] = L3Goes(r, result[r])]
    /\ UNCHANGED <<setting, offline, raw, redis, op, ask, result, fills, jobVars>>

-----------------------------------------------------------------------------
(* The materialisation job, run for a range of windows                     *)

\* Mutant: keeps the first row of the sorted group.
Oldest(windows) == Min(windows)

Newest(windows) == Max(windows)

\* Mutant: a user without rows gets the default window of from_dict.
LatestDefault(rows, u) ==
    [user |-> u, window |-> Newest({0} \cup {fv.window : fv \in {row \in rows : row.user = u}})]

LatestOf(rows, u) ==
    LET windows == {fv.window : fv \in {row \in rows : row.user = u}}
    IN IF windows = {} THEN Nothing ELSE [user |-> u, window |-> Newest(windows)]

\* The rows of a range of dates: of the table by their own date, of the bucket by
\* the date their file is under, and made up for every date.
FromTable(range) == {fv \in Vector : fv.window \in offline[fv.user] \cap range}
FromFiles(range) == {fv \in Vector : \E day \in range : <<fv.window, day>> \in raw[fv.user]}
MadeUp(range) == {fv \in Vector : fv.user \in Synthetic /\ fv.window \in range}

\* A listing or a GET that fails is skipped; no row at all is replaced.
Downloads(range) ==
    IF "minio" \notin Packages THEN {MadeUp(range)}
    ELSE {IF rows = {} THEN MadeUp(range) ELSE rows :
             rows \in IF "minio" \in Faults THEN SUBSET FromFiles(range) ELSE {FromFiles(range)}}

\* What read_date_range may return: the table where pyiceberg is installed, the
\* bucket where it is not or its catalog or scan fails.
RowsRead(range) ==
    (IF "pyiceberg" \in Packages THEN {FromTable(range)} ELSE {})
        \cup (IF "pyiceberg" \notin Packages \/ "iceberg" \in Faults THEN Downloads(range) ELSE {})

\* An empty read ends the job before anything is written, as an exception of it
\* does; without the minio package no object is.
JobRead(range) ==
    /\ job = "idle" /\ range \in Ranges
    /\ \E rows \in RowsRead(range) :
          /\ rows # {}
          /\ vectors' = [u \in Users |-> LatestOf(rows, u)]
    /\ pending' = IF "minio" \in Packages THEN {u \in Users : vectors'[u] # Nothing} ELSE {}
    /\ job' = "put"
    /\ UNCHANGED <<stores, readers>>

\* The PUTs run on a thread pool, in any order; a failed one is counted.
JobPut(u) ==
    /\ job = "put" /\ u \in pending
    /\ \E ok \in Succeeds("minio") :
         objects' = IF ok THEN MinioPut(vectors[u]) ELSE objects
    /\ pending' = pending \ {u}
    /\ UNCHANGED <<setting, offline, raw, redis, readers, job, vectors>>

JobPutsDone(warmRedis) ==
    /\ job = "put" /\ pending = {}
    /\ job' = IF warmRedis THEN "warm" ELSE "idle"
    /\ pending' = IF warmRedis THEN {u \in Users : vectors[u] # Nothing} ELSE {}
    /\ UNCHANGED <<stores, readers, vectors>>

\* One command of a pipeline that is no transaction: readers run in between.
JobWarm(u) ==
    /\ job = "warm" /\ u \in pending
    /\ redis' = RedisPut(vectors[u])
    /\ pending' = pending \ {u}
    /\ UNCHANGED <<setting, offline, raw, objects, readers, job, vectors>>

\* All commands executed, or the connection lost before the rest of them.
JobEnds ==
    /\ job = "warm" /\ (pending = {} \/ "redis" \in Faults)
    /\ job' = "idle" /\ pending' = {}
    /\ UNCHANGED <<stores, readers, vectors>>

-----------------------------------------------------------------------------
(* The services                                                            *)

\* The stream job commits rows to the table, late windows after newer ones.
Append(u, w) ==
    /\ w \in setting.windows \ offline[u] /\ u \in setting.users
    /\ offline' = [offline EXCEPT ![u] = @ \cup {w}]
    /\ UNCHANGED <<setting, raw, redis, objects, readers, jobVars>>

\* The feature sink puts a file into the bucket, under the date its clock shows.
Deliver(u, w, day) ==
    /\ u \in setting.users /\ <<w, day>> \in setting.filed \ raw[u]
    /\ raw' = [raw EXCEPT ![u] = @ \cup {<<w, day>>}]
    /\ UNCHANGED <<setting, offline, redis, objects, readers, jobVars>>

\* A Redis key reaches its TTL.
Expire(u) ==
    /\ redis[u] # Nothing
    /\ redis' = [redis EXCEPT ![u] = Nothing]
    /\ UNCHANGED <<setting, offline, raw, objects, readers, jobVars>>

-----------------------------------------------------------------------------
Lookup(r) ==
    \/ L1Read(r) \/ L3FillRedis(r) \/ L3FillMinio(r)
    \/ \E u \in Users : L2Read(r, u) \/ L2Fill(r, u) \/ L3Miss(r, u)
    \/ \E u \in Users, w \in Windows : L3Hit(r, u, w)

Request(r) ==
    \/ \E u \in Users : CallGet(r, u)
    \/ \E users \in SUBSET Users : CallMget(r, users)

JobWorks ==
    \/ \E u \in Users : JobPut(u) \/ JobWarm(u)
    \/ \E warmRedis \in BOOLEAN : JobPutsDone(warmRedis)
    \/ JobEnds

Environment ==
    \/ \E u \in Users, w \in Windows : Append(u, w) \/ \E day \in Windows : Deliver(u, w, day)
    \/ \E u \in Users : Expire(u)

Next ==
    \/ \E r \in Readers : Request(r) \/ Lookup(r)
    \/ \E range \in SUBSET Windows : JobRead(range)
    \/ JobWorks \/ Environment

\* A call that was made runs on, each remote call has a timeout; a run of the job
\* ends; Redis keys expire. Nobody is bound to start the job.
Fairness ==
    /\ \A r \in Readers : WF_vars(Lookup(r))
    /\ WF_vars(JobWorks)
    /\ \A u \in Users : SF_vars(Expire(u))

Spec == Init /\ [][Next]_vars
FairSpec == Spec /\ Fairness

-----------------------------------------------------------------------------
(* Safety                                                                  *)

\* The windows there are rows of u for, in the table, in a raw file or made up.
RowsFor(u) ==
    offline[u] \cup {filed[1] : filed \in raw[u]} \cup IF u \in Synthetic THEN Windows ELSE {}

\* What a vector must be under the name of u: a row of u's.
IsRowOf(fv, u) == fv.user = u /\ fv.window \in RowsFor(u)

CachesHoldRows ==
    \A u \in Users :
        /\ redis[u] # Nothing => IsRowOf(redis[u], u)
        /\ objects[ServingKey(u)] # Nothing => IsRowOf(objects[ServingKey(u)], u)

AnswersAreRows ==
    \A r \in Readers, u \in Users : result[r][u] \in Vector => IsRowOf(result[r][u], u)

\* What a cache level holds and a call answers with is a row of the user it is held or
\* answered for, from the offline table or a raw file unless the id is one that rows
\* are made up for: no mix of vectors, none under the wrong user, after any
\* interleaving of backfills and of job runs that read either store
\* (online_reader.py:141-227, materialize.py:98-182).
RowsOfTheirUser == CachesHoldRows /\ AnswersAreRows

GivesUpOn(r, u) == result[r][u] # Nothing /\ result'[r][u] = Nothing

\* "None -> user_id genuinely not found" (online_reader.py:38): where Iceberg answers, a
\* get, or a batch call without MinIO, gives up on a user only when the offline table
\* has no row for it, even when Redis and MinIO fail.
NoneMeansAbsent ==
    [][\A r \in Readers, u \in Users :
         /\ "iceberg" \notin Faults /\ (op[r] = "get" \/ ~HasMinio)
         /\ GivesUpOn(r, u)
         => offline[u] = {}]_vars

(* The inductive invariant behind them                                     *)

\* A reader about to write back, and the job, hold a vector to write.
Held ==
    /\ \A r \in Readers : pc[r] \notin {"l2", "fill"} => fills[r] = {}
    /\ \A r \in Readers : \A u \in fills[r] : result[r][u] \in Vector
    /\ \A r \in Readers : pc[r] \in {"l3redis", "l3minio"} => hand[r] \in Vector
    /\ \A u \in pending : vectors[u] # Nothing

\* The vectors on their way between the stores are rows as well.
CarriedAreRows ==
    /\ AnswersAreRows
    /\ \A r \in Readers, u \in Users : hand[r] \in Vector /\ hand[r].user = u => IsRowOf(hand[r], u)
    /\ \A u \in Users : vectors[u] # Nothing => IsRowOf(vectors[u], u)

\* A reader without a MinIO client has no MinIO stage.
ReaderModes == \A r \in Readers : pc[r] = "l2" => HasMinio

(* Liveness                                                                *)

NewestRow(u) == [user |-> u, window |-> Max(offline[u])]

\* Nothing fails, and every run's dates include the user's newest row.
Covered(u) ==
    /\ Faults = {} /\ HasMinio /\ Packages = {"pyiceberg", "minio"}
    /\ offline[u] # {} /\ \A range \in Ranges : Max(offline[u]) \in range

\* A write-back of a stale vector (online_reader.py:156-162) is undone by nothing but a run
\* of the job and, in Redis, the TTL. Once the rows stop coming, and as long as
\* runs are started again and again for dates that include a user's newest row, both
\* levels end up with that row for good. One run is not enough, a slow reader may come
\* after it; the default run, over yesterday, covers a user's newest row for a day.
CachesConverge ==
    \A u \in Users :
        []<><<\E range \in SUBSET Windows : JobRead(range)>>_vars =>
            <>[](Covered(u) => /\ objects[ServingKey(u)] = NewestRow(u)
                              /\ redis[u] \in {Nothing, NewestRow(u)})

(* What the documentation says and the code does not do                    *)

\* "None -> user_id genuinely not found" (online_reader.py:38), in every call and whatever
\* fails: a call gives up on a user only when the offline table has no row for it.
NoneMeansNotFound ==
    [][\A r \in Readers, u \in Users : GivesUpOn(r, u) => offline[u] = {}]_vars
=============================================================================
