----------------------------- MODULE FeatureStore -----------------------------
(***************************************************************************)
(* feature-store/ over the readers of examples/feature-read-paths: stores  *)
(* (one per process) that copy the offline rows of some days into Redis,   *)
(* answer online requests from it and historical ones from the bucket,     *)
(* while the job that fills the bucket and the Kafka writer go on.         *)
(*                                                                         *)
(* A row is its user, its window and where it comes from; the other        *)
(* columns follow from these.  One remote call is one action.  A Redis     *)
(* pipeline is not a transaction: its commands are steps of their own.     *)
(***************************************************************************)
EXTENDS Lake

CONSTANTS Users, LastWin, DayLength,  \* windows 1..LastWin, DayLength of them a day
          RowsOf,                     \* the rows in each object of the bucket
          FileDay,                    \* the day in an object's path: that of the sink's clock
          Views, OnDemand, FeaturesOf,\* feature views, those computed on request
          HistSpan,                   \* history the Kafka writer keeps, in windows
          MaxHist,                    \* its MAX_HIST_WINDOWS
          Procs,                      \* processes that build a store
          StoreSettings               \* the circumstances considered

Rows == [user : Users, win : 1..LastWin, by : {"lake", "stream", "push", "demo"}]
DayOf(w) == (w - 1) \div DayLength + 1
Days == 0..DayOf(LastWin)

\* Which processes run, which services may fail; which ranges are materialised; the entity frames of
\* historical requests (their days, none without timestamps or with ones that cannot be
\* read); what is pushed; the windows the Kafka writer brings;
\* the object lists applied, the references and entity rows asked for.
StoreCircumstances ==
    [procs : SUBSET Procs, minioFails : BOOLEAN, redisFails : BOOLEAN, stops : BOOLEAN, expires : BOOLEAN,
     ranges : SUBSET (Days \X Days), frames : SUBSET [users : SUBSET Users, days : SUBSET (Days \ {0})],
     batches : SUBSET SUBSET Rows, streamed : SUBSET {r \in Rows : r.by = "stream"},
     applies : SUBSET Seq(Views \cup {None}), asked : SUBSET ((SUBSET (Views \X STRING)) \X Seq(Users \cup {None}))]

ASSUME FeatureStoreAssumption ==
    /\ LastWin \in Nat \ {0} /\ DayLength \in Nat \ {0} /\ HistSpan \in Nat \ {0} /\ MaxHist \in Nat
    /\ RowsOf \in [LakeFiles -> SUBSET Rows] /\ FileDay \in [LakeFiles -> Days]
    /\ \A f \in LakeFiles : \A r \in RowsOf[f] : r.by = "lake"
    /\ OnDemand \subseteq Views /\ FeaturesOf \in [Views -> SUBSET STRING]
    /\ "redis" \notin Procs /\ None \notin Rows \cup Users \cup Views
    /\ StoreSettings \subseteq StoreCircumstances

VARIABLES world,    \* the circumstances
          manifest, \* files listed by the manifest of a day, None before it is written
          proc,     \* the back-ends a process found when it built its store
          hash,     \* latest row per user, in Redis or in a process's stand-in
          hist,     \* its history
          registry, \* view names a process has applied
          call,     \* what a process is doing
          job,      \* the RetrievalJob a process holds
          answer,   \* the FeatureVector it was last given
          cut       \* users whose row may lack in the history: a push was cut short, or it expired

shared == <<world, objects, manifest>>
online == <<hash, hist, cut>>
local  == <<proc, registry, call, job, answer>>
storeVars == <<world, manifest, online, local>>

Stores == Procs \cup {"redis"}
Idle == [op |-> "idle"]

-----------------------------------------------------------------------------
(* What the readers make of a range of days                                *)

\* Mutant: the last day of the range is exclusive, as the docstring has it.
UpToEnd(lo, hi) == {w \in 1..LastWin : DayOf(w) >= lo /\ DayOf(w) < hi}

WindowsOf(lo, hi) == {w \in 1..LastWin : DayOf(w) >= lo /\ DayOf(w) <= hi}

\* filter_time_range: min_ts < end and max_ts >= start.
Overlaps(f, lo, hi) ==
    RowsOf[f] # {} /\ LET wins == {r.win : r \in RowsOf[f]} IN
        DayOf(Min(wins)) <= hi /\ DayOf(Max(wins)) >= lo

RowsIn(f, lo, hi) == {r \in RowsOf[f] : r.win \in WindowsOf(lo, hi)}

\* _synthetic_records: rows of every user, whatever the range asked for.
DemoRows == {[user |-> u, win |-> LastWin, by |-> "demo"] : u \in Users}

Listed(kind, d) ==
    IF kind = "manifest" THEN IF manifest[d] = None THEN {} ELSE manifest[d]
    ELSE {f \in objects : FileDay[f] = d}

\* Rows a range read should return at least: those it could list when it began.
Due(kind, lo, hi) ==
    IF kind = "demo" THEN {}
    ELSE UNION {{r \in RowsOf[f] : DayOf(r.win) \in lo..hi} : f \in UNION {Listed(kind, d) : d \in lo..hi}}

-----------------------------------------------------------------------------
StoreInit ==
    /\ world \in StoreSettings
    /\ manifest = [d \in Days |-> None]
    /\ proc = [p \in Procs |-> None]
    /\ hash = [s \in Stores |-> [u \in Users |-> None]]
    /\ hist = [s \in Stores |-> [u \in Users |-> {}]]
    /\ registry = [p \in Procs |-> {}]
    /\ call = [p \in Procs |-> Idle] /\ job = [p \in Procs |-> None]
    /\ answer = [p \in Procs |-> <<>>]
    /\ cut = {}

\* OfflineBatchReader: the manifest reader and the scanner connect on their own.
OfflineBackEnds ==
    {IF m THEN "manifest" ELSE IF s THEN "scan" ELSE "demo" : m, s \in Outcomes(world.minioFails)}

\* OnlineFeatureReader: Redis, or a stand-in in the memory of the process, which
\* has rows of every user.
OnlineBackEnds(p) == {IF r THEN "redis" ELSE p : r \in Outcomes(world.redisFails)}
StandIn(u) == {r \in DemoRows : r.user = u}

Open(p) ==
    /\ proc[p] = None /\ p \in world.procs
    /\ \E f \in OfflineBackEnds, n \in OnlineBackEnds(p) : proc' = [proc EXCEPT ![p] = [offline |-> f, online |-> n]]
    /\ hash' = [hash EXCEPT ![p] = [u \in Users |-> CHOOSE r \in StandIn(u) : TRUE]]
    /\ hist' = [hist EXCEPT ![p] = [u \in Users |-> StandIn(u)]]
    /\ UNCHANGED <<shared, cut, registry, call, job, answer>>

\* The process ends, or is killed wherever it is: all it kept is gone, the
\* registry too, for the file that apply() writes is not read again.
Stop(p) ==
    /\ world.stops /\ proc[p] # None
    /\ proc' = [proc EXCEPT ![p] = None]
    /\ registry' = [registry EXCEPT ![p] = {}]
    /\ call' = [call EXCEPT ![p] = Idle] /\ job' = [job EXCEPT ![p] = None]
    /\ answer' = [answer EXCEPT ![p] = <<>>]
    /\ hash' = [hash EXCEPT ![p] = [u \in Users |-> None]]
    /\ hist' = [hist EXCEPT ![p] = [u \in Users |-> {}]]
    /\ cut' = IF call[p].op = "push" /\ call[p].half # None THEN cut \cup {call[p].half.user} ELSE cut
    /\ UNCHANGED shared

Ready(p) == proc[p] # None /\ call[p] = Idle
Begin(p, c) == call' = [call EXCEPT ![p] = c]

\* A failed apply() has registered what came before the object it rejects.
Apply(p, objs) ==
    /\ Ready(p) /\ objs \in world.applies
    /\ LET taken == {objs[n] : n \in {k \in 1..Len(objs) : \A j \in 1..k : objs[j] # None}}
       IN  registry' = [registry EXCEPT ![p] = @ \cup taken]
    /\ UNCHANGED <<shared, online, proc, call, job, answer>>

-----------------------------------------------------------------------------
(* Range reads, for materialize() and for a RetrievalJob                   *)

RangeRead(op, kind, lo, hi) ==
    [op |-> op, lo |-> lo, hi |-> hi, day |-> IF kind = "demo" THEN hi + 1 ELSE lo, todo |-> {},
     rows |-> IF kind = "demo" THEN DemoRows ELSE {}, due |-> Due(kind, lo, hi), failed |-> FALSE]

Materialize(p, lo, hi) ==
    /\ Ready(p) /\ <<lo, hi>> \in world.ranges
    /\ Begin(p, RangeRead("materialize", proc[p].offline, lo, hi))
    /\ UNCHANGED <<shared, online, proc, registry, job, answer>>

Historical(p, frame) ==
    /\ Ready(p) /\ job[p] = None /\ frame \in world.frames
    /\ job' = [job EXCEPT ![p] = [frame |-> frame, fetched |-> FALSE, given |-> {}]]
    /\ UNCHANGED <<shared, online, proc, registry, call, answer>>

\* A day before the first timestamp up to the last; without timestamps, or when they
\* cannot be read, the last week, which holds all the windows.  A job that has its rows reads no more.
Fetch(p) ==
    /\ Ready(p) /\ job[p] # None /\ ~job[p].fetched
    /\ LET ts == job[p].frame.days IN
       Begin(p, IF ts = {} THEN RangeRead("fetch", proc[p].offline, 0, DayOf(LastWin))
                ELSE RangeRead("fetch", proc[p].offline, Min(ts) - 1, Max(ts)))
    /\ UNCHANGED <<shared, online, proc, registry, job, answer>>

Reading(p) == call[p].op \in {"materialize", "fetch"}

\* A manifest that cannot be read counts as none; a listing that breaks off
\* leaves what it had found.
ListDay(p) ==
    /\ Reading(p) /\ call[p].day <= call[p].hi
    /\ LET c == call[p]
           kind == proc[p].offline
           found == {f \in Listed(kind, c.day) : kind = "scan" \/ Overlaps(f, c.lo, c.hi)}
       IN \E ok \in Outcomes(world.minioFails) :
          \E part \in IF ok THEN {found} ELSE IF kind = "scan" THEN SUBSET found ELSE {{}} :
              Begin(p, [c EXCEPT !.day = @ + 1, !.todo = @ \cup part, !.failed = @ \/ ~ok])
    /\ UNCHANGED <<shared, online, proc, registry, job, answer>>

\* The files are fetched by a pool of threads, in any order; one that fails has
\* no rows.
ReadFile(p, f) ==
    /\ Reading(p) /\ call[p].day > call[p].hi /\ f \in call[p].todo
    /\ \E ok \in Outcomes(world.minioFails) :
          Begin(p, [call[p] EXCEPT !.todo = @ \ {f}, !.failed = @ \/ ~ok,
                                   !.rows = IF ok THEN @ \cup RowsIn(f, call[p].lo, call[p].hi) ELSE @])
    /\ UNCHANGED <<shared, online, proc, registry, job, answer>>

ReadDone(p, op) == call[p].op = op /\ call[p].day > call[p].hi /\ call[p].todo = {}

\* Mutant: rows are kept only when there are some.
FetchedAgain(p) ==
    /\ ReadDone(p, "fetch")
    /\ LET mine == {r \in call[p].rows : r.user \in job[p].frame.users}
       IN  job' = [job EXCEPT ![p].fetched = mine # {}, ![p].given = @ \cup {mine}]
    /\ Begin(p, Idle)
    /\ UNCHANGED <<shared, online, proc, registry, answer>>

Fetched(p) ==
    /\ ReadDone(p, "fetch")
    /\ LET mine == {r \in call[p].rows : r.user \in job[p].frame.users}
       IN  job' = [job EXCEPT ![p].fetched = TRUE, ![p].given = @ \cup {mine}]
    /\ Begin(p, Idle)
    /\ UNCHANGED <<shared, online, proc, registry, answer>>

Pushing(rows) == IF rows = {} THEN Idle ELSE [op |-> "push", queue |-> rows, half |-> None]

\* One row per user, none of them older than another of the user that was read.
SelectLatest(p) ==
    /\ ReadDone(p, "materialize")
    /\ LET rows == call[p].rows
           newest(r) == \A x \in rows : x.user = r.user => x.win <= r.win
       IN \E pick \in SUBSET {r \in rows : newest(r)} :
              /\ {r.user : r \in pick} = {r.user : r \in rows}
              /\ \A r, x \in pick : r.user = x.user => r = x
              /\ Begin(p, Pushing(pick))
    /\ UNCHANGED <<shared, online, proc, registry, job, answer>>

-----------------------------------------------------------------------------
(* push_to_online                                                          *)

\* The name of the view is not looked at.
Push(p, batch) ==
    /\ Ready(p) /\ batch \in world.batches
    /\ Begin(p, Pushing(batch))
    /\ UNCHANGED <<shared, online, proc, registry, job, answer>>

Put(s, r) == hash' = [hash EXCEPT ![s][r.user] = r]
Add(s, r) == hist' = [hist EXCEPT ![s][r.user] = @ \cup {r}]

ToRedis(p) == call[p].op = "push" /\ proc[p].online = "redis"

\* Mutant: the history is written first.
HistoryFirst(p, r) ==
    /\ ToRedis(p) /\ r \in call[p].queue
    /\ IF call[p].half = None THEN Add("redis", r) /\ Begin(p, [call[p] EXCEPT !.half = r]) /\ UNCHANGED hash
       ELSE /\ r = call[p].half /\ Put("redis", r) /\ UNCHANGED hist
            /\ Begin(p, Pushing(call[p].queue \ {r}))
    /\ UNCHANGED <<shared, cut, proc, registry, job, answer>>

\* HSET and EXPIRE, then ZADD and EXPIRE, row after row.
PushRow(p, r) ==
    /\ ToRedis(p) /\ r \in call[p].queue
    /\ IF call[p].half = None THEN /\ Put("redis", r) /\ Begin(p, [call[p] EXCEPT !.half = r])
                                  /\ cut' = cut \ {r.user} /\ UNCHANGED hist
       ELSE /\ r = call[p].half /\ Add("redis", r) /\ Begin(p, Pushing(call[p].queue \ {r}))
            /\ UNCHANGED <<hash, cut>>
    /\ UNCHANGED <<shared, proc, registry, job, answer>>

\* The connection is lost: the exception reaches the caller.
PushFails(p) ==
    /\ world.redisFails /\ ToRedis(p)
    /\ cut' = IF call[p].half # None THEN cut \cup {call[p].half.user} ELSE cut
    /\ Begin(p, Idle)
    /\ UNCHANGED <<shared, hash, hist, proc, registry, job, answer>>

\* The stand-in is memory of the process.
PushToStub(p) ==
    /\ call[p].op = "push" /\ proc[p].online = p
    /\ LET of(u) == {r \in call[p].queue : r.user = u} IN
       /\ hash' = [hash EXCEPT ![p] = [u \in Users |-> IF of(u) = {} THEN @[u] ELSE CHOOSE r \in of(u) : TRUE]]
       /\ hist' = [hist EXCEPT ![p] = [u \in Users |-> @[u] \cup of(u)]]
    /\ Begin(p, Idle)
    /\ UNCHANGED <<shared, cut, proc, registry, job, answer>>

-----------------------------------------------------------------------------
(* Online requests                                                         *)

\* "view:feature", "view:*", "*:*" for a bare star; an unknown view gives no
\* features to its star, and a feature of any name passes.
Parsed(refs, known) ==
    UNION {IF ref[2] # "*" THEN {ref}
           ELSE {<<v, f>> : v \in known \cap {ref[1]}, f \in FeaturesOf[ref[1]]} : ref \in refs}

\* get_features: everything the views of a service have.
ServiceRefs(views) == {<<v, "*">> : v \in views}

\* The entity rows that have a user.
WithUser(keys) ==
    LET ids[n \in 0..Len(keys)] ==
            IF n = 0 THEN <<>> ELSE IF keys[n] = None THEN ids[n - 1] ELSE Append(ids[n - 1], keys[n])
    IN  ids[Len(keys)]

GetOnline(p, refs, keys) ==
    /\ Ready(p) /\ <<refs, keys>> \in world.asked
    /\ Begin(p, [op |-> "get", parsed |-> Parsed(refs, registry[p]), keys |-> keys, replies |-> <<>>])
    /\ UNCHANGED <<shared, online, proc, registry, job, answer>>

\* Mutant: an empty reply is left out of the list of replies.
LookupFound(p) ==
    /\ call[p].op = "get"
    /\ LET n == Len(call[p].replies) + 1
           ids == WithUser(call[p].keys)
           got == hash[proc[p].online][ids[n]]
       IN /\ n <= Len(ids)
          /\ Begin(p, IF got = None THEN [call[p] EXCEPT !.keys = Tail(@)]
                      ELSE [call[p] EXCEPT !.replies = Append(@, got)])
    /\ UNCHANGED <<shared, online, proc, registry, job, answer>>

\* get_batch: one HGETALL per entity row that has a user.
Lookup(p) ==
    /\ call[p].op = "get"
    /\ LET n == Len(call[p].replies) + 1
           ids == WithUser(call[p].keys)
       IN /\ n <= Len(ids)
          /\ Begin(p, [call[p] EXCEPT !.replies = Append(@, hash[proc[p].online][ids[n]])])
    /\ UNCHANGED <<shared, online, proc, registry, job, answer>>

\* Replies are matched with users by position, then with entity rows by user; of
\* two replies of a user the later one stays.
Joined(keys, replies) ==
    LET ids == WithUser(keys)
        at(u) == {n \in 1..Len(replies) : ids[n] = u /\ replies[n] # None}
    IN  [n \in 1..Len(keys) |->
            IF keys[n] = None \/ at(keys[n]) = {} THEN None ELSE replies[Max(at(keys[n]))]]

\* Each requested view that computes its features adds a column of its own name.
Answer(p, replies) ==
    LET computed == {ref[1] : ref \in call[p].parsed} \cap OnDemand \cap registry[p]
        data == Joined(call[p].keys, replies)
    IN  answer' = [answer EXCEPT ![p] =
            [n \in 1..Len(data) |-> [key |-> call[p].keys[n], data |-> data[n], computed |-> computed]]]

\* A failed batch leaves the rows as they came, and tells nobody.
GetDone(p) ==
    /\ call[p].op = "get"
    /\ \/ Len(call[p].replies) = Len(WithUser(call[p].keys)) /\ Answer(p, call[p].replies)
       \/ world.redisFails /\ proc[p].online = "redis" /\ Answer(p, <<>>)
    /\ Begin(p, Idle)
    /\ UNCHANGED <<shared, online, proc, registry, job>>

-----------------------------------------------------------------------------
(* The rest of the system                                                  *)

\* Once per day, when its files are written.
PutManifest(d) ==
    /\ manifest[d] = None /\ {f \in LakeFiles : FileDay[f] = d} \subseteq objects
    /\ \E f \in objects : FileDay[f] = d
    /\ manifest' = [manifest EXCEPT ![d] = {f \in objects : FileDay[f] = d}]
    /\ UNCHANGED <<world, objects, online, local>>

Newer(m, x) == m.win >= x.win

\* ZREMRANGEBYRANK 0 -(MAX_HIST_WINDOWS + 2): of members of one window, any may go.
Capped(h) ==
    {kept \in SUBSET h :
        IF Cardinality(h) <= MaxHist + 1 THEN kept = h
        ELSE Cardinality(kept) = MaxHist + 1 /\ \A m \in kept, x \in h \ kept : Newer(m, x)}

\* A transaction of the Kafka writer, which prunes the history by age and by rank.
StreamWrite(r) ==
    /\ r \in world.streamed /\ hash["redis"][r.user] # r
    /\ Put("redis", r)
    /\ \E kept \in Capped({m \in hist["redis"][r.user] \cup {r} : m.win + HistSpan > r.win}) :
           hist' = [hist EXCEPT !["redis"][r.user] = kept]
    /\ cut' = cut \ {r.user}
    /\ UNCHANGED <<shared, local>>

\* The history's TTL is the shorter one; every write renews both.
Expire(u) ==
    /\ world.expires
    /\ IF hist["redis"][u] # {} THEN /\ hist' = [hist EXCEPT !["redis"][u] = {}] /\ cut' = cut \cup {u}
                                    /\ UNCHANGED hash
       ELSE /\ hash["redis"][u] # None
            /\ hash' = [hash EXCEPT !["redis"][u] = None] /\ UNCHANGED <<hist, cut>>
    /\ UNCHANGED <<shared, local>>

StoreStep(p) ==
    \/ Open(p) \/ Stop(p) \/ \E objs \in world.applies : Apply(p, objs)
    \/ \E range \in world.ranges : Materialize(p, range[1], range[2])
    \/ \E frame \in world.frames : Historical(p, frame)
    \/ Fetch(p) \/ ListDay(p) \/ \E f \in LakeFiles : ReadFile(p, f)
    \/ Fetched(p) \/ SelectLatest(p)
    \/ \E batch \in world.batches : Push(p, batch)
    \/ \E r \in Rows : PushRow(p, r)
    \/ PushFails(p) \/ PushToStub(p)
    \/ \E a \in world.asked : GetOnline(p, a[1], a[2])
    \/ Lookup(p) \/ GetDone(p)

StoreNext ==
    \/ \E p \in Procs : StoreStep(p)
    \/ \E d \in Days : PutManifest(d)
    \/ \E r \in world.streamed : StreamWrite(r)
    \/ \E u \in Users : Expire(u)

-----------------------------------------------------------------------------
(* Safety                                                                  *)

CallType(c) ==
    \/ c = Idle
    \/ /\ c.op \in {"materialize", "fetch"} /\ c.lo \in Days /\ c.hi \in Days /\ c.day \in Nat
       /\ c.todo \subseteq LakeFiles /\ c.rows \subseteq Rows /\ c.due \subseteq Rows
       /\ c.failed \in BOOLEAN
    \/ /\ c.op = "push" /\ c.queue \subseteq Rows /\ c.queue # {}
       /\ c.half \in c.queue \cup {None}
    \/ /\ c.op = "get" /\ c.keys \in Seq(Users \cup {None}) /\ c.replies \in Seq(Rows \cup {None})
       /\ Len(c.replies) <= Len(c.keys)

\* Every variable of the stores, the bucket and Redis has its type.
StoreTypeOK ==
    /\ world \in StoreSettings
    /\ \A d \in Days : manifest[d] = None \/ manifest[d] \subseteq objects
    /\ \A p \in Procs : proc[p] = None \/
          proc[p] \in [offline : {"manifest", "scan", "demo"}, online : {"redis", p}]
    /\ \A s \in Stores, u \in Users :
          /\ hash[s][u] \in {r \in Rows : r.user = u} \cup {None}
          /\ hist[s][u] \subseteq {r \in Rows : r.user = u}
    /\ \A p \in Procs : registry[p] \subseteq Views /\ CallType(call[p])
    /\ \A p \in Procs : job[p] = None \/ \A rows \in job[p].given : rows \subseteq Rows
    /\ cut \subseteq Users

\* A range read in which no call failed has found every row of the days asked for, both
\* ends included, in the objects it could list under these days when it began, and rows
\* of no other day, whatever is written to the bucket meanwhile (store.py:409:
\* "Inclusive date range").  What it could not list: see RangeEndsBefore,
\* EveryRecordIsRead and ManifestsAreNotNeeded.
RangeReadsAreExact ==
    \A p \in Procs : Reading(p) /\ call[p].day > call[p].hi /\ call[p].todo = {} /\ ~call[p].failed =>
        /\ call[p].due \subseteq call[p].rows
        /\ proc[p].offline # "demo" =>
              \A r \in call[p].rows : r.by = "lake" /\ DayOf(r.win) \in call[p].lo..call[p].hi

\* What a range read that met no failure has found in the bucket.
ReadFromBucket(p) ==
    Reading(p) /\ call[p].day > call[p].hi /\ call[p].todo = {} /\ ~call[p].failed /\ proc[p].offline # "demo"

\* "Read all records whose window_start_ms falls in [start, end) (dates, UTC)"
\* (offline_batch_reader.py:197): none of the end day.  The bound is the last instant of
\* that day.
RangeEndsBefore ==
    \A p \in Procs : ReadFromBucket(p) => \A r \in call[p].rows : DayOf(r.win) < call[p].hi

RecordsOfDays(lo, hi) == {r \in UNION {RowsOf[f] : f \in objects} : DayOf(r.win) \in lo..hi}

\* The same sentence: all of the records, where everything under the days asked for has
\* been read.  An object lies under the day of the sink's clock, which may not be the day
\* of its windows.
EveryRecordIsRead ==
    \A p \in Procs : ReadFromBucket(p) /\ Due("scan", call[p].lo, call[p].hi) \subseteq call[p].rows =>
        RecordsOfDays(call[p].lo, call[p].hi) \subseteq call[p].rows

\* "using manifests when available, falling back to prefix scanning otherwise"
\* (offline_batch_reader.py:302-303).  A day without a manifest has no rows once MinIO
\* answers.
ManifestsAreNotNeeded ==
    \A p \in Procs : ReadFromBucket(p) => Due("scan", call[p].lo, call[p].hi) \subseteq call[p].rows

\* "Keep at most this many history windows per user" (kafka_to_online_store.py:52).  The
\* rank bound keeps one more.
HistoryWithinCap == \A u \in Users : Cardinality(hist["redis"][u]) <= MaxHist

Halfway(u) == \E p \in Procs : ToRedis(p) /\ call[p].half # None /\ call[p].half.user = u

\* The history has its cap's worth of members no older than x.
Outranked(x, history) ==
    \E newer \in SUBSET history : Cardinality(newer) = MaxHist + 1 /\ \A m \in newer : Newer(m, x)

\* However the commands of several pushes, the Kafka writer and its pruning fall
\* together, the row served for a user is in the user's history, once no push is between
\* its two commands; only a push that was cut short there, or the expiry of the history, leaves
\* a row without it, until the user's row is written again; and a late window of the
\* Kafka writer whose history has enough others.
LatestIsInHistory ==
    \A s \in Stores, u \in Users :
        hash[s][u] # None /\ ~(s = "redis" /\ (Halfway(u) \/ u \in cut)) =>
            \/ hash[s][u] \in hist[s][u]
            \/ s = "redis" /\ hash[s][u].by = "stream" /\ Outranked(hash[s][u], hist[s][u])

\* However replies, repeated users and entity rows without a user mix: the data a row
\* of an answer carries is of that row's own user, and a row without a user has none.
AnswersFollowTheirKeys ==
    \A p \in Procs : \A n \in DOMAIN answer[p] :
        LET a == answer[p][n] IN
        a.data # None => a.key # None /\ a.data.user = a.key

\* A RetrievalJob gives the same rows however often it is asked, whatever fails
\* and is written to the bucket in between; they are rows of the users asked for.
JobsAnswerOnce ==
    \A p \in Procs : job[p] # None =>
        /\ Cardinality(job[p].given) <= 1
        /\ \A rows \in job[p].given : \A r \in rows : r.user \in job[p].frame.users
=============================================================================
