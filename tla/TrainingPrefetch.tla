--------------------------- MODULE TrainingPrefetch ---------------------------
(***************************************************************************)
(* examples/ml-training-prefetch: jobs that list the feature files of the  *)
(* bucket, stage the hottest ones in a cache directory, train on what they *)
(* read back and upload the model.  Jobs share the directory, and may      *)
(* share a job id, which is the second they start in.                      *)
(*                                                                         *)
(* A file stands for its records: what matters is which files a job has    *)
(* trained on and how many records they hold.  Each connection and each    *)
(* file is a step, and fails on its own.                                   *)
(***************************************************************************)
EXTENDS Lake

CONSTANTS DemoFiles,  \* the synthetic manifest
          PathOf,     \* a file's URI behind its scheme: names and the separators "/" and "_"
          Records,    \* records a file holds; lines that are not JSON hold none
          NotText,    \* files that are not UTF-8, or with a line that is JSON but no object
          Heat,       \* the order of the access scores
          MaxFiles,   \* max_files of the listing
          TopN,       \* prefetch_top_n
          Jobs, Ids,  \* runs of the pipeline and their job ids
          TrainSettings

Files == LakeFiles \cup DemoFiles

\* Which services fail, whether the Iceberg catalog is configured and how many
\* rows its table holds, whether MinIO is configured for models, the id of each job.
TrainCircumstances ==
    [runs : SUBSET Jobs, minioFails : BOOLEAN, diskFails : BOOLEAN, kills : BOOLEAN,
     iceberg : BOOLEAN, tableRows : Nat, uploads : BOOLEAN, id : [Jobs -> Ids]]

ASSUME TrainingAssumption ==
    /\ DemoFiles \subseteq Nat /\ IsFiniteSet(DemoFiles) /\ LakeFiles \cap DemoFiles = {}
    /\ Records \in [Files -> Nat] /\ Heat \in [Files -> Nat]
    /\ \A f, g \in Files : f # g => Heat[f] # Heat[g]
    /\ NotText \subseteq LakeFiles
    /\ MaxFiles \in Nat /\ TopN \in Nat /\ Cardinality(DemoFiles) = MaxFiles
    /\ TrainSettings \subseteq TrainCircumstances
    /\ None \notin Jobs

VARIABLES trial,   \* the circumstances
          cache,   \* local file names and the file whose content is under each
          train,   \* per job: its stage and what its result reports
          disk,    \* job id -> the job whose model is in <id>_model.pkl
          models   \* job id -> the job whose model is at models/<id>/model.pkl

trainVars == <<trial, cache, train, disk, models>>

Fresh == [pc |-> "start", live |-> FALSE, hot |-> {}, todo |-> {}, warmed |-> 0, skipped |-> 0,
          hits |-> 0, source |-> "none", data |-> {}, count |-> 0, mode |-> "none", key |-> FALSE]

-----------------------------------------------------------------------------
(* Ranking and naming                                                      *)

\* select_hot_files: the n highest scores.
Hottest(files, n) == {f \in files : Cardinality({g \in files : Heat[g] > Heat[f]}) < n}

\* The listing stops after max_files objects, in the order of their names.
FirstListed(files) == {f \in files : Cardinality({g \in files : g < f}) < MaxFiles}

\* The whole path, its separators replaced: two files may have one name.
LocalName(f) == [n \in DOMAIN PathOf[f] |-> IF PathOf[f][n] = "/" THEN "_" ELSE PathOf[f][n]]

InCache(files) == {f \in files : LocalName(f) \in DOMAIN cache}

Holding(name, f) == [x \in DOMAIN cache \cup {name} |-> IF x = name THEN f ELSE cache[x]]

-----------------------------------------------------------------------------
TrainInit ==
    /\ trial \in TrainSettings
    /\ cache = <<>>
    /\ train = [j \in Jobs |-> Fresh]
    /\ disk = [i \in Ids |-> None] /\ models = [i \in Ids |-> None]

At(j, stage) == train[j].pc = stage /\ j \in trial.runs
Goes(j, rec) == train' = [train EXCEPT ![j] = rec]

\* Stage 1 and the ranking of stage 2.  Without MinIO, and without files in
\* it, the candidates are synthetic.
Discover(j) ==
    /\ At(j, "start")
    /\ \E ok \in Outcomes(trial.minioFails) :
       LET live == ok /\ objects # {}
           hot == Hottest(IF live THEN FirstListed(objects) ELSE DemoFiles, TopN)
       IN Goes(j, [train[j] EXCEPT !.pc = IF live THEN "connect" ELSE "stage", !.live = live,
                       !.mode = IF live THEN "live-minio" ELSE "synthetic", !.hot = hot, !.todo = hot])
    /\ UNCHANGED <<objects, trial, cache, disk, models>>

\* The download connects anew; without MinIO nothing is downloaded.
Connect(j) ==
    /\ At(j, "connect")
    /\ \E ok \in Outcomes(trial.minioFails) :
       Goes(j, IF ok THEN [train[j] EXCEPT !.pc = "stage"]
               ELSE [train[j] EXCEPT !.pc = "stage", !.todo = {}, !.skipped = Cardinality(train[j].todo)])
    /\ UNCHANGED <<objects, trial, cache, disk, models>>

\* Mutant: a file counts as warmed before its download has ended.
StageCounted(j) ==
    /\ At(j, "stage") /\ train[j].todo # {}
    /\ \E f \in Hottest(train[j].todo, 1) :
       LET kept == f \in DemoFiles /\ LocalName(f) \in DOMAIN cache
       IN \E ok \in Outcomes(IF f \in LakeFiles THEN trial.minioFails ELSE trial.diskFails /\ ~kept) :
          /\ cache' \in IF kept THEN {cache}
                        ELSE IF ok THEN {Holding(LocalName(f), f)}
                        ELSE {cache} \cup {Holding(LocalName(g), g) : g \in {f} \cap DemoFiles}
          /\ Goes(j, [train[j] EXCEPT !.todo = @ \ {f}, !.warmed = @ + 1])
    /\ UNCHANGED <<objects, trial, disk, models>>

\* An object is fetched over whatever the cache has under its name; a synthetic
\* file that is there stays as it is, and a failed write may leave one behind.
Stage(j) ==
    /\ At(j, "stage") /\ train[j].todo # {}
    /\ \E f \in Hottest(train[j].todo, 1) :
       LET kept == f \in DemoFiles /\ LocalName(f) \in DOMAIN cache
       IN \E ok \in Outcomes(IF f \in LakeFiles THEN trial.minioFails ELSE trial.diskFails /\ ~kept) :
          /\ cache' \in IF kept THEN {cache}
                        ELSE IF ok THEN {Holding(LocalName(f), f)}
                        ELSE {cache} \cup {Holding(LocalName(g), g) : g \in {f} \cap DemoFiles}
          /\ Goes(j, IF ok THEN [train[j] EXCEPT !.todo = @ \ {f}, !.warmed = @ + 1]
                     ELSE [train[j] EXCEPT !.todo = @ \ {f}, !.skipped = @ + 1])
    /\ UNCHANGED <<objects, trial, disk, models>>

\* The hit rate of the report: files of the selection that are there now.
Measure(j) ==
    /\ At(j, "stage") /\ train[j].todo = {}
    /\ Goes(j, [train[j] EXCEPT !.pc = "read", !.hits = Cardinality(InCache(train[j].hot))])
    /\ UNCHANGED <<objects, trial, cache, disk, models>>

\* Synthetic records, more than one of them, instead of what was read; the mode stays.
Synthetic(rec) == [rec EXCEPT !.pc = "train", !.source = "synthetic", !.data = {}, !.count = 2]

\* A catalog that cannot be read raises.
ReadTable(j) ==
    \/ Goes(j, [train[j] EXCEPT !.pc = "read_done", !.source = "table", !.mode = "live-iceberg",
                                !.count = trial.tableRows])
    \/ Goes(j, [train[j] EXCEPT !.pc = "raised"])

\* Stage 3.  The mode is not corrected when a live job has staged nothing.
Read(j) ==
    /\ At(j, "read")
    /\ IF trial.iceberg THEN ReadTable(j)
       ELSE Goes(j, IF train[j].live /\ train[j].warmed > 0
                    THEN [train[j] EXCEPT !.pc = "gather", !.source = "cache", !.todo = train[j].hot]
                    ELSE Synthetic(train[j]))
    /\ UNCHANGED <<objects, trial, cache, disk, models>>

\* What a file in the cache gives: of a line that does not parse nothing.
RecordsUnder(name) == Records[cache[name]]

\* File after file; one whose download failed is read all the same when
\* another job has left it.  Only OSError and JSONDecodeError are caught.
Gather(j) ==
    /\ At(j, "gather")
    /\ IF train[j].todo = {} THEN Goes(j, [train[j] EXCEPT !.pc = "read_done"])
       ELSE \E f \in Hottest(train[j].todo, 1) :
            LET left == [train[j] EXCEPT !.todo = @ \ {f}]
            IN  Goes(j, IF f \notin InCache({f}) THEN left
                        ELSE IF cache[LocalName(f)] \in NotText THEN [train[j] EXCEPT !.pc = "raised"]
                        ELSE [left EXCEPT !.data = @ \cup {cache[LocalName(f)]},
                                          !.count = @ + RecordsUnder(LocalName(f))])
    /\ UNCHANGED <<objects, trial, cache, disk, models>>

\* No records at all are made up for by synthetic ones.
FallBack(j) ==
    /\ At(j, "read_done")
    /\ Goes(j, IF train[j].count > 0 THEN [train[j] EXCEPT !.pc = "train"] ELSE Synthetic(train[j]))
    /\ UNCHANGED <<objects, trial, cache, disk, models>>

\* The training part of the split, of n records: a fifth of them is for the test.
TrainingPart(n) == (4 * n) \div 5

\* Stage 4.  With nothing to train on the fit raises.
Train(j) ==
    /\ At(j, "train")
    /\ Goes(j, [train[j] EXCEPT !.pc = IF TrainingPart(train[j].count) = 0 THEN "raised" ELSE "save"])
    /\ UNCHANGED <<objects, trial, cache, disk, models>>

Save(j) ==
    /\ At(j, "save")
    /\ \/ /\ Goes(j, [train[j] EXCEPT !.pc = "upload"])
          /\ disk' = [disk EXCEPT ![trial.id[j]] = j]
       \/ /\ trial.diskFails /\ Goes(j, [train[j] EXCEPT !.pc = "raised"])
          /\ UNCHANGED disk
    /\ UNCHANGED <<objects, trial, cache, models>>

\* The upload reads the file back; when it fails the job reports no key.
Upload(j) ==
    /\ At(j, "upload")
    /\ \E ok \in IF trial.uploads THEN Outcomes(trial.minioFails) ELSE {FALSE} :
       /\ Goes(j, [train[j] EXCEPT !.pc = "done", !.key = ok])
       /\ models' = IF ok THEN [models EXCEPT ![trial.id[j]] = disk[trial.id[j]]] ELSE models
    /\ UNCHANGED <<objects, trial, cache, disk>>

Kill(j) ==
    /\ trial.kills /\ j \in trial.runs /\ train[j].pc \notin {"done", "raised", "killed"}
    /\ Goes(j, [train[j] EXCEPT !.pc = "killed"])
    /\ UNCHANGED <<objects, trial, cache, disk, models>>

TrainNext ==
    \E j \in Jobs :
        \/ Discover(j) \/ Connect(j) \/ Stage(j) \/ Measure(j) \/ Read(j) \/ Gather(j) \/ FallBack(j)
        \/ Train(j) \/ Save(j) \/ Upload(j) \/ Kill(j)

-----------------------------------------------------------------------------
(* Safety                                                                  *)

\* Every variable of the jobs has its type.
TrainTypeOK ==
    /\ trial \in TrainSettings
    /\ DOMAIN cache \subseteq {LocalName(f) : f \in Files} /\ \A name \in DOMAIN cache : cache[name] \in Files
    /\ train \in [Jobs -> [pc : {"start", "connect", "stage", "read", "gather", "read_done", "train", "raised",
                                 "save", "upload", "done", "killed"},
                           live : BOOLEAN, key : BOOLEAN, hot : SUBSET Files, todo : SUBSET Files, data : SUBSET Files,
                           warmed : Nat, skipped : Nat, hits : Nat, count : Nat,
                           source : {"none", "cache", "table", "synthetic"},
                           mode : {"none", "live-minio", "live-iceberg", "synthetic"}]]
    /\ disk \in [Ids -> Jobs \cup {None}] /\ models \in [Ids -> Jobs \cup {None}]

NamesApart(files) == \A f, g \in files : f # g => LocalName(f) # LocalName(g)
Named(files) == {LocalName(f) : f \in files}

\* A job that trains on staged files trains on what lies under the names of its own
\* selection, under each the content of a file of that very name, and under all of them
\* when it skipped none, though other jobs write the same directory while it reads; and
\* when no two files of its selection share a name, it reports their records, and no
\* more warmed files than it has read.
TrainsOnItsSelection ==
    \A j \in Jobs : train[j].source = "cache" /\ train[j].pc \in {"train", "save", "upload", "done"} =>
        /\ Named(train[j].data) \subseteq Named(train[j].hot)
        /\ train[j].skipped = 0 => Named(train[j].data) = Named(train[j].hot)
        /\ train[j].warmed <= train[j].hits
        /\ NamesApart(train[j].hot) =>
              /\ train[j].count = MapThenSumSet(LAMBDA f : Records[f], train[j].data)
              /\ train[j].warmed <= Cardinality(train[j].data)

\* Calling warm_cache "guarantees that the training job will find its highest-priority
\* feature files on local storage" (prefetch_warmer.py:116-118): those of a job that has
\* staged all it selected.  Two paths may have one local name.
HotFilesAreLocal ==
    \A j \in Jobs : train[j].pc \in {"read", "raised"} /\ train[j].live /\ train[j].skipped = 0 =>
        \A f \in train[j].hot : LocalName(f) \in DOMAIN cache /\ cache[LocalName(f)] = f

\* "Files that cannot be parsed are skipped with a warning" (feature_store.py:156): no
\* job ends on one with files left to read.  One that is no text, or whose JSON is no
\* object, ends it.
UnparsableFilesAreSkipped == \A j \in Jobs : train[j].pc = "raised" => train[j].todo = {}
=============================================================================
