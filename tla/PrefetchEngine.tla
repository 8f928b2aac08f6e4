---------------------------- MODULE PrefetchEngine ----------------------------
(***************************************************************************)
(* prefetch-engine/prefetch.py with lineage/: runs that write a manifest   *)
(* of small files, copy the hottest into a cache directory, look what is   *)
(* in it and upload one record per file, inside a lineage context that     *)
(* appends START and then COMPLETE or FAIL to a file.  Runs on one machine *)
(* share both directories and the lineage file; two of them may have one   *)
(* job id.                                                                 *)
(***************************************************************************)
EXTENDS Lake

CONSTANTS Sources,         \* the files of the manifest, hotter with a higher number
          Runs, RunIds,    \* runs and their job ids
          KeepHot,         \* top_n
          EngineSettings

\* What may go wrong, whether MinIO is configured, the id of each run.
EngineCircumstances ==
    [active : SUBSET Runs, minio : BOOLEAN, minioFails : BOOLEAN, emitFails : BOOLEAN,
     removes : BOOLEAN, kills : BOOLEAN, id : [Runs -> RunIds]]

ASSUME EngineAssumption ==
    /\ Sources \subseteq Nat /\ IsFiniteSet(Sources) /\ KeepHot \in Nat
    /\ EngineSettings \subseteq EngineCircumstances /\ None \notin Runs

VARIABLES setting,  \* the circumstances
          source,   \* what is at the path of each manifest file: nothing, the
                    \* beginning of a write, the whole content
          copied,   \* the same for the cache directory
          eng,      \* per run: its stage, what it has left to do and its counts
          events,   \* the lineage file
          outputs   \* job id -> the run whose records are at processed/<id>

engineVars == <<setting, source, copied, eng, events, outputs>>

NewRun == [pc |-> "start", todo |-> Sources, hot |-> {}, prefetched |-> 0, skipped |-> 0, hits |-> 0,
           records |-> {}, unsure |-> FALSE]

-----------------------------------------------------------------------------
EngineInit ==
    /\ setting \in EngineSettings
    /\ source = [f \in Sources |-> "absent"] /\ copied = [f \in Sources |-> "absent"]
    /\ eng = [r \in Runs |-> NewRun]
    /\ events = <<>>
    /\ outputs = [i \in RunIds |-> None]

In(r, stage) == eng[r].pc = stage /\ r \in setting.active
Step(r, rec) == eng' = [eng EXCEPT ![r] = rec]
To(r, stage) == Step(r, [eng[r] EXCEPT !.pc = stage])

\* The composite emitter appends to the file, then prints: a print that fails
\* raises although the event is in the file.
Emit(r, type, good, bad) ==
    \/ events' = Append(events, <<type, r>>) /\ To(r, good)
    \/ /\ setting.emitFails
       /\ events' \in {events, Append(events, <<type, r>>)}
       /\ Step(r, [eng[r] EXCEPT !.pc = bad, !.unsure = TRUE])

\* Before the try: a START that raises is followed by nothing.
Start(r) ==
    /\ In(r, "start")
    /\ Emit(r, "START", "manifest", "ended")
    /\ UNCHANGED <<objects, setting, source, copied, outputs>>

Hotter(files) == {f \in files : \A g \in files : g <= f}

\* write_text truncates and then writes, to nowhere when the file is removed
\* in between.
OpenSource(r) ==
    /\ In(r, "manifest")
    /\ \E f \in Hotter(eng[r].todo) : source' = [source EXCEPT ![f] = "begun"]
    /\ To(r, "write")
    /\ UNCHANGED <<objects, setting, copied, events, outputs>>

WriteSource(r) ==
    /\ In(r, "write")
    /\ \E f \in Hotter(eng[r].todo) :
          /\ source' = IF source[f] = "absent" THEN source ELSE [source EXCEPT ![f] = "whole"]
          /\ Step(r, [eng[r] EXCEPT !.pc = "manifest", !.todo = @ \ {f}])
    /\ UNCHANGED <<objects, setting, copied, events, outputs>>

SelectHot(r) ==
    /\ In(r, "manifest") /\ eng[r].todo = {}
    /\ LET hot == {f \in Sources : Cardinality({g \in Sources : g > f}) < KeepHot}
       IN  Step(r, [eng[r] EXCEPT !.pc = "prefetch", !.hot = hot, !.todo = hot])
    /\ UNCHANGED <<objects, setting, source, copied, events, outputs>>

\* prefetch_files looks whether the file exists, waits, and copies it.
CheckSource(r) ==
    /\ In(r, "prefetch")
    /\ IF eng[r].todo = {} THEN To(r, "job")
       ELSE \E f \in Hotter(eng[r].todo) :
            Step(r, IF source[f] = "absent" THEN [eng[r] EXCEPT !.todo = @ \ {f}, !.skipped = @ + 1]
                    ELSE [eng[r] EXCEPT !.pc = "copy"])
    /\ UNCHANGED <<objects, setting, source, copied, events, outputs>>

\* Mutant: the copy is counted whether or not the file was still there.
CopyCounted(r) ==
    /\ In(r, "copy")
    /\ \E f \in Hotter(eng[r].todo) :
          /\ Step(r, [eng[r] EXCEPT !.pc = "prefetch", !.todo = @ \ {f}, !.prefetched = @ + 1])
          /\ copied' = IF source[f] = "absent" THEN copied ELSE [copied EXCEPT ![f] = source[f]]
    /\ UNCHANGED <<objects, setting, source, events, outputs>>

Copy(r) ==
    /\ In(r, "copy")
    /\ \E f \in Hotter(eng[r].todo) :
          IF source[f] = "absent" THEN To(r, "failing") /\ UNCHANGED copied
          ELSE /\ Step(r, [eng[r] EXCEPT !.pc = "prefetch", !.todo = @ \ {f}, !.prefetched = @ + 1])
               /\ copied' = [copied EXCEPT ![f] = source[f]]
    /\ UNCHANGED <<objects, setting, source, events, outputs>>

Cached(r) == {f \in eng[r].hot : copied[f] # "absent"}

\* The simulated job and the records look at the directory one after the other.
RunJob(r) ==
    /\ In(r, "job")
    /\ Step(r, [eng[r] EXCEPT !.pc = "build", !.hits = Cardinality(Cached(r))])
    /\ UNCHANGED <<objects, setting, source, copied, events, outputs>>

BuildRecords(r) ==
    /\ In(r, "build")
    /\ Step(r, [eng[r] EXCEPT !.pc = "upload", !.records = Cached(r)])
    /\ UNCHANGED <<objects, setting, source, copied, events, outputs>>

\* Mutant: an upload that fails is only counted.
UploadQuietly(r) ==
    /\ In(r, "upload")
    /\ \E ok \in IF setting.minio THEN Outcomes(setting.minioFails) ELSE {FALSE} :
          /\ To(r, "push")
          /\ outputs' = IF ok THEN [outputs EXCEPT ![setting.id[r]] = r] ELSE outputs
    /\ UNCHANGED <<objects, setting, source, copied, events>>

UploadRecords(r) ==
    /\ In(r, "upload")
    /\ \E ok \in Outcomes(setting.minio /\ setting.minioFails) :
          /\ To(r, IF ok THEN "push" ELSE "failing")
          /\ outputs' = IF ok /\ setting.minio THEN [outputs EXCEPT ![setting.id[r]] = r] ELSE outputs
    /\ UNCHANGED <<objects, setting, source, copied, events>>

\* The gateway that receives the metrics is MinIO's neighbour: it fails as well.
PushMetrics(r) ==
    /\ In(r, "push")
    /\ \E ok \in Outcomes(setting.minioFails) : To(r, IF ok THEN "complete" ELSE "failing")
    /\ UNCHANGED <<objects, setting, source, copied, events, outputs>>

\* COMPLETE is emitted inside the try: when that raises, FAIL follows.
Complete(r) ==
    /\ In(r, "complete")
    /\ Emit(r, "COMPLETE", "ended", "failing")
    /\ UNCHANGED <<objects, setting, source, copied, outputs>>

Fail(r) ==
    /\ In(r, "failing")
    /\ Emit(r, "FAIL", "ended", "ended")
    /\ UNCHANGED <<objects, setting, source, copied, outputs>>

KillRun(r) ==
    /\ setting.kills /\ r \in setting.active /\ eng[r].pc \notin {"ended", "killed"}
    /\ To(r, "killed")
    /\ UNCHANGED <<objects, setting, source, copied, events, outputs>>

\* The directory is one for temporary files.
Remove(f) ==
    /\ setting.removes /\ source[f] # "absent"
    /\ source' = [source EXCEPT ![f] = "absent"]
    /\ UNCHANGED <<objects, setting, copied, eng, events, outputs>>

EngineNext ==
    \/ \E r \in Runs :
          \/ Start(r) \/ OpenSource(r) \/ WriteSource(r) \/ SelectHot(r) \/ CheckSource(r) \/ Copy(r)
          \/ RunJob(r) \/ BuildRecords(r) \/ UploadRecords(r) \/ PushMetrics(r) \/ Complete(r) \/ Fail(r) \/ KillRun(r)
    \/ \E f \in Sources : Remove(f)

-----------------------------------------------------------------------------
(* Safety                                                                  *)

\* Every variable of the engine has its type.
EngineTypeOK ==
    /\ setting \in EngineSettings
    /\ source \in [Sources -> {"absent", "begun", "whole"}]
    /\ copied \in [Sources -> {"absent", "begun", "whole"}]
    /\ eng \in [Runs -> [pc : {"start", "manifest", "write", "prefetch", "copy", "job", "build", "upload", "push",
                               "complete", "failing", "ended", "killed"},
                         todo : SUBSET Sources, hot : SUBSET Sources, records : SUBSET Sources,
                         prefetched : Nat, skipped : Nat, hits : Nat, unsure : BOOLEAN]]
    /\ events \in Seq({"START", "COMPLETE", "FAIL"} \X Runs)
    /\ outputs \in [RunIds -> Runs \cup {None}]

Types(r) == {events[n][1] : n \in {m \in DOMAIN events : events[m][2] = r}}
Count(r, type) == Cardinality({n \in DOMAIN events : events[n] = <<type, r>>})

\* Whatever other runs do to the two directories, and whenever the manifest's
\* files go, a run that gets as far as its upload has prefetched or skipped each hot
\* file, finds at least what it has prefetched, and records no fewer hits than it reports.
EngineCountsAgree ==
    \A r \in Runs : eng[r].pc \in {"upload", "push", "complete"} =>
        /\ eng[r].prefetched + eng[r].skipped = Cardinality(eng[r].hot)
        /\ eng[r].prefetched <= eng[r].hits /\ eng[r].hits <= Cardinality(eng[r].records)

\* The lineage of a run that ended by itself, its events not lost by the emitter,
\* is START and then exactly one end; the end is COMPLETE only when the run's
\* records are where they should be, unless another run has its id.
LineageTellsTheEnd ==
    \A r \in Runs : eng[r].pc = "ended" /\ ~eng[r].unsure =>
        /\ Count(r, "START") = 1 /\ Count(r, "COMPLETE") + Count(r, "FAIL") = 1
        /\ setting.minio /\ Count(r, "COMPLETE") = 1 /\ (\A s \in Runs \ {r} : setting.id[s] # setting.id[r]) =>
               outputs[setting.id[r]] = r
=============================================================================
