------------------------------ MODULE BatchReader ------------------------------
(***************************************************************************)
(* examples/feature-consumption/offline: a reader of date ranges that asks *)
(* the Iceberg table, then the bucket, and then makes its rows up.  A      *)
(* back-end that failed it once is not asked again.                        *)
(*                                                                         *)
(* One remote call is one action.  The columns of a row other than its     *)
(* date, and the labels of read_for_training, follow from the record.      *)
(***************************************************************************)
EXTENDS Lake

CONSTANTS SinkRows,   \* the records parsed out of an object, up to one that raises
          SinkDay,    \* the day in its name
          TableRows,  \* the rows of the Iceberg table
          MaxReads,   \* bound on the reads of a reader
          BatchSettings

BackEnds == {"iceberg", "minio", "synthetic"}

\* The back-end asked for, the packages that are installed, which services may fail,
\* the ranges that are read.
BatchCircumstances ==
    [requested : BackEnds \cup {"auto"}, pyiceberg : BOOLEAN, minio : BOOLEAN,
     icebergFails : BOOLEAN, minioFails : BOOLEAN, ranges : SUBSET (Nat \X Nat)]

RecordsOf(ids) == [id : ids, date : Nat \cup {None}]

ASSUME BatchAssumption ==
    /\ SinkDay \in [LakeFiles -> Nat] /\ MaxReads \in Nat
    /\ DOMAIN SinkRows = LakeFiles
    /\ \A f \in LakeFiles : \A r \in SinkRows[f] : r \in RecordsOf({r.id}) /\ r.id # None
    /\ \A r \in TableRows : r \in RecordsOf({r.id}) /\ r.id # None /\ r.date # None
    /\ BatchSettings \subseteq BatchCircumstances \cup {None}

VARIABLES batch,   \* the reader's circumstances, None without a reader
          reader,  \* the reader and the read it is at
          last     \* what the last read returned, and last_stats

batchVars == <<batch, reader, last>>

\* asked, due and failed are kept for the property: the back-end and the records that
\* were there when the read began, and whether a call of it failed.
BatchInit ==
    /\ batch \in BatchSettings
    /\ reader = [pc |-> "new", backend |-> None, asked |-> None, lo |-> 0, hi |-> 0, day |-> 0, todo |-> {},
                 rows |-> {}, due |-> {}, failed |-> FALSE, reads |-> 0]
    /\ last = None

ReaderGoes(r) == reader' = r /\ UNCHANGED <<batch, objects, last>>

\* _resolve_backend.
Resolved ==
    IF batch.requested # "auto" THEN batch.requested
    ELSE IF batch.pyiceberg THEN "iceberg" ELSE IF batch.minio THEN "minio" ELSE "synthetic"

Construct ==
    /\ reader.pc = "new"
    /\ ReaderGoes([reader EXCEPT !.pc = "ready", !.backend = Resolved])

\* Where _read_<backend> begins.
FirstStep(backend) == IF backend = "iceberg" THEN "scan" ELSE IF backend = "minio" THEN "list" ELSE "make"

FallsBack(backend) == [reader EXCEPT !.backend = backend, !.pc = FirstStep(backend)]

Dated(f) == {[r EXCEPT !.date = IF @ = None THEN SinkDay[f] ELSE @] : r \in SinkRows[f]}
Folder(day) == {f \in objects : SinkDay[f] = day}

ReadDateRange(lo, hi) ==
    /\ reader.pc = "ready" /\ reader.reads < MaxReads /\ <<lo, hi>> \in batch.ranges
    /\ ReaderGoes([reader EXCEPT !.pc = FirstStep(reader.backend), !.asked = reader.backend, !.lo = lo, !.hi = hi, !.day = lo, !.todo = {},
                !.rows = {}, !.due = UNION {Dated(f) : f \in UNION {Folder(d) : d \in lo..hi}},
                !.failed = FALSE, !.reads = @ + 1])

Returns(rows) ==
    /\ reader' = [reader EXCEPT !.pc = "ready"]
    /\ last' = [rows |-> rows, backend |-> reader.backend, asked |-> reader.asked,
                 due |-> reader.due, failed |-> reader.failed]
    /\ UNCHANGED <<batch, objects>>

\* _read_iceberg: package, catalog, table and scan may each be missing.
ScanTable ==
    /\ reader.pc = "scan"
    /\ \E ok \in Outcomes(batch.icebergFails) :
          IF ok /\ batch.pyiceberg
          THEN Returns({r \in TableRows : r.date \in reader.lo..reader.hi})
          ELSE ReaderGoes(FallsBack("minio"))

\* plan_files() is asked outside the handlers: what it raises reaches the caller.
PlanRaises ==
    /\ reader.pc = "scan" /\ batch.icebergFails /\ batch.pyiceberg
    /\ ReaderGoes([reader EXCEPT !.pc = "ready"])

\* Mutant: a day without objects ends the read.
ListFolderUntilEmpty ==
    /\ reader.pc = "list" /\ reader.day <= reader.hi /\ reader.todo = {}
    /\ IF ~batch.minio THEN ReaderGoes(FallsBack("synthetic"))
       ELSE \E ok \in Outcomes(batch.minioFails) :
               ReaderGoes([reader EXCEPT !.todo = IF ok THEN Folder(reader.day) ELSE {}, !.failed = @ \/ ~ok,
                        !.day = IF ok /\ Folder(reader.day) = {} THEN reader.hi + 1 ELSE @ + 1])

\* _read_minio, day by day: a day that cannot be listed is passed over.
ListFolder ==
    /\ reader.pc = "list" /\ reader.day <= reader.hi /\ reader.todo = {}
    /\ IF ~batch.minio THEN ReaderGoes(FallsBack("synthetic"))
       ELSE \E ok \in Outcomes(batch.minioFails) :
               ReaderGoes([reader EXCEPT !.day = @ + 1, !.todo = IF ok THEN Folder(reader.day) ELSE {},
                        !.failed = @ \/ ~ok])

\* An object that cannot be fetched is passed over; one that cannot be parsed to its end
\* leaves what came before.
GetObject(f) ==
    /\ reader.pc = "list" /\ f \in reader.todo
    /\ \E ok \in Outcomes(batch.minioFails) :
          ReaderGoes([reader EXCEPT !.todo = @ \ {f}, !.failed = @ \/ ~ok,
                   !.rows = IF ok THEN @ \cup Dated(f) ELSE @])

\* Without a record, for whatever reason, the rows are made up.
ListingDone ==
    /\ reader.pc = "list" /\ reader.day > reader.hi /\ reader.todo = {}
    /\ IF reader.rows = {} THEN ReaderGoes(FallsBack("synthetic")) ELSE Returns(reader.rows)

\* _read_synthetic.
MakeUp ==
    /\ reader.pc = "make"
    /\ Returns({[id |-> None, date |-> d] : d \in reader.lo..reader.hi})

BatchNext ==
    /\ batch # None
    /\ \/ Construct \/ \E range \in batch.ranges : ReadDateRange(range[1], range[2])
       \/ ScanTable \/ PlanRaises \/ ListFolder \/ \E f \in LakeFiles : GetObject(f)
       \/ ListingDone \/ MakeUp

-----------------------------------------------------------------------------
(* Safety                                                                  *)

\* Rows are never mixed: what a read returned comes from the back-end its statistics
\* name, which is the one the next read asks first.  From the bucket it returns every record that
\* was there when it began, unless one of its calls failed, and it makes rows up only
\* when there was none, or the reader had fallen back before.
BatchReadsTellTheirSource ==
    reader.pc = "ready" /\ last # None =>
        /\ last.backend = reader.backend
        /\ \A r \in last.rows : r.id = None <=> last.backend = "synthetic"
        /\ last.backend = "iceberg" => last.asked = "iceberg"
        /\ last.backend = "minio" /\ ~last.failed => last.due \subseteq last.rows
        /\ last.backend = "synthetic" /\ last.asked # "synthetic" /\ batch.minio /\ ~last.failed =>
              last.due = {}

\* "Pass backend="iceberg" or backend="minio" to force a specific path"
\* (offline/batch_reader.py:28-29): what is read comes by that path.
ForcedPathIsTaken ==
    batch # None /\ last # None /\ batch.requested # "auto" => last.backend = batch.requested
=============================================================================
