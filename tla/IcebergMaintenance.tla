--------------------------- MODULE IcebergMaintenance ---------------------------
(***************************************************************************)
(* IcebergMaintenanceJob: one run over the table the stream jobs commit    *)
(* to.  Commits of the catalog are atomic and retried; between the run's   *)
(* steps the jobs go on committing.                                        *)
(***************************************************************************)
EXTENDS StreamJobs

CONSTANTS MaxAge,      \* SNAPSHOT_MAX_AGE_HOURS
          RetainLast,  \* SNAPSHOT_RETAIN_LAST
          SmallFile,   \* COMPACT_SMALL_FILE_THRESHOLD_BYTES
          CareSettings

ASSUME CareAssumption ==
    /\ MaxAge \in Nat /\ RetainLast \in Nat \ {0} /\ SmallFile \in Nat
    /\ CareSettings \subseteq [runs : BOOLEAN, dryRun : BOOLEAN]

VARIABLES order,  \* whether a run is due, and DRY_RUN
          care    \* the run: the snapshots it has loaded and what it reports

careVars == <<order, care>>

CareInit ==
    /\ order \in CareSettings
    /\ care = [pc |-> "off", loaded |-> <<>>, before |-> 0, expired |-> 0, left |-> <<>>,
               missed |-> 0, due |-> 0, manifests |-> <<0, 0>>, files |-> 0, small |-> 0]

Others == UNCHANGED <<inputVars, job, saved, fails, created, table, unsent, counts, dlqVars, signalVars, order>>

\* loadTable; without a table there is nothing to maintain.
Load ==
    /\ order.runs /\ care.pc = "off"
    /\ care' = [care EXCEPT !.pc = IF created THEN "expire" ELSE "done", !.loaded = commits, !.before = clock - MaxAge]
    /\ UNCHANGED commits /\ Others

\* Mutant: one snapshot fewer is retained.
DryCountOneMore(snapshots, before) ==
    FoldLeft(LAMBDA n, s : IF s.at < before /\ Len(snapshots) - n >= RetainLast THEN n + 1 ELSE n, 0, snapshots)

\* What the dry run would expire of a table.
DryCount(snapshots, before) ==
    FoldLeft(LAMBDA n, s : IF s.at < before /\ Len(snapshots) - n > RetainLast THEN n + 1 ELSE n, 0, snapshots)

DryExpire ==
    /\ care.pc = "expire" /\ order.dryRun
    /\ care' = [care EXCEPT !.pc = "manifests", !.expired = DryCount(care.loaded, care.before), !.left = care.loaded]
    /\ UNCHANGED commits /\ Others

\* expireSnapshots: the newest RetainLast stay, and those that are not old enough.
Kept(snapshots, before) ==
    LET old == {i \in DOMAIN snapshots : snapshots[i].at < before /\ Len(snapshots) - i >= RetainLast}
    IN [i \in 1..(Len(snapshots) - Cardinality(old)) |-> snapshots[i + Cardinality(old)]]

\* The commit works on the newest snapshots; the count on those that were loaded.
\* missed and due are kept for the properties: what was committed in between,
\* and what the dry run would have said at the moment of the commit.
Expire ==
    /\ care.pc = "expire" /\ ~order.dryRun
    /\ commits' = Kept(commits, care.before)
    /\ care' = [care EXCEPT !.pc = "manifests", !.left = commits', !.expired = Len(care.loaded) - Len(commits'),
                    !.missed = Len(commits) - Len(care.loaded), !.due = DryCount(commits, care.before)]
    /\ Others

Manifests(snapshots) == IF snapshots = <<>> THEN 0 ELSE Last(snapshots).manifests

\* rewriteManifests makes a snapshot of its own, on the newest one; how many
\* manifests it merges is the library's affair.
Compact ==
    /\ care.pc = "manifests"
    /\ LET found == Manifests(care.left)
       IN IF found > 1 /\ ~order.dryRun
          THEN \E n \in {1, Manifests(commits)} :
                  /\ commits' = Append(commits, [Last(commits) EXCEPT !.id = @ + 1, !.at = clock, !.manifests = n])
                  /\ care' = [care EXCEPT !.pc = "scan", !.left = commits', !.manifests = <<found, n>>]
          ELSE commits' = commits /\ care' = [care EXCEPT !.pc = "scan", !.manifests = <<found, found>>]
    /\ Others

\* The files of the snapshot the run has seen last, or those it has come to when
\* reading the table fails: the exception is caught.
Scan ==
    /\ care.pc = "scan"
    /\ LET files == IF care.left = <<>> THEN <<>> ELSE Last(care.left).files
       IN \E read \in SUBSET DOMAIN files :
             care' = [care EXCEPT !.pc = "done", !.files = Cardinality(read),
                                  !.small = Cardinality({i \in read : files[i] < SmallFile})]
    /\ UNCHANGED commits /\ Others

CareNext == Load \/ DryExpire \/ Expire \/ Compact \/ Scan
-----------------------------------------------------------------------------
(* Properties                                                              *)

\* The run's report has its type, and snapshots are in the order of their ids.
CareTypeOK ==
    /\ care.pc \in {"off", "expire", "manifests", "scan", "done"}
    /\ care.expired \in Int /\ care.files \in Nat /\ care.small \in 0..care.files
    /\ \A i \in DOMAIN commits : \A k \in DOMAIN commits : i < k => commits[i].id < commits[k].id

\* A run expires what a dry run at that moment would have told of; its report
\* falls short of that by the commits the jobs made meanwhile
\* (IcebergMaintenanceJob.java:166-169).  Whatever it expires and rewrites,
\* the newest snapshot has a file for every committed row.
MaintenanceKeepsItsWord ==
    /\ care.pc \in {"manifests", "scan", "done"} =>
           IF order.dryRun THEN care.expired = Len(care.loaded) - Len(Kept(care.loaded, care.before))
           ELSE care.expired + care.missed = care.due
    /\ Len(table) = IF commits = <<>> THEN 0 ELSE FoldSeq(LAMBDA n, sum : n + sum, 0, Last(commits).files)
=============================================================================
