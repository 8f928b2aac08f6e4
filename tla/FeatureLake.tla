------------------------------ MODULE FeatureLake ------------------------------
(***************************************************************************)
(* The programs around the bucket of feature files together: the feature   *)
(* store with its readers, the training jobs, the prefetch engine and the  *)
(* offline reader.                                                         *)
(***************************************************************************)
EXTENDS FeatureStore, TrainingPrefetch, PrefetchEngine, BatchReader

CONSTANT LakeSettings  \* circumstances of the programs, and the objects there at first

ASSUME LakeSettingsAssumption ==
    LakeSettings \subseteq [world : StoreSettings, trial : TrainSettings, setting : EngineSettings, batch : BatchSettings,
                            present : SUBSET LakeFiles, fills : BOOLEAN]

VARIABLE fills  \* whether the bucket is still filled

vars == <<objects, fills, storeVars, trainVars, engineVars, batchVars>>

Init ==
    \E c \in LakeSettings :
        /\ objects = c.present /\ fills = c.fills
        /\ StoreInit /\ world = c.world
        /\ TrainInit /\ trial = c.trial
        /\ EngineInit /\ setting = c.setting
        /\ BatchInit /\ batch = c.batch

\* The feature sink adds an object, under the day of its own clock.
Arrive(f) ==
    /\ fills /\ AddObject(f)
    /\ UNCHANGED <<fills, storeVars, trainVars, engineVars, batchVars>>

Next ==
    \/ StoreNext /\ UNCHANGED <<fills, trainVars, engineVars, batchVars>>
    \/ TrainNext /\ UNCHANGED <<fills, storeVars, engineVars, batchVars>>
    \/ EngineNext /\ UNCHANGED <<fills, storeVars, trainVars, batchVars>>
    \/ BatchNext /\ UNCHANGED <<fills, storeVars, trainVars, engineVars>>
    \/ \E f \in LakeFiles : Arrive(f)

Spec == Init /\ [][Next]_vars

-----------------------------------------------------------------------------
(* What the documentation says and the code does not do                    *)

\* At least one of these statements of the repository holds: three of the offline
\* reader's docstrings, one each of the Kafka writer, the prefetch warmer and the batch
\* reader, quoted where they are defined.
SomeStatementHolds ==
    \/ RangeEndsBefore \/ EveryRecordIsRead \/ ManifestsAreNotNeeded
    \/ HistoryWithinCap \/ HotFilesAreLocal \/ UnparsableFilesAreSkipped \/ ForcedPathIsTaken
==============================================================================
