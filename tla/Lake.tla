---------------------------------- MODULE Lake ----------------------------------
(***************************************************************************)
(* The bucket of feature files, which the programs that read it share: the *)
(* sink that fills it only ever adds objects (flush_batch of               *)
(* deploy/cdc-flink-minio-demo/feature-sink/feature_to_minio.py).          *)
(***************************************************************************)
EXTENDS Naturals, Sequences, FiniteSets, FiniteSetsExt

CONSTANTS LakeFiles, \* objects the bucket may come to hold, numbered as their names sort
          None

ASSUME LakeAssumption == LakeFiles \subseteq Nat /\ None \notin LakeFiles

VARIABLE objects  \* those it holds

\* The ways a remote call ends.
Outcomes(mayFail) == IF mayFail THEN BOOLEAN ELSE {TRUE}

AddObject(f) == f \notin objects /\ objects' = objects \cup {f}
=============================================================================
