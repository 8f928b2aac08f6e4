---------------------------- MODULE MCDriftMonitor ----------------------------
(* Instances of DriftMonitor for TLC                                          *)
EXTENDS DriftMonitor

circumstances(kind, failing, carried, length) ==
    [backend |-> kind, faults |-> failing, messages |-> carried, length |-> length]

\* Everything goes wrong; a file and kills alone; failing PUTs; the average over
\* distant counts.
All ==
    {circumstances("file", {"load", "save"}, {1, Malformed, Unreadable}, 3),
     circumstances("file", {}, {2}, 4),
     circumstances("minio", {"save"}, {1}, 4),
     circumstances("minio", {}, {0, 3}, 4)}

\* A kill between the truncation and the write.
File == {circumstances("file", {}, {1}, 4)}
=============================================================================
