--------------------------- MODULE MCMonitorService ---------------------------
EXTENDS MonitorService, TLC

CONSTANTS p1, p2, exe, own

MCIds == Pids \X Lives
(* One executable behind every process; its path is not always readable.    *)
MCKeysOf == [i \in MCIds |-> {exe, own}]
MCOneKey == [i \in MCIds |-> {exe}]
Symmetry == Permutations(Pids)
=============================================================================
