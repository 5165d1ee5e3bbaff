---- MODULE MCMonitorCache ----
EXTENDS MonitorCache, TLC
Symmetry == Permutations(Requests)
====
