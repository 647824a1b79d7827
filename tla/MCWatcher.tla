----------------------------- MODULE MCWatcher -----------------------------
(***************************************************************************)
(* Values for the constants of Watcher, small enough for TLC.              *)
(***************************************************************************)
EXTENDS Watcher

Warnings == [type : {"Warning"}, component : {"kernel"}]
SomeReports == Warnings \cup [type : {"Normal"}, component : {"kernel"}]

CONSTANTS n1, n2, r1, r2, r3, p1
=============================================================================
