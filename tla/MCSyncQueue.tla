----------------------------- MODULE MCSyncQueue -----------------------------
(* One job and two workers: a claim may be lost to the reaper and retried     *)
(* once, by either of them.                                                   *)
EXTENDS SyncQueue

CONSTANTS c1, j1, w1, w2

OneConnection == {c1}
OneJob        == {j1}
TwoWorkers    == {w1, w2}
=============================================================================
