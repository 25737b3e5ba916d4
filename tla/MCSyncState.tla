----------------------------- MODULE MCSyncState -----------------------------
(* Two threads that may sync as master and one remote master, two attempts   *)
(* per sync.  sync_breaker: a breaker that opens at the second failure and   *)
(* is capped from the third on, no new sync after four failures in a row.    *)
(* sync_release: no new sync after one failed cycle, so that every infinite  *)
(* behaviour is one of successful syncs, refusals and remote masters.        *)
EXTENDS SyncState, TLC

Symmetry == Permutations(Thread)
=============================================================================
