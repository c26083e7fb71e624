-------------------------- MODULE MCEntryLifecycle --------------------------
(***************************************************************************)
(* EntryLifecycle for TLC, with what the comments of the code say of it    *)
(* and its interleavings refute.                                           *)
(***************************************************************************)
EXTENDS EntryLifecycle

\* The labels between beginPendingEntryCancel and the end of the work on the
\* entry (the deferred release left out).
Working == {"cancel", "poll", "posPoll", "tryPromote", "drop",
            "recheck", "replace", "install"}

\* entry_state.go:14, "marks a pending entry as cancelling and blocks
\* overlapping place/reprice": two goroutines never work on the cancel or the
\* reprice of the registered entry at the same time.
CancelBlocksOverlap ==
    \A t, u \in Threads :
        /\ t # u
        /\ pending # None /\ ent[t] = pending /\ ent[u] = pending
        => ~(pc[t] \in Working /\ pc[u] \in Working)
=============================================================================
