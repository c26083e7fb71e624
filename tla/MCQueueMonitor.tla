---------------------------- MODULE MCQueueMonitor ----------------------------
(***************************************************************************)
(* QueueMonitor for TLC, with what the comment of the code promises.       *)
(***************************************************************************)
EXTENDS QueueMonitor

\* queue_monitor.go:32, "If the wall protecting our order evaporates > 75%, we
\* emergency-cancel": a detected order is not watched for ever.
EvaporatedIsCancelled == \A o \in Orders : o \in todo ~> o \notin tracked
=============================================================================
