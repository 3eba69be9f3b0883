--------------------------- MODULE MCSyncQueue -----------------------------
(* SyncQueue with a document and a Python file, two edits, one outage and  *)
(* one failure.                                                            *)
EXTENDS SyncQueue
=============================================================================
