---------------------------- MODULE MCFairLock -----------------------------
(* FairLock on a few threads: three are enough for an owner, a request     *)
(* that times out while the lock is handed to it, and one queued behind.   *)
EXTENDS FairLock
=============================================================================
