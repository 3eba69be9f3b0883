---------------------------- MODULE LearnQueue -----------------------------
(***************************************************************************)
(* The queue of grep teachings (refmatrix/learn_queue.py) between greps    *)
(* that append to learn.queue.jsonl and the daemon's flush tick that       *)
(* rotates, coalesces, applies and requeues it (refmatrix/daemon.py        *)
(* _drain_learn_queue), with the learning switch, failing teachings, an    *)
(* invalidated store, shutdown and crashes.  A record is its pattern and   *)
(* the teachings (one per grep) whose hits it carries.  Malformed lines    *)
(* are left out: nothing here writes one.                                  *)
(***************************************************************************)
EXTENDS Naturals, Sequences

CONSTANTS Grep,        \* teachings, one per `rmx grep`
          Pattern,
          MaxLines,    \* MAX_QUEUE_LINES
          MaxOutages,  \* bound: stops, invalidations and crashes of the daemon
          MaxFailures  \* bound: teachings that raise

ASSUME BoundAssumption == MaxLines \in Nat \ {0} /\ {MaxOutages, MaxFailures} \subseteq Nat

VARIABLES queue,     \* learn.queue.jsonl, a sequence of records
          aside,     \* the rotated file, <<>> if there is none
          handle,    \* where each grep's open file is
          pattern,   \* what each grep searches
          enabled,   \* the learning switch
          up, stopping, outages,
          pc,        \* of the flush tick
          batch,     \* entries the drain has not applied yet
          failures,
          applied,   \* teachings committed to the catalog
          counted,   \* teachings reported as dropped: overflow, failed
          gone       \* history: teachings lost, by "crash" or by a "late" write

greps      == <<handle, pattern>>
daemonVars == <<enabled, up, stopping, outages>>
outcome    == <<failures, applied, counted>>
vars == <<queue, aside, greps, daemonVars, pc, batch, outcome, gone>>

Record == [pat : Pattern, of : SUBSET Grep]

TypeOK == /\ \A file \in {queue, aside, batch} : file \in Seq(Record)
          /\ handle \in [Grep -> {"none", "live", "aside", "unlinked", "closed"}]
          /\ pattern \in [Grep -> Pattern]
          /\ {enabled, up, stopping} \subseteq BOOLEAN
          /\ outages \in 0..MaxOutages /\ failures \in 0..MaxFailures
          /\ pc \in {"wait", "rotate", "read", "unlink", "apply", "requeue"}
          /\ applied \in SUBSET Grep /\ counted \in SUBSET Grep
          /\ gone \in [{"crash", "late"} -> SUBSET Grep]

Init == /\ queue = <<>> /\ aside = <<>>
        /\ handle = [g \in Grep |-> "none"]
        /\ pattern \in [Grep -> Pattern]
        /\ enabled = TRUE
        /\ up = TRUE /\ stopping = FALSE /\ outages = 0
        /\ pc = "wait" /\ batch = <<>>
        /\ failures = 0 /\ applied = {} /\ counted = {}
        /\ gone = [how \in {"crash", "late"} |-> {}]

TeachingsIn(file) == UNION {file[i].of : i \in DOMAIN file}
Loses(how, these) == gone' = [gone EXCEPT ![how] = @ \cup these]

-----------------------------------------------------------------------------
\* enqueue, in the grep's process, learning enabled: open for append (which
\* makes the file if there is none) ...
Open(g) == /\ handle[g] = "none"
           /\ enabled
           /\ handle' = [handle EXCEPT ![g] = "live"]
           /\ UNCHANGED <<queue, aside, pattern, daemonVars, pc, batch, outcome, gone>>

\* ... and one O_APPEND write, to wherever that file is by now.
Write(g) ==
    /\ handle[g] \in {"live", "aside", "unlinked"}
    /\ handle' = [handle EXCEPT ![g] = "closed"]
    /\ LET line == [pat |-> pattern[g], of |-> {g}]
       IN  \/ /\ handle[g] = "live"
              /\ queue' = Append(queue, line)
              /\ UNCHANGED <<aside, gone>>
           \/ /\ handle[g] = "aside" /\ pc # "unlink"
              /\ aside' = Append(aside, line)
              /\ UNCHANGED <<queue, gone>>
           \/ /\ handle[g] = "unlinked" \/ (handle[g] = "aside" /\ pc = "unlink")
              /\ Loses("late", {g})
              /\ UNCHANGED <<queue, aside>>
    /\ UNCHANGED <<pattern, daemonVars, pc, batch, outcome>>

Flip == /\ enabled' = ~enabled
        /\ UNCHANGED <<queue, aside, greps, up, stopping, outages, pc, batch, outcome, gone>>

-----------------------------------------------------------------------------
\* The flush tick.
Daemon(here) == up /\ pc = here

Moved(from, to) ==
    handle' = [g \in Grep |-> IF handle[g] = from THEN to ELSE handle[g]]

\* The switch is read on every tick.
Tick == /\ Daemon("wait")
        /\ ~stopping
        /\ enabled
        /\ queue # <<>>
        /\ pc' = "rotate"
        /\ UNCHANGED <<queue, aside, greps, daemonVars, batch, outcome, gone>>

\* rotate: the rename takes the open handles along.
Rotate == /\ Daemon("rotate")
          /\ aside' = queue
          /\ queue' = <<>>
          /\ Moved("live", "aside")
          /\ pc' = "read"
          /\ UNCHANGED <<pattern, daemonVars, batch, outcome, gone>>

\* read_rotated: the newest MaxLines lines, one entry per pattern in the order
\* of first appearance.
Newest(file) == SubSeq(file, IF Len(file) > MaxLines THEN Len(file) - MaxLines + 1 ELSE 1, Len(file))

\* Mutated forms.
Merge_KeepsFirst(entries, line) ==
    IF \E i \in DOMAIN entries : entries[i].pat = line.pat THEN entries
    ELSE Append(entries, line)
Merge_OnPatterns(entries, line) ==
    IF \E i \in DOMAIN entries : entries[i].pat = line.pat THEN entries
    ELSE Append(entries, line.pat)

Merge(entries, line) ==
    LET same == {i \in DOMAIN entries : entries[i].pat = line.pat}
    IN  IF same = {} THEN Append(entries, line)
        ELSE [i \in DOMAIN entries |->
                IF i \in same THEN [line EXCEPT !.of = @ \cup entries[i].of]
                ELSE entries[i]]

Coalesce(file) ==
    LET merged[n \in 0..Len(file)] ==
          IF n = 0 THEN <<>> ELSE Merge(merged[n - 1], file[n])
    IN  merged[Len(file)]

Parse == /\ Daemon("read")
         /\ batch' = Coalesce(Newest(aside))
         /\ counted' = counted \cup (TeachingsIn(aside) \ TeachingsIn(Newest(aside)))
         /\ pc' = "unlink"
         /\ UNCHANGED <<queue, aside, greps, daemonVars, failures, applied, gone>>

Unlink == /\ Daemon("unlink")
          /\ aside' = <<>>
          /\ Moved("aside", "unlinked")
          /\ pc' = "apply"
          /\ UNCHANGED <<queue, pattern, daemonVars, batch, outcome, gone>>

\* One entry under one hold of the store lock: its transaction commits, or it
\* raises and is counted as failed.
Settles(entry) ==
    \/ /\ applied' = applied \cup entry.of
       /\ UNCHANGED <<failures, counted>>
    \/ /\ failures < MaxFailures
       /\ failures' = failures + 1
       /\ counted' = counted \cup entry.of
       /\ UNCHANGED applied

Rest(entries) == Tail(entries)

Apply == /\ Daemon("apply")
         /\ ~stopping
         /\ batch # <<>>
         /\ Settles(Head(batch))
         /\ batch' = Rest(batch)
         /\ \/ UNCHANGED pc
            \/ pc' = "requeue"                 \* the time budget is used up
         /\ UNCHANGED <<queue, aside, greps, daemonVars, gone>>

\* Mutated form: the time budget may be over before the first entry.
StopDrain_ZeroBudget ==
    /\ Daemon("apply")
    /\ pc' = "requeue"
    /\ UNCHANGED <<queue, aside, greps, daemonVars, batch, outcome, gone>>

\* Shutdown, or an entry that finds the store invalid (which arms an exit):
\* what is not done goes back.
StopDrain == /\ Daemon("apply")
             /\ \/ /\ stopping \/ batch = <<>>
                   /\ UNCHANGED <<stopping, outages>>
                \/ /\ ~stopping /\ batch # <<>>
                   /\ outages < MaxOutages
                   /\ stopping' = TRUE
                   /\ outages' = outages + 1
             /\ pc' = "requeue"
             /\ UNCHANGED <<queue, aside, greps, enabled, up, batch, outcome, gone>>

\* requeue: one enqueue per entry left, then the tick is over.
Requeue == /\ Daemon("requeue")
           /\ IF batch = <<>>
              THEN pc' = "wait" /\ UNCHANGED <<queue, batch>>
              ELSE /\ queue' = Append(queue, Head(batch))
                   /\ batch' = Tail(batch)
                   /\ UNCHANGED pc
           /\ UNCHANGED <<aside, greps, daemonVars, outcome, gone>>

-----------------------------------------------------------------------------
Stop == /\ up /\ ~stopping
        /\ outages < MaxOutages
        /\ stopping' = TRUE
        /\ outages' = outages + 1
        /\ UNCHANGED <<queue, aside, greps, enabled, up, pc, batch, outcome, gone>>

\* The process ends, after a stop or not, wherever the tick is: the batch goes
\* with it, and nobody looks for a rotated file again.
Exit == /\ up
        /\ stopping \/ outages < MaxOutages
        /\ up' = FALSE /\ stopping' = FALSE
        /\ outages' = IF stopping THEN outages ELSE outages + 1
        /\ Loses("crash", TeachingsIn(batch) \cup TeachingsIn(aside))
        /\ batch' = <<>> /\ aside' = <<>>
        /\ Moved("aside", "unlinked")
        /\ pc' = "wait"
        /\ UNCHANGED <<queue, pattern, enabled, outcome>>

Restart == /\ ~up
           /\ up' = TRUE
           /\ UNCHANGED <<queue, aside, greps, enabled, stopping, outages, pc, batch,
                          outcome, gone>>

DrainStep == Rotate \/ Parse \/ Unlink \/ Apply \/ StopDrain \/ Requeue

Next == \/ \E g \in Grep : Open(g) \/ Write(g)
        \/ Flip \/ Tick \/ DrainStep \/ Stop \/ Exit \/ Restart

Spec == Init /\ [][Next]_vars

\* The tick thread runs, a daemon told to stop exits, launchd starts another.
\* (A tick that finds the switch off does nothing; SF: the switch may be
\* flipped, but a tick comes every 30 s.)
Fairness == /\ SF_vars(Tick) /\ WF_vars(DrainStep)
            /\ WF_vars(stopping /\ Exit) /\ WF_vars(Restart)

FairSpec == Spec /\ Fairness

-----------------------------------------------------------------------------
(***************************************************************************)
(* Nothing is dropped quietly: every teaching a grep has written is in the *)
(* queue, in the rotated file or in the drain's hands, applied, or         *)
(* reported as dropped; or it is one of the two losses below.              *)
(***************************************************************************)
Lost == gone["crash"] \cup gone["late"]
Outstanding == TeachingsIn(queue) \cup TeachingsIn(batch)
                 \cup (IF pc = "read" THEN TeachingsIn(aside) ELSE {})
NothingDroppedQuietly ==
    \A g \in Grep : handle[g] = "closed" => g \in Outstanding \cup applied \cup counted \cup Lost

(***************************************************************************)
(* No teaching is applied twice: what is applied or counted is not         *)
(* outstanding any more, and no teaching is outstanding in two places,     *)
(* through budget stops, shutdowns, invalidations and crashes.             *)
(***************************************************************************)
AppliedOnce ==
    /\ applied \cap counted = {}
    /\ (applied \cup counted) \cap Outstanding = {}
    /\ TeachingsIn(queue) \cap TeachingsIn(batch) = {}
    /\ \A file \in {queue, batch} : \A i, j \in DOMAIN file :
         i # j => file[i].of \cap file[j].of = {}

(***************************************************************************)
(* Every teaching is applied once, outstanding once, or its loss can be    *)
(* named.                                                                  *)
(***************************************************************************)
TeachingsAccounted == NothingDroppedQuietly /\ AppliedOnce

(***************************************************************************)
(* If learning stays on, every teaching in the queue is in the end applied *)
(* or reported, although each tick may stop after one entry, or lost in a  *)
(* crash.                                                                  *)
(***************************************************************************)
QueueDrains ==
    <>[]enabled => \A g \in Grep : g \in TeachingsIn(queue)
                                     ~> g \in applied \cup counted \cup gone["crash"]

=============================================================================
