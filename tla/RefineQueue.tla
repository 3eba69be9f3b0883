----------------------------- MODULE RefineQueue -----------------------------
(***************************************************************************)
(* The refinement queue (bus.py): candidates that a publish appends to a   *)
(* file, and reviews that accept one (write a memory, then mark it) or     *)
(* reject one.  A review reads the whole file, and writes it back whole    *)
(* through one temporary file and a rename.  Publishes and reviews run in  *)
(* threads of the hub, and no lock covers the file.                        *)
(***************************************************************************)
EXTENDS Naturals

CONSTANTS
  Candidates,
  Reviews,      \* requests to accept or reject
  MaxFaults,    \* bound on failed memory writes and kills of the hub
  MaxWrites,    \* bound on memory writes of one candidate
  NoFile,       \* no temporary file
  NoCandidate

ASSUME RefineConstants ==
  /\ MaxFaults \in Nat /\ MaxWrites \in Nat
  /\ NoCandidate \notin Candidates
  /\ NoFile \notin [Candidates -> {"none", "pending", "accepted", "rejected"}]

VARIABLES
  file,      \* the queue: candidate -> its line's status, or no line
  temp,      \* the temporary file, or NoFile
  append,    \* where the append of a candidate is
  review,    \* of a request: where it is
  subject,   \* its candidate
  items,     \* the queue as it read it, with its own change
  memories,  \* how often a candidate was written to memory
  faults,
  \* History, for the properties only.
  mixed,     \* candidates touched while a review of another hand was open
  cut        \* candidates whose promotion was cut between memory and mark

refineVars == <<file, temp, append, review, subject, items, memories, faults, mixed, cut>>

Lines == [Candidates -> {"none", "pending", "accepted", "rejected"}]
NoLines == [c \in Candidates |-> "none"]

Idle(r) == review[r] = "idle"
Open == {r \in Reviews : ~Idle(r)}

RefineTypeOK ==
  /\ file \in Lines /\ temp \in Lines \union {NoFile}
  /\ append \in [Candidates -> {"new", "opened", "adrift", "over", "killed"}]
  /\ review \in [Reviews -> {"idle", "accepting", "marking", "replacing"}]
  /\ subject \in [Reviews -> Candidates \union {NoCandidate}]
  /\ items \in [Reviews -> Lines]
  /\ memories \in [Candidates -> 0..MaxWrites]
  /\ faults \in 0..MaxFaults
  /\ mixed \subseteq Candidates /\ cut \subseteq Candidates

RefineInit ==
  /\ file = NoLines /\ temp = NoFile
  /\ append = [c \in Candidates |-> "new"]
  /\ review = [r \in Reviews |-> "idle"]
  /\ subject = [r \in Reviews |-> NoCandidate]
  /\ items = [r \in Reviews |-> NoLines]
  /\ memories = [c \in Candidates |-> 0]
  /\ faults = 0 /\ mixed = {} /\ cut = {}

-----------------------------------------------------------------------------
(* publish appends a line: open, then write and close.  A rename between the *)
(* two leaves the handle on a file that has no name any more.                *)

OpenAppend(c) ==
  /\ append[c] = "new"
  /\ append' = [append EXCEPT ![c] = "opened"]
  /\ UNCHANGED <<file, temp, review, subject, items, memories, faults, mixed, cut>>

WriteAppend(c) ==
  /\ append[c] \in {"opened", "adrift"}
  /\ append' = [append EXCEPT ![c] = "over"]
  /\ file' = IF append[c] = "opened" THEN [file EXCEPT ![c] = "pending"] ELSE file
  /\ mixed' = IF append[c] = "adrift" \/ Open # {} THEN mixed \union {c} ELSE mixed
  /\ UNCHANGED <<temp, review, subject, items, memories, faults, cut>>

-----------------------------------------------------------------------------
(* Reviews *)

\* A review that is open beside others may undo what they do, and they what it
\* does.
Begin(r, c, where, lines) ==
  /\ review' = [review EXCEPT ![r] = where]
  /\ subject' = [subject EXCEPT ![r] = c]
  /\ items' = [items EXCEPT ![r] = lines]
  /\ mixed' = IF Open = {} THEN mixed
              ELSE mixed \union {c} \union {subject[q] : q \in Open}
  /\ UNCHANGED <<file, temp, append, memories, faults, cut>>

\* accept_refinement: only a pending line.
BeginAccept(r, c) ==
  /\ Idle(r) /\ file[c] = "pending"
  /\ Begin(r, c, "accepting", file)

\* Mutated form: the review works on the pending lines, the default of
\* refinement_queue.
BeginReject_Pending(r, c) ==
  /\ Idle(r) /\ file[c] = "pending"
  /\ Begin(r, c, "marking", [k \in Candidates |->
        IF k = c THEN "rejected" ELSE IF file[k] = "pending" THEN "pending" ELSE "none"])

\* reject_refinement: any line, whatever its status.
BeginReject(r, c) ==
  /\ Idle(r) /\ file[c] # "none"
  /\ Begin(r, c, "marking", [file EXCEPT ![c] = "rejected"])

End(r) ==
  /\ review' = [review EXCEPT ![r] = "idle"]
  /\ subject' = [subject EXCEPT ![r] = NoCandidate]
  /\ items' = [items EXCEPT ![r] = NoLines]

\* The owning daemon has written the memory.
WriteMemory(r) ==
  /\ review[r] = "accepting" /\ memories[subject[r]] < MaxWrites
  /\ memories' = [memories EXCEPT ![subject[r]] = @ + 1]
  /\ items' = [items EXCEPT ![r][subject[r]] = "accepted"]
  /\ review' = [review EXCEPT ![r] = "marking"]
  /\ UNCHANGED <<file, temp, append, subject, faults, mixed, cut>>

\* The daemon refuses or cannot be reached: the line stays as it is.
MemoryFails(r) ==
  /\ review[r] = "accepting" /\ faults < MaxFaults
  /\ faults' = faults + 1
  /\ End(r)
  /\ UNCHANGED <<file, temp, append, memories, mixed, cut>>

WriteTemp(r) ==
  /\ review[r] = "marking"
  /\ temp' = items[r]
  /\ review' = [review EXCEPT ![r] = "replacing"]
  /\ UNCHANGED <<file, append, subject, items, memories, faults, mixed, cut>>

\* The rename puts whatever the temporary file holds in the queue's place; if
\* another review has renamed it away, this one ends in an error.
Replace(r) ==
  /\ review[r] = "replacing"
  /\ IF temp = NoFile
     THEN UNCHANGED <<file, append>>
     ELSE /\ file' = temp
          /\ append' = [c \in Candidates |->
                          IF append[c] = "opened" THEN "adrift" ELSE append[c]]
  /\ temp' = NoFile
  /\ End(r)
  /\ UNCHANGED <<memories, faults, mixed, cut>>

\* Requests and publishes end where they are; the files stay.
RefineHubDies ==
  /\ faults < MaxFaults
  /\ faults' = faults + 1
  /\ append' = [c \in Candidates |-> IF append[c] \in {"opened", "adrift"} THEN "killed" ELSE append[c]]
  /\ review' = [r \in Reviews |-> "idle"]
  /\ subject' = [r \in Reviews |-> NoCandidate]
  /\ items' = [r \in Reviews |-> NoLines]
  /\ cut' = cut \union {subject[r] : r \in
                {q \in Reviews : review[q] \in {"marking", "replacing"}}}
  /\ UNCHANGED <<file, temp, memories, mixed>>

RefineNext ==
  \/ \E c \in Candidates : OpenAppend(c) \/ WriteAppend(c)
  \/ \E r \in Reviews :
       \/ \E c \in Candidates : BeginAccept(r, c) \/ BeginReject(r, c)
       \/ WriteMemory(r) \/ MemoryFails(r) \/ WriteTemp(r) \/ Replace(r)
  \/ RefineHubDies

RefineSpec == RefineInit /\ [][RefineNext]_refineVars

-----------------------------------------------------------------------------
(* Properties *)

\* What a publish has appended stays in the queue.  A line goes missing only
\* when it was appended while a review had the queue in its hands.
\* (bus.py:470, 488-518)
EnqueuedStay ==
  \A c \in Candidates : append[c] = "over" /\ file[c] = "none" => c \in mixed

\* A line marked accepted has its memory.  A candidate has two memories, or one
\* and a line still pending, only while its own review is open, or when reviews
\* overlapped, or when the hub died between the memory and the mark.
\* (bus.py:495-509, 511-518)
PromotionsAccounted ==
  \A c \in Candidates :
    /\ file[c] = "accepted" => memories[c] > 0
    /\ memories[c] > 1 \/ (memories[c] = 1 /\ file[c] = "pending")
         => c \in mixed \union cut \union {subject[r] : r \in Open}

\* What was appended stays, and memories and marks go together, but for what
\* overlapped and what was cut.
CandidatesAccounted == EnqueuedStay /\ PromotionsAccounted

=============================================================================
