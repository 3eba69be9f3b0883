--------------------------- MODULE PointerErrors ---------------------------
(***************************************************************************)
(* The log of session-pointer errors (stm.py): one file for the machine,   *)
(* appended to by every hook under a lock, halved when it grows too large, *)
(* and surfaced by the SessionStart hooks: to the owner of a row, and to   *)
(* its store root once the owner has ended.                                *)
(*                                                                         *)
(* What an owner has seen is a time and not a place in the file, because a *)
(* halving moves every place.  A row's time is taken before the lock is,   *)
(* so a row may come in with a time that was surfaced already.             *)
(*                                                                         *)
(* One store root is modelled, and no row gets older than the window of a  *)
(* day.  A hold of the lock is one step; a reader without it sees the file *)
(* before or after, since it is replaced and not rewritten.                *)
(***************************************************************************)
EXTENDS Naturals, FiniteSets, SequencesExt

CONSTANTS
  Owners,    \* Claude processes (pid and start time)
  NoOwner,
  Hooks,     \* hook runs, each of which records one error
  HookOwner,
  Starts,    \* runs of the SessionStart hook
  StartOwner,
  Legacy,    \* the rows of the store's old log, which have no owner
  Truncated, \* the name of an errors-truncated row
  MaxLog,    \* rows that _ERRORS_MAX_BYTES holds
  MaxSlips  \* bound on failures and kills

ASSUME PointerConstants ==
  /\ HookOwner \in [Hooks -> Owners] /\ StartOwner \in [Starts -> Owners]
  /\ NoOwner \notin Owners /\ Truncated \notin Hooks \union Legacy
  /\ Hooks \intersect Legacy = {}
  /\ IsFiniteSet(Hooks) /\ IsFiniteSet(Starts) /\ IsFiniteSet(Legacy)
  /\ MaxLog \in Nat /\ MaxSlips \in Nat

VARIABLES
  log, now,
  hook,      \* [at, t, owner] of each hook run
  surfaced,  \* _errors.seen.<pid>: the owner's watermark, 0 without a file
  consumed,  \* _errors.seen.root: per ended owner, the last time shown
  alive,     \* owners that run
  legacy,    \* the old log: none ever, there, or claimed
  claims,    \* runs whose claim on it is there
  start,     \* where each SessionStart run is
  picked,    \* what it has picked to print
  slips,
  \* History, for the properties only.
  known,     \* rows printed to their owner, and counts of dropped ones
  muted,     \* the same for runs that were killed before they printed
  ended,     \* rows picked for the root
  late,      \* rows that came in with a time their owner had seen
  lateEnded, \* rows that came in with a time their root had been shown
  copies,    \* how often each old row was appended
  halved     \* old rows that a halving removed

logVars == <<log, now>>
startVars == <<start, picked>>
legacyVars == <<legacy, claims, copies, halved>>
toldVars == <<known, muted, ended>>
errorVars == <<logVars, hook, surfaced, consumed, alive, legacyVars, startVars, toldVars,
               late, lateEnded, slips>>

Names == Hooks \union Legacy \union {Truncated}
NoCounts == [o \in Owners |-> 0]
Entry == [name : Names, owner : Owners \union {NoOwner}, t : Nat,
          dropped : Nat, unseen : [Owners -> Nat]]
\* Rows, and how many dropped ones of the owner.
Notice == [rows : SUBSET Hooks, count : Nat]
Nothing == [rows |-> {}, count |-> 0]

ErrorTypeOK ==
  /\ log \in Seq(Entry) /\ now \in Nat
  /\ hook \in [Hooks -> [at : {"new", "stamped", "written", "unrecorded"}, t : Nat, owner : Owners \union {NoOwner}]]
  /\ surfaced \in [Owners -> Nat] /\ consumed \in [Owners -> Nat]
  /\ alive \subseteq Owners
  /\ legacy \in {"none", "there", "claimed"} /\ claims \subseteq Starts
  /\ start \in [Starts -> {"new", "claimed", "copied", "own", "ended", "prune", "print", "gone"}]
  /\ picked \in [Starts -> Notice]
  /\ known \in [Owners -> Notice] /\ muted \in [Owners -> Notice]
  /\ ended \in [Hooks -> Nat]
  /\ late \subseteq Hooks /\ lateEnded \subseteq Hooks /\ slips \in 0..MaxSlips
  /\ copies \in [Legacy -> Nat] /\ halved \subseteq Legacy

ErrorInit ==
  /\ log = <<>> /\ now = 1
  /\ hook = [h \in Hooks |-> [at |-> "new", t |-> 0, owner |-> NoOwner]]
  /\ surfaced = NoCounts /\ consumed = NoCounts
  /\ alive = Owners
  /\ legacy \in {"none", "there"} /\ claims = {}
  /\ start = [s \in Starts |-> "new"] /\ picked = [s \in Starts |-> Nothing]
  /\ known = [o \in Owners |-> Nothing] /\ muted = [o \in Owners |-> Nothing]
  /\ ended = [h \in Hooks |-> 0]
  /\ late = {} /\ lateEnded = {} /\ slips = 0
  /\ copies = [l \in Legacy |-> 0] /\ halved = {}

-----------------------------------------------------------------------------
(* Halving *)

IsRow(x) == x.name # Truncated

\* The sum of a function's values: how many there are, when each is counted out.
Tally(f) == Cardinality(UNION {{x} \X (1..f[x]) : x \in DOMAIN f})

\* The rows that x stands for, and those of them that o has not seen.
StandsFor(x) == IF IsRow(x) THEN 1 ELSE x.dropped
UnseenIn(x, o) == IF x.t <= surfaced[o] THEN 0
                  ELSE IF IsRow(x) THEN (IF x.owner = o THEN 1 ELSE 0)
                  ELSE x.unseen[o]

\* Mutated form: a removed row of this kind hands on what its owners were told.
Truncation_CountsAgain(removed) ==
  [name |-> Truncated, owner |-> NoOwner, t |-> now,
   dropped |-> Tally([i \in DOMAIN removed |-> StandsFor(removed[i])]),
   unseen |-> [o \in Owners |->
     Tally([i \in DOMAIN removed |-> IF IsRow(removed[i]) THEN UnseenIn(removed[i], o)
                                     ELSE removed[i].unseen[o]])]]

\* What a halving leaves of the rows it removes: how many there were, and how
\* many of them each owner has not seen.  A removed row of this kind hands its
\* own counts on.
Truncation(removed) ==
  [name |-> Truncated, owner |-> NoOwner, t |-> now,
   dropped |-> Tally([i \in DOMAIN removed |-> StandsFor(removed[i])]),
   unseen |-> [o \in Owners |-> Tally([i \in DOMAIN removed |-> UnseenIn(removed[i], o)])]]

Fault == slips < MaxSlips /\ slips' = slips + 1
Fine == UNCHANGED slips

\* The log as an append finds it, halved if it was too long.
Half == Len(log) \div 2
Halves ==
  /\ Len(log) > MaxLog
  /\ halved' = halved \union {log[i].name : i \in {j \in 1..Half : log[j].name \in Legacy}}
KeptLog == IF Len(log) > MaxLog
           THEN Append(SubSeq(log, Half + 1, Len(log)), Truncation(SubSeq(log, 1, Half)))
           ELSE log
Keeps ==
  /\ now' = IF Len(log) > MaxLog THEN now + 1 ELSE now
  /\ Halves \/ (Len(log) <= MaxLog /\ UNCHANGED halved)

-----------------------------------------------------------------------------
(* A hook records an error *)

Row(name, owner, t) ==
  [name |-> name, owner |-> owner, t |-> t, dropped |-> 0, unseen |-> NoCounts]

\* record_pointer_error: the time and the owner, which may have ended or may
\* not be found.
Stamp(h) ==
  /\ hook[h].at = "new"
  /\ \E o \in {HookOwner[h], NoOwner} :
       /\ hook' = [hook EXCEPT ![h] = [at |-> "stamped", t |-> now, owner |-> o]]
       /\ \/ o \in alive /\ Fine
          \/ o = NoOwner /\ HookOwner[h] \notin alive /\ Fine
          \/ o = NoOwner /\ HookOwner[h] \in alive /\ Fault
  /\ now' = now + 1
  /\ UNCHANGED <<log, surfaced, consumed, alive, legacyVars, startVars, toldVars, late, lateEnded>>

\* _append_error_rows, under the lock.
AppendRow(h) ==
  LET o == hook[h].owner IN
  /\ hook[h].at = "stamped"
  /\ Keeps
  /\ log' = Append(KeptLog, Row(h, o, hook[h].t))
  /\ hook' = [hook EXCEPT ![h].at = "written"]
  /\ late' = IF o # NoOwner /\ hook[h].t <= surfaced[o] THEN late \union {h} ELSE late
  /\ lateEnded' = IF o # NoOwner /\ hook[h].t <= consumed[o] THEN lateEnded \union {h} ELSE lateEnded
  /\ Fine
  /\ UNCHANGED <<surfaced, consumed, alive, legacy, claims, copies, startVars, toldVars>>

\* The lock or the write fails, perhaps after the halving; stderr has a line.
AppendFails(h) ==
  /\ hook[h].at = "stamped"
  /\ Fault
  /\ hook' = [hook EXCEPT ![h].at = "unrecorded"]
  /\ \/ Keeps /\ log' = KeptLog
     \/ UNCHANGED <<log, now, halved>>
  /\ UNCHANGED <<surfaced, consumed, alive, legacy, claims, copies, startVars, toldVars, late, lateEnded>>

OwnerEnds(o) ==
  /\ o \in alive
  /\ alive' = alive \ {o}
  /\ Fine
  /\ UNCHANGED <<logVars, hook, surfaced, consumed, legacyVars, startVars, toldVars, late, lateEnded>>

-----------------------------------------------------------------------------
(* A SessionStart run: migrate, surface to the owner, surface to the root, *)
(* prune, print                                                            *)

Goes(s, from, to) == start[s] = from /\ start' = [start EXCEPT ![s] = to]

\* The old log is claimed by a rename; the claim of a run that ended is taken
\* over first.
Claim(s) ==
  /\ IF \E c \in claims : start[c] = "gone"
     THEN /\ Goes(s, "new", "claimed")
          /\ \E c \in claims : start[c] = "gone" /\ claims' = (claims \ {c}) \union {s}
          /\ UNCHANGED legacy
     ELSE IF legacy = "there"
     THEN /\ Goes(s, "new", "claimed")
          /\ claims' = claims \union {s} /\ legacy' = "claimed"
     ELSE Goes(s, "new", "own") /\ UNCHANGED <<legacy, claims>>
  /\ Fine
  /\ UNCHANGED <<logVars, hook, surfaced, consumed, alive, copies, halved, picked, toldVars, late, lateEnded>>

\* Rows that are in the log are left out.  A write that fails has written some of the others.
CopyLegacy(s) ==
  /\ Keeps
  /\ LET missing == {l \in Legacy : ~\E i \in DOMAIN KeptLog : KeptLog[i].name = l} IN
     \E S \in SUBSET missing :
       /\ log' = KeptLog \o SetToSeq({Row(l, NoOwner, 0) : l \in S})
       /\ copies' = [l \in Legacy |-> IF l \in S THEN copies[l] + 1 ELSE copies[l]]
       /\ \/ S = missing /\ Goes(s, "claimed", "copied") /\ Fine
          \/ Goes(s, "claimed", "own") /\ Fault
  /\ UNCHANGED <<hook, surfaced, consumed, alive, legacy, claims, picked, toldVars, late, lateEnded>>

\* The claim is renamed away.
EndClaim(s) ==
  /\ Goes(s, "copied", "own")
  /\ claims' = claims \ {s}
  /\ Fine
  /\ UNCHANGED <<logVars, hook, surfaced, consumed, alive, legacy, copies, halved, picked, toldVars,
                 late, lateEnded>>

\* What the owner has not been shown of its rows, and of the counts of rows dropped.
Unshown(o) ==
  {i \in DOMAIN log : log[i].t > surfaced[o] /\ (log[i].owner = o \/ log[i].unseen[o] > 0)}
\* How many dropped rows of o the log counts that it has not been told of.
Dropped(o) == Tally([i \in DOMAIN log |-> IF log[i].t > surfaced[o] THEN log[i].unseen[o] ELSE 0])
LastTime(I) == CHOOSE t \in {log[i].t : i \in I} : \A i \in I : log[i].t <= t

\* advance_owner_watermark, unless the owner's start time cannot be read.
SurfaceOwn(s) ==
  LET o == StartOwner[s]
      I == Unshown(o) IN
  /\ Goes(s, "own", "ended")
  /\ Fine
  /\ IF o \in alive /\ I # {}
     THEN /\ surfaced' = [surfaced EXCEPT ![o] = LastTime(I)]
          /\ picked' = [picked EXCEPT ![s] =
               [rows |-> {log[i].name : i \in {j \in I : IsRow(log[j])}},
                count |-> Dropped(o)]]
     ELSE UNCHANGED <<surfaced, picked>>
  /\ UNCHANGED <<logVars, hook, consumed, alive, legacyVars, toldVars, late, lateEnded>>

\* consumed_ended_sessions, unless no process can be looked up.
SurfaceEnded(s) ==
  LET I == {i \in DOMAIN log : /\ log[i].owner \in Owners \ alive
                               /\ log[i].t > consumed[log[i].owner]} IN
  /\ Goes(s, "ended", "prune")
  /\ \/ /\ consumed' = [o \in Owners |-> LET J == {i \in I : log[i].owner = o} IN
                          IF J = {} THEN consumed[o] ELSE LastTime(J)]
        /\ ended' = [h \in Hooks |-> IF \E i \in I : log[i].name = h THEN ended[h] + 1 ELSE ended[h]]
        /\ Fine
     \/ Fault /\ UNCHANGED <<consumed, ended>>
  /\ UNCHANGED <<logVars, hook, surfaced, alive, legacyVars, picked, known, muted, late, lateEnded>>

\* prune_dead_pointer_files: the watermarks of owners that ended.
Prune(s) ==
  /\ Goes(s, "prune", "print")
  /\ \/ surfaced' = [o \in Owners |-> IF o \in alive THEN surfaced[o] ELSE 0] /\ Fine
     \/ UNCHANGED surfaced /\ Fault
  /\ UNCHANGED <<logVars, hook, consumed, alive, legacyVars, picked, toldVars, late, lateEnded>>

With(told, s) ==
  [told EXCEPT ![StartOwner[s]] = [rows |-> @.rows \union picked[s].rows,
                                   count |-> @.count + picked[s].count]]

Leaves(s) ==
  /\ start' = [start EXCEPT ![s] = "gone"]
  /\ picked' = [picked EXCEPT ![s] = Nothing]
  /\ UNCHANGED <<logVars, hook, surfaced, consumed, alive, legacyVars, ended, late, lateEnded>>

PrintAll(s) == start[s] = "print" /\ Leaves(s) /\ known' = With(known, s) /\ Fine /\ UNCHANGED muted

\* The harness ends a hook that takes too long.
Killed(s) == start[s] # "gone" /\ Leaves(s) /\ muted' = With(muted, s) /\ Fault /\ UNCHANGED known

-----------------------------------------------------------------------------

ErrorNext ==
  \/ \E h \in Hooks : Stamp(h) \/ AppendRow(h) \/ AppendFails(h)
  \/ \E o \in Owners : OwnerEnds(o)
  \/ \E s \in Starts : \/ Claim(s) \/ CopyLegacy(s) \/ EndClaim(s)
                       \/ SurfaceOwn(s) \/ SurfaceEnded(s) \/ Prune(s)
                       \/ PrintAll(s) \/ Killed(s)

ErrorSpec == ErrorInit /\ [][ErrorNext]_errorVars

-----------------------------------------------------------------------------
(* Properties *)

Written(o) == {h \in Hooks : hook[h].at = "written" /\ hook[h].owner = o}
\* What an owner was shown, was to be shown by a run that was killed, or is about to be.
ToldTo(o) == {known[o], muted[o]} \union {picked[s] : s \in {t \in Starts : StartOwner[t] = o}}

\* Every row that was appended is in the log or in the count of a truncation
\* row.  (stm.py:459-460)
RowsAreCounted ==
  Cardinality({h \in Hooks : hook[h].at = "written"}) + Tally(copies)
    = Tally([i \in DOMAIN log |-> StandsFor(log[i])])

\* Every row of an owner that runs was picked for it once, is in the log above
\* what it has seen, is in a count above that or in one it was given, or came
\* in with a time it had seen.  (stm.py:457-462, 717-740)
OwnersAreTold ==
  \A o \in alive :
    LET waiting == {log[i].name : i \in {j \in Unshown(o) : IsRow(log[j])}}
        told == UNION {n.rows : n \in ToldTo(o)}
        counted == known[o].count + muted[o].count + Dropped(o)
                     + Tally([s \in {t \in Starts : StartOwner[t] = o} |-> picked[s].count])
    IN /\ waiting \intersect told = {} /\ (waiting \union told) \intersect late = {}
       /\ Cardinality(Written(o) \ (waiting \union told \union late)) = counted

\* A row of an owner that has ended is picked for the root once, and stays
\* unpicked only above what was shown, or if it came in too late.
\* (stm.py:743-796)
EndedAreShownOnce ==
  \A h \in Hooks :
    /\ ended[h] <= 1
    /\ ended[h] = 1 => hook[h].owner \notin alive
    /\ \A i \in DOMAIN log : log[i].name = h /\ log[i].owner # NoOwner /\ ended[h] = 0 =>
         h \in lateEnded \/ log[i].t > consumed[log[i].owner]

\* The old rows are in the old log or in a claim until they are all appended,
\* and are appended again only after a halving.  (stm.py:878-973)
LegacyMovesOnce ==
  \A l \in Legacy :
    /\ copies[l] = 0 /\ legacy = "claimed" => claims # {}
    /\ copies[l] > 1 => l \in halved

ErrorRowsAccounted ==
  RowsAreCounted /\ OwnersAreTold /\ EndedAreShownOnce /\ LegacyMovesOnce
=============================================================================
