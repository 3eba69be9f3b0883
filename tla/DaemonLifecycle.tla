--------------------------- MODULE DaemonLifecycle ---------------------------
(***************************************************************************)
(* The daemons of one root, and what starts, watches and ends them: the    *)
(* boot and the stop of `serve_forever' (daemon.py), the two ways to start *)
(* one (launchd's `serve_foreground' and the fork of `rmx daemon start'),  *)
(* launchd's KeepAlive rule, and the hub's watchdog (hub.py).              *)
(*                                                                         *)
(* They meet in five things of the root's directory: the pid file, the     *)
(* socket, the heartbeat, the marker `shutdown.started', and the flock on  *)
(* daemon.lock; and in the lock of the database.  A process that starts    *)
(* looks at the heartbeat of the one the pid file names: fresh, it is at   *)
(* work and the newcomer leaves; stale, it is ended.                       *)
(*                                                                         *)
(* Time is in the guards: the heartbeat goes stale only when nobody that   *)
(* beats is well, a grace runs out only for a process that does not end by *)
(* itself within it.  A pid is not given anew while something names it.    *)
(***************************************************************************)
EXTENDS Naturals, FiniteSets

CONSTANTS
  Procs,      \* processes; one that is gone may stand for a new one
  None,
  GraceMisses, \* WATCHDOG_GRACE_MISSES
  MaxFaults   \* bound on crashes, wedges, stops and starts by a user

ASSUME LifecycleConstants ==
  /\ IsFiniteSet(Procs) /\ None \notin Procs
  /\ GraceMisses \in Nat \ {0}
  /\ MaxFaults \in Nat

VARIABLES
  phase,     \* where each process is in its boot, service or stop
  victim,    \* the predecessor it waits for
  term,      \* serving processes that were told to stop
  stuck,     \* serving processes that make no progress
  wasStuck,  \* those that were stuck at some time (history)
  early,     \* those that the last tick already found before their first heartbeat
  pidfile,   \* the process that rmxd.pid names
  sock,      \* the process whose socket file is there
  beat,      \* age of the heartbeat file
  marker,    \* age of shutdown.started
  parent,    \* the fork whose `rmx daemon start' still holds daemon.lock
  job, jobProc, replacing, \* launchd's job, its process, a kickstart -k under way
  due,       \* the last tick or kick left a start of the job to launchd
  hub, misses, noproc, target, \* the watchdog: what it does, its counters, whom it stops
  faults,
  killed     \* how SIGKILL met processes that were never stuck (history)

runVars == <<phase, victim, term, stuck, wasStuck, job, jobProc>>
procVars == <<runVars, early>>
rootVars == <<pidfile, sock, beat, marker>>
hubVars == <<hub, misses, noproc, target, due>>
vars == <<procVars, rootVars, parent, replacing, hubVars, faults, killed>>

Unnamed == {"adopt", "lock", "reap", "gate", "write"} \* the pid file is still to be written
Quick == Unnamed \union {"kill", "beat"} \* all before the first heartbeat, but for "asked"
Waiting == {"asked", "kill"}
Booting == {"beat", "open", "boot"}
Stopping == {"drain", "close"}
Beats == {"none", "fresh", "stale"}
Phases == {"gone", "serve"} \union Unnamed \union Waiting \union Booting \union Stopping

TypeOK ==
  /\ phase \in [Procs -> Phases]
  /\ victim \in [Procs -> Procs \union {None}]
  /\ \A p \in Procs : victim[p] # None <=> phase[p] \in Waiting
  /\ term \subseteq Procs /\ stuck \subseteq wasStuck /\ wasStuck \subseteq Procs
  /\ \A p \in wasStuck : phase[p] \in {"serve"} \union Stopping
  /\ early \subseteq {p \in Procs : phase[p] \in Quick}
  /\ pidfile \in Procs \union {None} /\ sock \in Procs \union {None}
  /\ beat \in Beats /\ marker \in {"none", "recent", "old"}
  /\ parent \in Procs \union {None}
  /\ job \in {"running", "respawn", "stopped"}
  /\ jobProc \in Procs \union {None} /\ (jobProc # None <=> job = "running")
  /\ replacing \in BOOLEAN /\ due \in BOOLEAN
  /\ hub \in {"watch", "stop", "grace", "await", "kick"}
  /\ misses \in 0..GraceMisses - 1 /\ noproc \in 0..1
  /\ target \in Procs \union {None}
  /\ faults \in 0..MaxFaults /\ killed \subseteq [phase : Phases, beat : Beats]

\* The agent is loaded and nothing ran yet (RunAtLoad).
Init ==
  /\ phase = [p \in Procs |-> "gone"] /\ victim = [p \in Procs |-> None]
  /\ term = {} /\ stuck = {} /\ wasStuck = {} /\ early = {}
  /\ pidfile = None /\ sock = None /\ beat = "none" /\ marker = "none"
  /\ parent = None
  /\ job = "respawn" /\ jobProc = None /\ replacing = FALSE /\ due = FALSE
  /\ hub = "watch" /\ misses = 0 /\ noproc = 0 /\ target = None
  /\ faults = 0 /\ killed = {}

-----------------------------------------------------------------------------
(* What a process sees of the others *)

Live == {p \in Procs : phase[p] # "gone"}
ReadPid == IF pidfile \in Live THEN pidfile ELSE None

\* A ping may be answered; a busy daemon may also miss it.
CanAnswer == sock \in Live /\ phase[sock] = "serve" /\ sock \notin stuck

\* DuckDB's lock on the catalog file.
DatabaseHeld == \E p \in Procs : phase[p] \in {"boot", "serve"} \union Stopping

\* daemon.lock: `rmx daemon start' holds it for its child, serve_foreground
\* for the rest of its life.
LockHeld ==
  \/ parent # None
  \/ jobProc # None /\ phase[jobProc] \notin {"adopt", "asked", "lock"}

\* A process that is told to stop and is well ends within the grace, except
\* that a drain may outlast the 20 s of an adoption and the 3 s of a reap.
GracePasses(q) == q \in stuck \/ phase[q] \in Stopping

-----------------------------------------------------------------------------
(* How processes move and end *)

\* p goes to ph and waits for v; `asked' are told to stop; `ended' end, with
\* exit status 0 or not, which is what launchd looks at.
Go(p, ph, v, asked, ended, ok) ==
  /\ phase' = [q \in Procs |-> IF q \in ended THEN "gone" ELSE IF q = p THEN ph ELSE phase[q]]
  /\ victim' = [q \in Procs |-> IF q \in ended THEN None ELSE IF q = p THEN v ELSE victim[q]]
  /\ term' = (term \union asked) \ ended
  /\ stuck' = stuck \ ended /\ wasStuck' = wasStuck \ ended
  /\ early' = {q \in early : phase'[q] \in Quick}
  /\ IF jobProc \in ended
       THEN /\ job' = IF replacing \/ ~ok THEN "respawn" ELSE "stopped"
            /\ jobProc' = None
       ELSE UNCHANGED <<job, jobProc>>

Enter(p, ph) == Go(p, ph, None, {}, {}, TRUE)
Exit(p, ok) == Go(p, "gone", None, {}, {p}, ok)

\* SIGTERM, or the stop op.  The handlers are installed after the bind: before
\* that the signal ends the process on the spot.
Handles(q) == phase[q] \in {"serve"} \union Stopping
Terminate(p, ph, v, q) ==
  Go(p, ph, v, {r \in {q} : phase[r] = "serve"}, {r \in {q} : ~Handles(r)}, FALSE)

Kill(p, ph, q) ==
  /\ Go(p, ph, None, {}, {q}, FALSE)
  /\ killed' = killed \union (IF q \in wasStuck THEN {} ELSE {[phase |-> phase[q], beat |-> beat]})

Free(p) ==
  /\ phase[p] = "gone"
  /\ p \notin {pidfile, sock, parent, target} /\ \A q \in Procs : victim[q] # p

-----------------------------------------------------------------------------
(* Starts *)

Starts(p, ph) ==
  /\ Free(p)
  /\ phase' = [phase EXCEPT ![p] = ph]
  /\ UNCHANGED <<victim, term, stuck, wasStuck, early>>

\* launchd runs the job.
StartJob(p) ==
  /\ job = "respawn"
  /\ Starts(p, "adopt")
  /\ job' = "running" /\ jobProc' = p /\ replacing' = FALSE /\ due' = FALSE
  /\ UNCHANGED <<rootVars, parent, hub, misses, noproc, target, faults, killed>>

\* `rmx daemon start', under daemon.lock, when its ping goes unanswered.
Fork(p) ==
  /\ faults < MaxFaults
  /\ ~LockHeld
  /\ Starts(p, "reap")
  /\ parent' = p /\ faults' = faults + 1
  /\ UNCHANGED <<job, jobProc, rootVars, replacing, hubVars, killed>>

\* The child answers, is gone, or boots for longer than RMX_DAEMON_SPAWN_WAIT;
\* what it does before its pid is written takes less.
ParentLeaves ==
  /\ parent # None
  /\ phase[parent] \notin Unnamed \union Waiting
  /\ parent' = None
  /\ UNCHANGED <<procVars, rootVars, replacing, hubVars, faults, killed>>

Others == <<parent, replacing, hubVars, faults>>

\* _adopt_unsupervised: somebody answers, or works without answering.
Ask(p) ==
  /\ phase[p] = "adopt"
  /\ \E answers \in {FALSE, CanAnswer} :
       LET q == IF ReadPid # None THEN ReadPid ELSE sock IN
         IF answers \/ (ReadPid # None /\ beat = "fresh")
           THEN Terminate(p, "asked", q, q)
           ELSE Enter(p, "lock")
  /\ UNCHANGED <<rootVars, Others, killed>>

\* The end of its stop_daemon: the process is gone, or ADOPT_GRACE_S is over
\* and it is killed if its heartbeat is stale by now.
AskEnds(p) ==
  /\ phase[p] = "asked"
  /\ IF victim[p] \in Live
       THEN /\ GracePasses(victim[p])
            /\ IF beat = "fresh"
                 THEN Enter(p, "lock") /\ UNCHANGED killed
                 ELSE Kill(p, "lock", victim[p])
       ELSE Enter(p, "lock") /\ UNCHANGED killed
  /\ UNCHANGED <<rootVars, Others>>

\* Mutated form: the refusal is ignored.
TakeLock_Blind(p) ==
  /\ phase[p] = "lock"
  /\ Enter(p, "reap")
  /\ UNCHANGED <<rootVars, Others, killed>>

\* flock(LOCK_NB): a refusal is exit 1.
TakeLock(p) ==
  /\ phase[p] = "lock"
  /\ IF LockHeld THEN Exit(p, FALSE) ELSE Enter(p, "reap")
  /\ UNCHANGED <<rootVars, Others, killed>>

\* Mutated form: every predecessor gives way, as it was before plan-4.
Reap_NoYield(p) ==
  /\ phase[p] = "reap"
  /\ IF ReadPid = None THEN Enter(p, "gate")
     ELSE Terminate(p, "kill", ReadPid, ReadPid)
  /\ UNCHANGED <<rootVars, Others, killed>>

\* _reap_predecessor: a fresh heartbeat is somebody at work, and yields exit 0.
Reap(p) ==
  /\ phase[p] = "reap"
  /\ IF ReadPid = None THEN Enter(p, "gate")
     ELSE IF beat = "fresh" THEN Exit(p, TRUE)
     ELSE Terminate(p, "kill", ReadPid, ReadPid)
  /\ UNCHANGED <<rootVars, Others, killed>>

\* Three seconds later.
ReapEnds(p) ==
  /\ phase[p] = "kill"
  /\ IF victim[p] \in Live
       THEN GracePasses(victim[p]) /\ Kill(p, "gate", victim[p])
       ELSE Enter(p, "gate") /\ UNCHANGED killed
  /\ UNCHANGED <<rootVars, Others>>

\* Its last look at the socket: whoever answers keeps the root.
Gate(p) ==
  /\ phase[p] = "gate"
  /\ \E answers \in {FALSE, CanAnswer} :
       IF answers THEN Exit(p, TRUE) ELSE Enter(p, "write")
  /\ UNCHANGED <<rootVars, Others, killed>>

-----------------------------------------------------------------------------
(* Boot, service and stop *)

\* The socket file goes, the pid file is written, the old marker goes.
WritePid(p) ==
  /\ phase[p] = "write"
  /\ Enter(p, "beat")
  /\ pidfile' = p /\ sock' = None /\ marker' = "none"
  /\ UNCHANGED <<beat, Others, killed>>

FirstBeat(p) ==
  /\ phase[p] = "beat"
  /\ Enter(p, "open")
  /\ beat' = "fresh"
  /\ UNCHANGED <<pidfile, sock, marker, Others, killed>>

\* Store(root): the database may still be in the hands of one that is closing.
OpenStore(p) ==
  /\ phase[p] = "open"
  /\ IF DatabaseHeld THEN Exit(p, FALSE) ELSE Enter(p, "boot")
  /\ UNCHANGED <<rootVars, Others, killed>>

\* The bind refuses a socket file that is there.
Bind(p) ==
  /\ phase[p] = "boot"
  /\ IF sock # None
       THEN Exit(p, FALSE) /\ UNCHANGED sock
       ELSE Enter(p, "serve") /\ sock' = p
  /\ UNCHANGED <<pidfile, beat, marker, Others, killed>>

WellBeating(p) == phase[p] \in {"open", "boot", "serve"} /\ p \notin stuck

Beat(p) ==
  /\ WellBeating(p) /\ beat # "fresh"
  /\ beat' = "fresh"
  /\ UNCHANGED <<procVars, pidfile, sock, marker, Others, killed>>

\* The accept loop ends: the marker first, then the heartbeat's thread stops.
Drain(p) ==
  /\ phase[p] = "serve" /\ p \in term
  /\ Go(p, "drain", None, {}, {}, TRUE)
  /\ marker' = "recent"
  /\ UNCHANGED <<pidfile, sock, beat, Others, killed>>

\* After the drains both files are unlinked, whatever they say by then.
Unlink(p) ==
  /\ phase[p] = "drain"
  /\ Enter(p, "close")
  /\ pidfile' = None /\ sock' = None
  /\ UNCHANGED <<beat, marker, Others, killed>>

\* The bounded close, and os._exit(0).
Close(p) ==
  /\ phase[p] = "close"
  /\ Exit(p, TRUE)
  /\ UNCHANGED <<rootVars, Others, killed>>

-----------------------------------------------------------------------------
(* Time *)

BeatAges ==
  /\ beat = "fresh" /\ \A p \in Procs : ~WellBeating(p)
  /\ beat' = "stale"
  /\ UNCHANGED <<procVars, pidfile, sock, marker, Others, killed>>

\* The stages of a stop share one deadline, shorter than SHUTDOWN_BUDGET_S.
MarkerAges ==
  /\ marker = "recent" /\ \A p \in Procs : phase[p] \notin Stopping
  /\ marker' = "old"
  /\ UNCHANGED <<procVars, pidfile, sock, beat, Others, killed>>

-----------------------------------------------------------------------------
(* What goes wrong, and what users do *)

Fault == faults < MaxFaults /\ faults' = faults + 1

\* An abort, an invalid store, a lost writer: os._exit(2) and the like.
Crash(p) ==
  /\ Fault
  /\ p \in Live /\ Exit(p, FALSE)
  /\ UNCHANGED <<rootVars, parent, replacing, hubVars, killed>>

\* The pools make no progress: no answer, no beat, perhaps no stop.
Wedge(p) ==
  /\ Fault
  /\ phase[p] = "serve" /\ p \notin stuck
  /\ stuck' = stuck \union {p} /\ wasStuck' = wasStuck \union {p}
  /\ UNCHANGED <<phase, victim, term, early, job, jobProc,
                 rootVars, parent, replacing, hubVars, killed>>

Recover(p) ==
  /\ p \in stuck
  /\ stuck' = stuck \ {p}
  /\ UNCHANGED <<phase, victim, term, wasStuck, early, job, jobProc,
                 rootVars, Others, killed>>

\* `rmx daemon stop': its request (how it escalates is AskEnds).
UserStop ==
  /\ Fault
  /\ ReadPid # None /\ Terminate(None, "gone", None, ReadPid)
  /\ UNCHANGED <<rootVars, parent, replacing, hubVars, killed>>

-----------------------------------------------------------------------------
(* The hub's watchdog, for a root with policy auto that is not paused *)

\* Mutated form: a restart leaves the count of misses.
Tick_KeepsMisses ==
  /\ hub = "watch" /\ early = {} /\ ~due
  /\ due' = (job = "respawn")
  /\ early' = {p \in Procs : phase[p] \in Quick}
  /\ \/ CanAnswer /\ misses' = 0 /\ noproc' = 0 /\ UNCHANGED hub
     \/ /\ ReadPid = None
        /\ misses' = 0 /\ noproc' = 1 - noproc
        /\ hub' = IF noproc = 1 THEN "kick" ELSE "watch"
     \/ /\ ReadPid # None /\ beat = "fresh"
        /\ misses' = 0 /\ UNCHANGED <<hub, noproc>>
     \/ /\ ReadPid # None /\ beat # "fresh"
        /\ misses' = misses + 1
        /\ hub' = IF misses + 1 = GraceMisses THEN "stop" ELSE "watch"
        /\ UNCHANGED noproc
  /\ UNCHANGED <<target, runVars, rootVars, parent, replacing, faults, killed>>

\* Mutated form: a process that is gone is left to launchd.
Tick_LeavesTheDead ==
  /\ hub = "watch" /\ early = {} /\ ~due
  /\ due' = (job = "respawn")
  /\ early' = {p \in Procs : phase[p] \in Quick}
  /\ \/ CanAnswer /\ misses' = 0 /\ noproc' = 0 /\ UNCHANGED hub
     \/ /\ ReadPid = None
        /\ misses' = 0 /\ UNCHANGED <<hub, noproc>>
     \/ /\ ReadPid # None /\ beat = "fresh"
        /\ misses' = 0 /\ UNCHANGED <<hub, noproc>>
     \/ /\ ReadPid # None /\ beat # "fresh"
        /\ misses' = (misses + 1) % GraceMisses
        /\ hub' = IF misses + 1 = GraceMisses THEN "stop" ELSE "watch"
        /\ UNCHANGED noproc
  /\ UNCHANGED <<target, runVars, rootVars, parent, replacing, faults, killed>>

\* One tick.  What a process does before its first heartbeat takes less
\* than two ticks, the grace of an adoption aside; and launchd's
\* ThrottleInterval is shorter than the time from tick to tick.
Tick ==
  /\ hub = "watch" /\ early = {} /\ ~due
  /\ due' = (job = "respawn")
  /\ early' = {p \in Procs : phase[p] \in Quick}
  /\ \/ CanAnswer /\ misses' = 0 /\ noproc' = 0 /\ UNCHANGED hub
     \/ /\ ReadPid = None
        /\ misses' = 0 /\ noproc' = 1 - noproc
        /\ hub' = IF noproc = 1 THEN "kick" ELSE "watch"
     \/ /\ ReadPid # None /\ beat = "fresh"
        /\ misses' = 0 /\ UNCHANGED <<hub, noproc>>
     \/ /\ ReadPid # None /\ beat # "fresh"
        /\ misses' = (misses + 1) % GraceMisses
        /\ hub' = IF misses + 1 = GraceMisses THEN "stop" ELSE "watch"
        /\ UNCHANGED noproc
  /\ UNCHANGED <<target, runVars, rootVars, parent, replacing, faults, killed>>


\* graceful_stop reads the pid again.
HubStops ==
  /\ hub = "stop"
  /\ target' = ReadPid
  /\ IF ReadPid = None
       THEN hub' = "kick" /\ UNCHANGED procVars
       ELSE hub' = "grace" /\ Terminate(None, "gone", None, ReadPid)
  /\ UNCHANGED <<misses, noproc, due, rootVars, parent, replacing, faults, killed>>

\* The grace ends; one that drains by the marker is waited for.
GraceEnds ==
  /\ hub = "grace"
  /\ target \in Live => GracePasses(target)
  /\ IF target \in Live /\ ReadPid # None /\ marker = "recent"
       THEN hub' = "await" /\ target' = ReadPid
       ELSE hub' = "kick" /\ target' = None
  /\ UNCHANGED <<misses, noproc, due, procVars, rootVars, parent, replacing, faults, killed>>

\* The process is gone, or the shutdown budget is spent.
AwaitEnds ==
  /\ hub = "await"
  /\ target \notin Live \/ marker # "recent"
  /\ hub' = "kick" /\ target' = None
  /\ UNCHANGED <<misses, noproc, due, procVars, rootVars, parent, replacing, faults, killed>>

\* launchctl kickstart -k: what runs is told to stop, and the job runs anew.
Kick ==
  /\ hub = "kick"
  /\ hub' = "watch"
  /\ IF job = "running"
       THEN replacing' = TRUE /\ Terminate(None, "gone", None, jobProc)
       ELSE /\ job' = "respawn"
            /\ UNCHANGED <<replacing, phase, victim, term, stuck, wasStuck, early, jobProc>>
  /\ due' = (job' = "respawn")
  /\ UNCHANGED <<misses, noproc, target, rootVars, parent, faults, killed>>

\* launchd's ExitTimeOut, which is longer than a drain.
LaunchdKills ==
  /\ replacing /\ jobProc \in stuck /\ phase[jobProc] = "serve"
  /\ Kill(None, "gone", jobProc)
  /\ UNCHANGED <<rootVars, Others>>

-----------------------------------------------------------------------------

Arrive(p) == Ask(p) \/ AskEnds(p) \/ TakeLock(p) \/ Reap(p) \/ ReapEnds(p) \/ Gate(p)
Boot(p) == WritePid(p) \/ FirstBeat(p) \/ OpenStore(p) \/ Bind(p)
Stop(p) == Drain(p) \/ Unlink(p) \/ Close(p)
Watchdog == Tick \/ HubStops \/ GraceEnds \/ AwaitEnds \/ Kick
Faults == UserStop \/ \E p \in Procs : Fork(p) \/ Crash(p) \/ Wedge(p) \/ Recover(p)

Next ==
  \/ \E p \in Procs : StartJob(p) \/ Arrive(p) \/ Boot(p) \/ Beat(p) \/ Stop(p)
  \/ ParentLeaves \/ BeatAges \/ MarkerAges
  \/ Watchdog \/ LaunchdKills
  \/ Faults

\* Processes that are well run, time passes, launchd and the hub do their
\* work.  A process that is stuck need not stop.
Fairness ==
  /\ \A p \in Procs : /\ WF_vars(Arrive(p) \/ Boot(p)) /\ WF_vars(Beat(p))
                      /\ WF_vars(p \notin stuck /\ Drain(p))
                      /\ WF_vars(Unlink(p) \/ Close(p))
  /\ WF_vars(\E p \in Procs : StartJob(p))
  /\ WF_vars(ParentLeaves) /\ WF_vars(BeatAges) /\ WF_vars(MarkerAges)
  /\ WF_vars(Watchdog) /\ WF_vars(LaunchdKills)

Spec == Init /\ [][Next]_vars /\ Fairness

-----------------------------------------------------------------------------
(* Properties *)

\* A daemon that serves is the one that the pid file and the socket lead to:
\* no other daemon ever bound over it, wrote its pid over it, or took its
\* files away when it stopped.  (_reap_predecessor, daemon.lock, and the
\* unconditional unlinks at the end of serve_forever.)
ServingIsNamed ==
  \A p \in Procs : phase[p] = "serve" => pidfile = p /\ sock = p

\* SIGKILL meets a daemon that was never stuck only while it stops, when its
\* heartbeat stopped before and went stale meanwhile.  In particular the time between a pid file and
\* its first heartbeat is covered, and so is a boot of any length.
\* (stop_daemon: "supervisors never SIGKILL a working daemon".)
WorkIsNotKilled == \A k \in killed : k.phase \in Stopping /\ k.beat # "fresh"

\* Some daemon that is well serves the root, again and again: an exit status
\* of 0 that launchd does not restart, a yield to a predecessor that then
\* stops, a wedge and a lost race for the lock are all made good by the hub.
\* (Watchdog._check and _restart, launchctl's KeepAlive.)
ServedAgain == []<>(\E p \in Procs : phase[p] = "serve" /\ p \notin stuck)

=============================================================================
