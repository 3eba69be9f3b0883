----------------------- MODULE DaemonLifecycleProofs -----------------------
(***************************************************************************)
(* Proofs about DaemonLifecycle, for any number of processes, any grace of *)
(* the watchdog and any number of faults.                                  *)
(*                                                                         *)
(* That a daemon which serves keeps its files rests on a relay.  The       *)
(* holder of daemon.lock, and there is one, looks for a predecessor before *)
(* it writes its pid; a predecessor that still owns the root is the one    *)
(* that the pid file names; and whoever owns the root after that is the    *)
(* holder itself.  That no daemon at work is killed rests on the           *)
(* heartbeat: what a holder waits for was stuck, or is stopping and no     *)
(* longer beats.                                                           *)
(***************************************************************************)
EXTENDS DaemonLifecycle, TLAPS

Comer  == {"adopt", "asked", "lock"}                 \* without daemon.lock yet
Holder == {"reap", "kill", "gate", "write"}          \* daemon.lock, no pid yet
Owner  == {"beat", "open", "boot", "serve", "drain"} \* the root is its own

OneHolder == parent # None /\ jobProc # None => phase[jobProc] \in Comer
ComersAreJobs == \A p \in Procs : phase[p] \in Comer => jobProc = p
HoldersHold == \A p \in Procs : phase[p] \in Holder => p \in {parent, jobProc}

OwnerIsNamed == \A p \in Procs : phase[p] \in Owner => pidfile = p
ServerIsBound == \A p \in Procs : phase[p] = "serve" => sock = p

\* A holder that waits, waits for the owner; past that there is none.
OwnerIsVictim ==
  \A p, q \in Procs : phase[p] = "kill" /\ phase[q] \in Owner => victim[p] = q
NoRival ==
  \A p, q \in Procs : phase[p] \in {"gate", "write"} => phase[q] \notin Owner

\* Who is well and past its first heartbeat keeps it fresh.
WellBeats ==
  \A p \in Procs : phase[p] \in {"open", "boot", "serve"} => beat = "fresh" \/ p \in wasStuck

\* Whom a holder waits for.
Overdue(q) == q \in wasStuck \/ (phase[q] \in Stopping /\ beat # "fresh")
VictimIsOverdue ==
  \A p, q \in Procs : phase[p] = "kill" /\ victim[p] = q /\ q \in Live => Overdue(q)

Relay == /\ OneHolder /\ ComersAreJobs /\ HoldersHold
         /\ OwnerIsNamed /\ ServerIsBound
         /\ OwnerIsVictim /\ NoRival
         /\ WellBeats /\ VictimIsOverdue

IInv == TypeOK /\ Relay /\ WorkIsNotKilled

-----------------------------------------------------------------------------
(* What a move does *)

\* The part of the type that a move can disturb.
RunTypes ==
  /\ phase \in [Procs -> Phases]
  /\ victim \in [Procs -> Procs \union {None}]
  /\ \A p \in Procs : victim[p] # None <=> phase[p] \in Waiting
  /\ term \subseteq Procs /\ stuck \subseteq wasStuck /\ wasStuck \subseteq Procs
  /\ \A p \in wasStuck : phase[p] \in {"serve"} \union Stopping
  /\ early \subseteq {p \in Procs : phase[p] \in Quick}
  /\ job \in {"running", "respawn", "stopped"}
  /\ jobProc \in Procs \union {None} /\ (jobProc # None <=> job = "running")

LEMMA GoMoves ==
  ASSUME RunTypes, NEW p, NEW ph, NEW v, NEW asked, NEW ended, NEW ok,
         Go(p, ph, v, asked, ended, ok)
  PROVE  /\ \A q \in Procs : q \in ended => phase'[q] = "gone" /\ victim'[q] = None
         /\ p \in Procs \ ended => phase'[p] = ph /\ victim'[p] = v
         /\ \A q \in Procs \ ended : q # p => phase'[q] = phase[q] /\ victim'[q] = victim[q]
         /\ wasStuck' = wasStuck \ ended
         /\ jobProc' = IF jobProc \in ended THEN None ELSE jobProc
  BY DEF Go, RunTypes

LEMMA GoTypes ==
  ASSUME RunTypes, NEW p \in Procs \union {None}, NEW ph \in Phases,
         NEW v \in Procs \union {None}, v # None <=> ph \in Waiting,
         NEW asked, asked \subseteq Procs, NEW ended, NEW ok,
         p \in wasStuck \ ended => ph \in {"serve"} \union Stopping,
         Go(p, ph, v, asked, ended, ok)
  PROVE  RunTypes'
  <1>1. phase' \in [Procs -> Phases] /\ victim' \in [Procs -> Procs \union {None}]
    BY DEF Go, RunTypes, Phases
  <1>2. \A q \in Procs : victim'[q] # None <=> phase'[q] \in Waiting
    BY GoMoves DEF RunTypes, Waiting
  <1>3. /\ term' \subseteq Procs /\ stuck' \subseteq wasStuck' /\ wasStuck' \subseteq Procs
        /\ early' \subseteq {q \in Procs : phase'[q] \in Quick}
    BY DEF Go, RunTypes
  <1>4. \A q \in wasStuck' : phase'[q] \in {"serve"} \union Stopping
    BY GoMoves DEF RunTypes
  <1>5. /\ job' \in {"running", "respawn", "stopped"}
        /\ jobProc' \in Procs \union {None} /\ (jobProc' # None <=> job' = "running")
    BY DEF Go, RunTypes
  <1> QED BY <1>1, <1>2, <1>3, <1>4, <1>5 DEF RunTypes

-----------------------------------------------------------------------------
(* The relay *)

\* What a move of p to ph owes the relay while the files stay as they are.
InOrder(p, ph, v, ended) ==
  /\ phase[p] # "gone"
  /\ ph \in Comer => phase[p] \in Comer
  /\ phase[p] \in Comer => ph \in Comer \/ parent = None
  /\ ph \in Holder => phase[p] \in Holder \/ jobProc = p
  /\ ph \in Owner => phase[p] \in Owner
  /\ ph \in {"open", "boot", "serve"} => phase[p] \in {"open", "boot"}
  /\ ph # "serve"
  /\ ph \in {"gate", "write"} =>
       phase[p] \in {"gate", "write"} \/ \A q \in Procs \ ended : phase[q] \notin Owner
  /\ ph = "kill" =>
       /\ \A q \in Procs \ ended : phase[q] \in Owner => v = q
       /\ v \in Procs \ ended => v # p /\ Overdue(v)
  /\ phase[p] \in {"serve"} \union Stopping => ph \in Stopping

LEMMA MoveKeeps ==
  ASSUME TypeOK, Relay, NEW p \in Procs \union {None}, NEW ph, NEW v, NEW asked,
         NEW ended, NEW ok, Go(p, ph, v, asked, ended, ok),
         p \in Procs \ ended => InOrder(p, ph, v, ended),
         UNCHANGED <<pidfile, sock, beat, parent>>
  PROVE  Relay'
  <1> DEFINE stays == Procs \ ended
  <1>1. /\ \A q \in Procs : q \in ended => phase'[q] = "gone" /\ victim'[q] = None
        /\ p \in stays => phase'[p] = ph /\ victim'[p] = v
        /\ \A q \in stays : q # p => phase'[q] = phase[q] /\ victim'[q] = victim[q]
        /\ wasStuck' = wasStuck \ ended
        /\ jobProc' = IF jobProc \in ended THEN None ELSE jobProc
    BY GoMoves DEF TypeOK, RunTypes
  <1>2. /\ None \notin Procs /\ jobProc \in Procs \union {None}
        /\ \A q \in Procs : victim[q] \in Procs \union {None}
    BY LifecycleConstants DEF TypeOK
  <1>3. OneHolder'
    BY <1>1, <1>2 DEF Relay, OneHolder, InOrder
  <1>4. ComersAreJobs'
    BY <1>1 DEF Relay, ComersAreJobs, Comer, InOrder
  <1>5. HoldersHold'
    BY <1>1, <1>2 DEF Relay, HoldersHold, Holder, InOrder
  <1>6. OwnerIsNamed'
    BY <1>1 DEF Relay, OwnerIsNamed, Owner, InOrder
  <1>7. ServerIsBound'
    BY <1>1 DEF Relay, ServerIsBound, InOrder
  <1>8. OwnerIsVictim'
    BY <1>1 DEF Relay, OwnerIsVictim, Owner, InOrder
  <1>9. NoRival'
    BY <1>1 DEF Relay, NoRival, Owner, InOrder
  <1>10. WellBeats'
    BY <1>1 DEF Relay, WellBeats, InOrder, TypeOK, Stopping
  <1>11. VictimIsOverdue'
    <2> SUFFICES ASSUME NEW r \in Procs, NEW q \in Procs,
                        phase'[r] = "kill", victim'[r] = q, phase'[q] # "gone"
                 PROVE  Overdue(q)'
      BY DEF VictimIsOverdue, Live
    <2>1. q \in stays /\ r \in stays
      BY <1>1
    <2>2. Overdue(q)
      BY <1>1, <2>1 DEF Relay, VictimIsOverdue, InOrder, Live
    <2>3. q = p => ph # "gone" /\ (phase[q] \in Stopping => ph \in Stopping)
      BY <1>1, <2>1 DEF InOrder, Stopping
    <2> QED BY <1>1, <2>1, <2>2, <2>3 DEF Overdue, Stopping
  <1> QED BY <1>3, <1>4, <1>5, <1>6, <1>7, <1>8, <1>9, <1>10, <1>11 DEF Relay

LEMMA Moves ==
  ASSUME TypeOK, Relay, NEW p \in Procs \union {None}, NEW ph \in Phases,
         NEW v \in Procs \union {None}, v # None <=> ph \in Waiting,
         NEW asked, asked \subseteq Procs, NEW ended, NEW ok,
         Go(p, ph, v, asked, ended, ok),
         p \in Procs \ ended => InOrder(p, ph, v, ended),
         UNCHANGED <<pidfile, sock, beat, parent>>
  PROVE  RunTypes' /\ Relay'
  <1>1. RunTypes
    BY DEF TypeOK, RunTypes
  <1>2. p \in wasStuck \ ended => ph \in {"serve"} \union Stopping
    BY <1>1 DEF RunTypes, InOrder
  <1>3. RunTypes'
    BY <1>1, <1>2, GoTypes
  <1> QED BY <1>3, MoveKeeps

LEMMA ExitMoves ==
  ASSUME TypeOK, Relay, NEW p \in Procs, NEW ok, Exit(p, ok),
         UNCHANGED <<pidfile, sock, beat, parent>>
  PROVE  RunTypes' /\ Relay'
  BY Moves DEF Exit, Phases, Waiting

LEMMA EnterMoves ==
  ASSUME TypeOK, Relay, NEW p \in Procs, NEW ph \in Phases \ Waiting, Enter(p, ph),
         InOrder(p, ph, None, {}), UNCHANGED <<pidfile, sock, beat, parent>>
  PROVE  RunTypes' /\ Relay'
  BY Moves DEF Enter

\* A stop that nobody of the model waits for.
LEMMA TerminateMoves ==
  ASSUME TypeOK, Relay, NEW q \in Procs, Terminate(None, "gone", None, q),
         UNCHANGED <<pidfile, sock, beat, parent>>
  PROVE  RunTypes' /\ Relay'
  BY Moves, LifecycleConstants DEF Terminate, Phases, Waiting

-----------------------------------------------------------------------------
(* One lemma for the steps of each part *)

LEMMA StartJobMoves ==
  ASSUME TypeOK, Relay, NEW p \in Procs, StartJob(p)
  PROVE  RunTypes' /\ Relay'
  <1>1. /\ phase[p] = "gone" /\ \A q \in Procs : victim[q] # p
        /\ phase' = [phase EXCEPT ![p] = "adopt"] /\ jobProc = None /\ jobProc' = p
        /\ job' = "running"
        /\ UNCHANGED <<victim, term, stuck, wasStuck, early, pidfile, sock, beat, parent>>
    BY DEF StartJob, Starts, Free, TypeOK, rootVars
  <1>2. phase'[p] = "adopt" /\ \A q \in Procs \ {p} : phase'[q] = phase[q]
    BY <1>1 DEF TypeOK
  <1>3. RunTypes'
    BY <1>1, <1>2, LifecycleConstants
       DEF TypeOK, RunTypes, Phases, Unnamed, Waiting, Stopping, Quick
  <1>4. OneHolder' /\ ComersAreJobs' /\ HoldersHold'
    BY <1>1, <1>2, LifecycleConstants
       DEF TypeOK, Relay, OneHolder, ComersAreJobs, HoldersHold, Comer, Holder
  <1>5. OwnerIsNamed' /\ ServerIsBound' /\ OwnerIsVictim' /\ NoRival' /\ WellBeats'
    BY <1>1, <1>2 DEF Relay, OwnerIsNamed, ServerIsBound, OwnerIsVictim, NoRival, WellBeats, Owner
  <1>6. VictimIsOverdue'
    BY <1>1, <1>2 DEF Relay, VictimIsOverdue, Overdue, Live
  <1> QED BY <1>3, <1>4, <1>5, <1>6 DEF Relay

LEMMA ForkMoves ==
  ASSUME TypeOK, Relay, NEW p \in Procs, Fork(p)
  PROVE  RunTypes' /\ Relay'
  <1>1. /\ phase[p] = "gone" /\ \A q \in Procs : victim[q] # p
        /\ phase' = [phase EXCEPT ![p] = "reap"] /\ parent = None /\ parent' = p
        /\ jobProc # None => phase[jobProc] \in Comer
        /\ UNCHANGED <<victim, term, stuck, wasStuck, early, pidfile, sock, beat, job, jobProc>>
    BY DEF Fork, LockHeld, Starts, Free, TypeOK, rootVars, Comer
  <1>2. phase'[p] = "reap" /\ \A q \in Procs \ {p} : phase'[q] = phase[q]
    BY <1>1 DEF TypeOK
  <1>3. RunTypes'
    BY <1>1, <1>2
       DEF TypeOK, RunTypes, Phases, Unnamed, Waiting, Stopping, Quick
  <1>4. OneHolder' /\ ComersAreJobs' /\ HoldersHold'
    BY <1>1, <1>2, LifecycleConstants
       DEF TypeOK, Relay, OneHolder, ComersAreJobs, HoldersHold, Comer, Holder
  <1>5. OwnerIsNamed' /\ ServerIsBound' /\ OwnerIsVictim' /\ NoRival' /\ WellBeats'
    BY <1>1, <1>2 DEF Relay, OwnerIsNamed, ServerIsBound, OwnerIsVictim, NoRival, WellBeats, Owner
  <1>6. VictimIsOverdue'
    BY <1>1, <1>2 DEF Relay, VictimIsOverdue, Overdue, Live
  <1> QED BY <1>3, <1>4, <1>5, <1>6 DEF Relay

\* A step that changes nothing the relay is about.
LEMMA AsideMoves ==
  ASSUME TypeOK, Relay, RunTypes',
         UNCHANGED <<phase, victim, jobProc, pidfile, sock, beat>>,
         wasStuck \subseteq wasStuck',
         \/ parent' = parent
         \/ parent' = None /\ \A p \in Procs : p = parent => phase[p] \notin Holder
  PROVE  Relay'
  BY DEF Relay, OneHolder, ComersAreJobs, HoldersHold, OwnerIsNamed, ServerIsBound,
         OwnerIsVictim, NoRival, WellBeats, VictimIsOverdue, Overdue, Live

-----------------------------------------------------------------------------
(* Arriving *)

\* The one whom the pid file names, when it lives.
LEMMA OwnerIsRead ==
  ASSUME TypeOK, Relay, NEW q \in Procs, phase[q] \in Owner
  PROVE  ReadPid = q
  BY DEF Relay, OwnerIsNamed, ReadPid, Live, Owner

LEMMA AskMoves ==
  ASSUME TypeOK, Relay, NEW p \in Procs, Ask(p)
  PROVE  RunTypes' /\ Relay'
  <1>1. phase[p] = "adopt" /\ UNCHANGED <<pidfile, sock, beat, parent>>
    BY DEF Ask, rootVars, Others
  <1>2. CASE Enter(p, "lock")
    BY <1>1, <1>2, EnterMoves
       DEF InOrder, Phases, Unnamed, Waiting, Comer, Holder, Owner, Stopping
  <1>3. CASE \E q \in Procs : Terminate(p, "asked", q, q)
    <2> PICK q \in Procs : Terminate(p, "asked", q, q)
      BY <1>3
    <2>1. InOrder(p, "asked", q, {r \in {q} : ~Handles(r)})
      BY <1>1 DEF InOrder, Comer, Holder, Owner, Stopping
    <2> QED BY <1>1, <2>1, Moves, LifecycleConstants DEF Terminate, Phases, Waiting
  <1>4. ReadPid \in Procs \union {None} /\ (CanAnswer => sock \in Procs)
    BY DEF ReadPid, Live, CanAnswer, TypeOK
  <1>5. PICK answers \in {FALSE, CanAnswer} :
          LET q == IF ReadPid # None THEN ReadPid ELSE sock IN
            IF answers \/ (ReadPid # None /\ beat = "fresh")
              THEN Terminate(p, "asked", q, q)
              ELSE Enter(p, "lock")
    BY DEF Ask
  <1>6. answers => CanAnswer
    BY Zenon
  <1> QED BY <1>2, <1>3, <1>4, <1>5, <1>6

LEMMA AskEndsMoves ==
  ASSUME TypeOK, Relay, NEW p \in Procs, AskEnds(p)
  PROVE  RunTypes' /\ Relay'
  <1>1. phase[p] = "asked" /\ UNCHANGED <<pidfile, sock, beat, parent>>
    BY DEF AskEnds, rootVars, Others
  <1>2. \A v, ended : InOrder(p, "lock", v, ended)
    BY <1>1 DEF InOrder, Comer, Holder, Owner, Stopping
  <1>3. CASE Enter(p, "lock")
    BY <1>1, <1>2, <1>3, EnterMoves DEF Phases, Unnamed, Waiting
  <1>4. CASE Kill(p, "lock", victim[p])
    BY <1>1, <1>2, <1>4, Moves DEF Kill, Phases, Unnamed, Waiting
  <1> QED BY <1>3, <1>4 DEF AskEnds

LEMMA TakeLockMoves ==
  ASSUME TypeOK, Relay, NEW p \in Procs, TakeLock(p)
  PROVE  RunTypes' /\ Relay'
  <1>1. phase[p] = "lock" /\ UNCHANGED <<pidfile, sock, beat, parent>>
    BY DEF TakeLock, rootVars, Others
  <1>2. CASE ~LockHeld /\ Enter(p, "reap")
    <2>1. InOrder(p, "reap", None, {})
      BY <1>1, <1>2 DEF InOrder, LockHeld, Relay, ComersAreJobs, Comer, Holder, Owner, Stopping
    <2> QED BY <1>1, <1>2, <2>1, EnterMoves DEF Phases, Unnamed, Waiting
  <1>3. CASE Exit(p, FALSE)
    BY <1>1, <1>3, ExitMoves
  <1> QED BY <1>2, <1>3 DEF TakeLock

LEMMA ReapMoves ==
  ASSUME TypeOK, Relay, NEW p \in Procs, Reap(p)
  PROVE  RunTypes' /\ Relay'
  <1>1. phase[p] = "reap" /\ UNCHANGED <<pidfile, sock, beat, parent>>
    BY DEF Reap, rootVars, Others
  <1>2. CASE ReadPid = None /\ Enter(p, "gate")
    <2>1. InOrder(p, "gate", None, {})
      BY <1>1, <1>2, OwnerIsRead, LifecycleConstants DEF InOrder, Comer, Holder, Owner, Stopping
    <2> QED BY <1>1, <1>2, <2>1, EnterMoves DEF Phases, Unnamed, Waiting
  <1>3. CASE Exit(p, TRUE)
    BY <1>1, <1>3, ExitMoves
  <1>4. CASE /\ ReadPid # None /\ beat # "fresh"
             /\ Terminate(p, "kill", ReadPid, ReadPid)
    <2> DEFINE q == ReadPid
               ended == {r \in {q} : ~Handles(r)}
    <2>1. q \in Procs
      BY <1>4 DEF ReadPid, Live
    <2>2. \A r \in Procs : phase[r] \in Owner => q = r
      BY OwnerIsRead
    <2>3. q \in Procs \ ended => q # p /\ Overdue(q)
      BY <1>1, <1>4 DEF Handles, Overdue, Relay, WellBeats, Stopping
    <2>4. InOrder(p, "kill", q, ended)
      BY <1>1, <2>2, <2>3 DEF InOrder, Comer, Holder, Owner, Stopping
    <2> QED BY <1>1, <1>4, <2>1, <2>4, Moves, LifecycleConstants
         DEF Terminate, Phases, Waiting
  <1> QED BY <1>2, <1>3, <1>4 DEF Reap

LEMMA ReapEndsMoves ==
  ASSUME TypeOK, Relay, NEW p \in Procs, ReapEnds(p)
  PROVE  RunTypes' /\ Relay'
  <1>1. phase[p] = "kill" /\ UNCHANGED <<pidfile, sock, beat, parent>>
    BY DEF ReapEnds, rootVars, Others
  <1>2. \A q \in Procs : phase[q] \in Owner => victim[p] = q /\ q \in Live
    BY <1>1 DEF Relay, OwnerIsVictim, Live, Owner
  <1>3. CASE victim[p] \notin Live /\ Enter(p, "gate")
    <2>1. InOrder(p, "gate", None, {})
      BY <1>1, <1>2, <1>3 DEF InOrder, Comer, Holder, Owner, Stopping
    <2> QED BY <1>1, <1>3, <2>1, EnterMoves DEF Phases, Unnamed, Waiting
  <1>4. CASE Kill(p, "gate", victim[p])
    <2>1. InOrder(p, "gate", None, {victim[p]})
      BY <1>1, <1>2 DEF InOrder, Comer, Holder, Owner, Stopping
    <2> QED BY <1>1, <1>4, <2>1, Moves DEF Kill, Phases, Unnamed, Waiting
  <1> QED BY <1>3, <1>4 DEF ReapEnds

LEMMA GateMoves ==
  ASSUME TypeOK, Relay, NEW p \in Procs, Gate(p)
  PROVE  RunTypes' /\ Relay'
  <1>1. phase[p] = "gate" /\ UNCHANGED <<pidfile, sock, beat, parent>>
    BY DEF Gate, rootVars, Others
  <1>2. CASE Enter(p, "write")
    <2>1. InOrder(p, "write", None, {})
      BY <1>1 DEF InOrder, Comer, Holder, Owner, Stopping
    <2> QED BY <1>1, <1>2, <2>1, EnterMoves DEF Phases, Unnamed, Waiting
  <1>3. CASE Exit(p, TRUE)
    BY <1>1, <1>3, ExitMoves
  <1> QED BY <1>2, <1>3 DEF Gate

-----------------------------------------------------------------------------
(* Boot, service and stop: the steps that change the files *)

\* What a move without a victim does.
LEMMA EnterEffect ==
  ASSUME TypeOK, NEW p \in Procs, NEW ph \in Phases \ Waiting, Enter(p, ph),
         p \in wasStuck => ph \in {"serve"} \union Stopping
  PROVE  /\ RunTypes'
         /\ phase'[p] = ph /\ \A q \in Procs \ {p} : phase'[q] = phase[q]
         /\ \A q \in Procs \ {p} : victim'[q] = victim[q]
         /\ UNCHANGED <<wasStuck, jobProc>>
  <1>1. RunTypes
    BY DEF TypeOK, RunTypes
  <1>2. Go(p, ph, None, {}, {}, TRUE)
    BY DEF Enter
  <1>3. RunTypes'
    BY <1>1, <1>2, GoTypes
  <1> QED BY <1>1, <1>2, <1>3 DEF Go, RunTypes

LEMMA WritePidMoves ==
  ASSUME TypeOK, Relay, NEW p \in Procs, WritePid(p)
  PROVE  RunTypes' /\ Relay'
  <1>1. /\ phase[p] = "write" /\ Enter(p, "beat")
        /\ pidfile' = p /\ UNCHANGED <<beat, parent>>
    BY DEF WritePid, Others
  <1>2. p \notin wasStuck
    BY <1>1 DEF TypeOK, Stopping
  <1>3. /\ RunTypes'
        /\ phase'[p] = "beat" /\ \A q \in Procs \ {p} : phase'[q] = phase[q]
        /\ \A q \in Procs \ {p} : victim'[q] = victim[q]
        /\ UNCHANGED <<wasStuck, jobProc>>
    BY <1>1, <1>2, EnterEffect DEF Phases, Booting, Waiting
  <1>4. \A q \in Procs \ {p} : phase[q] \notin Owner \union Holder
    <2>1. \A q \in Procs : phase[q] \notin Owner
      BY <1>1 DEF Relay, NoRival
    <2>2. \A q \in Procs \ {p} : phase[q] \notin Holder
      BY <1>1, LifecycleConstants DEF TypeOK, Relay, HoldersHold, OneHolder, Holder, Comer
    <2> QED BY <2>1, <2>2
  <1>5. OneHolder' /\ ComersAreJobs' /\ HoldersHold'
    BY <1>1, <1>3 DEF TypeOK, Relay, OneHolder, ComersAreJobs, HoldersHold, Comer, Holder
  <1>6. OwnerIsNamed' /\ ServerIsBound' /\ OwnerIsVictim' /\ NoRival' /\ WellBeats'
    BY <1>1, <1>3, <1>4
       DEF OwnerIsNamed, ServerIsBound, OwnerIsVictim, NoRival, WellBeats, Owner, Holder
  <1>7. VictimIsOverdue'
    BY <1>3, <1>4 DEF VictimIsOverdue, Holder
  <1> QED BY <1>3, <1>5, <1>6, <1>7 DEF Relay

\* A heartbeat revives no victim: one that beats was stuck, or is not waited
\* for.
LEMMA VictimsMayBeat ==
  ASSUME TypeOK, Relay, NEW p \in Procs, phase[p] \in {"beat", "open", "boot", "serve"}
  PROVE  \A r, q \in Procs : phase[r] = "kill" /\ victim[r] = q /\ q \in Live => q \in wasStuck
  <1> SUFFICES ASSUME NEW r \in Procs, phase[r] = "kill", victim[r] \in Live
               PROVE  victim[r] \in wasStuck
    OBVIOUS
  <1>1. victim[r] = p
    BY DEF Relay, OwnerIsVictim, Owner
  <1> QED BY <1>1 DEF Relay, VictimIsOverdue, Overdue, Stopping

LEMMA FirstBeatMoves ==
  ASSUME TypeOK, Relay, NEW p \in Procs, FirstBeat(p)
  PROVE  RunTypes' /\ Relay'
  <1>1. /\ phase[p] = "beat" /\ Enter(p, "open")
        /\ beat' = "fresh" /\ UNCHANGED <<pidfile, sock, parent>>
    BY DEF FirstBeat, Others
  <1>2. p \notin wasStuck
    BY <1>1 DEF TypeOK, Stopping
  <1>3. /\ RunTypes'
        /\ phase'[p] = "open" /\ \A q \in Procs \ {p} : phase'[q] = phase[q]
        /\ \A q \in Procs \ {p} : victim'[q] = victim[q]
        /\ UNCHANGED <<wasStuck, jobProc>>
    BY <1>1, <1>2, EnterEffect DEF Phases, Booting, Waiting
  <1>4. OneHolder' /\ ComersAreJobs' /\ HoldersHold'
    BY <1>1, <1>3 DEF TypeOK, Relay, OneHolder, ComersAreJobs, HoldersHold, Comer, Holder
  <1>5. OwnerIsNamed' /\ ServerIsBound' /\ OwnerIsVictim' /\ NoRival' /\ WellBeats'
    BY <1>1, <1>3
       DEF Relay, OwnerIsNamed, ServerIsBound, OwnerIsVictim, NoRival, WellBeats, Owner
  <1>6. VictimIsOverdue'
    BY <1>1, <1>3, VictimsMayBeat DEF VictimIsOverdue, Overdue, Live
  <1> QED BY <1>3, <1>4, <1>5, <1>6 DEF Relay

LEMMA OpenStoreMoves ==
  ASSUME TypeOK, Relay, NEW p \in Procs, OpenStore(p)
  PROVE  RunTypes' /\ Relay'
  <1>1. phase[p] = "open" /\ UNCHANGED <<pidfile, sock, beat, parent>>
    BY DEF OpenStore, rootVars, Others
  <1>2. CASE Enter(p, "boot")
    <2>1. InOrder(p, "boot", None, {})
      BY <1>1 DEF InOrder, Comer, Holder, Owner, Stopping
    <2> QED BY <1>1, <1>2, <2>1, EnterMoves DEF Phases, Booting, Waiting
  <1>3. CASE Exit(p, FALSE)
    BY <1>1, <1>3, ExitMoves
  <1> QED BY <1>2, <1>3 DEF OpenStore

LEMMA BindMoves ==
  ASSUME TypeOK, Relay, NEW p \in Procs, Bind(p)
  PROVE  RunTypes' /\ Relay'
  <1>1. phase[p] = "boot" /\ UNCHANGED <<pidfile, beat, parent>>
    BY DEF Bind, Others
  <1>2. CASE Exit(p, FALSE) /\ UNCHANGED sock
    BY <1>1, <1>2, ExitMoves
  <1>3. CASE Enter(p, "serve") /\ sock' = p
    <2>1. /\ RunTypes'
          /\ phase'[p] = "serve" /\ \A q \in Procs \ {p} : phase'[q] = phase[q]
          /\ \A q \in Procs \ {p} : victim'[q] = victim[q]
          /\ UNCHANGED <<wasStuck, jobProc>>
      BY <1>3, EnterEffect DEF Phases, Waiting
    <2>2. OneHolder' /\ ComersAreJobs' /\ HoldersHold'
      BY <1>1, <2>1 DEF TypeOK, Relay, OneHolder, ComersAreJobs, HoldersHold, Comer, Holder
    <2>3. OwnerIsNamed' /\ ServerIsBound' /\ OwnerIsVictim' /\ NoRival' /\ WellBeats'
      BY <1>1, <1>3, <2>1
         DEF Relay, OwnerIsNamed, ServerIsBound, OwnerIsVictim, NoRival, WellBeats, Owner
    <2>4. VictimIsOverdue'
      BY <1>1, <2>1, VictimsMayBeat DEF VictimIsOverdue, Overdue, Live
    <2> QED BY <2>1, <2>2, <2>3, <2>4 DEF Relay
  <1> QED BY <1>2, <1>3 DEF Bind

LEMMA BeatMoves ==
  ASSUME TypeOK, Relay, NEW p \in Procs, Beat(p)
  PROVE  RunTypes' /\ Relay'
  <1>1. /\ phase[p] \in {"open", "boot", "serve"} /\ beat' = "fresh"
        /\ UNCHANGED <<phase, victim, term, stuck, wasStuck, early, job, jobProc,
                       pidfile, sock, parent>>
    BY DEF Beat, WellBeating, procVars, runVars, Others
  <1>2. RunTypes'
    BY <1>1 DEF TypeOK, RunTypes
  <1>3. /\ OneHolder' /\ ComersAreJobs' /\ HoldersHold'
        /\ OwnerIsNamed' /\ ServerIsBound' /\ OwnerIsVictim' /\ NoRival' /\ WellBeats'
    BY <1>1 DEF Relay, OneHolder, ComersAreJobs, HoldersHold,
                OwnerIsNamed, ServerIsBound, OwnerIsVictim, NoRival, WellBeats
  <1>4. VictimIsOverdue'
    BY <1>1, VictimsMayBeat DEF VictimIsOverdue, Overdue, Live
  <1> QED BY <1>2, <1>3, <1>4 DEF Relay

LEMMA DrainMoves ==
  ASSUME TypeOK, Relay, NEW p \in Procs, Drain(p)
  PROVE  RunTypes' /\ Relay'
  <1>1. /\ phase[p] = "serve" /\ Go(p, "drain", None, {}, {}, TRUE)
        /\ UNCHANGED <<pidfile, sock, beat, parent>>
    BY DEF Drain, Others
  <1>2. InOrder(p, "drain", None, {})
    BY <1>1 DEF InOrder, Comer, Holder, Owner, Stopping
  <1> QED BY <1>1, <1>2, Moves DEF Phases, Stopping, Waiting

LEMMA UnlinkMoves ==
  ASSUME TypeOK, Relay, NEW p \in Procs, Unlink(p)
  PROVE  RunTypes' /\ Relay'
  <1>1. /\ phase[p] = "drain" /\ Enter(p, "close") /\ UNCHANGED <<beat, parent>>
    BY DEF Unlink, Others
  <1>2. /\ RunTypes'
        /\ phase'[p] = "close" /\ \A q \in Procs \ {p} : phase'[q] = phase[q]
        /\ \A q \in Procs \ {p} : victim'[q] = victim[q]
        /\ UNCHANGED <<wasStuck, jobProc>>
    BY <1>1, EnterEffect DEF Phases, Stopping, Waiting
  <1>3. \A q \in Procs \ {p} : phase[q] \notin Owner
    BY <1>1 DEF Relay, OwnerIsNamed, Owner
  <1>4. OneHolder' /\ ComersAreJobs' /\ HoldersHold'
    BY <1>1, <1>2 DEF TypeOK, Relay, OneHolder, ComersAreJobs, HoldersHold, Comer, Holder
  <1>5. OwnerIsNamed' /\ ServerIsBound' /\ OwnerIsVictim' /\ NoRival' /\ WellBeats'
    BY <1>2, <1>3
       DEF Relay, OwnerIsNamed, ServerIsBound, OwnerIsVictim, NoRival, WellBeats, Owner
  <1>6. VictimIsOverdue'
    BY <1>1, <1>2 DEF Relay, VictimIsOverdue, Overdue, Live, Stopping
  <1> QED BY <1>2, <1>4, <1>5, <1>6 DEF Relay

LEMMA CloseMoves ==
  ASSUME TypeOK, Relay, NEW p \in Procs, Close(p) \/ Crash(p)
  PROVE  RunTypes' /\ Relay'
  BY ExitMoves DEF Close, Crash, rootVars, Others

-----------------------------------------------------------------------------
(* Time, faults, the watchdog and launchd *)

LEMMA TimeMoves ==
  ASSUME TypeOK, Relay, ParentLeaves \/ BeatAges \/ MarkerAges
  PROVE  RunTypes' /\ Relay'
  <1>1. UNCHANGED <<phase, victim, term, stuck, wasStuck, early, job, jobProc, pidfile, sock>>
    BY DEF ParentLeaves, BeatAges, MarkerAges, procVars, runVars, rootVars
  <1>2. RunTypes'
    BY <1>1 DEF TypeOK, RunTypes
  <1>3. CASE ParentLeaves \/ MarkerAges
    <2>1. UNCHANGED beat /\ \/ parent' = parent
                            \/ parent' = None /\ phase[parent] \notin Holder
      BY <1>3 DEF ParentLeaves, MarkerAges, rootVars, Others, Unnamed, Waiting, Holder
    <2> QED BY <1>1, <1>2, <2>1, AsideMoves
  <1>4. CASE BeatAges
    <2>1. beat' = "stale" /\ parent' = parent /\ \A p \in Procs : ~WellBeating(p)
      BY <1>4 DEF BeatAges, Others
    <2>2. WellBeats'
      BY <1>1, <2>1 DEF WellBeats, WellBeating, TypeOK
    <2>3. VictimIsOverdue'
      BY <1>1, <2>1 DEF Relay, VictimIsOverdue, Overdue, Live
    <2> QED BY <1>1, <1>2, <2>1, <2>2, <2>3
         DEF Relay, OneHolder, ComersAreJobs, HoldersHold, OwnerIsNamed,
             ServerIsBound, OwnerIsVictim, NoRival
  <1> QED BY <1>3, <1>4

LEMMA WedgeMoves ==
  ASSUME TypeOK, Relay, NEW p \in Procs, Wedge(p) \/ Recover(p)
  PROVE  RunTypes' /\ Relay'
  <1>1. /\ UNCHANGED <<phase, victim, term, early, job, jobProc, pidfile, sock, beat, parent>>
        /\ wasStuck \subseteq wasStuck'
    BY DEF Wedge, Recover, rootVars, Others
  <1>2. RunTypes'
    BY <1>1 DEF TypeOK, RunTypes, Wedge, Recover
  <1> QED BY <1>1, <1>2, AsideMoves

LEMMA WatchdogMoves ==
  ASSUME TypeOK, Relay, Watchdog
  PROVE  RunTypes' /\ Relay'
  <1>1. UNCHANGED <<pidfile, sock, beat, parent>>
    BY DEF Watchdog, Tick, HubStops, GraceEnds, AwaitEnds, Kick, rootVars
  <1>2. ReadPid # None => ReadPid \in Procs
    BY DEF ReadPid, Live, TypeOK
  <1>3. CASE Tick \/ GraceEnds \/ AwaitEnds
    <2>1. UNCHANGED <<phase, victim, term, stuck, wasStuck, job, jobProc>>
      BY <1>3 DEF Tick, GraceEnds, AwaitEnds, procVars, runVars
    <2>2. early' \subseteq {p \in Procs : phase[p] \in Quick}
      BY <1>3 DEF Tick, GraceEnds, AwaitEnds, procVars, TypeOK
    <2>3. RunTypes'
      BY <2>1, <2>2 DEF TypeOK, RunTypes
    <2> QED BY <1>1, <2>1, <2>3, AsideMoves
  <1>4. CASE HubStops
    <2>1. CASE UNCHANGED procVars
      BY <1>1, <2>1, AsideMoves DEF TypeOK, RunTypes, procVars, runVars
    <2>2. CASE ReadPid # None /\ Terminate(None, "gone", None, ReadPid)
      BY <1>1, <1>2, <2>2, TerminateMoves
    <2> QED BY <1>4, <2>1, <2>2 DEF HubStops
  <1>5. CASE Kick
    <2>1. CASE job = "running" /\ Terminate(None, "gone", None, jobProc)
      BY <1>1, <2>1, TerminateMoves DEF TypeOK
    <2>2. CASE /\ job # "running" /\ job' = "respawn"
               /\ UNCHANGED <<phase, victim, term, stuck, wasStuck, early, jobProc>>
      BY <1>1, <2>2, AsideMoves DEF TypeOK, RunTypes
    <2> QED BY <1>5, <2>1, <2>2 DEF Kick
  <1> QED BY <1>3, <1>4, <1>5 DEF Watchdog

LEMMA StopMoves ==
  ASSUME TypeOK, Relay, UserStop \/ LaunchdKills
  PROVE  RunTypes' /\ Relay'
  <1>1. UNCHANGED <<pidfile, sock, beat, parent>>
    BY DEF UserStop, LaunchdKills, rootVars, Others
  <1>2. CASE UserStop
    BY <1>1, <1>2, TerminateMoves DEF UserStop, ReadPid, Live
  <1>3. CASE LaunchdKills
    BY <1>1, <1>3, Moves, LifecycleConstants DEF LaunchdKills, Kill, Phases, Waiting
  <1> QED BY <1>2, <1>3

-----------------------------------------------------------------------------
(* The rest of the type, and whom SIGKILL met *)

RootTypes ==
  /\ pidfile \in Procs \union {None} /\ sock \in Procs \union {None}
  /\ beat \in Beats /\ marker \in {"none", "recent", "old"}
  /\ parent \in Procs \union {None}
HubTypes ==
  /\ replacing \in BOOLEAN /\ due \in BOOLEAN
  /\ hub \in {"watch", "stop", "grace", "await", "kick"}
  /\ misses \in 0..GraceMisses - 1 /\ noproc \in 0..1
  /\ target \in Procs \union {None}
  /\ faults \in 0..MaxFaults
KilledTypes == killed \subseteq [phase : Phases, beat : Beats] /\ WorkIsNotKilled

LEMMA TypeIsThree ==
  TypeOK /\ WorkIsNotKilled <=> RunTypes /\ RootTypes /\ HubTypes /\ KilledTypes
  BY DEF TypeOK, RunTypes, RootTypes, HubTypes, KilledTypes

LEMMA NextRootTypes == ASSUME TypeOK, Next PROVE RootTypes'
  <1> USE DEF RootTypes, TypeOK, rootVars, Others, Beats
  <1>1. CASE \E p \in Procs : StartJob(p) \/ Arrive(p) \/ Beat(p)
    BY <1>1 DEF StartJob, Arrive, Ask, AskEnds, TakeLock, Reap, ReapEnds, Gate, Beat
  <1>2. CASE \E p \in Procs : Boot(p) \/ Stop(p)
    BY <1>2 DEF Boot, WritePid, FirstBeat, OpenStore, Bind, Stop, Drain, Unlink, Close
  <1>3. CASE ParentLeaves \/ BeatAges \/ MarkerAges \/ Watchdog \/ LaunchdKills
    BY <1>3 DEF ParentLeaves, BeatAges, MarkerAges, Watchdog, Tick, HubStops, GraceEnds,
                AwaitEnds, Kick, LaunchdKills
  <1>4. CASE Faults
    BY <1>4 DEF Faults, UserStop, Fork, Crash, Wedge, Recover
  <1> QED BY <1>1, <1>2, <1>3, <1>4 DEF Next

LEMMA MissesStayBounded ==
  ASSUME NEW m \in 0..GraceMisses - 1
  PROVE  (m + 1) % GraceMisses \in 0..GraceMisses - 1
  BY LifecycleConstants

LEMMA TickHubTypes == ASSUME TypeOK, Tick PROVE HubTypes'
  <1> USE DEF HubTypes, TypeOK
  <1>1. due' \in BOOLEAN
    BY Zenon DEF Tick
  <1>2. misses' \in 0..GraceMisses - 1
    BY MissesStayBounded, LifecycleConstants DEF Tick
  <1>3. noproc' \in 0..1 /\ hub' \in {"watch", "stop", "kick"}
    BY DEF Tick
  <1> QED BY <1>1, <1>2, <1>3 DEF Tick

LEMMA NextHubTypes == ASSUME TypeOK, Next PROVE HubTypes'
  <1>1. CASE \E p \in Procs : Arrive(p) \/ Boot(p) \/ Beat(p) \/ Stop(p)
    BY <1>1 DEF HubTypes, TypeOK, Others, hubVars, Arrive, Ask, AskEnds, TakeLock, Reap,
                ReapEnds, Gate, Beat, Boot, WritePid, FirstBeat, OpenStore, Bind,
                Stop, Drain, Unlink, Close
  <1>2. CASE ParentLeaves \/ BeatAges \/ MarkerAges \/ LaunchdKills
    BY <1>2 DEF HubTypes, TypeOK, Others, hubVars, ParentLeaves, BeatAges, MarkerAges,
                LaunchdKills
  <1>3. CASE \E p \in Procs : StartJob(p)
    BY <1>3 DEF HubTypes, TypeOK, StartJob
  <1>4. CASE HubStops \/ GraceEnds \/ AwaitEnds
    BY <1>4 DEF HubTypes, TypeOK, HubStops, GraceEnds, AwaitEnds, ReadPid, Live
  <1>5. CASE Kick
    <2>1. due' \in BOOLEAN /\ replacing' \in BOOLEAN
      BY <1>5, Zenon DEF Kick, TypeOK
    <2> QED BY <1>5, <2>1 DEF HubTypes, TypeOK, Kick
  <1>6. CASE Faults
    <2>1. UNCHANGED <<replacing, hub, misses, noproc, target, due>>
      BY <1>6 DEF Faults, UserStop, Fork, Crash, Wedge, Recover, Others, hubVars
    <2>2. faults' = faults \/ (faults < MaxFaults /\ faults' = faults + 1)
      BY <1>6 DEF Faults, Fault, UserStop, Fork, Crash, Wedge, Recover, Others
    <2>3. \A n \in 0..MaxFaults : n < MaxFaults => n + 1 \in 0..MaxFaults
      BY LifecycleConstants
    <2>4. faults' \in 0..MaxFaults
      BY <2>2, <2>3 DEF TypeOK
    <2> QED BY <2>1, <2>4 DEF HubTypes, TypeOK
  <1> QED BY <1>1, <1>2, <1>3, <1>4, <1>5, <1>6, TickHubTypes DEF Next, Watchdog

\* SIGKILL after a grace: the process was stuck, or stops without a heartbeat.
LEMMA KillIsLate ==
  ASSUME TypeOK, WorkIsNotKilled, NEW p, NEW ph, NEW q \in Procs, Kill(p, ph, q),
         q \in wasStuck \/ (phase[q] \in Stopping /\ beat # "fresh")
  PROVE  KilledTypes'
  <1>1. killed' \subseteq killed \union {[phase |-> phase[q], beat |-> beat]}
    BY DEF Kill
  <1>2. [phase |-> phase[q], beat |-> beat] \in [phase : Phases, beat : Beats]
    BY DEF TypeOK
  <1>3. killed' \subseteq [phase : Phases, beat : Beats]
    BY <1>1, <1>2 DEF TypeOK
  <1>4. WorkIsNotKilled'
    <2>1. CASE q \in wasStuck
      BY <2>1 DEF Kill, WorkIsNotKilled
    <2>2. CASE phase[q] \in Stopping /\ beat # "fresh"
      BY <1>1, <2>2 DEF WorkIsNotKilled
    <2> QED BY <2>1, <2>2
  <1> QED BY <1>3, <1>4 DEF KilledTypes

LEMMA NextKilled == ASSUME IInv, Next PROVE KilledTypes'
  <1> USE DEF IInv
  <1>1. CASE UNCHANGED killed
    BY <1>1 DEF KilledTypes, WorkIsNotKilled, TypeOK
  <1>2. CASE \E p \in Procs : AskEnds(p) /\ victim[p] \in Live
    <2> PICK p \in Procs : AskEnds(p) /\ victim[p] \in Live
      BY <1>2
    <2>1. CASE beat # "fresh"
      BY <2>1, KillIsLate DEF AskEnds, GracePasses, Live, TypeOK
    <2> QED BY <1>1, <2>1 DEF AskEnds
  <1>3. CASE \E p \in Procs : ReapEnds(p) /\ victim[p] \in Live
    BY <1>3, KillIsLate DEF ReapEnds, Relay, VictimIsOverdue, Overdue, Live
  <1>4. CASE LaunchdKills
    BY <1>4, KillIsLate DEF LaunchdKills, TypeOK
  <1>5. Next => UNCHANGED killed \/ LaunchdKills
                \/ \E p \in Procs : (AskEnds(p) \/ ReapEnds(p)) /\ victim[p] \in Live
    BY DEF Next, StartJob, Arrive, Boot, Stop, Watchdog, Faults, Ask, AskEnds, TakeLock,
           Reap, ReapEnds, Gate, WritePid, FirstBeat, OpenStore, Bind, Beat, Drain, Unlink,
           Close, ParentLeaves, BeatAges, MarkerAges, Tick, HubStops, GraceEnds, AwaitEnds,
           Kick, Fork, Crash, Wedge, Recover, UserStop
  <1> QED BY <1>1, <1>2, <1>3, <1>4, <1>5

-----------------------------------------------------------------------------
(* The theorems *)

LEMMA InitIInv == Init => IInv
  <1> SUFFICES ASSUME Init PROVE IInv
    OBVIOUS
  <1> USE DEF Init
  <1>1. RunTypes /\ RootTypes
    BY DEF RunTypes, RootTypes, Phases, Beats, Waiting, Booting, Stopping, Unnamed
  <1>2. HubTypes /\ KilledTypes
    <2>1. replacing \in BOOLEAN /\ due \in BOOLEAN
      BY Zenon
    <2>2. 0 \in 0..GraceMisses - 1 /\ 0 \in 0..1 /\ 0 \in 0..MaxFaults
      BY LifecycleConstants
    <2> QED BY <2>1, <2>2 DEF HubTypes, KilledTypes, WorkIsNotKilled
  <1>3. Relay
    BY DEF Relay, OneHolder, ComersAreJobs, HoldersHold, OwnerIsNamed, ServerIsBound,
           OwnerIsVictim, NoRival, WellBeats, VictimIsOverdue, Comer, Holder, Owner
  <1> QED BY <1>1, <1>2, <1>3, TypeIsThree DEF IInv

LEMMA NextMoves == ASSUME IInv, Next PROVE RunTypes' /\ Relay'
  <1> USE DEF IInv
  <1>1. CASE \E p \in Procs : StartJob(p)
    BY <1>1, StartJobMoves
  <1>2. CASE \E p \in Procs : Arrive(p)
    BY <1>2, AskMoves, AskEndsMoves, TakeLockMoves, ReapMoves, ReapEndsMoves, GateMoves
       DEF Arrive
  <1>3. CASE \E p \in Procs : Boot(p) \/ Beat(p)
    BY <1>3, WritePidMoves, FirstBeatMoves, OpenStoreMoves, BindMoves, BeatMoves DEF Boot
  <1>4. CASE \E p \in Procs : Stop(p)
    BY <1>4, DrainMoves, UnlinkMoves, CloseMoves DEF Stop
  <1>5. CASE ParentLeaves \/ BeatAges \/ MarkerAges \/ Watchdog \/ LaunchdKills
    BY <1>5, TimeMoves, WatchdogMoves, StopMoves
  <1>6. CASE Faults
    BY <1>6, StopMoves, ForkMoves, CloseMoves, WedgeMoves DEF Faults
  <1> QED BY <1>1, <1>2, <1>3, <1>4, <1>5, <1>6 DEF Next

LEMMA NextIInv == IInv /\ [Next]_vars => IInv'
  <1> SUFFICES ASSUME IInv, [Next]_vars PROVE IInv'
    OBVIOUS
  <1>1. CASE Next
    <2>1. RootTypes' /\ HubTypes' /\ KilledTypes'
      BY <1>1, NextRootTypes, NextHubTypes, NextKilled DEF IInv
    <2>2. RunTypes' /\ Relay'
      BY <1>1, NextMoves
    <2>3. (TypeOK /\ WorkIsNotKilled)'
      BY <2>1, <2>2 DEF TypeOK, RunTypes, RootTypes, HubTypes, KilledTypes
    <2> QED BY <2>2, <2>3 DEF IInv
  <1>2. CASE UNCHANGED vars
    <2> USE <1>2 DEF vars, procVars, runVars, rootVars, hubVars, IInv
    <2>1. TypeOK' /\ WorkIsNotKilled'
      BY DEF TypeOK, WorkIsNotKilled
    <2>2. RunTypes'
      BY <2>1 DEF TypeOK, RunTypes
    <2> QED BY <2>1, <2>2, AsideMoves
  <1> QED BY <1>1, <1>2

LEMMA Invariance == Spec => []IInv
  BY InitIInv, NextIInv, PTL DEF Spec

(***************************************************************************)
(* Every process, file and counter of a root has a value of its kind; a    *)
(* process waits for a predecessor exactly while it asks or ends one.      *)
(***************************************************************************)
THEOREM TypeCorrect == Spec => []TypeOK
  <1>1. IInv => TypeOK
    BY DEF IInv
  <1> QED BY <1>1, Invariance, PTL

(***************************************************************************)
(* No second daemon takes the root from one that serves: the pid file and  *)
(* the socket lead to it until it stops, whoever starts, crashes, is       *)
(* wedged or is restarted meanwhile.                                       *)
(***************************************************************************)
THEOREM TheServerKeepsItsFiles == Spec => []ServingIsNamed
  <1>1. IInv => ServingIsNamed
    BY DEF IInv, Relay, OwnerIsNamed, ServerIsBound, ServingIsNamed, Owner
  <1> QED BY <1>1, Invariance, PTL

(***************************************************************************)
(* SIGKILL never meets a daemon that was at work all along: only one that  *)
(* stops and has lost its heartbeat (stop_daemon, _reap_predecessor and    *)
(* launchd's kill after a kickstart -k).                                   *)
(***************************************************************************)
THEOREM NoWorkIsKilled == Spec => []WorkIsNotKilled
  <1>1. IInv => WorkIsNotKilled
    BY DEF IInv
  <1> QED BY <1>1, Invariance, PTL
=============================================================================
