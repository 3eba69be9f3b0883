------------------------------ MODULE EventBus ------------------------------
(***************************************************************************)
(* The hub's message bus (bus.py, hub.py): messages in a table of SQLite,  *)
(* one read cursor per agent and channel, live subscribers with bounded    *)
(* queues in the hub's memory, and the maintenance that archives, deletes  *)
(* and purges.  Every client request runs in a thread of the hub.          *)
(*                                                                         *)
(* Every statement commits on its own; `_lock' makes a critical section of *)
(* a write, of the subscriber list, and of nothing else.  So a publish is  *)
(* an insert, a look at the subscribers, and one put per subscriber; a     *)
(* read is one query per channel and, later, the move of the cursors; and  *)
(* mark_read is a query and a write.                                       *)
(*                                                                         *)
(* A message is its publish: it is published at most once, by a thread of  *)
(* its own.  Its number, `seq', is one more than the largest in the table, *)
(* which is how SQLite fills a rowid column that is not AUTOINCREMENT.     *)
(***************************************************************************)
EXTENDS Naturals, FiniteSets, Sequences, SequencesExt

CONSTANTS
  Messages,     \* what is published
  Channels,
  ChannelOf,    \* the channel of a message
  Agents,       \* names that have cursors
  Readers,      \* concurrent bus_read requests
  ReaderAgent,  \* the agent of a request: sessions may share a name
  Caps,         \* the values of `n' that requests use
  NoCap,        \* no `n'
  Subs,         \* streaming connections, each of one exact channel
  SubChannel,
  MaxQueue,     \* the size of a subscriber's queue (1000 in the code)
  MaxUpkeep,    \* bound on deletes, archives, restores, purges, marks and kills
  None

ASSUME BusConstants ==
  /\ IsFiniteSet(Messages)
  /\ ChannelOf \in [Messages -> Channels]
  /\ ReaderAgent \in [Readers -> Agents]
  /\ SubChannel \in [Subs -> Channels]
  /\ NoCap \in Caps /\ Caps \ {NoCap} \subseteq Nat
  /\ MaxQueue \in Nat \ {0}
  /\ MaxUpkeep \in Nat
  /\ None \notin Channels

VARIABLES
  status,    \* of each message: not in the table, or its `status' column
  seq,       \* its number once it was inserted (kept when the row is purged)
  cursor,    \* bus_reads: agent, channel -> last_seq
  step,      \* where the publish of a message is
  targets,   \* the subscribers it has still to be put to
  subState,  \* where a streaming connection is
  backlog,   \* rows of its history that it has still to send, by their numbers
  queue,     \* a subscriber's queue
  sent,      \* what a connection has sent
  reading,   \* where a read is
  from,      \* the cursors it found
  todo,      \* channels it has still to query
  found,     \* rows it has collected
  answer,    \* what it is about to answer
  marking,   \* a mark_read between its query and its write
  upkeep,    \* requests counted against MaxUpkeep
  \* History, for the properties only.
  top,       \* the largest number ever given
  seen,      \* agent -> messages it was shown
  excused,   \* agent -> messages that a cursor may hide
  seenThen,  \* read -> what its agent had seen when it began
  rewound,   \* agent -> messages put back before a cursor by mark_read
  again,     \* messages answered twice without a reason
  restored,  \* messages that were unarchived
  dropped    \* subscriber -> messages it lost to a full queue

busVars == <<status, seq, step, targets>>
streamVars == <<subState, backlog, queue, sent, dropped>>
readVars == <<reading, from, todo, found, answer, seenThen>>
agentVars == <<cursor, seen, excused, rewound, again>>
vars == <<busVars, streamVars, readVars, agentVars, marking, upkeep, top, restored>>

-----------------------------------------------------------------------------
(* The table *)

InTable == {m \in Messages : status[m] \in {"active", "archived", "deleted"}}
Active == {m \in Messages : status[m] = "active"}
InChannel(c) == {m \in Messages : ChannelOf[m] = c}
Largest(S) == CHOOSE n \in S \union {0} : \A k \in S : k <= n
NumbersOf(S) == {seq[m] : m \in S}

TypeOK ==
  /\ status \in [Messages -> {"unpublished", "active", "archived", "deleted", "purged"}]
  /\ seq \in [Messages -> Nat]
  /\ cursor \in [Agents -> [Channels -> Nat]]
  /\ step \in [Messages -> {"new", "inserted", "putting", "over"}]
  /\ targets \in [Messages -> SUBSET Subs]
  /\ subState \in [Subs -> {"off", "registered", "replaying", "live"}]
  /\ backlog \in [Subs -> SUBSET Messages] /\ queue \in [Subs -> Seq(Messages)]
  /\ \A s \in Subs : Len(queue[s]) <= MaxQueue
  /\ sent \in [Subs -> SUBSET Messages] /\ dropped \in [Subs -> SUBSET Messages]
  /\ reading \in [Readers -> {"idle", "querying", "answering"}]
  /\ from \in [Readers -> [Channels -> Nat]]
  /\ todo \in [Readers -> SUBSET Channels]
  /\ found \in [Readers -> SUBSET Messages] /\ answer \in [Readers -> SUBSET Messages]
  /\ marking \in [Agents -> {None} \union [channel : Channels, upto : Nat]]
  /\ upkeep \in 0..MaxUpkeep /\ top \in Nat
  /\ seen \in [Agents -> SUBSET Messages] /\ excused \in [Agents -> SUBSET Messages]
  /\ rewound \in [Agents -> SUBSET Messages] /\ again \subseteq Messages
  /\ seenThen \in [Readers -> SUBSET Messages] /\ restored \subseteq Messages

Init ==
  /\ status = [m \in Messages |-> "unpublished"]
  /\ seq = [m \in Messages |-> 0]
  /\ cursor = [a \in Agents |-> [c \in Channels |-> 0]]
  /\ step = [m \in Messages |-> "new"]
  /\ targets = [m \in Messages |-> {}]
  /\ subState = [s \in Subs |-> "off"]
  /\ backlog = [s \in Subs |-> {}] /\ queue = [s \in Subs |-> <<>>]
  /\ sent = [s \in Subs |-> {}] /\ dropped = [s \in Subs |-> {}]
  /\ reading = [r \in Readers |-> "idle"]
  /\ from = [r \in Readers |-> [c \in Channels |-> 0]]
  /\ todo = [r \in Readers |-> {}]
  /\ found = [r \in Readers |-> {}] /\ answer = [r \in Readers |-> {}]
  /\ marking = [a \in Agents |-> None]
  /\ upkeep = 0 /\ top = 0
  /\ seen = [a \in Agents |-> {}] /\ excused = [a \in Agents |-> {}]
  /\ rewound = [a \in Agents |-> {}] /\ again = {}
  /\ seenThen = [r \in Readers |-> {}] /\ restored = {}

-----------------------------------------------------------------------------
(* publish *)

\* The INSERT, its number and the commit, under `_lock'.  A number that was
\* given before may lie before a cursor from the start.
Insert(m) ==
  /\ step[m] = "new"
  /\ LET n == Largest(NumbersOf(InTable)) + 1 IN
       /\ seq' = [seq EXCEPT ![m] = n]
       /\ top' = Largest({top, n})
       /\ excused' = IF n > top THEN excused
                     ELSE [a \in Agents |-> excused[a] \union {m}]
  /\ status' = [status EXCEPT ![m] = "active"]
  /\ step' = [step EXCEPT ![m] = "inserted"]
  /\ UNCHANGED <<targets, streamVars, readVars, cursor, seen, rewound, again,
                 marking, upkeep, restored>>

\* Mutated form: the connection registers only after its backlog.
TakeSubscribers_Late(m) ==
  /\ step[m] = "inserted"
  /\ LET wanting == {s \in Subs : /\ subState[s] = "live"
                                  /\ SubChannel[s] = ChannelOf[m]} IN
       /\ targets' = [targets EXCEPT ![m] = wanting]
       /\ step' = [step EXCEPT ![m] = IF wanting = {} THEN "over" ELSE "putting"]
  /\ UNCHANGED <<status, seq, streamVars, readVars, agentVars, marking, upkeep, top,
                 restored>>

\* The subscribers that want the channel, under `_lock' again.  With nobody to
\* put to the publish is over.
TakeSubscribers(m) ==
  /\ step[m] = "inserted"
  /\ LET wanting == {s \in Subs : subState[s] # "off" /\ SubChannel[s] = ChannelOf[m]} IN
       /\ targets' = [targets EXCEPT ![m] = wanting]
       /\ step' = [step EXCEPT ![m] = IF wanting = {} THEN "over" ELSE "putting"]
  /\ UNCHANGED <<status, seq, streamVars, readVars, agentVars, marking, upkeep, top, restored>>

\* Mutated form: the queue has no size.
Put_Unbounded(m, s) ==
  /\ step[m] = "putting" /\ s \in targets[m]
  /\ targets' = [targets EXCEPT ![m] = @ \ {s}]
  /\ step' = [step EXCEPT ![m] = IF targets[m] = {s} THEN "over" ELSE @]
  /\ queue' = IF subState[s] = "off" THEN queue ELSE [queue EXCEPT ![s] = Append(@, m)]
  /\ UNCHANGED <<status, seq, subState, backlog, sent, dropped, readVars, agentVars,
                 marking, upkeep, top, restored>>

\* put_nowait, without the lock: a full queue drops the message, and a
\* subscriber that has left meanwhile is put to in vain.
Put(m, s) ==
  /\ step[m] = "putting" /\ s \in targets[m]
  /\ targets' = [targets EXCEPT ![m] = @ \ {s}]
  /\ step' = [step EXCEPT ![m] = IF targets[m] = {s} THEN "over" ELSE @]
  /\ \/ /\ subState[s] # "off" /\ Len(queue[s]) < MaxQueue
        /\ queue' = [queue EXCEPT ![s] = Append(@, m)]
        /\ UNCHANGED dropped
     \/ /\ subState[s] # "off" /\ Len(queue[s]) = MaxQueue
        /\ dropped' = [dropped EXCEPT ![s] = @ \union {m}]
        /\ UNCHANGED queue
     \/ /\ subState[s] = "off"
        /\ UNCHANGED <<queue, dropped>>
  /\ UNCHANGED <<status, seq, subState, backlog, sent, readVars, agentVars,
                 marking, upkeep, top, restored>>

-----------------------------------------------------------------------------
(* A streaming connection: register, replay the channel, follow the queue *)

Subscribe(s) ==
  /\ subState[s] = "off"
  /\ subState' = [subState EXCEPT ![s] = "registered"]
  /\ sent' = [sent EXCEPT ![s] = {}]
  /\ dropped' = [dropped EXCEPT ![s] = {}]
  /\ UNCHANGED <<busVars, backlog, queue, readVars, agentVars, marking, upkeep,
                 top, restored>>

\* The history query, of active rows, asked for with a limit not below their
\* number.
Replay(s) ==
  /\ subState[s] = "registered"
  /\ subState' = [subState EXCEPT ![s] = "replaying"]
  /\ backlog' = [backlog EXCEPT ![s] = Active \intersect InChannel(SubChannel[s])]
  /\ UNCHANGED <<busVars, queue, sent, dropped, readVars, agentVars, marking,
                 upkeep, top, restored>>

\* In the order of the numbers.
SendBacklog(s) ==
  /\ subState[s] = "replaying"
  /\ \/ /\ backlog[s] = {}
        /\ subState' = [subState EXCEPT ![s] = "live"]
        /\ UNCHANGED <<backlog, sent>>
     \/ \E m \in backlog[s] :
          /\ \A k \in backlog[s] : seq[m] <= seq[k]
          /\ sent' = [sent EXCEPT ![s] = @ \union {m}]
          /\ backlog' = [backlog EXCEPT ![s] = @ \ {m}]
          /\ UNCHANGED subState
  /\ UNCHANGED <<busVars, queue, dropped, readVars, agentVars, marking, upkeep,
                 top, restored>>

SendLive(s) ==
  /\ subState[s] = "live" /\ queue[s] # <<>>
  /\ sent' = [sent EXCEPT ![s] = @ \union {Head(queue[s])}]
  /\ queue' = [queue EXCEPT ![s] = Tail(@)]
  /\ UNCHANGED <<busVars, subState, backlog, dropped, readVars, agentVars, marking,
                 upkeep, top, restored>>

\* The client is gone: unsubscribe, under `_lock'.
Disconnect(s) ==
  /\ subState[s] # "off" /\ upkeep < MaxUpkeep
  /\ subState' = [subState EXCEPT ![s] = "off"]
  /\ backlog' = [backlog EXCEPT ![s] = {}]
  /\ queue' = [queue EXCEPT ![s] = <<>>]
  /\ upkeep' = upkeep + 1
  /\ UNCHANGED <<busVars, sent, dropped, readVars, agentVars, marking, top, restored>>

-----------------------------------------------------------------------------
(* bus_read *)

\* The two queries for the channels with active rows and for the cursors.  A
\* channel that gets its first row between them is one that got it later.
BeginRead(r) ==
  /\ reading[r] = "idle"
  /\ todo' = [todo EXCEPT ![r] = {ChannelOf[m] : m \in Active}]
  /\ from' = [from EXCEPT ![r] = cursor[ReaderAgent[r]]]
  /\ found' = [found EXCEPT ![r] = {}]
  /\ seenThen' = [seenThen EXCEPT ![r] = seen[ReaderAgent[r]]]
  /\ reading' = [reading EXCEPT ![r] = "querying"]
  /\ UNCHANGED <<busVars, streamVars, answer, agentVars, marking, upkeep, top, restored>>

\* One channel's unseen rows.  Only the table, not a lock, makes it one moment.
Query(r, c) ==
  /\ reading[r] = "querying" /\ c \in todo[r]
  /\ found' = [found EXCEPT ![r] =
        @ \union {m \in Active \intersect InChannel(c) : seq[m] > from[r][c]}]
  /\ todo' = [todo EXCEPT ![r] = @ \ {c}]
  /\ UNCHANGED <<busVars, streamVars, reading, from, answer, seenThen, agentVars,
                 marking, upkeep, top, restored>>

\* The n rows with the smallest numbers.
IsOldest(out, rows, n) ==
  /\ out \subseteq rows
  /\ IF n = NoCap THEN out = rows
     ELSE Cardinality(out) = IF n < Cardinality(rows) THEN n ELSE Cardinality(rows)
  /\ \A m \in out, k \in rows \ out : seq[m] <= seq[k]

\* Mutated form: a cursor goes to the last row found, whatever was answered.
Advanced_Uncapped(old, rows, out) ==
  [c \in Channels |->
     LET last == Largest(NumbersOf(rows \intersect InChannel(c)))
     IN IF last > old[c] THEN last ELSE old[c]]

\* Where a cursor goes: to the last row found in its channel, or to the last
\* row answered if that is before it.  A cursor only moves forward, and one
\* whose channel had no row stays.
Advanced(old, rows, out) ==
  [c \in Channels |->
     LET last == Largest(NumbersOf(rows \intersect InChannel(c)))
         capped == Largest(NumbersOf(out))
         adv == IF out = {} \/ last < capped THEN last ELSE capped
     IN IF rows \intersect InChannel(c) # {} /\ adv > old[c] THEN adv ELSE old[c]]

\* Sort, cut, move the cursors under `_lock' and commit, before the answer is
\* sent.  With n = 0 nothing is answered and the cursors move past everything.
Finish(r, n) ==
  /\ reading[r] = "querying" /\ todo[r] = {}
  /\ \E out \in SUBSET found[r] :
       /\ IsOldest(out, found[r], n)
       /\ answer' = [answer EXCEPT ![r] = out]
       /\ cursor' = [cursor EXCEPT ![ReaderAgent[r]] = Advanced(@, found[r], out)]
       /\ excused' = IF out # {} THEN excused
                     ELSE [excused EXCEPT ![ReaderAgent[r]] = @ \union found[r]]
  /\ found' = [found EXCEPT ![r] = {}]
  /\ reading' = [reading EXCEPT ![r] = "answering"]
  /\ UNCHANGED <<busVars, streamVars, from, todo, seenThen, seen, rewound, again,
                 marking, upkeep, top, restored>>

\* The request is over and its locals are gone.
Return(r) ==
  /\ reading' = [reading EXCEPT ![r] = "idle"]
  /\ from' = [from EXCEPT ![r] = [c \in Channels |-> 0]]
  /\ found' = [found EXCEPT ![r] = {}]
  /\ answer' = [answer EXCEPT ![r] = {}]
  /\ seenThen' = [seenThen EXCEPT ![r] = {}]
  /\ UNCHANGED todo

\* A peek answers and leaves the cursors alone.
Peek(r) ==
  /\ reading[r] = "querying" /\ todo[r] = {}
  /\ Return(r)
  /\ UNCHANGED <<busVars, streamVars, agentVars, marking, upkeep, top, restored>>

Answer(r) ==
  /\ reading[r] = "answering"
  /\ LET a == ReaderAgent[r] IN
       /\ seen' = [seen EXCEPT ![a] = @ \union answer[r]]
       /\ again' = again \union ((answer[r] \intersect seenThen[r]) \ rewound[a])
  /\ Return(r)
  /\ UNCHANGED <<busVars, streamVars, cursor, excused, rewound, marking, upkeep, top,
                 restored>>

\* The client has given up or gone: the cursors have moved all the same.
AnswerLost(r) ==
  /\ reading[r] = "answering" /\ upkeep < MaxUpkeep
  /\ excused' = [excused EXCEPT ![ReaderAgent[r]] = @ \union answer[r]]
  /\ Return(r)
  /\ upkeep' = upkeep + 1
  /\ UNCHANGED <<busVars, streamVars, cursor, seen, rewound, again, marking, top,
                 restored>>

-----------------------------------------------------------------------------
(* mark_read *)

\* Set a cursor, forward or back.  Forward it hides what it passes; back it
\* shows again what it uncovers.
SetCursor(a, c, upto) ==
  /\ cursor' = [cursor EXCEPT ![a][c] = upto]
  /\ excused' = [excused EXCEPT ![a] =
        @ \union {m \in InTable \intersect InChannel(c) : seq[m] <= upto}]
  /\ rewound' = [rewound EXCEPT ![a] =
        @ \union {m \in InTable \intersect InChannel(c) : seq[m] > upto}]
  /\ UNCHANGED <<seen, again>>

MarkTo(a, c, upto) ==
  /\ marking[a] = None /\ upkeep < MaxUpkeep
  /\ upkeep' = upkeep + 1
  /\ SetCursor(a, c, upto)
  /\ UNCHANGED <<busVars, streamVars, readVars, marking, top, restored>>

\* Without a number: the channel's largest active one, by a query outside the
\* lock.
AskLargest(a, c) ==
  /\ marking[a] = None /\ upkeep < MaxUpkeep
  /\ upkeep' = upkeep + 1
  /\ marking' = [marking EXCEPT ![a] =
        [channel |-> c, upto |-> Largest(NumbersOf(Active \intersect InChannel(c)))]]
  /\ UNCHANGED <<busVars, streamVars, readVars, agentVars, top, restored>>

MarkAll(a) ==
  /\ marking[a] # None
  /\ SetCursor(a, marking[a].channel, marking[a].upto)
  /\ marking' = [marking EXCEPT ![a] = None]
  /\ UNCHANGED <<busVars, streamVars, readVars, upkeep, top, restored>>

-----------------------------------------------------------------------------
(* Maintenance.  Stamps are taken in the order of the numbers, so "before a  *)
(* stamp" is "below a number"; a cut of top + 1 cuts nothing off.            *)

Upkeep == /\ upkeep < MaxUpkeep
          /\ upkeep' = upkeep + 1
          /\ UNCHANGED <<seq, step, targets, streamVars, readVars, agentVars,
                         marking, top>>

Becomes(S, new) == status' = [m \in Messages |-> IF m \in S THEN new ELSE status[m]]

Delete(m) ==
  /\ m \in InTable /\ status[m] # "deleted"
  /\ Becomes({m}, "deleted")
  /\ Upkeep /\ UNCHANGED restored

Archive(m) ==
  /\ m \in Active
  /\ Becomes({m}, "archived")
  /\ Upkeep /\ UNCHANGED restored

ArchiveChannel(c, cut) ==
  LET S == {m \in Active \intersect InChannel(c) : seq[m] < cut} IN
  /\ S # {}
  /\ Becomes(S, "archived")
  /\ Upkeep /\ UNCHANGED restored

Unarchive(m) ==
  /\ status[m] = "archived"
  /\ Becomes({m}, "active")
  /\ restored' = restored \union {m}
  /\ Upkeep

\* purge with its three filters; reap_channel is purge of all states of one
\* channel before a stamp.
Purge(which, chans, cut) ==
  LET S == {m \in InTable : /\ which = "all" \/ status[m] = which
                            /\ ChannelOf[m] \in chans
                            /\ seq[m] < cut} IN
  /\ S # {}
  /\ Becomes(S, "purged")
  /\ Upkeep /\ UNCHANGED restored

-----------------------------------------------------------------------------
\* The hub is killed and started again: the table and the cursors are on disk;
\* threads, connections and their queues are gone.  A publish that had inserted
\* its row is over.
HubDies ==
  /\ upkeep < MaxUpkeep
  /\ upkeep' = upkeep + 1
  /\ step' = [m \in Messages |-> IF step[m] = "new" THEN "new" ELSE "over"]
  /\ targets' = [m \in Messages |-> {}]
  /\ subState' = [s \in Subs |-> "off"]
  /\ backlog' = [s \in Subs |-> {}] /\ queue' = [s \in Subs |-> <<>>]
  /\ excused' = [a \in Agents |->
        excused[a] \union UNION {answer[r] : r \in {q \in Readers : ReaderAgent[q] = a}}]
  /\ reading' = [r \in Readers |-> "idle"]
  /\ answer' = [r \in Readers |-> {}] /\ found' = [r \in Readers |-> {}]
  /\ todo' = [r \in Readers |-> {}] /\ seenThen' = [r \in Readers |-> {}]
  /\ from' = [r \in Readers |-> [c \in Channels |-> 0]]
  /\ marking' = [a \in Agents |-> None]
  /\ UNCHANGED <<status, seq, sent, dropped, cursor, seen, rewound, again, top,
                 restored>>

Publish == \E m \in Messages :
  \/ Insert(m) \/ TakeSubscribers(m)
  \/ \E s \in Subs : Put(m, s)

Stream(s) == Replay(s) \/ SendBacklog(s) \/ SendLive(s)

Read == \E r \in Readers :
  \/ BeginRead(r) \/ Peek(r) \/ Answer(r) \/ AnswerLost(r)
  \/ \E c \in Channels : Query(r, c)
  \/ \E n \in Caps : Finish(r, n)

Mark == \E a \in Agents :
  \/ MarkAll(a)
  \/ \E c \in Channels : AskLargest(a, c) \/ \E n \in 0..top : MarkTo(a, c, n)

Maintain ==
  \/ \E m \in Messages : Delete(m) \/ Archive(m) \/ Unarchive(m)
  \/ \E cut \in 1..(top + 1) :
       \/ \E c \in Channels : ArchiveChannel(c, cut)
       \/ \E which \in {"deleted", "archived", "all"},
             chans \in {Channels} \union {{c} : c \in Channels} :
            Purge(which, chans, cut)

Next ==
  \/ Publish
  \/ \E s \in Subs : Subscribe(s) \/ Stream(s) \/ Disconnect(s)
  \/ Read \/ Mark \/ Maintain \/ HubDies

Spec == Init /\ [][Next]_vars

-----------------------------------------------------------------------------
(* Properties *)

Answering(a) == UNION {answer[r] : r \in {q \in Readers : ReaderAgent[q] = a}}

\* A cursor hides no message its agent has not been shown, whatever reads of
\* the same agent overlap and wherever a cap cuts an answer, except for a cause
\* that can be named: the message's number had been given before (the largest
\* row was purged), mark_read passed it, it was archived and restored, a
\* request asked for 0 messages, or the answer did not reach the client.
\* (bus.py:217-262)
HiddenForACause ==
  \A a \in Agents : \A m \in Active :
    seq[m] <= cursor[a][ChannelOf[m]]
      => m \in seen[a] \union Answering(a) \union excused[a] \union restored

\* A message that had been shown to an agent before a read began is not in its
\* answer, unless mark_read went back: a slow read that ends after a quick one
\* does not take the cursor back.  (bus.py:248-259)
ShownOnce == again = {}

\* A stream has no gap between the backlog and the live messages: once a publish
\* is over, an active message of the channel has been sent, or waits in the
\* backlog or the queue, or was dropped by a full queue, or was restored.
\* (hub.py:917-924, bus.py:155-178)
StreamHasNoGap ==
  \A s \in Subs : subState[s] \in {"replaying", "live"} =>
    \A m \in Active \intersect InChannel(SubChannel[s]) : step[m] = "over" =>
      m \in sent[s] \union backlog[s] \union ToSet(queue[s])
              \union dropped[s] \union restored

\* What an agent has not read is shown to it once, and a stream shows what it was
\* there for, or a cause can be named.
BusAccounted == HiddenForACause /\ ShownOnce /\ StreamHasNoGap

=============================================================================
