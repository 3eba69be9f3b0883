------------------------ MODULE SeparatePartsProofs ------------------------
(***************************************************************************)
(* Proofs about the parts that MCSeparateParts checks in one run: the      *)
(* event bus, the refinement queue, the model processes, the vectors, the  *)
(* rotation slots and the error log. Each has a section, and its own       *)
(* invariant; no proof uses another part's variables.                      *)
(***************************************************************************)
EXTENDS MCSeparateParts, FiniteSetTheorems, WellFoundedInduction, TLAPS

-----------------------------------------------------------------------------
(* THE EVENT BUS *)

(***************************************************************************)
(* What a cursor hides has an account, what is shown is shown once, and a  *)
(* stream has no gap, for any messages, agents, overlapping reads and      *)
(* connections.                                                            *)
(*                                                                         *)
(* A read works on copies: of the cursors, of what it has found, of what   *)
(* its agent had seen when it began. So the invariant says of each copy    *)
(* what it says of the agent (`PassedHaveAccounts', `SeenWerePassed',      *)
(* `FoundAreNew'), and `QueriedAreFound' what the rows of a query promise  *)
(* of those that its cap has left out. A number may be given twice after a *)
(* purge; `Twins' says that whoever has passed the first has an excuse for *)
(* the second. For the streams one must follow a message from its insert   *)
(* to its last put, since a connection may replay its history in between   *)
(* (`OnItsWay').                                                           *)
(***************************************************************************)

\* The largest of a set of numbers that has a bound is in it, or 0: there is a
\* least bound.
LEMMA LargestIs ==
  ASSUME NEW S, S \subseteq Nat, NEW b \in Nat, \A k \in S : k <= b
  PROVE  /\ Largest(S) \in S \union {0}
         /\ \A k \in S : k <= Largest(S)
  <1> DEFINE T == S \union {0}
             U == {n \in Nat : \A k \in T : k <= n}
  <1>1. b \in U
    OBVIOUS
  <1>2. PICK n \in U : \A u \in U : ~ (<<u, n>> \in OpToRel(<, Nat))
    BY <1>1, WFMin, NatLessThanWellFounded
  <1>3. \A u \in U : n <= u
    <2> SUFFICES ASSUME NEW u \in U, ~ (n <= u) PROVE FALSE
      OBVIOUS
    <2>1. u \in Nat /\ n \in Nat
      OBVIOUS
    <2>2. <<u, n>> \in Nat \X Nat /\ u < n
      BY <2>1
    <2>3. <<u, n>> \in OpToRel(<, Nat)
      BY <2>2 DEF OpToRel
    <2> QED BY <1>2, <2>3
  <1>4. n \in T
    <2> SUFFICES ASSUME n \notin T PROVE FALSE
      OBVIOUS
    <2>1. n \in Nat \ {0} /\ \A k \in T : k \in Nat /\ k < n
      OBVIOUS
    <2>2. n - 1 \in U
      BY <2>1
    <2> QED BY <1>3, <2>2
  <1>5. \E m \in T : \A k \in S : k <= m
    BY <1>4
  <1> QED BY <1>5 DEF Largest

-----------------------------------------------------------------------------
(* Types *)

LEMMA NumbersAreBounded ==
  ASSUME TypeOK, \A m \in Messages : seq[m] <= top, NEW S, S \subseteq Messages
  PROVE  /\ NumbersOf(S) \subseteq Nat /\ \A k \in NumbersOf(S) : k <= top
         /\ Largest(NumbersOf(S)) \in NumbersOf(S) \union {0}
         /\ \A m \in S : seq[m] <= Largest(NumbersOf(S))
         /\ Largest(NumbersOf(S)) \in 0..top
  <1>1. NumbersOf(S) \subseteq Nat /\ (\A k \in NumbersOf(S) : k <= top) /\ top \in Nat
    BY DEF NumbersOf, TypeOK
  <1>2. /\ Largest(NumbersOf(S)) \in NumbersOf(S) \union {0}
        /\ \A k \in NumbersOf(S) : k <= Largest(NumbersOf(S))
    BY <1>1, LargestIs
  <1>3. \A m \in S : seq[m] \in NumbersOf(S)
    BY DEF NumbersOf
  <1> QED BY <1>1, <1>2, <1>3

LEMMA LargerOfTwo ==
  ASSUME NEW i \in Nat, NEW j \in Nat
  PROVE  Largest({i, j}) \in {i, j} /\ Largest({i, j}) >= i /\ Largest({i, j}) >= j
  <1>1. \A k \in {i, j} : k <= i + j
    OBVIOUS
  <1>2. /\ Largest({i, j}) \in {i, j} \union {0}
        /\ \A k \in {i, j} : k <= Largest({i, j})
    BY <1>1, LargestIs
  <1> QED BY <1>2

BusTypes ==
  /\ status \in [Messages -> {"unpublished", "active", "archived", "deleted", "purged"}]
  /\ seq \in [Messages -> Nat]
  /\ step \in [Messages -> {"new", "inserted", "putting", "over"}]
  /\ targets \in [Messages -> SUBSET Subs]
StreamTypes ==
  /\ subState \in [Subs -> {"off", "registered", "replaying", "live"}]
  /\ backlog \in [Subs -> SUBSET Messages] /\ queue \in [Subs -> Seq(Messages)]
  /\ \A s \in Subs : Len(queue[s]) <= MaxQueue
  /\ sent \in [Subs -> SUBSET Messages] /\ dropped \in [Subs -> SUBSET Messages]
ReadTypes ==
  /\ reading \in [Readers -> {"idle", "querying", "answering"}]
  /\ from \in [Readers -> [Channels -> Nat]]
  /\ todo \in [Readers -> SUBSET Channels]
  /\ found \in [Readers -> SUBSET Messages] /\ answer \in [Readers -> SUBSET Messages]
  /\ seenThen \in [Readers -> SUBSET Messages]
AgentTypes ==
  /\ cursor \in [Agents -> [Channels -> Nat]]
  /\ seen \in [Agents -> SUBSET Messages] /\ excused \in [Agents -> SUBSET Messages]
  /\ rewound \in [Agents -> SUBSET Messages] /\ again \subseteq Messages
RestTypes ==
  /\ marking \in [Agents -> {None} \union [channel : Channels, upto : Nat]]
  /\ upkeep \in 0..MaxUpkeep /\ top \in Nat /\ restored \subseteq Messages

LEMMA TypeParts == TypeOK <=> BusTypes /\ StreamTypes /\ ReadTypes /\ AgentTypes /\ RestTypes
  BY DEF TypeOK, BusTypes, StreamTypes, ReadTypes, AgentTypes, RestTypes

\* No number is larger than the largest ever given, and who is to be found in
\* the table was inserted.
NumbersGiven == \A m \in Messages : (status[m] = "unpublished" <=> step[m] = "new") /\ seq[m] <= top

LEMMA NextBusTypes ==
  ASSUME TypeOK, NumbersGiven, Next PROVE BusTypes'
  <1> USE DEF BusTypes, TypeOK
  <1>1. CASE UNCHANGED busVars
    BY <1>1 DEF busVars
  <1>2. CASE \E m \in Messages : Insert(m)
    <2> PICK m \in Messages : Insert(m)
      BY <1>2
    <2>1. Largest(NumbersOf(InTable)) \in Nat
      BY NumbersAreBounded DEF NumbersGiven, InTable
    <2>2. seq' \in [Messages -> Nat]
      BY <2>1 DEF Insert
    <2> QED BY <2>2 DEF Insert
  <1>3. CASE \E m \in Messages : TakeSubscribers(m) \/ \E s \in Subs : Put(m, s)
    <2> PICK m \in Messages : TakeSubscribers(m) \/ \E s \in Subs : Put(m, s)
      BY <1>3
    <2>1. /\ UNCHANGED <<status, seq>>
          /\ \E new \in {"putting", "over"} : step' = [step EXCEPT ![m] = new]
      BY DEF TakeSubscribers, Put
    <2>2. \E S \in SUBSET Subs : targets' = [targets EXCEPT ![m] = S]
      BY DEF TakeSubscribers, Put
    <2> QED BY <2>1, <2>2
  <1>4. CASE HubDies
    BY <1>4 DEF HubDies
  <1>5. CASE \E S, new : /\ Becomes(S, new) /\ UNCHANGED <<seq, step, targets>>
                         /\ new \in {"active", "archived", "deleted", "purged"}
    BY <1>5 DEF Becomes
  <1>6. Maintain => \E S, new : /\ Becomes(S, new) /\ UNCHANGED <<seq, step, targets>>
                                /\ new \in {"active", "archived", "deleted", "purged"}
    BY DEF Maintain, Delete, Archive, Unarchive, ArchiveChannel, Purge, Upkeep
  <1>7. Next => \/ UNCHANGED busVars \/ Publish \/ HubDies \/ Maintain
    BY DEF Next, Subscribe, Stream, Replay, SendBacklog, SendLive, Disconnect,
           Read, BeginRead, Query, Finish, Peek, Answer, AnswerLost,
           Mark, MarkTo, AskLargest, MarkAll
  <1> QED BY <1>1, <1>2, <1>3, <1>4, <1>5, <1>6, <1>7 DEF Publish

LEMMA NextStreamTypes == ASSUME TypeOK, Next PROVE StreamTypes'
  <1>0. StreamTypes /\ Active \subseteq Messages
    BY TypeParts DEF Active
  <1> USE <1>0 DEF StreamTypes
  <1>1. CASE UNCHANGED streamVars
    BY <1>1 DEF streamVars
  <1>2. CASE \E m \in Messages, s \in Subs : Put(m, s)
    <2> PICK m \in Messages, s \in Subs : Put(m, s)
      BY <1>2
    <2>1. UNCHANGED <<subState, backlog, sent>> /\ dropped' \in [Subs -> SUBSET Messages]
      BY DEF Put
    <2>2. queue' \in [Subs -> Seq(Messages)] /\ \A t \in Subs : Len(queue'[t]) <= MaxQueue
      <3>1. CASE UNCHANGED queue
        BY <3>1
      <3>2. CASE queue' = [queue EXCEPT ![s] = Append(@, m)] /\ Len(queue[s]) < MaxQueue
        <4>1. Append(queue[s], m) \in Seq(Messages) /\ Len(Append(queue[s], m)) <= MaxQueue
          BY <3>2, BusConstants
        <4> QED BY <3>2, <4>1
      <3> QED BY <3>1, <3>2 DEF Put
    <2> QED BY <2>1, <2>2
  <1>3. CASE \E s \in Subs : Subscribe(s) \/ Replay(s) \/ Disconnect(s)
    <2>1. PICK s \in Subs : Subscribe(s) \/ Replay(s) \/ Disconnect(s)
      BY <1>3
    <2>2. subState' \in [Subs -> {"off", "registered", "replaying", "live"}]
      BY <2>1 DEF Subscribe, Replay, Disconnect
    <2>3. backlog' \in [Subs -> SUBSET Messages]
      <3>1. \E S \in SUBSET Messages : backlog' = backlog \/ backlog' = [backlog EXCEPT ![s] = S]
        BY <2>1 DEF Subscribe, Replay, Disconnect
      <3> QED BY <3>1
    <2>4. sent' \in [Subs -> SUBSET Messages] /\ dropped' \in [Subs -> SUBSET Messages]
      BY <2>1 DEF Subscribe, Replay, Disconnect
    <2>5. queue' = queue \/ queue' = [queue EXCEPT ![s] = <<>>]
      BY <2>1 DEF Subscribe, Replay, Disconnect
    <2>6. queue' \in [Subs -> Seq(Messages)] /\ \A t \in Subs : Len(queue'[t]) <= MaxQueue
      <3>1. <<>> \in Seq(Messages) /\ Len(<<>>) <= MaxQueue
        BY BusConstants
      <3> QED BY <2>5, <3>1
    <2> QED BY <2>2, <2>3, <2>4, <2>6
  <1>4. CASE \E s \in Subs : SendBacklog(s)
    <2> PICK s \in Subs : SendBacklog(s)
      BY <1>4
    <2>1. subState' \in [Subs -> {"off", "registered", "replaying", "live"}]
      BY DEF SendBacklog
    <2>2. backlog' \in [Subs -> SUBSET Messages]
      <3>1. \E S \in SUBSET Messages : backlog' = backlog \/ backlog' = [backlog EXCEPT ![s] = S]
        BY DEF SendBacklog
      <3> QED BY <3>1
    <2>3. sent' = sent \/ \E m \in backlog[s] : sent' = [sent EXCEPT ![s] = @ \union {m}]
      BY DEF SendBacklog
    <2>4. \A m \in backlog[s] : sent[s] \union {m} \subseteq Messages
      OBVIOUS
    <2>5. sent' \in [Subs -> SUBSET Messages]
      BY <2>3, <2>4
    <2> QED BY <2>1, <2>2, <2>5 DEF SendBacklog
  <1>5. CASE \E s \in Subs : SendLive(s)
    <2> PICK s \in Subs : SendLive(s)
      BY <1>5
    <2>1. /\ Head(queue[s]) \in Messages /\ Tail(queue[s]) \in Seq(Messages)
          /\ Len(Tail(queue[s])) <= MaxQueue
      BY BusConstants DEF SendLive
    <2>2. queue' \in [Subs -> Seq(Messages)] /\ \A t \in Subs : Len(queue'[t]) <= MaxQueue
      BY <2>1 DEF SendLive
    <2>3. sent' \in [Subs -> SUBSET Messages]
      BY <2>1 DEF SendLive
    <2> QED BY <2>2, <2>3 DEF SendLive
  <1>6. CASE HubDies
    <2>1. <<>> \in Seq(Messages) /\ Len(<<>>) <= MaxQueue
      BY BusConstants
    <2> QED BY <1>6, <2>1 DEF HubDies
  <1>7. Next => \/ UNCHANGED streamVars \/ HubDies \/ \E m \in Messages, s \in Subs : Put(m, s)
                \/ \E s \in Subs : Subscribe(s) \/ Stream(s) \/ Disconnect(s)
    BY DEF Next, Publish, Insert, TakeSubscribers, Maintain, Delete, Archive, Unarchive,
           ArchiveChannel, Purge, Upkeep, Read, BeginRead, Query, Finish, Peek, Answer,
           AnswerLost, Mark, MarkTo, AskLargest, MarkAll
  <1> QED BY <1>1, <1>2, <1>3, <1>4, <1>5, <1>6, <1>7 DEF Stream

LEMMA ReturnTypes == ASSUME TypeOK, NEW r \in Readers, Return(r) PROVE ReadTypes'
  BY DEF Return, ReadTypes, TypeOK

LEMMA NextReadTypes == ASSUME TypeOK, Next PROVE ReadTypes'
  <1> USE DEF ReadTypes, TypeOK
  <1>1. CASE UNCHANGED readVars
    BY <1>1 DEF readVars
  <1>2. CASE \E r \in Readers : Peek(r) \/ Answer(r) \/ AnswerLost(r)
    BY <1>2, ReturnTypes DEF Peek, Answer, AnswerLost
  <1>3. CASE \E r \in Readers : BeginRead(r)
    <2> PICK r \in Readers : BeginRead(r)
      BY <1>3
    <2>1. /\ {ChannelOf[m] : m \in Active} \subseteq Channels
          /\ cursor[ReaderAgent[r]] \in [Channels -> Nat] /\ seen[ReaderAgent[r]] \subseteq Messages
      BY BusConstants DEF Active
    <2> QED BY <2>1 DEF BeginRead
  <1>4. CASE \E r \in Readers, c \in Channels : Query(r, c)
    BY <1>4 DEF Query, Active
  <1>5. CASE \E r \in Readers, n \in Caps : Finish(r, n)
    BY <1>5 DEF Finish
  <1>6. CASE HubDies
    BY <1>6 DEF HubDies
  <1>7. Next => UNCHANGED readVars \/ HubDies \/ Read
    BY DEF Next, Publish, Insert, TakeSubscribers, Put, Maintain, Delete, Archive, Unarchive,
           ArchiveChannel, Purge, Upkeep, Mark, MarkTo, AskLargest, MarkAll,
           Subscribe, Stream, Replay, SendBacklog, SendLive, Disconnect
  <1> QED BY <1>1, <1>2, <1>3, <1>4, <1>5, <1>6, <1>7 DEF Read

LEMMA SetCursorTypes ==
  ASSUME TypeOK, NEW a \in Agents, NEW c \in Channels, NEW upto \in Nat, SetCursor(a, c, upto)
  PROVE  AgentTypes'
  <1>0. AgentTypes /\ InTable \subseteq Messages
    BY TypeParts DEF InTable
  <1>1. cursor' \in [Agents -> [Channels -> Nat]]
    BY <1>0 DEF AgentTypes, SetCursor
  <1>2. excused' \in [Agents -> SUBSET Messages] /\ rewound' \in [Agents -> SUBSET Messages]
    BY <1>0 DEF AgentTypes, SetCursor
  <1> QED BY <1>0, <1>1, <1>2 DEF AgentTypes, SetCursor

LEMMA AdvancedIs ==
  ASSUME TypeOK, NumbersGiven, NEW old \in [Channels -> Nat], NEW rows, rows \subseteq Messages,
         NEW out, out \subseteq rows
  PROVE  LET new == Advanced(old, rows, out) IN
         /\ new \in [Channels -> Nat]
         /\ \A c \in Channels :
              /\ new[c] >= old[c] /\ (new[c] <= top \/ new[c] = old[c])
              /\ new[c] # old[c] =>
                   /\ \E k \in rows \intersect InChannel(c) : new[c] <= seq[k]
                   /\ out # {} => \E k \in out : new[c] <= seq[k]
              /\ \A m \in out \intersect InChannel(c) : seq[m] <= new[c]
  <1> DEFINE last(c) == Largest(NumbersOf(rows \intersect InChannel(c)))
             capped == Largest(NumbersOf(out))
             adv(c) == IF out = {} \/ last(c) < capped THEN last(c) ELSE capped
  <1>1. seq \in [Messages -> Nat] /\ top \in Nat /\ \A m \in Messages : seq[m] <= top
    BY DEF TypeOK, NumbersGiven
  <1>2. ASSUME NEW c \in Channels
        PROVE  /\ last(c) \in NumbersOf(rows \intersect InChannel(c)) \union {0}
               /\ \A m \in rows \intersect InChannel(c) : seq[m] <= last(c)
               /\ last(c) \in 0..top
    <2>1. rows \intersect InChannel(c) \subseteq Messages
      OBVIOUS
    <2> QED BY <2>1, NumbersAreBounded DEF NumbersGiven
  <1>3. /\ capped \in NumbersOf(out) \union {0} /\ \A m \in out : seq[m] <= capped
        /\ capped \in 0..top
    BY NumbersAreBounded DEF NumbersGiven
  <1>4. \A c \in Channels : Advanced(old, rows, out)[c] =
          IF rows \intersect InChannel(c) # {} /\ adv(c) > old[c] THEN adv(c) ELSE old[c]
    BY DEF Advanced
  <1>5. \A c \in Channels : adv(c) \in 0..top
    BY <1>1, <1>2, <1>3
  <1>6. Advanced(old, rows, out) \in [Channels -> Nat]
    <2> HIDE DEF adv
    <2>1. \A c \in Channels : Advanced(old, rows, out)[c] \in Nat
      BY <1>1, <1>4, <1>5
    <2> QED BY <2>1 DEF Advanced
  <1>7. ASSUME NEW c \in Channels
        PROVE  LET n == Advanced(old, rows, out)[c] IN
               /\ n >= old[c] /\ (n <= top \/ n = old[c])
               /\ n # old[c] => /\ \E k \in rows \intersect InChannel(c) : n <= seq[k]
                                /\ out # {} => \E k \in out : n <= seq[k]
               /\ \A m \in out \intersect InChannel(c) : seq[m] <= n
    <2> DEFINE n == Advanced(old, rows, out)[c]
    <2>1. n = IF rows \intersect InChannel(c) # {} /\ adv(c) > old[c] THEN adv(c) ELSE old[c]
      BY <1>4
    <2>2. adv(c) \in Nat /\ old[c] \in Nat /\ adv(c) <= top /\ last(c) \in Nat /\ capped \in Nat
      BY <1>1, <1>2, <1>3, <1>5
    <2>3. n >= old[c] /\ (n <= top \/ n = old[c])
      BY <2>1, <2>2
    <2>4. ASSUME n # old[c] PROVE \E k \in rows \intersect InChannel(c) : n <= seq[k]
      <3>1. n = adv(c) /\ n > 0 /\ n <= last(c) /\ rows \intersect InChannel(c) # {}
        BY <2>1, <2>2, <2>4
      <3>2. last(c) # 0
        BY <2>2, <3>1
      <3>3. PICK k \in rows \intersect InChannel(c) : last(c) = seq[k]
        BY <1>2, <3>2 DEF NumbersOf
      <3> QED BY <3>1, <3>3
    <2>5. ASSUME n # old[c], out # {} PROVE \E k \in out : n <= seq[k]
      <3>1. n = adv(c) /\ n > 0 /\ n <= capped
        BY <2>1, <2>2, <2>5
      <3> HIDE DEF capped
      <3>2. capped \in NumbersOf(out)
        BY <1>3, <2>2, <3>1
      <3>3. PICK k \in out : capped = seq[k]
        BY <3>2 DEF NumbersOf
      <3> QED BY <3>1, <3>3
    <2>6. ASSUME NEW m \in out \intersect InChannel(c) PROVE seq[m] <= n
      <3>1. m \in rows \intersect InChannel(c) /\ seq[m] \in Nat
        BY <1>1
      <3>2. seq[m] <= last(c) /\ seq[m] <= capped
        BY <1>2, <1>3, <3>1
      <3> QED BY <2>1, <2>2, <3>1, <3>2
    <2> QED BY <2>3, <2>4, <2>5, <2>6
  <1> QED BY <1>6, <1>7

LEMMA NextAgentTypes == ASSUME TypeOK, NumbersGiven, Next PROVE AgentTypes'
  <1>0. AgentTypes /\ ReadTypes /\ \A r \in Readers : ReaderAgent[r] \in Agents
    BY TypeParts, BusConstants
  <1>1. CASE UNCHANGED agentVars
    BY <1>0, <1>1 DEF agentVars, AgentTypes
  <1>2. CASE \E m \in Messages : Insert(m)
    BY <1>0, <1>2 DEF Insert, AgentTypes
  <1>3. CASE \E r \in Readers, n \in Caps : Finish(r, n)
    <2> PICK r \in Readers, n \in Caps : Finish(r, n)
      BY <1>3
    <2> DEFINE a == ReaderAgent[r]
    <2>1. PICK out \in SUBSET found[r] :
            /\ cursor' = [cursor EXCEPT ![a] = Advanced(@, found[r], out)]
            /\ excused' = IF out # {} THEN excused
                          ELSE [excused EXCEPT ![a] = @ \union found[r]]
      BY DEF Finish
    <2>2. a \in Agents /\ cursor[a] \in [Channels -> Nat] /\ found[r] \subseteq Messages
      BY <1>0 DEF AgentTypes, ReadTypes
    <2>3. Advanced(cursor[a], found[r], out) \in [Channels -> Nat]
      BY <2>2, AdvancedIs
    <2>4. cursor' \in [Agents -> [Channels -> Nat]]
      BY <1>0, <2>1, <2>2, <2>3 DEF AgentTypes
    <2>5. excused' \in [Agents -> SUBSET Messages]
      BY <1>0, <2>1, <2>2 DEF AgentTypes
    <2> QED BY <1>0, <2>4, <2>5 DEF AgentTypes, Finish
  <1>4. CASE \E r \in Readers : Answer(r) \/ AnswerLost(r)
    <2> PICK r \in Readers : Answer(r) \/ AnswerLost(r)
      BY <1>4
    <2>1. ReaderAgent[r] \in Agents /\ answer[r] \subseteq Messages
      BY <1>0 DEF ReadTypes
    <2>2. /\ UNCHANGED <<cursor, rewound>>
          /\ \/ seen' = seen
             \/ seen' = [seen EXCEPT ![ReaderAgent[r]] = @ \union answer[r]]
          /\ \/ excused' = excused
             \/ excused' = [excused EXCEPT ![ReaderAgent[r]] = @ \union answer[r]]
          /\ again' \subseteq again \union answer[r]
      BY DEF Answer, AnswerLost
    <2> QED BY <1>0, <2>1, <2>2 DEF AgentTypes
  <1>5. CASE Mark
    <2>1. CASE \E a \in Agents, c \in Channels, n \in 0..top : MarkTo(a, c, n)
      <3>1. \A n \in 0..top : n \in Nat
        BY DEF TypeOK
      <3> QED BY <2>1, <3>1, SetCursorTypes DEF MarkTo
    <2>2. CASE \E a \in Agents : MarkAll(a)
      <3>1. \A a \in Agents : marking[a] # None =>
              marking[a].channel \in Channels /\ marking[a].upto \in Nat
        BY DEF TypeOK
      <3> QED BY <2>2, <3>1, SetCursorTypes DEF MarkAll
    <2>3. CASE \E a \in Agents, c \in Channels : AskLargest(a, c)
      BY <1>1, <2>3 DEF AskLargest
    <2> QED BY <1>5, <2>1, <2>2, <2>3 DEF Mark
  <1>6. CASE HubDies
    BY <1>0, <1>6 DEF HubDies, AgentTypes, ReadTypes
  <1>7. Next => \/ UNCHANGED agentVars \/ Mark \/ HubDies \/ \E m \in Messages : Insert(m)
                \/ \E r \in Readers : Answer(r) \/ AnswerLost(r) \/ \E n \in Caps : Finish(r, n)
    BY DEF Next, Publish, TakeSubscribers, Put, Maintain, Delete, Archive, Unarchive,
           ArchiveChannel, Purge, Upkeep, Subscribe, Stream, Replay, SendBacklog, SendLive,
           Disconnect, Read, BeginRead, Query, Peek, agentVars
  <1> QED BY <1>1, <1>2, <1>3, <1>4, <1>5, <1>6, <1>7

LEMMA NextRestTypes == ASSUME TypeOK, NumbersGiven, Next PROVE RestTypes'
  <1>0. RestTypes
    BY TypeParts
  <1>1. upkeep' = upkeep \/ (upkeep < MaxUpkeep /\ upkeep' = upkeep + 1)
    BY DEF Next, Publish, Insert, TakeSubscribers, Put, Subscribe, Stream, Replay, SendBacklog,
           SendLive, Disconnect, Read, BeginRead, Query, Finish, Peek, Answer, AnswerLost,
           Mark, MarkTo, AskLargest, MarkAll, Maintain, Delete, Archive, Unarchive,
           ArchiveChannel, Purge, Upkeep, HubDies
  <1>2. upkeep' \in 0..MaxUpkeep
    <2>1. \A n \in 0..MaxUpkeep : n < MaxUpkeep => n + 1 \in 0..MaxUpkeep
      BY BusConstants
    <2> QED BY <1>0, <1>1, <2>1 DEF RestTypes
  <1>3. top' \in Nat
    <2>1. CASE \E m \in Messages : Insert(m)
      <3>1. Largest(NumbersOf(InTable)) \in Nat
        BY NumbersAreBounded DEF NumbersGiven, InTable
      <3>2. Largest({top, Largest(NumbersOf(InTable)) + 1}) \in Nat
        BY <1>0, <3>1, LargerOfTwo DEF RestTypes
      <3> QED BY <2>1, <3>2 DEF Insert
    <2>2. top' = top \/ \E m \in Messages : Insert(m)
      BY DEF Next, Publish, TakeSubscribers, Put, Subscribe, Stream, Replay, SendBacklog,
             SendLive, Disconnect, Read, BeginRead, Query, Finish, Peek, Answer, AnswerLost,
             Mark, MarkTo, AskLargest, MarkAll, Maintain, Delete, Archive, Unarchive,
             ArchiveChannel, Purge, Upkeep, HubDies
    <2> QED BY <1>0, <2>1, <2>2 DEF RestTypes
  <1>4. restored' \subseteq Messages
    BY <1>0 DEF RestTypes, Next, Publish, Insert, TakeSubscribers, Put, Subscribe, Stream,
           Replay, SendBacklog,
           SendLive, Disconnect, Read, BeginRead, Query, Finish, Peek, Answer, AnswerLost,
           Mark, MarkTo, AskLargest, MarkAll, Maintain, Delete, Archive, Unarchive,
           ArchiveChannel, Purge, Upkeep, HubDies
  <1>5. marking' \in [Agents -> {None} \union [channel : Channels, upto : Nat]]
    <2>1. CASE UNCHANGED marking
      BY <1>0, <2>1 DEF RestTypes
    <2>2. CASE \E a \in Agents, c \in Channels : AskLargest(a, c)
      <3> PICK a \in Agents, c \in Channels : AskLargest(a, c)
        BY <2>2
      <3>1. Largest(NumbersOf(Active \intersect InChannel(c))) \in Nat
        BY NumbersAreBounded DEF NumbersGiven, Active
      <3> QED BY <1>0, <3>1 DEF RestTypes, AskLargest
    <2>3. CASE HubDies \/ \E a \in Agents : MarkAll(a)
      BY <1>0, <2>3 DEF RestTypes, HubDies, MarkAll
    <2>4. UNCHANGED marking \/ HubDies \/ \E a \in Agents : MarkAll(a) \/ \E c \in Channels : AskLargest(a, c)
      BY DEF Next, Publish, Insert, TakeSubscribers, Put, Subscribe, Stream, Replay, SendBacklog,
             SendLive, Disconnect, Read, BeginRead, Query, Finish, Peek, Answer, AnswerLost,
             Mark, MarkTo, Maintain, Delete, Archive, Unarchive, ArchiveChannel, Purge, Upkeep
    <2> QED BY <2>1, <2>2, <2>3, <2>4
  <1> QED BY <1>2, <1>3, <1>4, <1>5 DEF RestTypes

-----------------------------------------------------------------------------
(* What cursors hide and what is shown *)

Inserted == {m \in Messages : step[m] # "new"}
Accounted(a) == seen[a] \union Answering(a) \union excused[a] \union restored

\* Cursors, wherever a copy of one is, are below the largest number.
Bounded ==
  /\ \A a \in Agents, c \in Channels : cursor[a][c] <= top
  /\ \A r \in Readers, c \in Channels : from[r][c] <= top
  /\ \A a \in Agents : marking[a] # None => marking[a].upto <= top

\* Only what was inserted was found, or seen.
Known ==
  /\ \A a \in Agents : seen[a] \subseteq Inserted
  /\ \A r \in Readers : seenThen[r] \union found[r] \union answer[r] \subseteq Inserted

\* Of two messages with one number, the one in the table came later.
Twins ==
  \A m \in InTable, k \in Inserted :
    m # k /\ seq[m] = seq[k] => \A a \in Agents : m \in excused[a]

Locals ==
  \A r \in Readers : /\ reading[r] # "answering" => answer[r] = {}
                     /\ reading[r] # "querying" => found[r] = {}

\* What the cursors that a read has found hide, has its account.
PassedHaveAccounts ==
  \A r \in Readers : reading[r] = "querying" =>
    \A m \in Active : seq[m] <= from[r][ChannelOf[m]] => m \in Accounted(ReaderAgent[r])

\* A channel that was queried has, up to the rows that were found, no others.
QueriedAreFound ==
  \A r \in Readers : reading[r] = "querying" =>
    \A m \in Active, k \in found[r] :
      /\ ChannelOf[m] = ChannelOf[k] /\ ChannelOf[m] \notin todo[r]
      /\ seq[m] > from[r][ChannelOf[m]] /\ seq[m] <= seq[k]
      => m \in found[r] \union excused[ReaderAgent[r]] \union restored

\* What an agent had seen before a read is below the cursors the read has found,
\* so that the read does not find it.
SeenWerePassed ==
  \A r \in Readers : reading[r] = "querying" =>
    \A m \in InTable \intersect seenThen[r] :
      m \in rewound[ReaderAgent[r]] \/ seq[m] <= from[r][ChannelOf[m]]
FoundAreNew ==
  \A r \in Readers :
    (found[r] \union answer[r]) \intersect seenThen[r] \subseteq rewound[ReaderAgent[r]]

\* What an agent has seen, or is about to, is below its cursors.
SeenArePassed ==
  \A a \in Agents : \A m \in InTable \intersect (seen[a] \union Answering(a)) :
    m \in rewound[a] \/ seq[m] <= cursor[a][ChannelOf[m]]

ReadInv ==
  /\ NumbersGiven /\ Bounded /\ Known /\ Twins /\ Locals
  /\ PassedHaveAccounts /\ QueriedAreFound
  /\ SeenWerePassed /\ FoundAreNew /\ SeenArePassed
  /\ HiddenForACause /\ ShownOnce

\* A step that leaves readers, agents and numbers alone, and makes no row active
\* but a restored one.
LEMMA TableKeeps ==
  ASSUME ReadInv, UNCHANGED <<seq, readVars, agentVars, marking, top>>,
         \A m \in Messages : /\ step'[m] = "new" <=> step[m] = "new"
                             /\ status'[m] = "unpublished" <=> status[m] = "unpublished",
         restored \subseteq restored', Active' \subseteq Active \union restored',
         InTable' \subseteq InTable
  PROVE  ReadInv'
  <1> USE DEF readVars, agentVars
  <1>1. Inserted' = Inserted /\ \A a \in Agents : Answering(a)' = Answering(a)
    BY DEF Inserted, Answering
  <1>2. \A a \in Agents : Accounted(a) \subseteq Accounted(a)' /\ restored' \subseteq Accounted(a)'
    BY <1>1 DEF Accounted
  <1>3. NumbersGiven' /\ Bounded' /\ Known' /\ Twins' /\ Locals'
    BY <1>1 DEF ReadInv, NumbersGiven, Bounded, Known, Twins, Locals
  <1>4. PassedHaveAccounts'
    BY <1>2, BusConstants DEF ReadInv, PassedHaveAccounts
  <1>5. QueriedAreFound'
    BY DEF ReadInv, QueriedAreFound
  <1>6. SeenWerePassed' /\ FoundAreNew'
    BY DEF ReadInv, SeenWerePassed, FoundAreNew
  <1>7. SeenArePassed'
    BY <1>1 DEF ReadInv, SeenArePassed
  <1>8. HiddenForACause' /\ ShownOnce'
    BY <1>2 DEF ReadInv, HiddenForACause, ShownOnce, Accounted
  <1> QED BY <1>3, <1>4, <1>5, <1>6, <1>7, <1>8 DEF ReadInv

\* Every row of the table was inserted.
LEMMA RowsWereInserted ==
  ASSUME ReadInv
  PROVE  Active \subseteq InTable /\ InTable \subseteq Inserted /\ Inserted \subseteq Messages
  BY DEF ReadInv, NumbersGiven, Active, InTable, Inserted

LEMMA InsertKeeps ==
  ASSUME TypeOK, ReadInv, NEW m \in Messages, Insert(m)
  PROVE  ReadInv'
  <1> DEFINE n == Largest(NumbersOf(InTable)) + 1
  <1>0. BusTypes /\ AgentTypes /\ top \in Nat /\ RestTypes
    BY TypeParts DEF RestTypes
  <1>1. n \in Nat /\ \A k \in InTable : seq[k] < n
    <2>1. Largest(NumbersOf(InTable)) \in Nat /\ \A k \in InTable : seq[k] <= Largest(NumbersOf(InTable))
      BY NumbersAreBounded DEF ReadInv, NumbersGiven, InTable
    <2>2. \A k \in InTable : seq[k] \in Nat
      BY <1>0 DEF BusTypes, InTable
    <2> QED BY <2>1, <2>2
  <1>2. seq' = [seq EXCEPT ![m] = n] /\ top' = Largest({top, n})
    BY DEF Insert
  <1>3. top' \in Nat /\ top' >= top /\ top' >= n
    BY <1>0, <1>1, <1>2, LargerOfTwo
  <1>4. /\ \A a \in Agents : excused[a] \subseteq excused'[a]
        /\ n <= top => \A a \in Agents : m \in excused'[a]
    BY <1>0, <1>1 DEF Insert, AgentTypes
  <1> HIDE DEF n
  <1>5. /\ \A k \in Messages : seq[k] \in Nat /\ seq[k] <= top
        /\ \A k \in Messages \ {m} : seq'[k] = seq[k]
        /\ seq'[m] = n
    BY <1>0, <1>2 DEF BusTypes, ReadInv, NumbersGiven
  <1>6. /\ m \notin Inserted /\ Inserted' = Inserted \union {m} /\ m \notin InTable
        /\ InTable' = InTable \union {m} /\ Active' = Active \union {m}
    BY <1>0 DEF Insert, ReadInv, NumbersGiven, Inserted, InTable, Active, BusTypes
  <1>7. /\ UNCHANGED <<cursor, from, marking, reading, todo, found, answer, seenThen, seen,
                       rewound, again, restored>>
        /\ \A a \in Agents : Answering(a)' = Answering(a)
    BY DEF Insert, readVars, Answering
  <1>8. \A a \in Agents : Accounted(a) \subseteq Accounted(a)' /\ (n <= top => m \in Accounted(a)')
    BY <1>4, <1>7 DEF Accounted
  <1>9. /\ \A r \in Readers : ReaderAgent[r] \in Agents
        /\ \A x \in Messages : ChannelOf[x] \in Channels
    BY BusConstants
  <1>10. /\ \A a \in Agents, c \in Channels : cursor[a][c] \in Nat /\ cursor[a][c] <= top
         /\ \A r \in Readers, c \in Channels : from[r][c] \in Nat /\ from[r][c] <= top
         /\ \A a \in Agents : marking[a] # None => marking[a].upto <= top /\ marking[a].upto \in Nat
    BY <1>0, TypeParts DEF ReadInv, Bounded, AgentTypes, ReadTypes, RestTypes
  <1>11. NumbersGiven'
    <2>1. step' = [step EXCEPT ![m] = "inserted"] /\ status' = [status EXCEPT ![m] = "active"]
      BY DEF Insert
    <2>2. \A k \in Messages : status'[k] = "unpublished" <=> step'[k] = "new"
      BY <1>0, <2>1 DEF BusTypes, ReadInv, NumbersGiven
    <2>3. \A k \in Messages : seq'[k] <= top'
      BY <1>0, <1>1, <1>3, <1>5
    <2> QED BY <2>2, <2>3 DEF NumbersGiven
  <1>12. Bounded'
    BY <1>0, <1>3, <1>7, <1>10 DEF Bounded
  <1>13. Known' /\ Locals'
    BY <1>6, <1>7 DEF ReadInv, Known, Locals
  <1>14. Twins'
    <2> SUFFICES ASSUME NEW x \in InTable', NEW k \in Inserted', x # k, seq'[x] = seq'[k],
                        NEW a \in Agents
                 PROVE  x \in excused'[a]
      BY DEF Twins
    <2>1. CASE x = m
      <3>1. k \in Messages \ {m}
        BY <1>6, <2>1, RowsWereInserted
      <3> QED BY <1>4, <1>5, <2>1, <3>1
    <2>2. CASE k = m
      <3>1. x \in InTable /\ x \in Messages \ {m}
        BY <1>6, <2>2, RowsWereInserted
      <3> QED BY <1>1, <1>5, <2>2, <3>1
    <2>3. CASE x # m /\ k # m
      <3>1. x \in InTable /\ k \in Inserted /\ x \in Messages \ {m} /\ k \in Messages \ {m}
        BY <1>6, <2>3, RowsWereInserted
      <3> QED BY <1>4, <1>5, <3>1 DEF ReadInv, Twins
    <2> QED BY <2>1, <2>2, <2>3
  <1>15. PassedHaveAccounts'
    <2> SUFFICES ASSUME NEW r \in Readers, reading[r] = "querying", NEW x \in Active',
                        seq'[x] <= from[r][ChannelOf[x]]
                 PROVE  x \in Accounted(ReaderAgent[r])'
      BY <1>7 DEF PassedHaveAccounts
    <2>1. CASE x = m
      BY <1>0, <1>1, <1>5, <1>8, <1>9, <1>10, <2>1
    <2>2. CASE x # m
      <3>1. x \in Active /\ x \in Messages \ {m}
        BY <1>6, <2>2, RowsWereInserted
      <3> QED BY <1>5, <1>8, <1>9, <3>1 DEF ReadInv, PassedHaveAccounts
    <2> QED BY <2>1, <2>2
  <1>16. QueriedAreFound'
    <2> SUFFICES ASSUME NEW r \in Readers, reading[r] = "querying", NEW x \in Active',
                        NEW k \in found[r],
                        ChannelOf[x] = ChannelOf[k], ChannelOf[x] \notin todo[r],
                        seq'[x] > from[r][ChannelOf[x]], seq'[x] <= seq'[k]
                 PROVE  x \in found[r] \union excused'[ReaderAgent[r]] \union restored
      BY <1>7 DEF QueriedAreFound
    <2>0. k \in Messages \ {m}
      BY <1>6, RowsWereInserted DEF ReadInv, Known
    <2>1. CASE x = m
      BY <1>0, <1>1, <1>4, <1>5, <1>9, <2>0, <2>1
    <2>2. CASE x # m
      <3>1. x \in Active /\ x \in Messages \ {m}
        BY <1>6, <2>2, RowsWereInserted
      <3> QED BY <1>4, <1>5, <1>9, <2>0, <3>1 DEF ReadInv, QueriedAreFound
    <2> QED BY <2>1, <2>2
  <1>17. SeenWerePassed' /\ FoundAreNew' /\ SeenArePassed'
    <2>1. /\ \A a \in Agents : m \notin seen[a] \union Answering(a)
          /\ \A r \in Readers : m \notin seenThen[r]
      BY <1>6 DEF ReadInv, Known, Answering
    <2>2. \A x \in InTable' : x # m => x \in InTable /\ seq'[x] = seq[x]
      BY <1>5, <1>6, RowsWereInserted
    <2>3. SeenWerePassed'
      BY <1>7, <2>1, <2>2 DEF ReadInv, SeenWerePassed
    <2>4. FoundAreNew'
      BY <1>7 DEF ReadInv, FoundAreNew
    <2>5. SeenArePassed'
      BY <1>7, <2>1, <2>2 DEF ReadInv, SeenArePassed
    <2> QED BY <2>3, <2>4, <2>5
  <1>18. HiddenForACause' /\ ShownOnce'
    <2> SUFFICES ASSUME NEW a \in Agents, NEW x \in Active', seq'[x] <= cursor[a][ChannelOf[x]]
                 PROVE  x \in Accounted(a)'
      BY <1>7 DEF HiddenForACause, Accounted, ReadInv, ShownOnce
    <2>1. CASE x = m
      BY <1>0, <1>1, <1>5, <1>8, <1>9, <1>10, <2>1
    <2>2. CASE x # m
      <3>1. x \in Active /\ x \in Messages \ {m}
        BY <1>6, <2>2, RowsWereInserted
      <3> QED BY <1>5, <1>8, <3>1 DEF ReadInv, HiddenForACause, Accounted
    <2> QED BY <2>1, <2>2
  <1> QED BY <1>11, <1>12, <1>13, <1>14, <1>15, <1>16, <1>17, <1>18 DEF ReadInv

LEMMA BeginReadKeeps ==
  ASSUME TypeOK, ReadInv, NEW r \in Readers, BeginRead(r)
  PROVE  ReadInv'
  <1>0. ReadTypes
    BY TypeParts
  <1> DEFINE a == ReaderAgent[r]
  <1>1. /\ a \in Agents
        /\ reading' = [reading EXCEPT ![r] = "querying"] /\ reading[r] = "idle"
        /\ found' = [found EXCEPT ![r] = {}]
        /\ from' = [from EXCEPT ![r] = cursor[a]]
        /\ seenThen' = [seenThen EXCEPT ![r] = seen[a]]
        /\ todo' = [todo EXCEPT ![r] = {ChannelOf[m] : m \in Active}]
    BY BusConstants DEF BeginRead
  <1>2. /\ UNCHANGED <<status, seq, step, targets, answer, agentVars, marking, top, restored>>
        /\ UNCHANGED <<cursor, seen, excused, rewound, again, Active, InTable, Inserted>>
        /\ \A b \in Agents : Answering(b)' = Answering(b)
        /\ \A b \in Agents : Accounted(b)' = Accounted(b)
    BY DEF BeginRead, busVars, agentVars, Active, InTable, Inserted, Answering, Accounted
  <1>3. /\ from'[r] = cursor[a] /\ found'[r] = {} /\ seenThen'[r] = seen[a] /\ answer[r] = {}
        /\ reading'[r] = "querying"
        /\ \A q \in Readers \ {r} : /\ from'[q] = from[q] /\ found'[q] = found[q]
                                    /\ seenThen'[q] = seenThen[q] /\ reading'[q] = reading[q]
                                    /\ todo'[q] = todo[q]
    BY <1>0, <1>1 DEF ReadTypes, ReadInv, Locals
  <1>4. NumbersGiven' /\ Twins' /\ HiddenForACause' /\ ShownOnce' /\ SeenArePassed'
    BY <1>2 DEF ReadInv, NumbersGiven, Twins, HiddenForACause, ShownOnce, SeenArePassed
  <1>5. Bounded'
    BY <1>1, <1>2, <1>3 DEF ReadInv, Bounded
  <1>6. Known' /\ Locals'
    BY <1>1, <1>2, <1>3 DEF ReadInv, Known, Locals
  <1>7. PassedHaveAccounts'
    <2>1. \A m \in Active : seq[m] <= cursor[a][ChannelOf[m]] => m \in Accounted(a)
      BY <1>1 DEF ReadInv, HiddenForACause, Accounted
    <2>2. \A q \in Readers : ReaderAgent[q] \in Agents
      BY BusConstants
    <2> QED BY <1>2, <1>3, <2>1, <2>2 DEF ReadInv, PassedHaveAccounts
  <1>8. QueriedAreFound'
    BY <1>2, <1>3 DEF ReadInv, QueriedAreFound
  <1>9. SeenWerePassed'
    <2>1. \A m \in InTable \intersect seen[a] : m \in rewound[a] \/ seq[m] <= cursor[a][ChannelOf[m]]
      BY <1>1 DEF ReadInv, SeenArePassed
    <2> QED BY <1>2, <1>3, <2>1 DEF ReadInv, SeenWerePassed
  <1>10. FoundAreNew'
    BY <1>2, <1>3 DEF ReadInv, FoundAreNew
  <1> QED BY <1>4, <1>5, <1>6, <1>7, <1>8, <1>9, <1>10 DEF ReadInv

LEMMA QueryKeeps ==
  ASSUME TypeOK, ReadInv, NEW r \in Readers, NEW c \in Channels, Query(r, c)
  PROVE  ReadInv'
  <1>0. ReadTypes /\ \A m \in Messages : seq[m] \in Nat
    BY TypeParts DEF BusTypes
  <1> DEFINE new == {m \in Active \intersect InChannel(c) : seq[m] > from[r][c]}
  <1>1. /\ reading[r] = "querying"
        /\ found' = [found EXCEPT ![r] = @ \union new]
        /\ todo' = [todo EXCEPT ![r] = @ \ {c}]
    BY DEF Query
  <1>2. /\ UNCHANGED <<reading, from, answer, seenThen, seq, marking, top, restored, status, step>>
        /\ UNCHANGED <<cursor, seen, excused, rewound, again, Active, InTable, Inserted>>
        /\ \A b \in Agents : Answering(b)' = Answering(b)
        /\ \A b \in Agents : Accounted(b)' = Accounted(b)
    BY DEF Query, busVars, agentVars, Active, InTable, Inserted, Answering, Accounted
  <1>3. /\ found'[r] = found[r] \union new /\ todo'[r] = todo[r] \ {c}
        /\ \A q \in Readers \ {r} : found'[q] = found[q] /\ todo'[q] = todo[q]
    BY <1>0, <1>1 DEF ReadTypes
  <1>4. /\ new \subseteq Active /\ new \subseteq Inserted /\ Active \subseteq Messages
        /\ \A m \in new : ChannelOf[m] = c /\ seq[m] > from[r][ChannelOf[m]]
        /\ \A m \in Active : ChannelOf[m] = c /\ seq[m] > from[r][ChannelOf[m]] => m \in new
    BY RowsWereInserted DEF InChannel, Active
  <1> HIDE DEF new
  <1>5. NumbersGiven' /\ Bounded' /\ Twins' /\ HiddenForACause' /\ ShownOnce' /\ SeenArePassed'
    BY <1>2 DEF ReadInv, NumbersGiven, Bounded, Twins, HiddenForACause, ShownOnce, SeenArePassed
  <1>6. Known' /\ Locals'
    BY <1>1, <1>2, <1>3, <1>4 DEF ReadInv, Known, Locals
  <1>7. PassedHaveAccounts' /\ SeenWerePassed'
    BY <1>2, BusConstants DEF ReadInv, PassedHaveAccounts, SeenWerePassed
  <1>8. QueriedAreFound'
    <2> SUFFICES ASSUME NEW q \in Readers, reading[q] = "querying", NEW m \in Active,
                        NEW k \in found'[q],
                        ChannelOf[m] = ChannelOf[k], ChannelOf[m] \notin todo'[q],
                        seq[m] > from[q][ChannelOf[m]], seq[m] <= seq[k]
                 PROVE  m \in found'[q] \union excused[ReaderAgent[q]] \union restored
      BY <1>2 DEF QueriedAreFound
    <2>1. CASE q # r
      BY <1>3, <2>1 DEF ReadInv, QueriedAreFound
    <2>2. CASE q = r /\ ChannelOf[m] = c
      BY <1>3, <1>4, <2>2
    <2>3. CASE q = r /\ ChannelOf[m] # c
      <3>1. k \in found[r] /\ ChannelOf[m] \notin todo[r]
        BY <1>3, <1>4, <2>3
      <3> QED BY <1>3, <2>3, <3>1 DEF ReadInv, QueriedAreFound
    <2> QED BY <2>1, <2>2, <2>3
  <1>9. FoundAreNew'
    <2>1. ASSUME NEW m \in new \intersect seenThen[r] PROVE m \in rewound[ReaderAgent[r]]
      <3>1. m \in InTable \intersect seenThen[r] /\ m \in Messages /\ ChannelOf[m] \in Channels
        BY <1>4, RowsWereInserted, BusConstants
      <3>2. m \in rewound[ReaderAgent[r]] \/ seq[m] <= from[r][ChannelOf[m]]
        BY <1>1, <3>1 DEF ReadInv, SeenWerePassed
      <3>3. seq[m] \in Nat /\ from[r][ChannelOf[m]] \in Nat /\ seq[m] > from[r][ChannelOf[m]]
        BY <1>0, <1>4, <3>1 DEF ReadTypes
      <3> QED BY <3>2, <3>3
    <2> QED BY <1>2, <1>3, <2>1 DEF ReadInv, FoundAreNew
  <1> QED BY <1>5, <1>6, <1>7, <1>8, <1>9 DEF ReadInv

\* The end of a request: its answer is accounted for in another way.
LEMMA ReturnKeeps ==
  ASSUME TypeOK, ReadInv, NEW r \in Readers, Return(r),
         UNCHANGED <<busVars, cursor, rewound, again, marking, top, restored>>,
         \A a \in Agents : /\ Accounted(a) \subseteq Accounted(a)'
                           /\ seen'[a] \subseteq seen[a] \union Answering(a)
                           /\ excused[a] \subseteq excused'[a]
  PROVE  ReadInv'
  <1>0. ReadTypes
    BY TypeParts
  <1>1. /\ reading'[r] = "idle" /\ found'[r] = {} /\ answer'[r] = {} /\ seenThen'[r] = {}
        /\ \A c \in Channels : from'[r][c] = 0
        /\ todo' = todo
        /\ \A q \in Readers \ {r} : /\ reading'[q] = reading[q] /\ found'[q] = found[q]
                                    /\ answer'[q] = answer[q] /\ seenThen'[q] = seenThen[q]
                                    /\ from'[q] = from[q]
    BY <1>0 DEF Return, ReadTypes
  <1>2. /\ UNCHANGED <<seq, status, step, Active, InTable, Inserted>>
        /\ \A q \in Readers : ReaderAgent[q] \in Agents
        /\ \A a \in Agents : Answering(a)' \subseteq Answering(a)
    BY <1>1, BusConstants DEF busVars, Active, InTable, Inserted, Answering
  <1>3. NumbersGiven' /\ ShownOnce'
    BY <1>2 DEF ReadInv, NumbersGiven, ShownOnce
  <1>4. Bounded'
    BY <1>1, TypeParts DEF ReadInv, Bounded, RestTypes
  <1>5. Known'
    <2>1. \A a \in Agents : Answering(a) \subseteq Inserted
      BY DEF ReadInv, Known, Answering
    <2>2. \A a \in Agents : seen'[a] \subseteq Inserted
      BY <2>1 DEF ReadInv, Known
    <2> QED BY <1>1, <1>2, <2>2 DEF ReadInv, Known
  <1>6. Twins' /\ Locals'
    BY <1>1, <1>2 DEF ReadInv, Twins, Locals
  <1>7. PassedHaveAccounts'
    BY <1>1, <1>2 DEF ReadInv, PassedHaveAccounts
  <1>8. QueriedAreFound'
    BY <1>1, <1>2 DEF ReadInv, QueriedAreFound
  <1>9. SeenWerePassed' /\ FoundAreNew'
    BY <1>1, <1>2 DEF ReadInv, SeenWerePassed, FoundAreNew
  <1>10. SeenArePassed'
    BY <1>2 DEF ReadInv, SeenArePassed
  <1>11. HiddenForACause'
    BY <1>2 DEF ReadInv, HiddenForACause, Accounted
  <1> QED BY <1>3, <1>4, <1>5, <1>6, <1>7, <1>8, <1>9, <1>10, <1>11 DEF ReadInv

LEMMA PeekKeeps ==
  ASSUME TypeOK, ReadInv, NEW r \in Readers, Peek(r)
  PROVE  ReadInv'
  <1>1. Return(r) /\ UNCHANGED <<busVars, agentVars, marking, top, restored>>
    BY DEF Peek
  <1>2. \A a \in Agents : Answering(a) \subseteq Answering(a)'
    <2>1. answer[r] = {} /\ \A q \in Readers \ {r} : answer'[q] = answer[q]
      BY TypeParts DEF Peek, Return, ReadTypes, ReadInv, Locals
    <2> QED BY <2>1 DEF Answering
  <1>3. \A a \in Agents : Accounted(a) \subseteq Accounted(a)'
    BY <1>1, <1>2 DEF Accounted, agentVars
  <1> QED BY <1>1, <1>3, ReturnKeeps DEF agentVars

LEMMA AnswerKeeps ==
  ASSUME TypeOK, ReadInv, NEW r \in Readers, Answer(r) \/ AnswerLost(r)
  PROVE  ReadInv'
  <1>0. AgentTypes /\ ReadTypes
    BY TypeParts
  <1> DEFINE b == ReaderAgent[r]
  <1>1. Return(r) /\ UNCHANGED <<busVars, cursor, rewound, marking, top, restored>> /\ b \in Agents
    BY BusConstants DEF Answer, AnswerLost
  <1>2. \A a \in Agents : /\ seen[a] \subseteq seen'[a] /\ excused[a] \subseteq excused'[a]
                          /\ seen'[a] \subseteq seen[a] \union IF a = b THEN answer[r] ELSE {}
                          /\ a = b => answer[r] \subseteq seen'[a] \union excused'[a]
    <2>1. CASE Answer(r)
      BY <1>0, <1>1, <2>1 DEF Answer, AgentTypes
    <2>2. CASE AnswerLost(r)
      BY <1>0, <1>1, <2>2 DEF AnswerLost, AgentTypes
    <2> QED BY <2>1, <2>2
  <1>3. again' = again
    BY <1>1 DEF Answer, AnswerLost, ReadInv, FoundAreNew
  <1>4. \A a \in Agents : /\ a = b => answer[r] \subseteq Answering(a)
                          /\ Answering(a) \subseteq Answering(a)' \union IF a = b THEN answer[r] ELSE {}
    <2>1. \A q \in Readers \ {r} : answer'[q] = answer[q]
      BY <1>0, <1>1 DEF Return, ReadTypes
    <2> QED BY <2>1 DEF Answering
  <1>5. \A a \in Agents : /\ Accounted(a) \subseteq Accounted(a)'
                          /\ seen'[a] \subseteq seen[a] \union Answering(a)
                          /\ excused[a] \subseteq excused'[a]
    BY <1>1, <1>2, <1>4 DEF Accounted
  <1> QED BY <1>1, <1>3, <1>5, ReturnKeeps

\* A cursor moves past rows that were answered, or are accounted for.
LEMMA FinishKeeps ==
  ASSUME TypeOK, ReadInv, NEW r \in Readers, NEW n \in Caps, Finish(r, n)
  PROVE  ReadInv'
  <1>0. AgentTypes /\ ReadTypes /\ \A m \in Messages : seq[m] \in Nat
    BY TypeParts DEF BusTypes
  <1> DEFINE a == ReaderAgent[r]
  <1>1. PICK out \in SUBSET found[r] :
          /\ IsOldest(out, found[r], n)
          /\ answer' = [answer EXCEPT ![r] = out]
          /\ cursor' = [cursor EXCEPT ![a] = Advanced(@, found[r], out)]
          /\ excused' = IF out # {} THEN excused ELSE [excused EXCEPT ![a] = @ \union found[r]]
    BY DEF Finish
  <1> DEFINE new == Advanced(cursor[a], found[r], out)
  <1>2. /\ a \in Agents /\ \A q \in Readers : ReaderAgent[q] \in Agents
        /\ found[r] \subseteq Messages /\ found[r] \subseteq Inserted /\ out \subseteq found[r]
        /\ reading[r] = "querying" /\ todo[r] = {} /\ answer[r] = {}
        /\ \A m \in Messages : ChannelOf[m] \in Channels
    BY <1>0, BusConstants DEF Finish, ReadTypes, ReadInv, Known, Locals
  <1>3. /\ \A c \in Channels :
              /\ new[c] >= cursor[a][c] /\ (new[c] <= top \/ new[c] = cursor[a][c])
              /\ new[c] # cursor[a][c] =>
                   /\ \E k \in found[r] \intersect InChannel(c) : new[c] <= seq[k]
                   /\ out # {} => \E k \in out : new[c] <= seq[k]
              /\ \A m \in out \intersect InChannel(c) : seq[m] <= new[c]
        /\ new \in [Channels -> Nat]
    <2>1. cursor[a] \in [Channels -> Nat] /\ NumbersGiven
      BY <1>0, <1>2 DEF AgentTypes, ReadInv
    <2> QED BY <1>2, <2>1, AdvancedIs
  <1> HIDE DEF new
  <1>4. /\ cursor'[a] = new /\ \A b \in Agents \ {a} : cursor'[b] = cursor[b]
        /\ answer'[r] = out /\ found'[r] = {} /\ reading'[r] = "answering"
        /\ \A q \in Readers \ {r} : /\ answer'[q] = answer[q] /\ found'[q] = found[q]
                                    /\ reading'[q] = reading[q]
        /\ \A b \in Agents : excused[b] \subseteq excused'[b]
        /\ out = {} => found[r] \subseteq excused'[a]
    BY <1>0, <1>1, <1>2 DEF new, Finish, AgentTypes, ReadTypes
  <1>5. /\ UNCHANGED <<from, todo, seenThen, seen, rewound, again, marking, top, restored>>
        /\ UNCHANGED <<seq, status, step, Active, InTable, Inserted>>
    BY DEF Finish, busVars, Active, InTable, Inserted
  <1>6. /\ \A b \in Agents : Answering(b) \subseteq Answering(b)'
        /\ out \subseteq Answering(a)' /\ Answering(a)' \subseteq Answering(a) \union out
        /\ \A b \in Agents \ {a} : Answering(b)' = Answering(b)
    BY <1>2, <1>4 DEF Answering
  <1>7. \A b \in Agents : Accounted(b) \subseteq Accounted(b)'
    BY <1>4, <1>5, <1>6 DEF Accounted
  <1>8. NumbersGiven' /\ Twins' /\ ShownOnce'
    BY <1>4, <1>5 DEF ReadInv, NumbersGiven, Twins, ShownOnce
  <1>9. Bounded'
    BY <1>3, <1>4, <1>5 DEF ReadInv, Bounded
  <1>10. Known' /\ Locals'
    BY <1>2, <1>4, <1>5 DEF ReadInv, Known, Locals
  <1>11. PassedHaveAccounts' /\ QueriedAreFound'
    <2>1. \A q \in Readers : reading'[q] = "querying" => q # r /\ reading[q] = "querying" /\ found'[q] = found[q]
      BY <1>4
    <2>2. PassedHaveAccounts'
      BY <1>2, <1>5, <1>7, <2>1 DEF ReadInv, PassedHaveAccounts
    <2>3. QueriedAreFound'
      BY <1>2, <1>4, <1>5, <2>1 DEF ReadInv, QueriedAreFound
    <2> QED BY <2>2, <2>3
  <1>12. SeenWerePassed' /\ FoundAreNew'
    BY <1>2, <1>4, <1>5 DEF ReadInv, SeenWerePassed, FoundAreNew
  <1>13. SeenArePassed'
    <2> SUFFICES ASSUME NEW b \in Agents, NEW m \in InTable \intersect (seen[b] \union Answering(b)'),
                        m \notin rewound[b]
                 PROVE  seq[m] <= cursor'[b][ChannelOf[m]]
      BY <1>5 DEF SeenArePassed
    <2>0. m \in Messages /\ ChannelOf[m] \in Channels /\ m \in InChannel(ChannelOf[m])
      BY BusConstants DEF InTable, InChannel
    <2>1. CASE m \in seen[b] \union Answering(b)
      <3>1. seq[m] <= cursor[b][ChannelOf[m]] /\ cursor[b][ChannelOf[m]] \in Nat /\ seq[m] \in Nat
        BY <1>0, <2>0, <2>1 DEF ReadInv, SeenArePassed, AgentTypes
      <3>2. CASE b = a
        BY <1>3, <1>4, <2>0, <3>1, <3>2
      <3> QED BY <1>4, <3>1, <3>2
    <2>2. CASE b = a /\ m \in out
      BY <1>3, <1>4, <2>0, <2>2
    <2> QED BY <1>6, <2>1, <2>2
  <1>14. HiddenForACause'
    <2> SUFFICES ASSUME NEW b \in Agents, NEW m \in Active, seq[m] <= cursor'[b][ChannelOf[m]]
                 PROVE  m \in Accounted(b)'
      BY <1>5 DEF HiddenForACause, Accounted
    <2> DEFINE c == ChannelOf[m]
    <2>0. m \in Messages /\ c \in Channels /\ m \in InTable /\ seq[m] \in Nat /\ from[r][c] \in Nat
      BY <1>0, BusConstants DEF Active, InTable, ReadTypes
    <2>1. CASE seq[m] <= cursor[b][c]
      BY <1>7, <2>1 DEF ReadInv, HiddenForACause, Accounted
    <2>2. CASE b = a /\ new[c] # cursor[a][c] /\ seq[m] <= new[c]
      <3>1. PICK k \in found[r] : ChannelOf[k] = c /\ new[c] <= seq[k]
        BY <1>3, <2>0, <2>2 DEF InChannel
      <3>2. seq[k] \in Nat /\ new[c] \in Nat
        BY <1>0, <1>2, <1>3, <2>0
      <3>3. CASE seq[m] <= from[r][c]
        BY <1>2, <1>7, <2>2, <3>3 DEF ReadInv, PassedHaveAccounts
      <3>4. CASE m \in excused[a] \union restored
        BY <1>2, <1>7, <2>2, <3>4 DEF Accounted
      <3>5. CASE m \in found[r]
        <4>1. CASE out = {}
          BY <1>2, <1>4, <2>2, <3>5, <4>1 DEF Accounted
        <4>2. CASE m \in out
          BY <1>2, <1>6, <2>2, <4>2 DEF Accounted
        <4>3. CASE out # {} /\ m \notin out
          <5>1. PICK o \in out : new[c] <= seq[o]
            BY <1>3, <2>0, <2>2, <4>3
          <5>2. seq[o] <= seq[m]
            BY <1>1, <3>5, <4>3 DEF IsOldest
          <5>3. seq[o] \in Nat /\ o \in Inserted /\ o # m
            BY <1>0, <1>2, <4>3
          <5>4. seq[o] = seq[m]
            BY <2>0, <2>2, <3>2, <5>1, <5>2, <5>3
          <5>5. m \in excused[a]
            BY <1>2, <2>0, <5>3, <5>4 DEF ReadInv, Twins
          <5> QED BY <3>4, <5>5
        <4> QED BY <4>1, <4>2, <4>3
      <3>6. \/ seq[m] <= from[r][c]
            \/ m \in found[r] \union excused[a] \union restored
        <4>1. seq[m] <= seq[k]
          BY <2>0, <2>2, <3>1, <3>2
        <4>2. c \notin todo[r]
          BY <1>2
        <4>3. seq[m] > from[r][c] => m \in found[r] \union excused[a] \union restored
          BY <1>2, <3>1, <4>1, <4>2 DEF ReadInv, QueriedAreFound
        <4> QED BY <2>0, <4>3
      <3> QED BY <3>3, <3>4, <3>5, <3>6
    <2> QED BY <1>4, <2>1, <2>2
  <1> QED BY <1>8, <1>9, <1>10, <1>11, <1>12, <1>13, <1>14 DEF ReadInv

LEMMA SetCursorKeeps ==
  ASSUME TypeOK, ReadInv, NEW a \in Agents, NEW c \in Channels, NEW upto \in Nat, upto <= top,
         SetCursor(a, c, upto),
         UNCHANGED <<busVars, readVars, top, restored>>,
         \A b \in Agents : marking'[b] \in {None, marking[b]}
  PROVE  ReadInv'
  <1>0. AgentTypes /\ \A m \in Messages : seq[m] \in Nat
    BY TypeParts DEF BusTypes
  <1>1. /\ cursor'[a][c] = upto /\ \A d \in Channels \ {c} : cursor'[a][d] = cursor[a][d]
        /\ \A b \in Agents \ {a} : cursor'[b] = cursor[b]
    BY <1>0 DEF SetCursor, AgentTypes
  <1>2. /\ \A b \in Agents : excused[b] \subseteq excused'[b] /\ rewound[b] \subseteq rewound'[b]
        /\ \A m \in InTable : ChannelOf[m] = c =>
             IF seq[m] <= upto THEN m \in excused'[a] ELSE m \in rewound'[a]
    <2>1. \A m \in InTable : ChannelOf[m] = c => m \in InChannel(c) /\ seq[m] \in Nat
      BY <1>0 DEF InTable, InChannel
    <2>2. \A m \in InTable : ChannelOf[m] = c /\ seq[m] <= upto => m \in excused'[a]
      BY <1>0, <2>1 DEF SetCursor, AgentTypes
    <2>3. \A m \in InTable : ChannelOf[m] = c /\ ~(seq[m] <= upto) => m \in rewound'[a]
      BY <1>0, <2>1 DEF SetCursor, AgentTypes
    <2>4. \A b \in Agents : excused[b] \subseteq excused'[b]
      BY <1>0 DEF SetCursor, AgentTypes
    <2>5. \A b \in Agents : rewound[b] \subseteq rewound'[b]
      BY <1>0 DEF SetCursor, AgentTypes
    <2> QED BY <2>2, <2>3, <2>4, <2>5
  <1>3. /\ UNCHANGED <<seq, status, step, Active, InTable, Inserted>>
        /\ UNCHANGED <<reading, from, todo, found, answer, seenThen, seen, again, top, restored>>
        /\ \A b \in Agents : Answering(b)' = Answering(b)
        /\ \A q \in Readers : ReaderAgent[q] \in Agents
    BY BusConstants DEF SetCursor, busVars, readVars, Active, InTable, Inserted, Answering
  <1>4. \A b \in Agents : Accounted(b) \subseteq Accounted(b)' /\ excused'[b] \subseteq Accounted(b)'
    BY <1>2, <1>3 DEF Accounted
  <1>5. NumbersGiven' /\ Known' /\ Locals' /\ ShownOnce'
    BY <1>3 DEF ReadInv, NumbersGiven, Known, Locals, ShownOnce
  <1>6. Bounded'
    BY <1>1, <1>3 DEF ReadInv, Bounded
  <1>7. Twins'
    BY <1>2, <1>3 DEF ReadInv, Twins
  <1>8. PassedHaveAccounts'
    BY <1>3, <1>4 DEF ReadInv, PassedHaveAccounts
  <1>9. QueriedAreFound'
    BY <1>2, <1>3 DEF ReadInv, QueriedAreFound
  <1>10. SeenWerePassed' /\ FoundAreNew'
    BY <1>2, <1>3 DEF ReadInv, SeenWerePassed, FoundAreNew
  <1>11. SeenArePassed'
    <2> SUFFICES ASSUME NEW b \in Agents, NEW m \in InTable \intersect (seen[b] \union Answering(b)),
                        m \notin rewound'[b]
                 PROVE  seq[m] <= cursor'[b][ChannelOf[m]]
      BY <1>3 DEF SeenArePassed
    <2>1. ChannelOf[m] \in Channels /\ m \notin rewound[b]
      BY <1>2, BusConstants DEF InTable
    <2> QED BY <1>1, <1>2, <2>1 DEF ReadInv, SeenArePassed
  <1>12. HiddenForACause'
    <2> SUFFICES ASSUME NEW b \in Agents, NEW m \in Active, seq[m] <= cursor'[b][ChannelOf[m]]
                 PROVE  m \in Accounted(b)'
      BY <1>3 DEF HiddenForACause, Accounted
    <2>1. ChannelOf[m] \in Channels /\ m \in InTable
      BY BusConstants DEF InTable, Active
    <2>2. CASE b = a /\ ChannelOf[m] = c
      BY <1>1, <1>2, <1>4, <2>1, <2>2
    <2>3. CASE b # a \/ ChannelOf[m] # c
      <3>1. seq[m] <= cursor[b][ChannelOf[m]]
        BY <1>1, <2>1, <2>3
      <3>2. m \in Accounted(b)
        BY <3>1 DEF ReadInv, HiddenForACause, Accounted
      <3> QED BY <1>4, <3>2
    <2> QED BY <2>2, <2>3
  <1> QED BY <1>5, <1>6, <1>7, <1>8, <1>9, <1>10, <1>11, <1>12 DEF ReadInv

LEMMA MarkKeeps == ASSUME TypeOK, ReadInv, Mark PROVE ReadInv'
  <1>0. RestTypes /\ top \in Nat
    BY TypeParts DEF RestTypes
  <1>1. ASSUME NEW a \in Agents, MarkAll(a) PROVE ReadInv'
    <2>1. /\ marking[a].channel \in Channels /\ marking[a].upto \in Nat /\ marking[a].upto <= top
      BY <1>0, <1>1 DEF MarkAll, RestTypes, ReadInv, Bounded
    <2>2. \A b \in Agents : marking'[b] \in {None, marking[b]}
      BY <1>0, <1>1 DEF MarkAll, RestTypes
    <2> QED BY <1>1, <2>1, <2>2, SetCursorKeeps DEF MarkAll
  <1>2. ASSUME NEW a \in Agents, NEW c \in Channels, NEW n \in 0..top, MarkTo(a, c, n) PROVE ReadInv'
    <2>1. n \in Nat /\ n <= top /\ \A b \in Agents : marking'[b] \in {None, marking[b]}
      BY <1>0, <1>2 DEF MarkTo
    <2> QED BY <1>2, <2>1, SetCursorKeeps DEF MarkTo
  <1>3. ASSUME NEW a \in Agents, NEW c \in Channels, AskLargest(a, c) PROVE ReadInv'
    <2>1. Largest(NumbersOf(Active \intersect InChannel(c))) \in 0..top
      BY NumbersAreBounded DEF ReadInv, NumbersGiven, Active
    <2>2. /\ UNCHANGED <<seq, status, step, Active, InTable, Inserted>>
          /\ UNCHANGED <<reading, from, todo, found, answer, seenThen, top, restored>>
          /\ UNCHANGED <<cursor, seen, excused, rewound, again>>
          /\ \A b \in Agents : Answering(b)' = Answering(b) /\ Accounted(b)' = Accounted(b)
      BY <1>3 DEF AskLargest, busVars, readVars, agentVars, Active, InTable, Inserted, Answering,
                  Accounted
    <2>3. Bounded'
      <3>1. \A b \in Agents : marking'[b] # None => marking'[b].upto <= top
        BY <1>0, <1>3, <2>1 DEF AskLargest, RestTypes, ReadInv, Bounded
      <3> QED BY <2>2, <3>1 DEF ReadInv, Bounded
    <2>4. NumbersGiven' /\ Known' /\ Twins' /\ Locals' /\ ShownOnce'
      BY <2>2 DEF ReadInv, NumbersGiven, Known, Twins, Locals, ShownOnce
    <2>5. PassedHaveAccounts' /\ QueriedAreFound'
      BY <2>2, BusConstants DEF ReadInv, PassedHaveAccounts, QueriedAreFound
    <2>6. SeenWerePassed' /\ FoundAreNew' /\ SeenArePassed' /\ HiddenForACause'
      BY <2>2 DEF ReadInv, SeenWerePassed, FoundAreNew, SeenArePassed, HiddenForACause
    <2> QED BY <2>3, <2>4, <2>5, <2>6 DEF ReadInv
  <1> QED BY <1>1, <1>2, <1>3 DEF Mark

LEMMA HubDiesKeeps == ASSUME TypeOK, ReadInv, HubDies PROVE ReadInv'
  <1>0. BusTypes /\ RestTypes
    BY TypeParts
  <1>1. /\ UNCHANGED <<seq, status, cursor, seen, rewound, again, top, restored, Active, InTable>>
        /\ \A a \in Agents : excused'[a] = excused[a] \union Answering(a)
        /\ \A r \in Readers : /\ reading'[r] = "idle" /\ answer'[r] = {} /\ found'[r] = {}
                              /\ seenThen'[r] = {}
                              /\ \A c \in Channels : from'[r][c] = 0
        /\ \A a \in Agents : marking'[a] = None
        /\ \A m \in Messages : step'[m] = "new" <=> step[m] = "new"
    BY DEF HubDies, Active, InTable, Answering
  <1>2. Inserted' = Inserted /\ \A a \in Agents : Answering(a)' = {}
    BY <1>1 DEF Inserted, Answering
  <1>3. NumbersGiven' /\ Twins' /\ Locals' /\ ShownOnce'
    BY <1>1, <1>2 DEF ReadInv, NumbersGiven, Twins, Locals, ShownOnce
  <1>4. Bounded'
    BY <1>0, <1>1 DEF ReadInv, Bounded, RestTypes
  <1>5. Known'
    BY <1>1, <1>2 DEF ReadInv, Known
  <1>6. PassedHaveAccounts' /\ QueriedAreFound' /\ SeenWerePassed' /\ FoundAreNew'
    BY <1>1 DEF PassedHaveAccounts, QueriedAreFound, SeenWerePassed, FoundAreNew
  <1>7. SeenArePassed' /\ HiddenForACause'
    BY <1>1, <1>2 DEF ReadInv, SeenArePassed, HiddenForACause
  <1> QED BY <1>3, <1>4, <1>5, <1>6, <1>7 DEF ReadInv

LEMMA NextReadInv == ASSUME TypeOK, ReadInv, [Next]_vars PROVE ReadInv'
  <1>1. CASE \/ UNCHANGED vars
             \/ \E m \in Messages : TakeSubscribers(m) \/ \E s \in Subs : Put(m, s)
             \/ \E s \in Subs : Subscribe(s) \/ Stream(s) \/ Disconnect(s)
    <2>1. /\ UNCHANGED <<seq, status, readVars, agentVars, marking, top, restored>>
          /\ step' = step \/ \E m \in Messages : /\ step[m] # "new"
                                                 /\ \E new \in {"putting", "over", step[m]} :
                                                      step' = [step EXCEPT ![m] = new]
      BY <1>1 DEF vars, busVars, TakeSubscribers, Put, Subscribe, Stream, Replay, SendBacklog,
                  SendLive, Disconnect
    <2>2. \A m \in Messages : step'[m] = "new" <=> step[m] = "new"
      BY <2>1, TypeParts DEF BusTypes
    <2>3. Active' = Active /\ InTable' = InTable
      BY <2>1 DEF Active, InTable
    <2> QED BY <2>1, <2>2, <2>3, TableKeeps
  <1>2. CASE Maintain
    <2>1. PICK S \in SUBSET InTable, new \in {"active", "archived", "deleted", "purged"} :
            /\ Becomes(S, new)
            /\ restored \subseteq restored' /\ (new = "active" => S \subseteq restored')
            /\ UNCHANGED <<seq, step, readVars, agentVars, marking, top>>
      <3> DEFINE Made(S, new) == /\ Becomes(S, new)
                                 /\ restored \subseteq restored' /\ (new = "active" => S \subseteq restored')
                                 /\ UNCHANGED <<seq, step, readVars, agentVars, marking, top>>
      <3>1. ASSUME NEW m \in Messages, Delete(m) \/ Archive(m) \/ Unarchive(m)
            PROVE  \E S \in SUBSET InTable, new \in {"active", "archived", "deleted", "purged"} : Made(S, new)
        <4>1. {m} \in SUBSET InTable
          BY <3>1 DEF Delete, Archive, Unarchive, InTable, Active
        <4>2. Made({m}, "deleted") \/ Made({m}, "archived") \/ Made({m}, "active")
          BY <3>1 DEF Delete, Archive, Unarchive, Upkeep
        <4> QED BY <4>1, <4>2
      <3>2. ASSUME NEW bound \in 1..(top + 1), NEW c \in Channels, ArchiveChannel(c, bound)
            PROVE  \E S \in SUBSET InTable, new \in {"active", "archived", "deleted", "purged"} : Made(S, new)
        <4>1. {m \in Active \intersect InChannel(c) : seq[m] < bound} \in SUBSET InTable
          BY DEF InTable, Active
        <4> QED BY <3>2, <4>1 DEF ArchiveChannel, Upkeep
      <3>3. ASSUME NEW which, NEW chans, NEW bound, Purge(which, chans, bound)
            PROVE  \E S \in SUBSET InTable, new \in {"active", "archived", "deleted", "purged"} : Made(S, new)
        BY <3>3 DEF Purge, Upkeep
      <3> HIDE DEF Made
      <3>4. \E S \in SUBSET InTable, new \in {"active", "archived", "deleted", "purged"} : Made(S, new)
        BY <1>2, <3>1, <3>2, <3>3 DEF Maintain
      <3> QED BY <3>4 DEF Made
    <2>2. /\ Active' \subseteq Active \union restored'
          /\ InTable' \subseteq InTable
          /\ \A m \in Messages : status'[m] = "unpublished" <=> status[m] = "unpublished"
      BY <2>1 DEF Becomes, Active, InTable
    <2> QED BY <2>1, <2>2, TableKeeps
  <1>3. [Next]_vars => \/ UNCHANGED vars \/ Maintain \/ HubDies \/ Read \/ Mark
                       \/ \E m \in Messages : Insert(m) \/ TakeSubscribers(m) \/ \E s \in Subs : Put(m, s)
                       \/ \E s \in Subs : Subscribe(s) \/ Stream(s) \/ Disconnect(s)
    BY DEF Next, Publish
  <1> QED BY <1>1, <1>2, <1>3, InsertKeeps, BeginReadKeeps, QueryKeeps, FinishKeeps, PeekKeeps,
             AnswerKeeps, MarkKeeps, HubDiesKeeps DEF Read

-----------------------------------------------------------------------------
(* What streams show *)

\* Between its insert and its last put, a message is on its way to the
\* connections that do not have it: it has still to look at the subscribers, or
\* to be put to this one.
OnItsWay(s, m) == step[m] = "inserted" \/ (step[m] = "putting" /\ s \in targets[m])
HasRows(s) ==
  subState[s] \in {"replaying", "live"} =>
    \A m \in Active \intersect InChannel(SubChannel[s]) :
      \/ m \in sent[s] \union backlog[s] \union ToSet(queue[s]) \union dropped[s] \union restored
      \/ OnItsWay(s, m)
StreamInv == \A s \in Subs : HasRows(s)

LEMMA ToSetOfAppend ==
  ASSUME NEW S, NEW q \in Seq(S), NEW e \in S
  PROVE  ToSet(q) \subseteq ToSet(Append(q, e)) /\ e \in ToSet(Append(q, e))
  <1>1. /\ DOMAIN q \subseteq DOMAIN Append(q, e)
        /\ \A i \in DOMAIN q : Append(q, e)[i] = q[i]
    OBVIOUS
  <1>2. Len(q) + 1 \in DOMAIN Append(q, e) /\ Append(q, e)[Len(q) + 1] = e
    OBVIOUS
  <1> QED BY <1>1, <1>2 DEF ToSet

LEMMA ToSetOfTail ==
  ASSUME NEW S, NEW q \in Seq(S), q # <<>>
  PROVE  ToSet(q) \subseteq ToSet(Tail(q)) \union {Head(q)}
  <1> SUFFICES ASSUME NEW i \in DOMAIN q, q[i] # Head(q) PROVE q[i] \in ToSet(Tail(q))
    BY DEF ToSet
  <1>1. i \in 1..Len(q) /\ i # 1
    OBVIOUS
  <1>2. i - 1 \in DOMAIN Tail(q) /\ Tail(q)[i - 1] = q[i]
    BY <1>1
  <1> QED BY <1>2 DEF ToSet

\* A step that takes nothing from a connection, and no row off its way to it.
LEMMA StreamKeeps ==
  ASSUME NEW s \in Subs, HasRows(s),
         Active' \subseteq Active \union restored', restored \subseteq restored',
         subState'[s] \in {"replaying", "live"} =>
           /\ subState[s] \in {"replaying", "live"}
           /\ sent[s] \subseteq sent'[s] /\ dropped[s] \subseteq dropped'[s]
           /\ backlog[s] \subseteq backlog'[s] \union sent'[s]
           /\ ToSet(queue[s]) \subseteq ToSet(queue'[s]) \union sent'[s]
           /\ \A m \in InChannel(SubChannel[s]) :
                OnItsWay(s, m) => OnItsWay(s, m)' \/ m \in ToSet(queue'[s]) \union dropped'[s]
  PROVE  HasRows(s)'
  BY DEF HasRows, InChannel

LEMMA NextStreamInv == ASSUME TypeOK, NumbersGiven, StreamInv, [Next]_vars PROVE StreamInv'
  <1> SUFFICES ASSUME NEW t \in Subs PROVE HasRows(t)'
    BY DEF StreamInv
  <1>0. HasRows(t) /\ StreamTypes /\ BusTypes
    BY TypeParts DEF StreamInv
  <1>1. CASE UNCHANGED <<busVars, streamVars, restored>>
    BY <1>0, <1>1 DEF HasRows, OnItsWay, busVars, streamVars, Active, InChannel
  <1>2. ASSUME NEW m \in Messages, Insert(m) PROVE HasRows(t)'
    <2>1. /\ UNCHANGED <<targets, subState, backlog, queue, sent, dropped, restored>>
          /\ step' = [step EXCEPT ![m] = "inserted"] /\ step[m] = "new"
          /\ status' = [status EXCEPT ![m] = "active"]
      BY <1>2 DEF Insert, streamVars
    <2>2. Active' \subseteq Active \union {m}
      BY <1>0, <2>1 DEF Active, BusTypes
    <2>3. OnItsWay(t, m)' /\ \A k \in Messages \ {m} : OnItsWay(t, k)' = OnItsWay(t, k)
      BY <1>0, <2>1 DEF OnItsWay, BusTypes
    <2> QED BY <1>0, <2>1, <2>2, <2>3 DEF HasRows, InChannel, Active
  <1>3. ASSUME NEW m \in Messages, TakeSubscribers(m) PROVE HasRows(t)'
    <2> DEFINE wanting == {s \in Subs : subState[s] # "off" /\ SubChannel[s] = ChannelOf[m]}
    <2>1. /\ UNCHANGED <<status, subState, backlog, queue, sent, dropped, restored>>
          /\ targets' = [targets EXCEPT ![m] = wanting]
          /\ step' = [step EXCEPT ![m] = IF wanting = {} THEN "over" ELSE "putting"]
      BY <1>3 DEF TakeSubscribers, streamVars
    <2>2. subState[t] # "off" /\ m \in InChannel(SubChannel[t]) => OnItsWay(t, m)'
      <3>1. subState[t] # "off" /\ m \in InChannel(SubChannel[t]) => t \in wanting
        BY DEF InChannel
      <3> HIDE DEF wanting
      <3> QED BY <1>0, <2>1, <3>1 DEF OnItsWay, BusTypes
    <2>3. \A k \in Messages \ {m} : OnItsWay(t, k) => OnItsWay(t, k)'
      <3> HIDE DEF wanting
      <3> QED BY <1>0, <2>1 DEF OnItsWay, BusTypes
    <2>4. \A k \in InChannel(SubChannel[t]) :
            subState[t] # "off" /\ OnItsWay(t, k) => OnItsWay(t, k)'
      BY <2>2, <2>3 DEF InChannel
    <2> QED BY <1>0, <2>1, <2>4, StreamKeeps DEF Active
  <1>4. ASSUME NEW m \in Messages, NEW s \in Subs, Put(m, s) PROVE HasRows(t)'
    <2>1. /\ UNCHANGED <<status, subState, backlog, sent, restored>>
          /\ targets' = [targets EXCEPT ![m] = @ \ {s}] /\ step[m] = "putting" /\ s \in targets[m]
          /\ step' = [step EXCEPT ![m] = IF targets[m] = {s} THEN "over" ELSE @]
      BY <1>4 DEF Put
    <2>2. \A k \in Messages : (k # m \/ s # t) /\ OnItsWay(t, k) => OnItsWay(t, k)'
      BY <1>0, <2>1 DEF OnItsWay, BusTypes
    <2>3. queue[t] \in Seq(Messages)
      BY <1>0 DEF StreamTypes
    <2>4. ToSet(queue[t]) \subseteq ToSet(queue'[t]) /\ dropped[t] \subseteq dropped'[t]
      <3>1. queue'[t] = queue[t] \/ queue'[t] = Append(queue[t], m)
        BY <1>0, <1>4 DEF Put, StreamTypes
      <3>2. dropped[t] \subseteq dropped'[t]
        BY <1>0, <1>4 DEF Put, StreamTypes
      <3> QED BY <2>3, <3>1, <3>2, ToSetOfAppend
    <2>5. s = t /\ subState[t] # "off" => m \in ToSet(queue'[t]) \union dropped'[t]
      <3>1. s = t /\ subState[t] # "off" => queue'[t] = Append(queue[t], m) \/ m \in dropped'[t]
        BY <1>0, <1>4 DEF Put, StreamTypes
      <3> QED BY <2>3, <3>1, ToSetOfAppend
    <2>6. \A k \in InChannel(SubChannel[t]) : subState[t] # "off" /\ OnItsWay(t, k) =>
            OnItsWay(t, k)' \/ k \in ToSet(queue'[t]) \union dropped'[t]
      BY <2>2, <2>5 DEF InChannel
    <2> QED BY <1>0, <2>1, <2>4, <2>6, StreamKeeps DEF Active
  <1>5. ASSUME NEW s \in Subs, Subscribe(s) \/ Disconnect(s) \/ Replay(s) \/ SendBacklog(s) \/ SendLive(s)
        PROVE  HasRows(t)'
    <2>1. UNCHANGED <<status, step, targets, restored, Active>>
          /\ \A k \in Messages : OnItsWay(t, k)' = OnItsWay(t, k)
      BY <1>5 DEF Subscribe, Disconnect, Replay, SendBacklog, SendLive, busVars, Active, OnItsWay
    <2>2. CASE s # t
      <3>1. /\ subState'[t] = subState[t] /\ sent'[t] = sent[t] /\ dropped'[t] = dropped[t]
            /\ backlog'[t] = backlog[t] /\ queue'[t] = queue[t]
        BY <1>0, <1>5, <2>2 DEF Subscribe, Disconnect, Replay, SendBacklog, SendLive, StreamTypes
      <3> QED BY <1>0, <2>1, <3>1 DEF HasRows, InChannel, Active
    <2>3. CASE s = t /\ (Subscribe(t) \/ Disconnect(t))
      BY <1>0, <2>3 DEF Subscribe, Disconnect, StreamTypes, HasRows
    <2>4. CASE s = t /\ Replay(t)
      BY <1>0, <2>1, <2>4 DEF Replay, StreamTypes, HasRows, InChannel
    <2>5. CASE s = t /\ SendBacklog(t)
      <3>1. /\ subState[t] = "replaying" /\ UNCHANGED <<queue, dropped>>
            /\ backlog[t] \subseteq backlog'[t] \union sent'[t] /\ sent[t] \subseteq sent'[t]
        BY <1>0, <2>5 DEF SendBacklog, StreamTypes
      <3> QED BY <1>0, <2>1, <3>1, StreamKeeps DEF InChannel
    <2>6. CASE s = t /\ SendLive(t)
      <3>1. queue[t] \in Seq(Messages) /\ queue[t] # <<>> /\ subState[t] = "live"
        BY <1>0, <2>6 DEF SendLive, StreamTypes
      <3>2. /\ UNCHANGED <<backlog, dropped, subState>> /\ queue'[t] = Tail(queue[t])
            /\ sent'[t] = sent[t] \union {Head(queue[t])}
        BY <1>0, <2>6 DEF SendLive, StreamTypes
      <3>3. ToSet(queue[t]) \subseteq ToSet(queue'[t]) \union sent'[t]
        BY <3>1, <3>2, ToSetOfTail
      <3> QED BY <1>0, <2>1, <3>1, <3>2, <3>3, StreamKeeps DEF InChannel
    <2> QED BY <1>5, <2>2, <2>3, <2>4, <2>5, <2>6
  <1>6. CASE HubDies
    BY <1>6 DEF HubDies, HasRows
  <1>7. CASE Maintain
    <2>1. /\ UNCHANGED <<step, targets, subState, backlog, queue, sent, dropped>>
          /\ restored \subseteq restored' /\ Active' \subseteq Active \union restored'
      BY <1>7 DEF Maintain, Delete, Archive, Unarchive, ArchiveChannel, Purge, Upkeep, Becomes,
                  Active, streamVars
    <2> QED BY <1>0, <2>1, StreamKeeps DEF OnItsWay
  <1>8. [Next]_vars => \/ UNCHANGED <<busVars, streamVars, restored>> \/ Maintain \/ HubDies
                       \/ \E m \in Messages : Insert(m) \/ TakeSubscribers(m) \/ \E s \in Subs : Put(m, s)
                       \/ \E s \in Subs : \/ Subscribe(s) \/ Disconnect(s) \/ Replay(s)
                                          \/ SendBacklog(s) \/ SendLive(s)
    BY DEF vars, Next, Publish, Stream, Read, BeginRead, Query, Finish, Peek, Answer, AnswerLost,
           Mark, MarkTo, AskLargest, MarkAll
  <1> QED BY <1>1, <1>2, <1>3, <1>4, <1>5, <1>6, <1>7, <1>8

-----------------------------------------------------------------------------
BusInv == TypeOK /\ ReadInv /\ StreamInv

LEMMA InitBusInv == Init => BusInv
  <1> SUFFICES ASSUME Init PROVE BusInv
    OBVIOUS
  <1> USE DEF Init
  <1>1. TypeOK
    <2>1. BusTypes /\ ReadTypes /\ AgentTypes
      BY DEF BusTypes, ReadTypes, AgentTypes
    <2>2. <<>> \in Seq(Messages) /\ Len(<<>>) <= MaxQueue
      BY BusConstants
    <2>3. StreamTypes
      BY <2>2 DEF StreamTypes
    <2>4. RestTypes
      BY BusConstants DEF RestTypes
    <2> QED BY <2>1, <2>3, <2>4, TypeParts
  <1>2. /\ Active = {} /\ InTable = {} /\ Inserted = {} /\ \A a \in Agents : Answering(a) = {}
    BY DEF Active, InTable, Inserted, Answering
  <1>3. NumbersGiven /\ Bounded /\ Known /\ Twins /\ Locals
    BY <1>2 DEF NumbersGiven, Bounded, Known, Twins, Locals
  <1>4. PassedHaveAccounts /\ QueriedAreFound /\ SeenWerePassed /\ FoundAreNew
    BY <1>2 DEF PassedHaveAccounts, QueriedAreFound, SeenWerePassed, FoundAreNew
  <1>5. SeenArePassed /\ HiddenForACause /\ ShownOnce
    BY <1>2 DEF SeenArePassed, HiddenForACause, ShownOnce
  <1>6. StreamInv
    BY <1>2 DEF StreamInv, HasRows
  <1> QED BY <1>1, <1>3, <1>4, <1>5, <1>6 DEF BusInv, ReadInv

LEMMA NextBusInv == BusInv /\ [Next]_vars => BusInv'
  <1> SUFFICES ASSUME BusInv, [Next]_vars PROVE BusInv'
    OBVIOUS
  <1>1. TypeOK /\ ReadInv /\ StreamInv /\ NumbersGiven
    BY DEF BusInv, ReadInv
  <1>2. TypeOK'
    <2>1. CASE Next
      <3>1. BusTypes' /\ StreamTypes' /\ ReadTypes' /\ AgentTypes' /\ RestTypes'
        BY <1>1, <2>1, NextBusTypes, NextStreamTypes, NextReadTypes, NextAgentTypes, NextRestTypes
      <3> QED BY <3>1 DEF TypeOK, BusTypes, StreamTypes, ReadTypes, AgentTypes, RestTypes
    <2>2. CASE UNCHANGED vars
      BY <1>1, <2>2 DEF TypeOK, vars, busVars, streamVars, readVars, agentVars
    <2> QED BY <2>1, <2>2
  <1>3. ReadInv' /\ StreamInv'
    BY <1>1, NextReadInv, NextStreamInv
  <1> QED BY <1>2, <1>3 DEF BusInv

\* The bus keeps its types: in particular no subscriber's queue outgrows its
\* size, for any number of messages, connections and reads.  (bus.py:155-178)
THEOREM BusTypeCorrect == Spec => []TypeOK
  <1>1. BusInv => TypeOK
    BY DEF BusInv
  <1> QED BY <1>1, InitBusInv, NextBusInv, PTL DEF Spec

\* For any messages, agents, overlapping reads and connections: a cursor hides
\* only what its agent was shown or a named cause explains, nothing is shown
\* twice without mark_read, and a stream has no gap between its backlog and its
\* live messages.  (bus.py:155-262, hub.py:917-924)
THEOREM BusLosesNothing == Spec => []BusAccounted
  <1>1. BusInv => BusAccounted
    <2> SUFFICES ASSUME BusInv PROVE BusAccounted
      OBVIOUS
    <2>1. HiddenForACause /\ ShownOnce
      BY DEF BusInv, ReadInv
    <2>2. StreamHasNoGap
      BY DEF BusInv, StreamInv, HasRows, StreamHasNoGap, OnItsWay
    <2> QED BY <2>1, <2>2 DEF BusAccounted
  <1> QED BY <1>1, InitBusInv, NextBusInv, PTL DEF Spec

-----------------------------------------------------------------------------
(* THE REFINEMENT QUEUE *)

(***************************************************************************)
(* For any candidates, reviews and deaths of the hub: a candidate that was *)
(* enqueued stays in the file, and one accepted is in memory once, unless  *)
(* two reviews were open at a time or one was cut. A review replaces the   *)
(* file by the copy it has read, so what holds of the file must hold of    *)
(* every copy (`Held').                                                    *)
(***************************************************************************)

\* What is said of the queue must be said of each copy of it that a review may
\* put in its place.
Held(f) ==
  \A c \in Candidates :
    /\ append[c] = "over" /\ f[c] = "none" => c \in mixed
    /\ append[c] # "over" => f[c] = "none"
    /\ f[c] = "accepted" => memories[c] > 0

\* Two reviews at a time have mixed what they touch.  So a candidate that is
\* not mixed has been one review's at a time, and that review's copy is up to
\* date; and so is the temporary file, when it is that review's turn to rename.
ReviewsHold ==
  \A r \in Open :
    /\ subject[r] \in Candidates /\ append[subject[r]] = "over"
    /\ Held(items[r])
    /\ \A c \in Candidates \ (mixed \union cut) : items[r][c] = "pending" => memories[c] = 0
    /\ \A q \in Open \ {r} : subject[r] \in mixed
    /\ subject[r] \notin mixed \union cut =>
         memories[subject[r]] <= IF review[r] = "accepting" THEN 0 ELSE 1
    /\ review[r] # "accepting" => items[r][subject[r]] \in {"accepted", "rejected"}

NewHaveNoMemory == \A c \in Candidates : append[c] # "over" => memories[c] = 0

TempIsOwn ==
  \A r \in Reviews : review[r] = "replacing" =>
    /\ subject[r] \notin mixed => temp = items[r]
    /\ temp # NoFile => \E q \in Reviews : review[q] = "replacing" /\ temp = items[q]

RefineInv == /\ RefineTypeOK /\ Held(file) /\ ReviewsHold /\ NewHaveNoMemory /\ TempIsOwn
             /\ PromotionsAccounted

LEMMA InitRefineInv == RefineInit => RefineInv
  <1> SUFFICES ASSUME RefineInit PROVE RefineInv
    OBVIOUS
  <1> USE DEF RefineInit
  <1>1. RefineTypeOK
    BY RefineConstants DEF RefineTypeOK, Lines, NoLines
  <1>2. Open = {}
    BY DEF Open, Idle
  <1>3. Held(file) /\ ReviewsHold /\ NewHaveNoMemory /\ TempIsOwn
    BY <1>2 DEF Held, NoLines, ReviewsHold, NewHaveNoMemory, TempIsOwn
  <1>4. PromotionsAccounted
    BY DEF PromotionsAccounted, NoLines
  <1> QED BY <1>1, <1>3, <1>4 DEF RefineInv

LEMMA AppendKeeps ==
  ASSUME RefineInv, NEW c \in Candidates, OpenAppend(c) \/ WriteAppend(c)
  PROVE  RefineInv'
  <1> USE DEF RefineInv
  <1>1. /\ UNCHANGED <<temp, review, subject, items, memories, faults, cut>>
        /\ Open' = Open /\ append[c] # "over" /\ mixed \subseteq mixed'
        /\ \E new \in {"opened", "over"} : append' = [append EXCEPT ![c] = new]
        /\ \/ file' = file /\ (append'[c] = "over" => c \in mixed')
           \/ file' = [file EXCEPT ![c] = "pending"] /\ (Open # {} => c \in mixed')
    BY DEF OpenAppend, WriteAppend, Open, Idle, RefineTypeOK
  <1>2. /\ append' \in [Candidates -> {"new", "opened", "adrift", "over", "killed"}]
        /\ \A k \in Candidates \ {c} : append'[k] = append[k] /\ file'[k] = file[k]
        /\ file' \in Lines /\ file[c] = "none" /\ memories[c] = 0
    BY <1>1 DEF RefineTypeOK, Lines, Held, NewHaveNoMemory
  <1>3. RefineTypeOK'
    BY <1>1, <1>2 DEF RefineTypeOK, OpenAppend, WriteAppend
  <1>4. file'[c] = file[c] \/ file'[c] = "pending"
    BY <1>1 DEF RefineTypeOK, Lines
  <1>5. Held(file)'
    <2>1. append'[c] = "over" /\ file'[c] = "none" => c \in mixed'
      BY <1>1 DEF RefineTypeOK, Lines
    <2>2. append'[c] # "over" => file'[c] = "none"
      BY <1>2 DEF OpenAppend, WriteAppend, RefineTypeOK, Lines
    <2>3. file'[c] # "accepted"
      BY <1>2, <1>4
    <2> QED BY <1>1, <1>2, <2>1, <2>2, <2>3 DEF Held
  <1>6. ReviewsHold'
    <2>1. ASSUME NEW r \in Open
          PROVE  /\ subject[r] # c /\ Held(items[r])' /\ items[r][c] = "none"
      <3>1. subject[r] # c /\ Held(items[r]) /\ items[r][c] = "none"
        BY <1>1 DEF ReviewsHold, Held
      <3>2. append'[c] = "over" => c \in mixed'
        BY <1>1, <2>1
      <3> QED BY <1>1, <1>2, <3>1, <3>2 DEF Held
    <2> QED BY <1>1, <1>2, <2>1 DEF ReviewsHold
  <1>7. NewHaveNoMemory' /\ TempIsOwn'
    BY <1>1, <1>2 DEF NewHaveNoMemory, TempIsOwn
  <1>8. PromotionsAccounted'
    BY <1>1, <1>2, <1>4 DEF PromotionsAccounted
  <1> QED BY <1>3, <1>5, <1>6, <1>7, <1>8

LEMMA BeginKeeps ==
  ASSUME RefineInv, NEW r \in Reviews, NEW c \in Candidates, Idle(r), file[c] # "none",
         NEW where \in {"accepting", "marking"}, NEW lines \in Lines, Begin(r, c, where, lines),
         \A k \in Candidates \ {c} : lines[k] = file[k],
         where = "accepting" => lines = file /\ file[c] = "pending",
         where = "marking" => lines[c] = "rejected"
  PROVE  RefineInv'
  <1> USE DEF RefineInv
  <1>1. /\ UNCHANGED <<file, temp, append, memories, faults, cut>>
        /\ review'[r] = where /\ subject'[r] = c /\ items'[r] = lines
        /\ \A q \in Reviews \ {r} : /\ review'[q] = review[q] /\ subject'[q] = subject[q]
                                    /\ items'[q] = items[q]
    BY DEF Begin, RefineTypeOK
  <1>2. r \notin Open /\ Open' = Open \union {r}
    BY <1>1 DEF Open, Idle
  <1>3. /\ mixed \subseteq mixed'
        /\ Open # {} => c \in mixed' /\ \A q \in Open : subject[q] \in mixed'
    BY DEF Begin
  <1>4. RefineTypeOK'
    <2>1. mixed' \subseteq Candidates
      BY DEF Begin, RefineTypeOK, ReviewsHold
    <2> QED BY <1>1, <2>1 DEF Begin, RefineTypeOK
  <1>5. append[c] = "over"
    BY DEF Held
  <1>6. Held(file)' /\ Held(lines)' /\ \A q \in Open : Held(items[q])'
    <2>1. Held(lines)
      BY <1>5 DEF Held
    <2>2. ASSUME NEW f, Held(f) PROVE /\ \A k \in Candidates : append'[k] = "over" /\ f[k] = "none" => k \in mixed'
                                      /\ \A k \in Candidates : append'[k] # "over" => f[k] = "none"
                                      /\ \A k \in Candidates : f[k] = "accepted" => memories'[k] > 0
      BY <1>1, <1>3, <2>2 DEF Held
    <2>3. \A q \in Open : items'[q] = items[q] /\ Held(items[q])
      BY <1>1, <1>2 DEF ReviewsHold, Open
    <2> QED BY <1>1, <2>1, <2>2, <2>3 DEF Held
  <1>7. \A k \in Candidates \ (mixed' \union cut) :
          /\ file[k] = "pending" => memories[k] = 0
          /\ memories[k] <= 1
    <2> SUFFICES ASSUME NEW k \in Candidates \ (mixed' \union cut)
                 PROVE  (file[k] = "pending" => memories[k] = 0) /\ memories[k] <= 1
      OBVIOUS
    <2>1. k \notin mixed \union cut \union {subject[q] : q \in Open}
      BY <1>3
    <2>2. memories[k] \in Nat
      BY DEF RefineTypeOK
    <2> QED BY <2>1, <2>2 DEF PromotionsAccounted
  <1>8. ReviewsHold'
    <2>1. ASSUME NEW q \in Open
          PROVE  /\ subject[q] \in Candidates /\ append[subject[q]] = "over" /\ subject[q] \in mixed'
                 /\ \A k \in Candidates \ (mixed' \union cut) : items[q][k] = "pending" => memories[k] = 0
                 /\ review[q] # "accepting" => items[q][subject[q]] \in {"accepted", "rejected"}
                 /\ c \in mixed'
      BY <1>3 DEF ReviewsHold
    <2>2. /\ \A k \in Candidates \ (mixed' \union cut) : lines[k] = "pending" => memories[k] = 0
          /\ c \notin mixed' \union cut => memories[c] <= IF where = "accepting" THEN 0 ELSE 1
          /\ where # "accepting" => lines[c] \in {"accepted", "rejected"}
      <3>1. memories[c] \in Nat
        BY DEF RefineTypeOK
      <3> QED BY <1>7, <3>1
    <2>3. /\ \A q \in Open : q \in Reviews \ {r} /\ Held(items[q])'
          /\ Held(lines)'
      BY <1>2, <1>6 DEF Open
    <2>4. ASSUME NEW q \in Open'
          PROVE  /\ subject'[q] \in Candidates /\ append'[subject'[q]] = "over"
                 /\ Held(items[q])'
                 /\ \A k \in Candidates \ (mixed' \union cut') : items'[q][k] = "pending" => memories'[k] = 0
                 /\ \A p \in Open' \ {q} : subject'[q] \in mixed'
                 /\ subject'[q] \notin mixed' \union cut' =>
                      memories'[subject'[q]] <= IF review'[q] = "accepting" THEN 0 ELSE 1
                 /\ review'[q] # "accepting" => items'[q][subject'[q]] \in {"accepted", "rejected"}
      <3>1. CASE q = r
        <4>1. Held(items[r])'
          BY <1>1, <2>3 DEF Held
        <4> QED BY <1>1, <1>2, <1>5, <2>1, <2>2, <3>1, <4>1
      <3>2. CASE q # r
        <4>1. q \in Open
          BY <1>2, <3>2
        <4> QED BY <1>1, <1>2, <2>1, <2>3, <3>2, <4>1
      <3> QED BY <3>1, <3>2
    <2> QED BY <2>4 DEF ReviewsHold
  <1>9. NewHaveNoMemory' /\ TempIsOwn'
    <2>1. review[r] = "idle" /\ review'[r] # "replacing"
      BY <1>1 DEF Idle
    <2>2. \A q \in Reviews : review[q] = "replacing" => q \in Reviews \ {r}
      BY <2>1
    <2>3. TempIsOwn'
      BY <1>1, <1>3, <2>1, <2>2 DEF TempIsOwn
    <2> QED BY <1>1, <2>3 DEF NewHaveNoMemory
  <1>10. PromotionsAccounted'
    <2>1. \A k \in Candidates : k \in mixed \union cut \union {subject[q] : q \in Open} =>
                                k \in mixed' \union cut
      BY <1>3
    <2> QED BY <1>1, <2>1 DEF PromotionsAccounted
  <1> QED BY <1>4, <1>6, <1>8, <1>9, <1>10

LEMMA WriteMemoryKeeps == ASSUME RefineInv, NEW r \in Reviews, WriteMemory(r) PROVE RefineInv'
  <1> USE DEF RefineInv
  <1> DEFINE c == subject[r]
  <1>1. r \in Open /\ c \in Candidates /\ review[r] = "accepting" /\ append[c] = "over"
    BY DEF WriteMemory, Open, Idle, ReviewsHold
  <1>2. /\ UNCHANGED <<file, temp, append, subject, faults, mixed, cut>>
        /\ review'[r] = "marking" /\ items'[r][c] = "accepted"
        /\ \A k \in Candidates \ {c} : items'[r][k] = items[r][k] /\ memories'[k] = memories[k]
        /\ memories'[c] = memories[c] + 1 /\ memories[c] \in Nat /\ memories[c] < MaxWrites
        /\ \A q \in Reviews \ {r} : review'[q] = review[q] /\ items'[q] = items[q]
    BY <1>1 DEF WriteMemory, RefineTypeOK, Lines
  <1>3. Open' = Open
    BY <1>1, <1>2 DEF Open, Idle
  <1>4. \A k \in Candidates : memories[k] \in Nat /\ memories'[k] \in Nat /\ memories'[k] >= memories[k]
    BY <1>2 DEF RefineTypeOK
  <1>5. RefineTypeOK'
    <2>1. memories' \in [Candidates -> 0..MaxWrites]
      <3>1. memories[c] + 1 \in 0..MaxWrites
        BY <1>2, RefineConstants
      <3> QED BY <1>1, <3>1 DEF WriteMemory, RefineTypeOK
    <2>2. items' \in [Reviews -> Lines]
      <3>1. [items[r] EXCEPT ![c] = "accepted"] \in Lines
        BY DEF RefineTypeOK, Lines
      <3> QED BY <3>1 DEF WriteMemory, RefineTypeOK
    <2> QED BY <2>1, <2>2 DEF WriteMemory, RefineTypeOK
  <1>6. ASSUME NEW f, Held(f) PROVE \A k \in Candidates :
                                      /\ append'[k] = "over" /\ f[k] = "none" => k \in mixed'
                                      /\ append'[k] # "over" => f[k] = "none"
                                      /\ f[k] = "accepted" => memories'[k] > 0
    BY <1>2, <1>4, <1>6 DEF Held
  <1>7. Held(file)'
    BY <1>2, <1>6 DEF Held
  <1>8. ReviewsHold'
    <2>1. ASSUME NEW q \in Open PROVE Held(items[q])'
      <3>1. Held(items[q])
        BY DEF ReviewsHold
      <3>2. CASE q = r
        BY <1>1, <1>2, <1>4, <1>6, <3>1, <3>2 DEF Held
      <3>3. CASE q # r
        BY <1>2, <1>6, <3>1, <3>3 DEF Held, Open
      <3> QED BY <3>2, <3>3
    <2>2. ASSUME NEW q \in Open, NEW k \in Candidates \ (mixed \union cut), items'[q][k] = "pending"
          PROVE  memories'[k] = 0
      <3>1. k # c
        BY <1>1, <1>2, <2>2 DEF ReviewsHold, Open
      <3>2. items[q][k] = "pending"
        BY <1>2, <2>2, <3>1 DEF Open
      <3> QED BY <1>2, <2>2, <3>1, <3>2 DEF ReviewsHold
    <2>3. ASSUME NEW q \in Open, subject[q] \notin mixed \union cut
          PROVE  memories'[subject[q]] <= IF review'[q] = "accepting" THEN 0 ELSE 1
      <3>1. q = r
        BY <1>1, <2>3 DEF ReviewsHold
      <3>2. memories[c] <= 0
        BY <1>1, <2>3, <3>1 DEF ReviewsHold
      <3> QED BY <1>2, <3>1, <3>2
    <2>4. \A q \in Open : review'[q] # "accepting" => items'[q][subject[q]] \in {"accepted", "rejected"}
      BY <1>2 DEF ReviewsHold, Open
    <2> QED BY <1>2, <1>3, <2>1, <2>2, <2>3, <2>4 DEF ReviewsHold
  <1>9. NewHaveNoMemory'
    BY <1>1, <1>2 DEF NewHaveNoMemory
  <1>10. TempIsOwn'
    <2>1. \A q \in Reviews : review'[q] = "replacing" <=> review[q] = "replacing"
      BY <1>1, <1>2
    <2>2. \A q \in Reviews : review[q] = "replacing" => items'[q] = items[q]
      BY <1>1, <1>2
    <2> QED BY <1>2, <2>1, <2>2 DEF TempIsOwn
  <1>11. PromotionsAccounted'
    BY <1>1, <1>2, <1>3, <1>4 DEF PromotionsAccounted
  <1> QED BY <1>5, <1>7, <1>8, <1>9, <1>10, <1>11

LEMMA WriteTempKeeps == ASSUME RefineInv, NEW r \in Reviews, WriteTemp(r) PROVE RefineInv'
  <1> USE DEF RefineInv
  <1>1. /\ UNCHANGED <<file, append, subject, items, memories, faults, mixed, cut>>
        /\ review[r] = "marking" /\ review'[r] = "replacing" /\ temp' = items[r]
        /\ \A q \in Reviews \ {r} : review'[q] = review[q]
    BY DEF WriteTemp, RefineTypeOK
  <1>2. Open' = Open /\ r \in Open
    BY <1>1 DEF Open, Idle
  <1>3. RefineTypeOK'
    BY DEF WriteTemp, RefineTypeOK
  <1>4. Held(file)' /\ \A q \in Open : Held(items[q])'
    BY <1>1 DEF Held, ReviewsHold
  <1>5. \A q \in Open : review'[q] = "accepting" <=> review[q] = "accepting"
    BY <1>1 DEF Open
  <1>6. ReviewsHold'
    BY <1>1, <1>2, <1>4, <1>5 DEF ReviewsHold
  <1>7. NewHaveNoMemory' /\ PromotionsAccounted'
    BY <1>1, <1>2 DEF NewHaveNoMemory, PromotionsAccounted
  <1>8. TempIsOwn'
    <2>1. \A q \in Reviews \ {r} : review[q] = "replacing" => subject[q] \in mixed
      BY <1>2 DEF ReviewsHold, Open, Idle
    <2> QED BY <1>1, <2>1 DEF TempIsOwn
  <1> QED BY <1>3, <1>4, <1>6, <1>7, <1>8

\* The end of a review: whoever shares its candidate is mixed, and the queue has
\* a copy that holds, on which this candidate is not pending with a memory.
LEMMA EndKeeps ==
  ASSUME RefineInv, NEW r \in Open, End(r), UNCHANGED <<memories, mixed, cut>>,
         RefineTypeOK', Held(file)',
         \A c \in Candidates : append'[c] = "over" <=> append[c] = "over",
         \A c \in Candidates \ (mixed \union cut) :
            c # subject[r] /\ file'[c] = "pending" => memories[c] = 0 \/ file[c] = "pending",
         subject[r] \notin mixed \union cut =>
            memories[subject[r]] <= 1 /\ (file'[subject[r]] = "pending" => memories[subject[r]] = 0),
         TempIsOwn'
  PROVE  RefineInv'
  <1> USE DEF RefineInv
  <1>1. /\ review'[r] = "idle"
        /\ \A q \in Reviews \ {r} : /\ review'[q] = review[q] /\ subject'[q] = subject[q]
                                    /\ items'[q] = items[q]
    BY DEF End, RefineTypeOK, Open
  <1>2. Open' = Open \ {r}
    BY <1>1 DEF Open, Idle
  <1>3. \A q \in Open' : q \in Reviews \ {r} /\ q \in Open
    BY <1>2 DEF Open
  <1>4. ReviewsHold'
    <2>1. \A q \in Open' : Held(items[q])'
      BY <1>1, <1>3 DEF Held, ReviewsHold
    <2> QED BY <1>1, <1>3, <2>1 DEF ReviewsHold
  <1>5. NewHaveNoMemory'
    BY DEF NewHaveNoMemory
  <1>6. PromotionsAccounted'
    <2> SUFFICES ASSUME NEW c \in Candidates, c \notin mixed \union cut,
                        memories[c] > 1 \/ (memories[c] = 1 /\ file'[c] = "pending")
                 PROVE  \E q \in Open' : c = subject'[q]
      BY DEF PromotionsAccounted, Held
    <2>1. memories[c] \in Nat
      BY DEF RefineTypeOK
    <2>2. c # subject[r]
      BY <2>1
    <2>3. memories[c] > 1 \/ (memories[c] = 1 /\ file[c] = "pending")
      BY <2>1, <2>2
    <2>4. PICK q \in Open : c = subject[q]
      BY <2>3 DEF PromotionsAccounted
    <2> QED BY <1>1, <1>2, <2>2, <2>4 DEF Open
  <1> QED BY <1>4, <1>5, <1>6

LEMMA MemoryFailsKeeps == ASSUME RefineInv, NEW r \in Reviews, MemoryFails(r) PROVE RefineInv'
  <1> USE DEF RefineInv
  <1>1. /\ r \in Open /\ End(r) /\ UNCHANGED <<file, temp, append, memories, mixed, cut>>
        /\ review[r] = "accepting"
    BY DEF MemoryFails, Open, Idle
  <1>2. RefineTypeOK'
    <2>1. faults + 1 \in 0..MaxFaults
      BY RefineConstants DEF MemoryFails, RefineTypeOK
    <2> QED BY <1>1, <2>1, RefineConstants DEF MemoryFails, End, RefineTypeOK, Lines, NoLines
  <1>3. Held(file)'
    BY <1>1 DEF Held
  <1>4. subject[r] \notin mixed \union cut => memories[subject[r]] = 0
    <2>1. memories[subject[r]] \in Nat
      BY <1>1 DEF ReviewsHold, RefineTypeOK
    <2>2. subject[r] \notin mixed \union cut => memories[subject[r]] <= 0
      BY <1>1 DEF ReviewsHold
    <2> QED BY <2>1, <2>2
  <1>5. TempIsOwn'
    <2>1. \A q \in Reviews : /\ review'[q] = "replacing" <=> review[q] = "replacing"
                             /\ review[q] = "replacing" => items'[q] = items[q] /\ subject'[q] = subject[q]
      BY <1>1 DEF End, RefineTypeOK
    <2> QED BY <1>1, <2>1 DEF TempIsOwn
  <1> QED BY <1>1, <1>2, <1>3, <1>4, <1>5, EndKeeps

LEMMA ReplaceKeeps == ASSUME RefineInv, NEW r \in Reviews, Replace(r) PROVE RefineInv'
  <1> USE DEF RefineInv
  <1>1. /\ r \in Open /\ review[r] = "replacing" /\ End(r) /\ temp' = NoFile
        /\ UNCHANGED <<memories, faults, mixed, cut>>
    BY DEF Replace, Open, Idle
  <1>2. \A c \in Candidates : append'[c] = "over" <=> append[c] = "over"
    BY DEF Replace, RefineTypeOK
  <1>3. PICK q \in Open : \/ file' = file /\ temp = NoFile
                          \/ file' = items[q] /\ temp = items[q]
    <2>1. CASE temp = NoFile
      BY <1>1, <2>1 DEF Replace
    <2>2. CASE temp # NoFile
      BY <1>1, <2>2 DEF Replace, TempIsOwn, Open, Idle
    <2> QED BY <2>1, <2>2
  <1>4. RefineTypeOK'
    <2>1. file' \in Lines
      BY <1>3 DEF RefineTypeOK, Open
    <2>2. append' \in [Candidates -> {"new", "opened", "adrift", "over", "killed"}]
      BY DEF Replace, RefineTypeOK
    <2>3. NoLines \in Lines
      BY DEF NoLines, Lines
    <2> QED BY <1>1, <2>1, <2>2, <2>3 DEF End, RefineTypeOK
  <1>5. Held(file)'
    <2>1. Held(file) /\ Held(items[q])
      BY DEF ReviewsHold
    <2> QED BY <1>1, <1>2, <1>3, <2>1 DEF Held
  <1>6. \A c \in Candidates \ (mixed \union cut) :
          file'[c] = "pending" => memories[c] = 0 \/ file[c] = "pending"
    BY <1>3 DEF ReviewsHold
  <1>7. ASSUME subject[r] \notin mixed \union cut
        PROVE  memories[subject[r]] <= 1 /\ file'[subject[r]] # "pending"
    <2>1. memories[subject[r]] <= 1 /\ items[r][subject[r]] \in {"accepted", "rejected"}
      BY <1>1, <1>7 DEF ReviewsHold
    <2>2. temp = items[r] /\ items[r] # NoFile
      BY <1>1, <1>7, RefineConstants DEF TempIsOwn, RefineTypeOK, Lines
    <2>3. file' = items[r]
      BY <2>2 DEF Replace
    <2> QED BY <2>1, <2>3
  <1>8. TempIsOwn'
    <2> SUFFICES ASSUME NEW p \in Reviews, review'[p] = "replacing" PROVE subject'[p] \in mixed
      BY <1>1 DEF TempIsOwn
    <2>1. p # r /\ review[p] = "replacing" /\ subject'[p] = subject[p]
      BY <1>1 DEF End, RefineTypeOK
    <2> QED BY <1>1, <2>1 DEF ReviewsHold, Open, Idle
  <1> QED BY <1>1, <1>2, <1>4, <1>5, <1>6, <1>7, <1>8, EndKeeps

LEMMA RefineHubDiesKeeps == ASSUME RefineInv, RefineHubDies PROVE RefineInv'
  <1> USE DEF RefineInv
  <1>1. /\ UNCHANGED <<file, temp, memories, mixed>> /\ Open' = {}
        /\ \A c \in Candidates : append'[c] = "over" <=> append[c] = "over"
        /\ \A r \in Reviews : review'[r] = "idle"
        /\ cut \subseteq cut'
        /\ \A r \in Open : review[r] = "accepting" \/ subject[r] \in cut'
    BY DEF RefineHubDies, Open, Idle, RefineTypeOK
  <1>2. RefineTypeOK'
    <2>1. cut' \subseteq Candidates
      BY DEF RefineHubDies, RefineTypeOK, ReviewsHold, Open, Idle
    <2>2. append' \in [Candidates -> {"new", "opened", "adrift", "over", "killed"}]
      BY DEF RefineHubDies, RefineTypeOK
    <2>3. faults + 1 \in 0..MaxFaults /\ NoLines \in Lines
      BY RefineConstants DEF RefineHubDies, RefineTypeOK, NoLines, Lines
    <2> QED BY <1>1, <2>1, <2>2, <2>3 DEF RefineHubDies, RefineTypeOK
  <1>3. Held(file)' /\ ReviewsHold' /\ NewHaveNoMemory' /\ TempIsOwn'
    BY <1>1 DEF Held, ReviewsHold, NewHaveNoMemory, TempIsOwn
  <1>4. PromotionsAccounted'
    <2> SUFFICES ASSUME NEW c \in Candidates, c \notin mixed \union cut',
                        memories[c] > 1 \/ (memories[c] = 1 /\ file[c] = "pending")
                 PROVE  FALSE
      BY <1>1 DEF PromotionsAccounted
    <2>1. PICK r \in Open : c = subject[r]
      BY <1>1 DEF PromotionsAccounted
    <2>2. memories[c] <= 0 /\ memories[c] \in Nat
      BY <1>1, <2>1 DEF ReviewsHold, RefineTypeOK
    <2> QED BY <2>2
  <1> QED BY <1>2, <1>3, <1>4

LEMMA NextRefineInv == RefineInv /\ [RefineNext]_refineVars => RefineInv'
  <1> SUFFICES ASSUME RefineInv, [RefineNext]_refineVars PROVE RefineInv'
    OBVIOUS
  <1>1. CASE UNCHANGED refineVars
    BY <1>1 DEF RefineInv, refineVars, RefineTypeOK, Held, ReviewsHold, NewHaveNoMemory, TempIsOwn,
                PromotionsAccounted, Open, Idle
  <1>2. ASSUME NEW r \in Reviews, NEW c \in Candidates, BeginAccept(r, c) PROVE RefineInv'
    <2>1. file \in Lines /\ Idle(r) /\ file[c] = "pending" /\ Begin(r, c, "accepting", file)
      BY <1>2 DEF BeginAccept, RefineInv, RefineTypeOK
    <2> QED BY <2>1, BeginKeeps
  <1>3. ASSUME NEW r \in Reviews, NEW c \in Candidates, BeginReject(r, c) PROVE RefineInv'
    <2> DEFINE lines == [file EXCEPT ![c] = "rejected"]
    <2>1. /\ lines \in Lines /\ Idle(r) /\ file[c] # "none" /\ Begin(r, c, "marking", lines)
          /\ \A k \in Candidates \ {c} : lines[k] = file[k]
          /\ lines[c] = "rejected"
      BY <1>3 DEF BeginReject, RefineInv, RefineTypeOK, Lines
    <2> HIDE DEF lines
    <2> QED BY <2>1, BeginKeeps
  <1> QED BY <1>1, <1>2, <1>3, AppendKeeps, WriteMemoryKeeps, MemoryFailsKeeps, WriteTempKeeps,
             ReplaceKeeps, RefineHubDiesKeeps DEF RefineNext

\* A line has one of the four statuses, and so has it in each review's copy.
\* (bus.py:470, 488-518)
THEOREM RefineTypeCorrect == RefineSpec => []RefineTypeOK
  <1>1. RefineInv => RefineTypeOK
    BY DEF RefineInv
  <1> QED BY <1>1, InitRefineInv, NextRefineInv, PTL DEF RefineSpec

\* A candidate stays in the file once it was appended, an accepted one has a
\* memory, and no candidate has two, or one and a line still pending, unless its
\* review is open, was cut, or overlapped another.  (bus.py:470, 488-518)
THEOREM CandidatesAreAccounted == RefineSpec => []CandidatesAccounted
  <1>1. RefineInv => CandidatesAccounted
    BY DEF RefineInv, CandidatesAccounted, EnqueuedStay, Held
  <1> QED BY <1>1, InitRefineInv, NextRefineInv, PTL DEF RefineSpec

-----------------------------------------------------------------------------
(* THE MODEL PROCESSES *)

(***************************************************************************)
(* For any calls, clients, requests, deaths and timeouts, of the hub and   *)
(* of a daemon: no call reads the answer to another's frame, a kept header *)
(* is of the process that is there, and a process that is up has an owner  *)
(* that knows it, or is one of the strays.                                 *)
(*                                                                         *)
(* `ServesOne' is why answers are not mixed up: in the pipe is at most     *)
(* what the lock's holder still expects, because who gives up ends the     *)
(* process and the pipe with it. `HubsAreKnown' and `DaemonsAreKnown'      *)
(* follow a client from its maker to whoever ends it, through the moments  *)
(* in which it is in no table. Steps of a call differ little, so lemmas    *)
(* about a kind of step (`ServeKeeps', `SendKeeps', `GiveUpKeeps',         *)
(* `WaitKeeps') carry them.                                                *)
(***************************************************************************)

Records == [home : {"none", "hub", "daemon"}, state : {"none", "up", "dead"},
            pipe : Seq(Calls \X Requests), header : BOOLEAN,
            lock : Calls \union {NoCall}, retired : BOOLEAN]
CallRecords(n) == [at : {"idle", "waiting", "first", "second", "refilling", "refill",
                         "dropping", "closing"},
                   client : 0..n, todo : Seq(Requests)]

\* A call whose record is k holds its client's lock; what it expects to read.
UsingOf(k) == k.at \in {"first", "second", "refilling", "refill"}
ExpectedOf(c, k) ==
  IF k.at \in {"first", "second"} THEN << <<c, Head(k.todo)>> >>
  ELSE IF k.at = "refill" THEN << <<c, "info">> >> ELSE <<>>

\* In the pipe of a process is what the lock's holder expects, and nothing when
\* nobody holds the lock.
ServesOne ==
  /\ \A c \in Calls : call[c].at # "idle" => call[c].client \in 1..made /\ call[c].todo # <<>>
  /\ \A c \in Calls : UsingOf(call[c]) => worker[call[c].client].lock = c
  /\ \A w \in Clients : worker[w].lock # NoCall =>
       UsingOf(call[worker[w].lock]) /\ call[worker[w].lock].client = w
  /\ \A w \in Clients : worker[w].state = "up" =>
       worker[w].pipe = IF worker[w].lock = NoCall THEN <<>>
                        ELSE ExpectedOf(worker[w].lock, call[worker[w].lock])

\* A client is the hub's or the daemon's once it is made, and stays down once it
\* is retired.
ClientsAreMade ==
  /\ \A w \in Clients : worker[w].retired => worker[w].state # "up" /\ worker[w].lock = NoCall
  /\ \A w \in Clients : IF w <= made THEN worker[w].home # "none" ELSE worker[w] = NewWorker
  /\ hubs # 0 => worker[hubs].home = "hub"
  /\ tick.at # "idle" => tick.client \in 1..made /\ worker[tick.client].home = "hub"
  /\ IF adoption.at = "idle" THEN adoption.client = 0 ELSE adoption.client \in 1..made

\* The hub's processes: what the tick has closed and not yet forgotten may come
\* up again only astray.
HubsAreKnown ==
  /\ \A w \in Clients : worker[w].home = "hub" /\ worker[w].state = "up" =>
       w \in {hubs} \union strays \/ \E c \in Calls : call[c].at = "closing" /\ call[c].client = w
  /\ tick.at = "forgetting" /\ worker[tick.client].state = "up" => tick.client \in strays

\* The daemon's: all that are not retired are kept, or are being replaced.  When
\* the one that is being replaced is not kept any more, a shutdown retired it.
DaemonsAreKnown ==
  /\ \A w \in Clients : worker[w].home = "daemon" /\ ~worker[w].retired =>
       w \in {private, adoption.client} \union strays
  /\ adoption.at = "probing" =>
       /\ private # Shared
       /\ private # adoption.client => down /\ worker[adoption.client].retired

WorkersInv == /\ WorkerTypeOK /\ ServesOne /\ ClientsAreMade /\ HubsAreKnown /\ DaemonsAreKnown
              /\ HeadersAreOfTheProcess /\ ~crossed

LEMMA InitWorkersInv == WorkersInit => WorkersInv
  <1> SUFFICES ASSUME WorkersInit PROVE WorkersInv
    OBVIOUS
  <1> USE DEF WorkersInit
  <1>0. made = 0 /\ 0 \in 0..MaxClients /\ 0 \in 0..MaxDeaths /\ 0..made = {0}
    BY WorkerConstants
  <1>1. WorkerTypeOK
    <2>1. NewWorker \in Records
      BY DEF NewWorker, Records
    <2>2. worker \in [Clients -> Records]
      BY <2>1
    <2>3. Resting \in CallRecords(made)
      BY <1>0 DEF Resting, CallRecords
    <2>4. call \in [Calls -> CallRecords(made)]
      BY <2>3
    <2>5. /\ adoption \in [at : {"idle", "probing", "swapped"}, client : 0..made]
          /\ tick \in [at : {"idle", "seen", "forgetting"}, client : 0..made]
      BY <1>0
    <2>6. down \in BOOLEAN
      BY Zenon
    <2>7. crossed \in BOOLEAN
      BY Zenon
    <2> QED BY <1>0, <2>2, <2>4, <2>5, <2>6, <2>7 DEF WorkerTypeOK, Records, CallRecords
  <1>2. /\ \A w \in Clients : worker[w] = NewWorker /\ ~(w <= made)
        /\ \A c \in Calls : call[c].at = "idle"
    BY <1>0 DEF Clients, Resting
  <1>3. ServesOne
    BY <1>2 DEF ServesOne, NewWorker, UsingOf
  <1>4. ClientsAreMade /\ HubsAreKnown /\ DaemonsAreKnown /\ HeadersAreOfTheProcess
    BY <1>2 DEF ClientsAreMade, HubsAreKnown, DaemonsAreKnown, HeadersAreOfTheProcess, NewWorker
  <1> QED BY <1>1, <1>3, <1>4 DEF WorkersInv

LEMMA WorkerParts ==
  ASSUME WorkersInv
  PROVE  /\ worker \in [Clients -> Records] /\ call \in [Calls -> CallRecords(made)]
         /\ made \in 0..MaxClients /\ 1..made \subseteq Clients /\ made \in Nat
         /\ \A w \in Clients : worker[w] \in Records
         /\ \A c \in Calls : call[c] \in CallRecords(made)
  <1>1. worker \in [Clients -> Records] /\ call \in [Calls -> CallRecords(made)] /\ made \in 0..MaxClients
    BY DEF WorkersInv, WorkerTypeOK, Records, CallRecords
  <1>2. 1..made \subseteq Clients /\ made \in Nat
    BY <1>1, WorkerConstants DEF Clients
  <1> QED BY <1>1, <1>2

\* A step of call c with its client w, whose records become k and v.
ServeStep(c, w, v, k) ==
  /\ worker' = [worker EXCEPT ![w] = v] /\ call' = [call EXCEPT ![c] = k]
  /\ UNCHANGED <<made, hubs, private, adoption, down, tick>>
  /\ crossed' = FALSE /\ deaths' \in 0..MaxDeaths
  /\ strays' = strays \/ strays' = strays \union {w}
  /\ call[c].client = w
  /\ k.at # "idle" => k.client = w /\ k.todo # <<>>
  /\ k.at # "closing"
  /\ worker[w].lock \in {NoCall, c} /\ v.lock \in {NoCall, c}
  /\ v.lock = c <=> UsingOf(k)
  /\ v.state = "up" => v.pipe = IF v.lock = NoCall THEN <<>> ELSE ExpectedOf(c, k)
  /\ v.header => v.state # "none"
  /\ v.home = worker[w].home /\ v.retired = worker[w].retired
  /\ v.retired => v.state # "up" /\ v.lock = NoCall
  /\ v.state = "up" => worker[w].state = "up" \/ w \in strays' \/ ~IsLeaving(w)
  /\ call[c].at = "closing" => v.state # "up"

LEMMA ServeKeeps ==
  ASSUME WorkersInv, NEW c \in Calls, NEW w \in 1..made, NEW v \in Records, NEW k \in CallRecords(made),
         ServeStep(c, w, v, k)
  PROVE  WorkersInv'
  <1> USE DEF ServeStep
  <1>0. /\ worker \in [Clients -> Records] /\ call \in [Calls -> CallRecords(made)]
        /\ w \in Clients /\ 1..made \subseteq Clients /\ c # NoCall
    BY WorkerParts, WorkerConstants
  <1>1. /\ worker'[w] = v /\ \A u \in Clients \ {w} : worker'[u] = worker[u]
        /\ call'[c] = k /\ \A d \in Calls \ {c} : call'[d] = call[d]
    BY <1>0
  <1>2. WorkerTypeOK'
    <2>1. worker' \in [Clients -> Records] /\ call' \in [Calls -> CallRecords(made)]
      BY <1>0
    <2> QED BY <2>1, <1>0 DEF WorkersInv, WorkerTypeOK, Records, CallRecords
  <1>3. ServesOne'
    <2>1. \A d \in Calls : call'[d].at # "idle" => call'[d].client \in 1..made /\ call'[d].todo # <<>>
      BY <1>1 DEF WorkersInv, ServesOne
    <2>2. ASSUME NEW d \in Calls, UsingOf(call'[d]) PROVE worker'[call'[d].client].lock = d
      <3>1. CASE d = c
        BY <1>1, <2>2, <3>1 DEF UsingOf
      <3>2. CASE d # c
        <4>1. /\ worker[call[d].client].lock = d /\ call[d].client \in Clients /\ call'[d] = call[d]
          BY <1>0, <1>1, <2>2, <3>2 DEF WorkersInv, ServesOne, UsingOf
        <4>2. call[d].client # w
          BY <1>0, <3>2, <4>1, WorkerConstants
        <4> QED BY <1>1, <4>1, <4>2
      <3> QED BY <3>1, <3>2
    <2>3. ASSUME NEW u \in Clients, worker'[u].lock # NoCall
          PROVE  UsingOf(call'[worker'[u].lock]) /\ call'[worker'[u].lock].client = u
      <3>1. CASE u = w
        BY <1>1, <2>3, <3>1 DEF UsingOf
      <3>2. CASE u # w
        <4>1. worker[u].lock # NoCall /\ worker[u].lock \in Calls /\ worker'[u] = worker[u]
          BY <1>0, <1>1, <2>3, <3>2 DEF Records
        <4>2. UsingOf(call[worker[u].lock]) /\ call[worker[u].lock].client = u
          BY <4>1 DEF WorkersInv, ServesOne
        <4>3. worker[u].lock # c
          BY <3>2, <4>2
        <4> QED BY <1>1, <4>1, <4>2, <4>3
      <3> QED BY <3>1, <3>2
    <2>4. ASSUME NEW u \in Clients, worker'[u].state = "up"
          PROVE  worker'[u].pipe = IF worker'[u].lock = NoCall THEN <<>>
                                   ELSE ExpectedOf(worker'[u].lock, call'[worker'[u].lock])
      <3>1. CASE u = w
        BY <1>0, <1>1, <2>4, <3>1
      <3>2. CASE u # w
        <4>1. worker'[u] = worker[u] /\ worker[u].lock \in Calls \union {NoCall}
          BY <1>0, <1>1, <3>2 DEF Records
        <4>2. worker[u].lock # NoCall => call'[worker[u].lock] = call[worker[u].lock]
          <5>1. worker[u].lock # NoCall => call[worker[u].lock].client = u
            BY DEF WorkersInv, ServesOne
          <5> QED BY <1>1, <3>2, <4>1, <5>1
        <4>3. worker[u].pipe = IF worker[u].lock = NoCall THEN <<>>
                               ELSE ExpectedOf(worker[u].lock, call[worker[u].lock])
          BY <2>4, <4>1 DEF WorkersInv, ServesOne
        <4> QED BY <4>1, <4>2, <4>3
      <3> QED BY <3>1, <3>2
    <2> QED BY <2>1, <2>2, <2>3, <2>4 DEF ServesOne
  <1>4. \A u \in Clients : worker'[u].home = worker[u].home /\ worker'[u].retired = worker[u].retired
    BY <1>1
  <1>5. hubs \in Clients \union {0} /\ w <= made
    BY <1>0, WorkerParts DEF WorkersInv, WorkerTypeOK
  <1>6. ClientsAreMade'
    <2>1. \A u \in Clients : worker'[u].retired => worker'[u].state # "up" /\ worker'[u].lock = NoCall
      BY <1>1 DEF WorkersInv, ClientsAreMade
    <2>2. \A u \in Clients : IF u <= made THEN worker'[u].home # "none" ELSE worker'[u] = NewWorker
      BY <1>1, <1>4, <1>5 DEF WorkersInv, ClientsAreMade
    <2>3. hubs # 0 => worker'[hubs].home = "hub"
      BY <1>4, <1>5 DEF WorkersInv, ClientsAreMade
    <2>4. /\ tick.at # "idle" => tick.client \in 1..made /\ worker'[tick.client].home = "hub"
          /\ IF adoption.at = "idle" THEN adoption.client = 0 ELSE adoption.client \in 1..made
      BY <1>0, <1>4 DEF WorkersInv, ClientsAreMade
    <2> QED BY <2>1, <2>2, <2>3, <2>4 DEF ClientsAreMade
  <1>7. HubsAreKnown'
    <2>1. ASSUME NEW u \in Clients, worker'[u].home = "hub", worker'[u].state = "up"
          PROVE  u \in {hubs} \union strays' \/ \E d \in Calls : call'[d].at = "closing" /\ call'[d].client = u
      <3>1. CASE u # w \/ worker[w].state = "up"
        <4>1. worker[u].home = "hub" /\ worker[u].state = "up"
          BY <1>1, <1>4, <2>1, <3>1
        <4>2. u \in {hubs} \union strays' \/ \E d \in Calls : call[d].at = "closing" /\ call[d].client = u
          BY <4>1 DEF WorkersInv, HubsAreKnown
        <4>3. \A d \in Calls : call[d].at = "closing" /\ call[d].client = u => d # c
          BY <1>1, <2>1
        <4> QED BY <1>1, <4>2, <4>3
      <3>2. CASE u = w /\ worker[w].state # "up"
        BY <1>1, <1>4, <2>1, <3>2 DEF IsLeaving
      <3> QED BY <3>1, <3>2
    <2>2. ASSUME tick.at = "forgetting", worker'[tick.client].state = "up"
          PROVE  tick.client \in strays'
      <3>1. tick.client \in Clients /\ worker[tick.client].home = "hub"
        BY <1>0, <2>2 DEF WorkersInv, ClientsAreMade
      <3>2. CASE tick.client # w \/ worker[w].state = "up"
        BY <1>1, <2>2, <3>1, <3>2 DEF WorkersInv, HubsAreKnown
      <3>3. CASE tick.client = w /\ worker[w].state # "up"
        <4>1. tick = [at |-> "forgetting", client |-> w]
          BY <2>2, <3>3 DEF WorkersInv, WorkerTypeOK
        <4> QED BY <1>1, <2>2, <3>1, <3>3, <4>1 DEF IsLeaving
      <3> QED BY <3>2, <3>3
    <2> QED BY <2>1, <2>2 DEF HubsAreKnown
  <1>8. DaemonsAreKnown'
    <2>1. adoption.at = "probing" => adoption.client \in Clients
      BY <1>0 DEF WorkersInv, ClientsAreMade
    <2> QED BY <1>4, <2>1 DEF WorkersInv, DaemonsAreKnown
  <1>9. HeadersAreOfTheProcess'
    BY <1>1 DEF WorkersInv, HeadersAreOfTheProcess
  <1> QED BY <1>2, <1>3, <1>6, <1>7, <1>8, <1>9 DEF WorkersInv

LEMMA TailIs ==
  ASSUME NEW S, NEW s \in Seq(S), s # <<>>, Len(s) # 1
  PROVE  Tail(s) \in Seq(S) /\ Tail(s) # <<>>
  <1>1. Len(s) \in Nat /\ Len(s) # 0
    OBVIOUS
  <1>2. Tail(s) \in Seq(S) /\ Len(Tail(s)) = Len(s) - 1
    OBVIOUS
  <1>3. Len(Tail(s)) # 0
    BY <1>1, <1>2
  <1> QED BY <1>2, <1>3

LEMMA OverIs ==
  ASSUME WorkersInv, NEW c \in Calls, call[c].at # "idle", Over(c)
  PROVE  \E k \in CallRecords(made) :
           /\ call' = [call EXCEPT ![c] = k] /\ k.at \in {"idle", "waiting"}
           /\ k.at # "idle" => k.client = call[c].client /\ k.todo # <<>>
  <1>1. call[c] \in CallRecords(made) /\ call[c].todo # <<>> /\ 0 \in 0..made
    BY WorkerParts DEF WorkersInv, ServesOne
  <1>2. CASE Len(call[c].todo) = 1
    <2>1. Resting \in CallRecords(made) /\ Resting.at = "idle"
      BY <1>1 DEF Resting, CallRecords
    <2> QED BY <1>2, <2>1 DEF Over
  <1>3. CASE Len(call[c].todo) # 1
    <2> DEFINE k == [call[c] EXCEPT !.at = "waiting", !.todo = Tail(@)]
    <2>1. call[c].todo \in Seq(Requests)
      BY <1>1 DEF CallRecords
    <2>2. Tail(call[c].todo) \in Seq(Requests) /\ Tail(call[c].todo) # <<>>
      BY <1>1, <1>3, <2>1, TailIs
    <2>3. /\ k \in CallRecords(made) /\ k.at = "waiting" /\ k.client = call[c].client
          /\ k.todo # <<>>
      BY <1>1, <2>2 DEF CallRecords
    <2>4. call' = [call EXCEPT ![c] = k]
      BY <1>3 DEF Over
    <2> QED BY <2>3, <2>4
  <1> QED BY <1>2, <1>3

LEMMA ToIs ==
  ASSUME WorkersInv, NEW c \in Calls,
         NEW where \in {"first", "second", "refilling", "refill", "dropping", "closing"},
         To(c, where)
  PROVE  \E k \in CallRecords(made) :
           /\ call' = [call EXCEPT ![c] = k] /\ k.at = where
           /\ k.client = call[c].client /\ k.todo = call[c].todo
  <1> DEFINE k == [call[c] EXCEPT !.at = where]
  <1>1. call[c] \in CallRecords(made)
    BY WorkerParts
  <1>2. k \in CallRecords(made) /\ k.at = where /\ k.client = call[c].client /\ k.todo = call[c].todo
    BY <1>1 DEF CallRecords
  <1> QED BY <1>2 DEF To

LEMMA SpawnIs ==
  ASSUME NEW w \in Clients, NEW v \in Records, NEW f \in Calls \X Requests, SpawnAndSend(w, v, f)
  PROVE  /\ \E n \in Records :
              /\ worker' = [worker EXCEPT ![w] = n]
              /\ n.state = "up" /\ n.pipe = <<f>>
              /\ n.lock = v.lock /\ n.home = v.home /\ n.retired = v.retired
         /\ strays' = strays \/ strays' = strays \union {w}
         /\ w \in strays' \/ ~IsLeaving(w)
  <1> DEFINE n == [v EXCEPT !.state = "up", !.pipe = <<f>>, !.header = FALSE]
  <1>1. <<f>> \in Seq(Calls \X Requests)
    OBVIOUS
  <1>2. /\ n \in Records /\ n.state = "up" /\ n.pipe = <<f>>
        /\ n.lock = v.lock /\ n.home = v.home /\ n.retired = v.retired
    BY <1>1 DEF Records
  <1>3. /\ strays' = strays \/ strays' = strays \union {w}
        /\ w \in strays' \/ ~IsLeaving(w)
    BY DEF SpawnAndSend
  <1>4. worker' = [worker EXCEPT ![w] = n]
    BY DEF SpawnAndSend
  <1> QED BY <1>2, <1>3, <1>4

\* With its pipe empty, a client gets a pipe with the one frame.
LEMMA EnsureIs ==
  ASSUME NEW w \in Clients, NEW v \in Records, NEW f \in Calls \X Requests, EnsureAndSend(w, v, f),
         v.state = worker[w].state, v.state = "up" => v.pipe = <<>>
  PROVE  /\ \E n \in Records :
              /\ worker' = [worker EXCEPT ![w] = n]
              /\ n.state = "up" /\ n.pipe = <<f>>
              /\ n.lock = v.lock /\ n.home = v.home /\ n.retired = v.retired
         /\ strays' = strays \/ strays' = strays \union {w}
         /\ worker[w].state = "up" \/ w \in strays' \/ ~IsLeaving(w)
  <1>1. CASE IsUp(w)
    <2> DEFINE n == [v EXCEPT !.pipe = Append(@, f)]
    <2>1. Append(v.pipe, f) = <<f>> /\ <<f>> \in Seq(Calls \X Requests)
      <3>1. v.pipe = <<>>
        BY <1>1 DEF IsUp
      <3>2. Append(<<>>, f) = <<f>> /\ <<f>> \in Seq(Calls \X Requests)
        OBVIOUS
      <3> QED BY <3>1, <3>2
    <2>2. /\ n \in Records /\ n.state = "up" /\ n.pipe = <<f>>
          /\ n.lock = v.lock /\ n.home = v.home /\ n.retired = v.retired
      BY <1>1, <2>1 DEF Records, IsUp
    <2>3. worker' = [worker EXCEPT ![w] = n] /\ strays' = strays
      BY <1>1 DEF EnsureAndSend
    <2> QED BY <1>1, <2>2, <2>3 DEF IsUp
  <1>2. CASE ~IsUp(w)
    <2>1. SpawnAndSend(w, v, f)
      BY <1>2 DEF EnsureAndSend
    <2>2. /\ \E n \in Records :
                /\ worker' = [worker EXCEPT ![w] = n]
                /\ n.state = "up" /\ n.pipe = <<f>>
                /\ n.lock = v.lock /\ n.home = v.home /\ n.retired = v.retired
          /\ strays' = strays \/ strays' = strays \union {w}
          /\ w \in strays' \/ ~IsLeaving(w)
      BY <2>1, SpawnIs
    <2> QED BY <2>2
  <1> QED BY <1>1, <1>2

\* The call, its client and the records of both.
LEMMA CallParts ==
  ASSUME WorkersInv, NEW c \in Calls, call[c].at # "idle"
  PROVE  /\ Client(c) \in 1..made /\ Client(c) \in Clients /\ worker[Client(c)] \in Records
         /\ call[c].todo \in Seq(Requests) /\ call[c].todo # <<>> /\ Request(c) \in Requests
         /\ UsingOf(call[c]) => worker[Client(c)].lock = c /\ ~worker[Client(c)].retired
         /\ c # NoCall /\ crossed = FALSE /\ deaths \in 0..MaxDeaths
  <1>1. Client(c) \in 1..made /\ Client(c) \in Clients /\ call[c].todo # <<>>
    BY WorkerParts DEF WorkersInv, ServesOne, Client
  <1>2. call[c].todo \in Seq(Requests)
    BY WorkerParts DEF CallRecords
  <1>3. UsingOf(call[c]) => worker[Client(c)].lock = c
    BY DEF WorkersInv, ServesOne, Client
  <1>4. Request(c) \in Requests
    BY <1>1, <1>2 DEF Request
  <1>5. c # NoCall
    BY WorkerConstants
  <1>6. crossed = FALSE /\ deaths \in 0..MaxDeaths
    BY DEF WorkersInv, WorkerTypeOK
  <1> QED BY <1>1, <1>2, <1>3, <1>4, <1>5, <1>6, WorkerParts DEF WorkersInv, ClientsAreMade

\* A call that has its client's lock sends a frame, perhaps to a new process.
LEMMA SendKeeps ==
  ASSUME WorkersInv, NEW c \in Calls, call[c].at \notin {"idle", "closing"},
         worker[Client(c)].lock \in {NoCall, c}, ~worker[Client(c)].retired,
         NEW v \in Records, NEW k \in CallRecords(made),
         worker' = [worker EXCEPT ![Client(c)] = v], call' = [call EXCEPT ![c] = k],
         v.state = "up", v.lock = c, v.pipe = ExpectedOf(c, k),
         v.home = worker[Client(c)].home, v.retired = worker[Client(c)].retired,
         UsingOf(k), k.client = call[c].client, k.todo = call[c].todo,
         strays' = strays \/ strays' = strays \union {Client(c)},
         worker[Client(c)].state = "up" \/ Client(c) \in strays' \/ ~IsLeaving(Client(c)),
         UNCHANGED <<made, hubs, private, adoption, down, tick, crossed>>, deaths' \in 0..MaxDeaths
  PROVE  WorkersInv'
  <1> DEFINE w == Client(c)
  <1>1. w \in 1..made /\ c # NoCall /\ crossed = FALSE /\ call[c].client = w /\ call[c].todo # <<>>
    BY CallParts DEF Client
  <1> HIDE DEF w
  <1>2. crossed' = FALSE
    BY <1>1
  <1>3. /\ k.client = w /\ k.todo # <<>> /\ k.at # "closing"
        /\ call[c].at # "closing" /\ v.lock # NoCall /\ ~v.retired
    BY <1>1 DEF UsingOf, w
  <1>4. /\ worker[w].lock \in {NoCall, c} /\ v.home = worker[w].home /\ v.retired = worker[w].retired
        /\ worker' = [worker EXCEPT ![w] = v]
        /\ strays' = strays \/ strays' = strays \union {w}
        /\ worker[w].state = "up" \/ w \in strays' \/ ~IsLeaving(w)
    BY DEF w
  <1>5. ServeStep(c, w, v, k)
    BY <1>1, <1>2, <1>3, <1>4 DEF ServeStep
  <1> QED BY <1>1, <1>5, ServeKeeps

LEMMA EnterKeeps == ASSUME WorkersInv, NEW c \in Calls, Enter(c) PROVE WorkersInv'
  <1> DEFINE w == Client(c)
  <1>1. /\ call[c].at = "waiting" /\ worker[w].lock = NoCall
        /\ UNCHANGED <<made, hubs, private, adoption, down, tick, deaths, crossed>>
    BY DEF Enter, IsFree
  <1>2. /\ w \in 1..made /\ w \in Clients /\ worker[w] \in Records /\ Request(c) \in Requests
        /\ c # NoCall /\ crossed = FALSE /\ deaths \in 0..MaxDeaths /\ call[c].client = w
        /\ call[c].todo # <<>>
    BY <1>1, CallParts DEF Client
  <1>3. CASE Over(c) /\ UNCHANGED <<worker, strays>>
    <2>1. PICK k \in CallRecords(made) :
            /\ call' = [call EXCEPT ![c] = k] /\ k.at \in {"idle", "waiting"}
            /\ k.at # "idle" => k.client = call[c].client /\ k.todo # <<>>
      BY <1>1, <1>3, OverIs
    <2>2. worker' = [worker EXCEPT ![w] = worker[w]]
      BY <1>3, WorkerParts
    <2>3. ~UsingOf(k)
      BY <2>1 DEF UsingOf
    <2>4. /\ worker[w].state = "up" => worker[w].pipe = <<>>
          /\ worker[w].header => worker[w].state # "none"
          /\ worker[w].retired => worker[w].state # "up"
      BY <1>1, <1>2 DEF WorkersInv, ServesOne, HeadersAreOfTheProcess, ClientsAreMade
    <2>5. ServeStep(c, w, worker[w], k)
      BY <1>1, <1>2, <1>3, <2>1, <2>2, <2>3, <2>4 DEF ServeStep
    <2> QED BY <1>2, <2>5, ServeKeeps
  <1>4. CASE /\ ~(worker[w].retired /\ ~IsUp(w))
             /\ EnsureAndSend(w, [worker[w] EXCEPT !.lock = c], <<c, Request(c)>>)
             /\ To(c, "first")
    <2> DEFINE v == [worker[w] EXCEPT !.lock = c]
    <2>1. /\ v \in Records /\ v.state = worker[w].state /\ v.pipe = worker[w].pipe /\ v.lock = c
          /\ v.home = worker[w].home /\ v.retired = worker[w].retired
      BY <1>2 DEF Records
    <2>2. v.state = "up" => v.pipe = <<>>
      BY <1>1, <1>2, <2>1 DEF WorkersInv, ServesOne
    <2>3. ~worker[w].retired
      BY <1>2, <1>4 DEF WorkersInv, ClientsAreMade, IsUp
    <2> HIDE DEF v
    <2>4. /\ EnsureAndSend(w, v, <<c, Request(c)>>) /\ <<c, Request(c)>> \in Calls \X Requests
      BY <1>2, <1>4 DEF v
    <2>5. /\ \E n \in Records :
              /\ worker' = [worker EXCEPT ![w] = n]
              /\ n.state = "up" /\ n.pipe = << <<c, Request(c)>> >>
              /\ n.lock = v.lock /\ n.home = v.home /\ n.retired = v.retired
          /\ strays' = strays \/ strays' = strays \union {w}
          /\ worker[w].state = "up" \/ w \in strays' \/ ~IsLeaving(w)
      BY <1>2, <2>1, <2>2, <2>4, EnsureIs
    <2>6. PICK n \in Records :
              /\ worker' = [worker EXCEPT ![w] = n]
              /\ n.state = "up" /\ n.pipe = << <<c, Request(c)>> >>
              /\ n.lock = c /\ n.home = worker[w].home /\ n.retired = worker[w].retired
      BY <2>1, <2>5
    <2>7. PICK k \in CallRecords(made) :
            /\ call' = [call EXCEPT ![c] = k] /\ k.at = "first"
            /\ k.client = call[c].client /\ k.todo = call[c].todo
      BY <1>4, ToIs
    <2>8. UsingOf(k) /\ ExpectedOf(c, k) = << <<c, Request(c)>> >>
      <3>1. k.at \in {"first", "second"} /\ k.todo = call[c].todo
        BY <2>7
      <3> QED BY <3>1 DEF UsingOf, ExpectedOf, Request
    <2> QED BY <1>1, <1>2, <2>3, <2>5, <2>6, <2>7, <2>8, SendKeeps
  <1> QED BY <1>3, <1>4 DEF Enter

LEMMA ReadAnswerKeeps ==
  ASSUME WorkersInv, NEW c \in Calls, NEW ok \in BOOLEAN, ReadAnswer(c, ok) PROVE WorkersInv'
  <1> DEFINE w == Client(c)
             asked == IF call[c].at = "refill" THEN "info" ELSE Request(c)
             rest == [worker[w] EXCEPT !.pipe = Tail(@)]
             told == [rest EXCEPT !.header = @ \/ (ok /\ asked = "info")]
  <1>1. /\ call[c].at \in {"first", "second", "refill"} /\ worker[w].state = "up"
        /\ UNCHANGED <<made, hubs, private, adoption, down, tick, deaths, strays>>
    BY DEF ReadAnswer, IsUp
  <1>2. /\ w \in 1..made /\ w \in Clients /\ worker[w] \in Records /\ Request(c) \in Requests
        /\ c # NoCall /\ crossed = FALSE /\ deaths \in 0..MaxDeaths /\ call[c].client = w
        /\ call[c].todo # <<>> /\ worker[w].lock = c /\ ~worker[w].retired
    BY <1>1, CallParts DEF Client, UsingOf
  <1>3. worker[w].pipe = << <<c, asked>> >>
    <2>1. worker[w].pipe = ExpectedOf(c, call[c])
      BY <1>1, <1>2 DEF WorkersInv, ServesOne
    <2>2. ExpectedOf(c, call[c]) = << <<c, asked>> >>
      BY <1>1 DEF ExpectedOf, Request
    <2> QED BY <2>1, <2>2
  <1>4. Head(worker[w].pipe) = <<c, asked>> /\ Tail(worker[w].pipe) = <<>>
    BY <1>3
  <1>5. crossed' = (crossed \/ Head(worker[w].pipe) # <<c, asked>>)
    BY DEF ReadAnswer
  <1>6. crossed' = FALSE
    BY <1>2, <1>4, <1>5
  <1>7. /\ rest \in Records /\ rest.state = "up" /\ rest.pipe = <<>> /\ rest.lock = c
        /\ rest.home = worker[w].home /\ rest.retired = worker[w].retired
        /\ rest.header = worker[w].header
    <2>1. <<>> \in Seq(Calls \X Requests)
      OBVIOUS
    <2>2. rest = [worker[w] EXCEPT !.pipe = <<>>]
      BY <1>4
    <2> HIDE DEF rest
    <2> QED BY <1>1, <1>2, <2>1, <2>2 DEF Records
  <1>8. CASE To(c, "refilling") /\ worker' = [worker EXCEPT ![w] = rest]
    <2>1. PICK k \in CallRecords(made) :
            /\ call' = [call EXCEPT ![c] = k] /\ k.at = "refilling"
            /\ k.client = call[c].client /\ k.todo = call[c].todo
      BY <1>8, ToIs
    <2>2. UsingOf(k) /\ ExpectedOf(c, k) = <<>>
      BY <2>1 DEF UsingOf, ExpectedOf
    <2> HIDE DEF rest
    <2>3. ServeStep(c, w, rest, k)
      BY <1>1, <1>2, <1>6, <1>7, <1>8, <2>1, <2>2 DEF ServeStep
    <2> QED BY <1>2, <1>7, <2>3, ServeKeeps
  <1>9. CASE Over(c) /\ Released(w, told)
    <2>1. PICK k \in CallRecords(made) :
            /\ call' = [call EXCEPT ![c] = k] /\ k.at \in {"idle", "waiting"}
            /\ k.at # "idle" => k.client = call[c].client /\ k.todo # <<>>
      BY <1>1, <1>9, OverIs
    <2> DEFINE v == [told EXCEPT !.lock = NoCall]
    <2> HIDE DEF rest
    <2>2. (rest.header \/ (ok /\ asked = "info")) \in BOOLEAN
      BY Zenon
    <2>3. /\ v \in Records /\ v.state = "up" /\ v.pipe = <<>> /\ v.lock = NoCall
          /\ v.home = worker[w].home /\ v.retired = worker[w].retired
      <3> HIDE DEF asked
      <3> DEFINE h == rest.header \/ (ok /\ asked = "info")
      <3> HIDE DEF h
      <3>1. h \in BOOLEAN
        BY <2>2 DEF h
      <3>2. v = [[rest EXCEPT !.header = h] EXCEPT !.lock = NoCall]
        BY DEF h
      <3> HIDE DEF v
      <3> QED BY <1>7, <3>1, <3>2 DEF Records
    <2>4. worker' = [worker EXCEPT ![w] = v]
      BY <1>9 DEF Released, Unlocked
    <2>5. ~UsingOf(k)
      BY <2>1 DEF UsingOf
    <2> HIDE DEF v
    <2>6. ServeStep(c, w, v, k)
      BY <1>1, <1>2, <1>6, <1>7, <2>1, <2>3, <2>4, <2>5 DEF ServeStep
    <2> QED BY <1>2, <2>3, <2>6, ServeKeeps
  <1> QED BY <1>8, <1>9 DEF ReadAnswer

LEMMA RefillKeeps == ASSUME WorkersInv, NEW c \in Calls, Refill(c) PROVE WorkersInv'
  <1> DEFINE w == Client(c)
  <1>1. /\ call[c].at = "refilling" /\ To(c, "refill")
        /\ EnsureAndSend(w, worker[w], <<c, "info">>)
        /\ UNCHANGED <<made, hubs, private, adoption, down, tick, deaths, crossed>>
    BY DEF Refill
  <1>2. /\ w \in 1..made /\ w \in Clients /\ worker[w] \in Records
        /\ c # NoCall /\ crossed = FALSE /\ deaths \in 0..MaxDeaths /\ call[c].client = w
        /\ call[c].todo # <<>> /\ worker[w].lock = c /\ ~worker[w].retired
    BY <1>1, CallParts DEF Client, UsingOf
  <1>3. worker[w].state = "up" => worker[w].pipe = <<>>
    BY <1>1, <1>2 DEF WorkersInv, ServesOne, ExpectedOf
  <1>4. <<c, "info">> \in Calls \X Requests
    BY DEF Requests
  <1>5. /\ \E n \in Records :
              /\ worker' = [worker EXCEPT ![w] = n]
              /\ n.state = "up" /\ n.pipe = << <<c, "info">> >>
              /\ n.lock = worker[w].lock /\ n.home = worker[w].home /\ n.retired = worker[w].retired
        /\ strays' = strays \/ strays' = strays \union {w}
        /\ worker[w].state = "up" \/ w \in strays' \/ ~IsLeaving(w)
    BY <1>1, <1>2, <1>3, <1>4, EnsureIs
  <1>6. PICK n \in Records :
              /\ worker' = [worker EXCEPT ![w] = n]
              /\ n.state = "up" /\ n.pipe = << <<c, "info">> >>
              /\ n.lock = c /\ n.home = worker[w].home /\ n.retired = worker[w].retired
    BY <1>2, <1>5
  <1>7. PICK k \in CallRecords(made) :
          /\ call' = [call EXCEPT ![c] = k] /\ k.at = "refill"
          /\ k.client = call[c].client /\ k.todo = call[c].todo
    BY <1>1, ToIs
  <1>8. UsingOf(k) /\ ExpectedOf(c, k) = << <<c, "info">> >>
    <2>1. k.at = "refill" /\ ~(k.at \in {"first", "second"})
      BY <1>7
    <2>2. UsingOf(k)
      BY <2>1 DEF UsingOf
    <2>3. ExpectedOf(c, k) = << <<c, "info">> >>
      BY <2>1, Zenon DEF ExpectedOf
    <2> QED BY <2>2, <2>3
  <1> QED BY <1>1, <1>2, <1>5, <1>6, <1>7, <1>8, SendKeeps

\* The first try is over: the second is on a new process.
LEMMA RetryKeeps ==
  ASSUME WorkersInv, NEW c \in Calls, call[c].at = "first", Retry(c, Closed(Client(c))),
         UNCHANGED <<made, hubs, private, adoption, down, tick, crossed>>, deaths' \in 0..MaxDeaths
  PROVE  WorkersInv'
  <1> DEFINE w == Client(c)
  <1>1. /\ w \in 1..made /\ w \in Clients /\ worker[w] \in Records /\ Request(c) \in Requests
        /\ c # NoCall /\ crossed = FALSE /\ call[c].client = w
        /\ call[c].todo # <<>> /\ worker[w].lock = c /\ ~worker[w].retired
    BY CallParts DEF Client, UsingOf
  <1> DEFINE v == Closed(w)
  <1>2. v \in Records /\ v.lock = c /\ v.home = worker[w].home /\ v.retired = worker[w].retired
    <2>1. <<>> \in Seq(Calls \X Requests)
      OBVIOUS
    <2> QED BY <1>1, <2>1 DEF Closed, Records
  <1>3. SpawnAndSend(w, v, <<c, Request(c)>>) /\ To(c, "second") /\ <<c, Request(c)>> \in Calls \X Requests
    BY <1>1 DEF Retry
  <1> HIDE DEF v
  <1>4. /\ \E n \in Records :
              /\ worker' = [worker EXCEPT ![w] = n]
              /\ n.state = "up" /\ n.pipe = << <<c, Request(c)>> >>
              /\ n.lock = v.lock /\ n.home = v.home /\ n.retired = v.retired
        /\ strays' = strays \/ strays' = strays \union {w}
        /\ w \in strays' \/ ~IsLeaving(w)
    BY <1>1, <1>2, <1>3, SpawnIs
  <1>5. PICK n \in Records :
              /\ worker' = [worker EXCEPT ![w] = n]
              /\ n.state = "up" /\ n.pipe = << <<c, Request(c)>> >>
              /\ n.lock = c /\ n.home = worker[w].home /\ n.retired = worker[w].retired
    BY <1>2, <1>4
  <1>6. PICK k \in CallRecords(made) :
          /\ call' = [call EXCEPT ![c] = k] /\ k.at = "second"
          /\ k.client = call[c].client /\ k.todo = call[c].todo
    BY <1>3, ToIs
  <1>7. UsingOf(k) /\ ExpectedOf(c, k) = << <<c, Request(c)>> >>
    <2>1. k.at \in {"first", "second"} /\ k.todo = call[c].todo
      BY <1>6
    <2> QED BY <2>1 DEF UsingOf, ExpectedOf, Request
  <1> QED BY <1>1, <1>4, <1>5, <1>6, <1>7, SendKeeps

\* The call gives its client's lock back, the process gone or dead.
LEMMA GiveUpKeeps ==
  ASSUME WorkersInv, NEW c \in Calls, UsingOf(call[c]), NEW v \in Records,
         v.state # "up", v.header => v.state # "none",
         v.home = worker[Client(c)].home, v.retired = worker[Client(c)].retired,
         Over(c) \/ To(c, "dropping"), Released(Client(c), v),
         UNCHANGED <<made, hubs, private, adoption, down, tick, crossed, strays>>, deaths' \in 0..MaxDeaths
  PROVE  WorkersInv'
  <1> DEFINE w == Client(c)
  <1>1. /\ w \in 1..made /\ w \in Clients
        /\ c # NoCall /\ crossed = FALSE /\ call[c].client = w
        /\ call[c].todo # <<>> /\ worker[w].lock = c /\ ~worker[w].retired
    BY CallParts DEF Client, UsingOf
  <1>2. \E k \in CallRecords(made) :
          /\ call' = [call EXCEPT ![c] = k] /\ k.at \in {"idle", "waiting", "dropping"}
          /\ k.at # "idle" => k.client = call[c].client /\ k.todo # <<>>
    <2>1. call[c].at # "idle"
      BY DEF UsingOf
    <2>2. CASE Over(c)
      BY <2>1, <2>2, OverIs
    <2>3. CASE To(c, "dropping")
      BY <1>1, <2>3, ToIs
    <2> QED BY <2>2, <2>3
  <1>3. PICK k \in CallRecords(made) :
          /\ call' = [call EXCEPT ![c] = k] /\ k.at \in {"idle", "waiting", "dropping"}
          /\ k.at # "idle" => k.client = call[c].client /\ k.todo # <<>>
    BY <1>2
  <1>4. ~UsingOf(k) /\ call[c].at # "closing"
    BY <1>3 DEF UsingOf
  <1> DEFINE u == Unlocked(v)
  <1>5. /\ u \in Records /\ u.lock = NoCall /\ u.state = v.state /\ u.header = v.header
        /\ u.home = v.home /\ u.retired = v.retired
    BY DEF Unlocked, Records
  <1>6. worker' = [worker EXCEPT ![w] = u]
    BY DEF Released
  <1> HIDE DEF u
  <1>7. ServeStep(c, w, u, k)
    BY <1>1, <1>3, <1>4, <1>5, <1>6 DEF ServeStep
  <1> QED BY <1>1, <1>5, <1>7, ServeKeeps

LEMMA ClosedIs ==
  ASSUME NEW w \in Clients, worker[w] \in Records
  PROVE  /\ Closed(w) \in Records /\ Closed(w).state = "none" /\ ~Closed(w).header
         /\ Closed(w).home = worker[w].home /\ Closed(w).retired = worker[w].retired
         /\ Closed(w).lock = worker[w].lock
  <1>1. <<>> \in Seq(Calls \X Requests)
    OBVIOUS
  <1> QED BY <1>1 DEF Closed, Records

LEMMA ExpireKeeps == ASSUME WorkersInv, NEW c \in Calls, Expire(c) PROVE WorkersInv'
  <1>1. /\ call[c].at \in {"first", "second", "refill"}
        /\ UNCHANGED <<made, hubs, private, adoption, down, tick, crossed>>
    BY DEF Expire
  <1>2. deaths' \in 0..MaxDeaths
    BY WorkerConstants DEF Expire, WorkersInv, WorkerTypeOK
  <1>3. Client(c) \in Clients /\ worker[Client(c)] \in Records /\ UsingOf(call[c])
    BY <1>1, CallParts DEF UsingOf
  <1>4. CASE call[c].at = "first"
    BY <1>1, <1>2, <1>4, RetryKeeps DEF Expire
  <1>5. CASE call[c].at # "first"
    <2>1. Over(c) /\ Released(Client(c), Closed(Client(c))) /\ UNCHANGED strays
      BY <1>5 DEF Expire
    <2> QED BY <1>1, <1>2, <1>3, <2>1, ClosedIs, GiveUpKeeps
  <1> QED BY <1>4, <1>5

LEMMA ReadEndKeeps == ASSUME WorkersInv, NEW c \in Calls, ReadEnd(c) PROVE WorkersInv'
  <1>1. /\ call[c].at \in {"first", "second", "refill"} /\ worker[Client(c)].state = "dead"
        /\ UNCHANGED <<made, hubs, private, adoption, down, tick, crossed, deaths>>
    BY DEF ReadEnd
  <1>2. deaths' \in 0..MaxDeaths
    BY <1>1 DEF WorkersInv, WorkerTypeOK
  <1>3. Client(c) \in Clients /\ worker[Client(c)] \in Records /\ UsingOf(call[c])
    BY <1>1, CallParts DEF UsingOf
  <1>4. CASE call[c].at = "first"
    BY <1>1, <1>2, <1>4, RetryKeeps DEF ReadEnd
  <1>5. CASE call[c].at # "first"
    <2>1. /\ Over(c) \/ To(c, "dropping")
          /\ Released(Client(c), worker[Client(c)]) /\ UNCHANGED strays
      BY <1>5 DEF ReadEnd
    <2> QED BY <1>1, <1>2, <1>3, <2>1, GiveUpKeeps
  <1> QED BY <1>4, <1>5

LEMMA CloseDroppedKeeps == ASSUME WorkersInv, NEW c \in Calls, CloseDropped(c) PROVE WorkersInv'
  <1> DEFINE w == Client(c)
             v == Closed(w)
  <1>1. /\ call[c].at = "closing" /\ worker[w].lock = NoCall
        /\ worker' = [worker EXCEPT ![w] = v] /\ Over(c)
        /\ UNCHANGED <<made, hubs, private, adoption, down, tick, deaths, strays, crossed>>
    BY DEF CloseDropped, IsFree
  <1>2. /\ w \in 1..made /\ w \in Clients /\ worker[w] \in Records /\ call[c].client = w
        /\ c # NoCall /\ crossed = FALSE /\ deaths \in 0..MaxDeaths
    BY <1>1, CallParts DEF Client
  <1>3. PICK k \in CallRecords(made) :
          /\ call' = [call EXCEPT ![c] = k] /\ k.at \in {"idle", "waiting"}
          /\ k.at # "idle" => k.client = call[c].client /\ k.todo # <<>>
    BY <1>1, OverIs
  <1>4. ~UsingOf(k)
    BY <1>3 DEF UsingOf
  <1>5. /\ v \in Records /\ v.state = "none" /\ ~v.header /\ v.lock = NoCall
        /\ v.home = worker[w].home /\ v.retired = worker[w].retired
    BY <1>1, <1>2, ClosedIs
  <1> HIDE DEF v
  <1>6. ServeStep(c, w, v, k)
    BY <1>1, <1>2, <1>3, <1>4, <1>5 DEF ServeStep
  <1> QED BY <1>2, <1>5, <1>6, ServeKeeps

\* A step that makes no process: clients only go down or are retired, and their
\* owners keep what may be up.
LEMMA DownKeeps ==
  ASSUME WorkersInv, worker' \in [Clients -> Records], UNCHANGED <<made, call, crossed>>,
         deaths' \in 0..MaxDeaths, down' \in BOOLEAN,
         hubs' \in {0, hubs}, private' \in 0..made \union {Shared},
         adoption' \in [at : {"idle", "probing", "swapped"}, client : 0..made],
         tick' \in [at : {"idle", "seen", "forgetting"}, client : 0..made],
         strays \subseteq strays', strays' \subseteq Clients,
         \A u \in Clients : /\ worker'[u].home = worker[u].home
                            /\ worker'[u].lock = worker[u].lock,
         \A u \in Clients : \/ worker'[u] = worker[u]
                            \/ /\ u <= made /\ worker'[u].state # "up"
                               /\ worker'[u].header => worker'[u].state # "none"
                               /\ worker'[u].retired => worker[u].retired \/ worker[u].lock = NoCall,
         tick'.at # "idle" => tick'.client \in 1..made /\ worker[tick'.client].home = "hub",
         IF adoption'.at = "idle" THEN adoption'.client = 0 ELSE adoption'.client \in 1..made,
         hubs' # hubs /\ hubs \in Clients /\ worker'[hubs].state = "up" => hubs \in strays',
         tick'.at = "forgetting" /\ worker'[tick'.client].state = "up" => tick'.client \in strays',
         DaemonsAreKnown'
  PROVE  WorkersInv'
  <1>0. /\ worker \in [Clients -> Records] /\ call \in [Calls -> CallRecords(made)]
        /\ 1..made \subseteq Clients /\ made \in 0..MaxClients /\ made \in Nat
        /\ hubs \in 0..made
    BY WorkerParts DEF WorkersInv, WorkerTypeOK
  <1>1. WorkerTypeOK'
    <2>1. hubs' \in 0..made
      BY <1>0
    <2>2. crossed' \in BOOLEAN
      BY DEF WorkersInv, WorkerTypeOK
    <2>3. call' \in [Calls -> CallRecords(made')]
      BY <1>0
    <2> QED BY <1>0, <2>1, <2>2, <2>3 DEF WorkerTypeOK, Records, CallRecords
  <1>2. \A c \in Calls : call[c].at # "idle" => call[c].client \in Clients
    BY <1>0 DEF WorkersInv, ServesOne
  <1>3. ServesOne'
    <2>1. \A c \in Calls : call'[c].at # "idle" => call'[c].client \in 1..made' /\ call'[c].todo # <<>>
      BY DEF WorkersInv, ServesOne
    <2>2. \A c \in Calls : UsingOf(call'[c]) => worker'[call'[c].client].lock = c
      BY <1>2 DEF WorkersInv, ServesOne, UsingOf
    <2>3. \A u \in Clients : worker'[u].lock # NoCall =>
            UsingOf(call'[worker'[u].lock]) /\ call'[worker'[u].lock].client = u
      BY DEF WorkersInv, ServesOne
    <2>4. \A u \in Clients : worker'[u].state = "up" =>
            worker'[u].pipe = IF worker'[u].lock = NoCall THEN <<>>
                              ELSE ExpectedOf(worker'[u].lock, call'[worker'[u].lock])
      BY DEF WorkersInv, ServesOne
    <2> QED BY <2>1, <2>2, <2>3, <2>4 DEF ServesOne
  <1>4. ClientsAreMade'
    <2>1. \A u \in Clients : worker'[u].retired => worker'[u].state # "up" /\ worker'[u].lock = NoCall
      BY DEF WorkersInv, ClientsAreMade
    <2>2. \A u \in Clients : IF u <= made THEN worker'[u].home # "none" ELSE worker'[u] = NewWorker
      BY DEF WorkersInv, ClientsAreMade
    <2>3. hubs' # 0 => worker'[hubs'].home = "hub"
      BY <1>0 DEF WorkersInv, ClientsAreMade
    <2>4. tick'.at # "idle" => tick'.client \in 1..made /\ worker'[tick'.client].home = "hub"
      BY <1>0
    <2> QED BY <2>1, <2>2, <2>3, <2>4 DEF ClientsAreMade
  <1>5. HubsAreKnown'
    <2>1. \A u \in Clients : worker'[u].home = "hub" /\ worker'[u].state = "up" =>
            u \in {hubs'} \union strays' \/ \E c \in Calls : call'[c].at = "closing" /\ call'[c].client = u
      BY DEF WorkersInv, HubsAreKnown
    <2> QED BY <2>1 DEF HubsAreKnown
  <1>6. HeadersAreOfTheProcess'
    BY DEF WorkersInv, HeadersAreOfTheProcess
  <1>7. crossed' = FALSE
    BY DEF WorkersInv, WorkerTypeOK
  <1> QED BY <1>1, <1>3, <1>4, <1>5, <1>6, <1>7 DEF WorkersInv

\* What the daemon keeps, in a step that leaves it alone.
LEMMA DaemonsStay ==
  ASSUME WorkersInv, UNCHANGED <<private, adoption, down>>, strays \subseteq strays',
         \A u \in Clients : /\ worker'[u].home = worker[u].home
                            /\ worker[u].retired => worker'[u].retired
  PROVE  DaemonsAreKnown'
  <1>1. adoption.at = "probing" => adoption.client \in Clients
    BY WorkerParts DEF WorkersInv, ClientsAreMade
  <1> QED BY <1>1 DEF WorkersInv, DaemonsAreKnown

LEMMA OwnerParts ==
  ASSUME WorkersInv
  PROVE  /\ hubs \in 0..made /\ private \in 0..made \union {Shared}
         /\ adoption \in [at : {"idle", "probing", "swapped"}, client : 0..made]
         /\ tick \in [at : {"idle", "seen", "forgetting"}, client : 0..made]
         /\ strays \subseteq Clients /\ down \in BOOLEAN /\ deaths \in 0..MaxDeaths
         /\ hubs # 0 => hubs \in 1..made /\ worker[hubs].home = "hub"
         /\ tick.at # "idle" => tick.client \in 1..made /\ worker[tick.client].home = "hub"
         /\ IF adoption.at = "idle" THEN adoption.client = 0 ELSE adoption.client \in 1..made
         /\ tick.at = "forgetting" /\ worker[tick.client].state = "up" => tick.client \in strays
         /\ private \in Clients => private \in 1..made
  <1>1. /\ hubs \in 0..made /\ private \in 0..made \union {Shared}
        /\ adoption \in [at : {"idle", "probing", "swapped"}, client : 0..made]
        /\ tick \in [at : {"idle", "seen", "forgetting"}, client : 0..made]
        /\ strays \subseteq Clients /\ deaths \in 0..MaxDeaths /\ made \in 0..MaxClients
    BY DEF WorkersInv, WorkerTypeOK
  <1>2. down \in BOOLEAN
    BY DEF WorkersInv, WorkerTypeOK
  <1>3. /\ tick.at # "idle" => tick.client \in 1..made /\ worker[tick.client].home = "hub"
        /\ IF adoption.at = "idle" THEN adoption.client = 0 ELSE adoption.client \in 1..made
        /\ tick.at = "forgetting" /\ worker[tick.client].state = "up" => tick.client \in strays
        /\ hubs # 0 => worker[hubs].home = "hub"
    BY DEF WorkersInv, ClientsAreMade, HubsAreKnown
  <1>4. private \in Clients => private \in 1..made
    BY <1>1, WorkerConstants DEF Clients
  <1>5. hubs # 0 => hubs \in 1..made
    BY <1>1
  <1> QED BY <1>1, <1>2, <1>3, <1>4, <1>5

\* One client goes down.
LEMMA OneGoesDown ==
  ASSUME WorkersInv, NEW w \in 1..made, NEW v \in Records, worker' = [worker EXCEPT ![w] = v],
         v.home = worker[w].home, v.lock = worker[w].lock, v.state # "up",
         v.header => v.state # "none", worker[w].retired => v.retired,
         v.retired => worker[w].retired \/ worker[w].lock = NoCall
  PROVE  /\ worker' \in [Clients -> Records] /\ worker'[w] = v
         /\ \A u \in Clients : /\ worker'[u].home = worker[u].home
                               /\ worker'[u].lock = worker[u].lock
         /\ \A u \in Clients : worker[u].retired => worker'[u].retired
         /\ \A u \in Clients : \/ worker'[u] = worker[u]
                               \/ /\ u <= made /\ worker'[u].state # "up"
                                  /\ worker'[u].header => worker'[u].state # "none"
                                  /\ worker'[u].retired => worker[u].retired \/ worker[u].lock = NoCall
  <1>1. worker \in [Clients -> Records] /\ w \in Clients /\ w <= made
    BY WorkerParts
  <1>2. worker'[w] = v /\ \A u \in Clients \ {w} : worker'[u] = worker[u]
    BY <1>1
  <1>3. worker' \in [Clients -> Records]
    BY <1>1
  <1> QED BY <1>1, <1>2, <1>3

LEMMA DieKeeps == ASSUME WorkersInv, NEW w \in Clients, Die(w) PROVE WorkersInv'
  <1> DEFINE v == [worker[w] EXCEPT !.state = "dead"]
  <1>1. /\ worker[w].state = "up" /\ worker' = [worker EXCEPT ![w] = v]
        /\ UNCHANGED <<made, hubs, private, adoption, down, call, tick, strays, crossed>>
    BY DEF Die, IsUp
  <1>2. deaths' \in 0..MaxDeaths
    BY WorkerConstants DEF Die, WorkersInv, WorkerTypeOK
  <1>3. worker[w] \in Records /\ w \in 1..made
    <2>1. worker[w] # NewWorker
      BY <1>1 DEF NewWorker
    <2>2. w <= made
      BY <2>1 DEF WorkersInv, ClientsAreMade
    <2> QED BY <2>2, WorkerParts DEF Clients
  <1>4. /\ v \in Records /\ v.home = worker[w].home /\ v.lock = worker[w].lock /\ v.state = "dead"
        /\ v.retired = worker[w].retired
    BY <1>3 DEF Records
  <1> HIDE DEF v
  <1>5. /\ worker' \in [Clients -> Records] /\ worker'[w] = v
        /\ \A u \in Clients : /\ worker'[u].home = worker[u].home
                              /\ worker'[u].lock = worker[u].lock
        /\ \A u \in Clients : worker[u].retired => worker'[u].retired
        /\ \A u \in Clients : \/ worker'[u] = worker[u]
                              \/ /\ u <= made /\ worker'[u].state # "up"
                                 /\ worker'[u].header => worker'[u].state # "none"
                                 /\ worker'[u].retired => worker[u].retired \/ worker[u].lock = NoCall
    BY <1>1, <1>3, <1>4, OneGoesDown
  <1>6. DaemonsAreKnown'
    BY <1>1, <1>5, DaemonsStay
  <1>7. tick.at = "forgetting" /\ worker'[tick.client].state = "up" => tick.client \in strays
    BY <1>5, OwnerParts, WorkerParts
  <1> QED BY <1>1, <1>2, <1>5, <1>6, <1>7, OwnerParts, DownKeeps

LEMMA TickListsKeeps == ASSUME WorkersInv, TickLists PROVE WorkersInv'
  <1>1. /\ hubs # 0 /\ tick' = [at |-> "seen", client |-> hubs]
        /\ UNCHANGED <<worker, made, hubs, private, adoption, down, call, deaths, strays, crossed>>
    BY DEF TickLists
  <1>2. /\ tick' \in [at : {"idle", "seen", "forgetting"}, client : 0..made]
        /\ tick'.client \in 1..made /\ worker[tick'.client].home = "hub" /\ tick'.at = "seen"
    BY <1>1, OwnerParts
  <1>3. DaemonsAreKnown'
    BY <1>1, DaemonsStay
  <1> QED BY <1>1, <1>2, <1>3, OwnerParts, WorkerParts, DownKeeps

LEMMA TickIdleIs ==
  ASSUME WorkersInv, TickIdle
  PROVE  tick'.at = "idle" /\ tick' \in [at : {"idle", "seen", "forgetting"}, client : 0..made]
  <1>1. 0 \in 0..made
    BY WorkerParts
  <1> QED BY <1>1 DEF TickIdle

LEMMA TickForgetsKeeps == ASSUME WorkersInv, TickForgets PROVE WorkersInv'
  <1>1. /\ tick.at = "forgetting" /\ TickIdle
        /\ hubs' = IF hubs = tick.client THEN 0 ELSE hubs
        /\ UNCHANGED <<worker, made, private, adoption, down, call, deaths, strays, crossed>>
    BY DEF TickForgets
  <1>2. tick'.at = "idle" /\ tick' \in [at : {"idle", "seen", "forgetting"}, client : 0..made]
    BY <1>1, TickIdleIs
  <1>3. DaemonsAreKnown'
    BY <1>1, DaemonsStay
  <1>4. hubs' # hubs /\ worker'[hubs].state = "up" => hubs \in strays'
    BY <1>1, OwnerParts
  <1> QED BY <1>1, <1>2, <1>3, <1>4, OwnerParts, WorkerParts, DownKeeps

LEMMA TickEvictsKeeps == ASSUME WorkersInv, TickEvicts PROVE WorkersInv'
  <1> DEFINE w == tick.client
             v == Closed(w)
  <1>1. /\ tick.at = "seen" /\ worker[w].lock = NoCall
        /\ \/ worker' = [worker EXCEPT ![w] = v] /\ tick' = [tick EXCEPT !.at = "forgetting"]
           \/ TickIdle /\ UNCHANGED worker
        /\ UNCHANGED <<made, hubs, private, adoption, down, call, deaths, strays, crossed>>
    BY DEF TickEvicts, IsFree
  <1>2. w \in 1..made /\ w \in Clients /\ worker[w] \in Records /\ worker[w].home = "hub"
    BY <1>1, OwnerParts, WorkerParts
  <1>3. CASE worker' = [worker EXCEPT ![w] = v] /\ tick' = [tick EXCEPT !.at = "forgetting"]
    <2>1. /\ v \in Records /\ v.state = "none" /\ ~v.header /\ v.lock = worker[w].lock
          /\ v.home = worker[w].home /\ v.retired = worker[w].retired
      BY <1>2, ClosedIs
    <2> HIDE DEF v
    <2>2. /\ worker' \in [Clients -> Records] /\ worker'[w] = v
          /\ \A u \in Clients : /\ worker'[u].home = worker[u].home
                                /\ worker'[u].lock = worker[u].lock
          /\ \A u \in Clients : worker[u].retired => worker'[u].retired
          /\ \A u \in Clients : \/ worker'[u] = worker[u]
                                \/ /\ u <= made /\ worker'[u].state # "up"
                                   /\ worker'[u].header => worker'[u].state # "none"
                                   /\ worker'[u].retired => worker[u].retired \/ worker[u].lock = NoCall
      BY <1>2, <1>3, <2>1, OneGoesDown
    <2>3. DaemonsAreKnown'
      BY <1>1, <2>2, DaemonsStay
    <2>4. /\ tick' \in [at : {"idle", "seen", "forgetting"}, client : 0..made]
          /\ tick'.client = w /\ tick'.at = "forgetting"
      BY <1>3, OwnerParts
    <2> QED BY <1>1, <1>2, <2>1, <2>2, <2>3, <2>4, OwnerParts, DownKeeps
  <1>4. CASE TickIdle /\ UNCHANGED worker
    <2>1. tick'.at = "idle" /\ tick' \in [at : {"idle", "seen", "forgetting"}, client : 0..made]
      BY <1>4, TickIdleIs
    <2>2. DaemonsAreKnown'
      BY <1>1, <1>4, DaemonsStay
    <2> QED BY <1>1, <1>4, <2>1, <2>2, OwnerParts, WorkerParts, DownKeeps
  <1> QED BY <1>1, <1>3, <1>4

LEMMA EvictPrivateKeeps == ASSUME WorkersInv, EvictPrivate PROVE WorkersInv'
  <1> DEFINE w == private
             v == Closed(w)
  <1>1. /\ w \in Clients /\ worker' = [worker EXCEPT ![w] = v]
        /\ UNCHANGED <<made, hubs, private, adoption, down, call, tick, deaths, strays, crossed>>
    BY DEF EvictPrivate
  <1>2. w \in 1..made /\ worker[w] \in Records
    BY <1>1, OwnerParts, WorkerParts
  <1>3. /\ v \in Records /\ v.state = "none" /\ ~v.header /\ v.lock = worker[w].lock
        /\ v.home = worker[w].home /\ v.retired = worker[w].retired
    BY <1>1, <1>2, ClosedIs
  <1> HIDE DEF v
  <1>4. /\ worker' \in [Clients -> Records] /\ worker'[w] = v
        /\ \A u \in Clients : /\ worker'[u].home = worker[u].home
                              /\ worker'[u].lock = worker[u].lock
        /\ \A u \in Clients : worker[u].retired => worker'[u].retired
        /\ \A u \in Clients : \/ worker'[u] = worker[u]
                              \/ /\ u <= made /\ worker'[u].state # "up"
                                 /\ worker'[u].header => worker'[u].state # "none"
                                 /\ worker'[u].retired => worker[u].retired \/ worker[u].lock = NoCall
    BY <1>1, <1>2, <1>3, OneGoesDown
  <1>5. DaemonsAreKnown'
    BY <1>1, <1>4, DaemonsStay
  <1>6. tick.at = "forgetting" /\ worker'[tick.client].state = "up" => tick.client \in strays
    BY <1>4, OwnerParts, WorkerParts
  <1> QED BY <1>1, <1>4, <1>5, <1>6, OwnerParts, DownKeeps

LEMMA AdoptBeginsKeeps == ASSUME WorkersInv, AdoptBegins PROVE WorkersInv'
  <1>1. /\ adoption.at = "idle" /\ private \in Clients
        /\ adoption' = [at |-> "probing", client |-> private]
        /\ UNCHANGED <<worker, made, hubs, private, down, call, tick, deaths, strays, crossed>>
    BY DEF AdoptBegins
  <1>2. private \in 1..made /\ adoption.client = 0 /\ 0 \notin Clients
    BY <1>1, OwnerParts DEF Clients
  <1>3. /\ adoption' \in [at : {"idle", "probing", "swapped"}, client : 0..made]
        /\ adoption'.at = "probing" /\ adoption'.client = private
    BY <1>1, <1>2
  <1>4. private # Shared
    BY <1>2, WorkerConstants, WorkerParts
  <1>5. DaemonsAreKnown'
    BY <1>1, <1>2, <1>3, <1>4 DEF WorkersInv, DaemonsAreKnown
  <1> QED BY <1>1, <1>2, <1>3, <1>5, OwnerParts, WorkerParts, DownKeeps

LEMMA AdoptOverIs ==
  ASSUME WorkersInv, AdoptOver
  PROVE  /\ adoption'.at = "idle" /\ adoption'.client = 0
         /\ adoption' \in [at : {"idle", "probing", "swapped"}, client : 0..made]
  <1>1. 0 \in 0..made
    BY WorkerParts
  <1> QED BY <1>1 DEF AdoptOver

LEMMA AdoptFailsKeeps == ASSUME WorkersInv, AdoptFails PROVE WorkersInv'
  <1>1. /\ adoption.at = "probing" /\ AdoptOver
        /\ UNCHANGED <<worker, made, hubs, private, down, call, tick, deaths, strays, crossed>>
    BY DEF AdoptFails
  <1>2. /\ adoption'.at = "idle" /\ adoption'.client = 0
        /\ adoption' \in [at : {"idle", "probing", "swapped"}, client : 0..made]
    BY <1>1, AdoptOverIs
  <1>3. DaemonsAreKnown'
    BY <1>1, <1>2 DEF WorkersInv, DaemonsAreKnown
  <1> QED BY <1>1, <1>2, <1>3, OwnerParts, WorkerParts, DownKeeps

LEMMA SwapKeeps == ASSUME WorkersInv, Swap PROVE WorkersInv'
  <1>1. /\ adoption.at = "probing" /\ adoption' = [adoption EXCEPT !.at = "swapped"]
        /\ private' = Shared
        /\ strays' = IF down THEN strays \union ({private} \ {0, adoption.client}) ELSE strays
        /\ UNCHANGED <<worker, made, hubs, down, call, tick, deaths, crossed>>
    BY DEF Swap
  <1>2. /\ adoption'.at = "swapped" /\ adoption'.client = adoption.client
        /\ adoption' \in [at : {"idle", "probing", "swapped"}, client : 0..made]
        /\ adoption'.client \in 1..made
    BY <1>1, OwnerParts
  <1>3. strays \subseteq strays'
    BY <1>1
  <1>4. DaemonsAreKnown'
    <2>1. \A u \in Clients : u # 0
      BY DEF Clients
    <2>2. ASSUME NEW u \in Clients, worker[u].home = "daemon", ~worker[u].retired
          PROVE  u \in {private', adoption'.client} \union strays'
      BY <1>1, <1>2, <2>1, <2>2 DEF WorkersInv, DaemonsAreKnown
    <2> QED BY <1>1, <1>2, <2>2 DEF DaemonsAreKnown
  <1>5. strays' \subseteq Clients
    <2>1. private \in 0..made
      BY <1>1, OwnerParts DEF WorkersInv, DaemonsAreKnown
    <2>2. {private} \ {0, adoption.client} \subseteq 1..made
      BY <2>1, WorkerParts
    <2> QED BY <1>1, <2>2, OwnerParts, WorkerParts
  <1> QED BY <1>1, <1>2, <1>3, <1>4, <1>5, OwnerParts, WorkerParts, DownKeeps

LEMMA RetireOldKeeps == ASSUME WorkersInv, RetireOld PROVE WorkersInv'
  <1> DEFINE w == adoption.client
             v == Retired(w)
  <1>1. /\ adoption.at = "swapped" /\ worker[w].lock = NoCall
        /\ worker' = [worker EXCEPT ![w] = v] /\ AdoptOver
        /\ UNCHANGED <<made, hubs, private, down, call, tick, deaths, strays, crossed>>
    BY DEF RetireOld, IsFree
  <1>2. w \in 1..made /\ w \in Clients /\ worker[w] \in Records
    BY <1>1, OwnerParts, WorkerParts
  <1>3. /\ v \in Records /\ v.state = "none" /\ ~v.header /\ v.lock = worker[w].lock
        /\ v.home = worker[w].home /\ v.retired
    BY <1>2, ClosedIs DEF Retired, Records
  <1> HIDE DEF v
  <1>4. /\ worker' \in [Clients -> Records] /\ worker'[w] = v
        /\ \A u \in Clients : /\ worker'[u].home = worker[u].home
                              /\ worker'[u].lock = worker[u].lock
        /\ \A u \in Clients : worker[u].retired => worker'[u].retired
        /\ \A u \in Clients : \/ worker'[u] = worker[u]
                              \/ /\ u <= made /\ worker'[u].state # "up"
                                 /\ worker'[u].header => worker'[u].state # "none"
                                 /\ worker'[u].retired => worker[u].retired \/ worker[u].lock = NoCall
    BY <1>1, <1>2, <1>3, OneGoesDown
  <1>5. /\ adoption'.at = "idle" /\ adoption'.client = 0
        /\ adoption' \in [at : {"idle", "probing", "swapped"}, client : 0..made]
    BY <1>1, AdoptOverIs
  <1>6. DaemonsAreKnown'
    <2>1. ASSUME NEW u \in Clients, worker'[u].home = "daemon", ~worker'[u].retired
          PROVE  u \in {private} \union strays
      BY <1>3, <1>4, <2>1 DEF WorkersInv, DaemonsAreKnown
    <2> QED BY <1>1, <1>5, <2>1 DEF DaemonsAreKnown
  <1>7. tick.at = "forgetting" /\ worker'[tick.client].state = "up" => tick.client \in strays
    BY <1>4, OwnerParts, WorkerParts
  <1> QED BY <1>1, <1>4, <1>5, <1>6, <1>7, OwnerParts, DownKeeps

LEMMA CloseWorkersKeeps == ASSUME WorkersInv, CloseWorkers PROVE WorkersInv'
  <1> DEFINE w == private
  <1>1. /\ down' = TRUE
        /\ private \in Clients => worker[w].lock = NoCall
        /\ worker' = [u \in Clients |-> IF u = private THEN Retired(u) ELSE worker[u]]
        /\ private' = 0
        /\ UNCHANGED <<made, hubs, adoption, call, tick, deaths, strays, crossed>>
    BY DEF CloseWorkers, IsFree
  <1>2. 0 \in 0..made /\ 0 # Shared /\ 0 \notin Clients
    BY WorkerConstants, WorkerParts DEF Clients
  <1>3. /\ worker' \in [Clients -> Records]
        /\ \A u \in Clients : /\ worker'[u].home = worker[u].home
                              /\ worker'[u].lock = worker[u].lock
        /\ \A u \in Clients : worker[u].retired => worker'[u].retired
        /\ private \in Clients => worker'[private].retired
        /\ \A u \in Clients : \/ worker'[u] = worker[u]
                              \/ /\ u <= made /\ worker'[u].state # "up"
                                 /\ worker'[u].header => worker'[u].state # "none"
                                 /\ worker'[u].retired => worker[u].retired \/ worker[u].lock = NoCall
    <2>1. CASE private \in Clients
      <3> DEFINE v == Retired(w)
      <3>1. w \in 1..made /\ worker[w] \in Records /\ worker \in [Clients -> Records]
        BY <2>1, OwnerParts, WorkerParts
      <3>2. /\ v \in Records /\ v.state = "none" /\ ~v.header /\ v.lock = worker[w].lock
            /\ v.home = worker[w].home /\ v.retired
        BY <2>1, <3>1, ClosedIs DEF Retired, Records
      <3>3. worker' = [worker EXCEPT ![w] = v]
        BY <1>1, <2>1, <3>1
      <3> HIDE DEF v
      <3> QED BY <1>1, <2>1, <3>1, <3>2, <3>3, OneGoesDown
    <2>2. CASE private \notin Clients
      <3>1. worker' = worker
        BY <1>1, <2>2, WorkerParts
      <3> QED BY <2>2, <3>1, WorkerParts
    <2> QED BY <2>1, <2>2
  <1>4. DaemonsAreKnown'
    <2>1. ASSUME NEW u \in Clients, worker'[u].home = "daemon", ~worker'[u].retired
          PROVE  u \in {adoption.client} \union strays
      BY <1>3, <2>1 DEF WorkersInv, DaemonsAreKnown
    <2>2. adoption.at = "probing" => worker'[adoption.client].retired
      <3> SUFFICES ASSUME adoption.at = "probing" PROVE worker'[adoption.client].retired
        OBVIOUS
      <3>1. adoption.client \in Clients
        BY OwnerParts, WorkerParts
      <3>2. private = adoption.client \/ worker[adoption.client].retired
        BY DEF WorkersInv, DaemonsAreKnown
      <3> QED BY <1>3, <3>1, <3>2
    <2> QED BY <1>1, <1>2, <2>1, <2>2 DEF DaemonsAreKnown
  <1>5. tick.at = "forgetting" /\ worker'[tick.client].state = "up" => tick.client \in strays
    BY <1>3, OwnerParts, WorkerParts
  <1>6. down' \in BOOLEAN
    BY <1>1
  <1> QED BY <1>1, <1>2, <1>3, <1>4, <1>5, <1>6, OwnerParts, DownKeeps

\* A step of a call that holds no lock and closes nothing; a client may be made
\* on the way.
LEMMA WaitKeeps ==
  ASSUME WorkersInv, NEW c \in Calls, ~UsingOf(call[c]), call[c].at # "closing",
         made' \in 0..MaxClients, made <= made', NEW k \in CallRecords(made'),
         call' = [call EXCEPT ![c] = k], ~UsingOf(k),
         k.at # "idle" => k.client \in 1..made' /\ k.todo # <<>>,
         worker' \in [Clients -> Records],
         \A u \in Clients : ~(made < u /\ u <= made') => worker'[u] = worker[u],
         \A u \in Clients : made < u /\ u <= made' =>
           /\ worker'[u].state = "none" /\ worker'[u].lock = NoCall /\ ~worker'[u].header
           /\ ~worker'[u].retired /\ worker'[u].home # "none"
           /\ worker'[u].home = "daemon" => u = private',
         hubs' \in 0..made', private' \in 0..made' \union {Shared},
         \/ hubs' = hubs
         \/ hubs' = 0 /\ k.at = "closing" /\ k.client = hubs
         \/ hubs = 0 /\ worker'[hubs'].home = "hub",
         private' = private \/ (private = 0 /\ private' # Shared),
         UNCHANGED <<adoption, down, tick, deaths, strays, crossed>>
  PROVE  WorkersInv'
  <1>0. /\ worker \in [Clients -> Records] /\ call \in [Calls -> CallRecords(made)]
        /\ 1..made \subseteq Clients /\ 1..made' \subseteq Clients /\ made \in Nat
        /\ 0..made \subseteq 0..made' /\ 1..made \subseteq 1..made' /\ made' \in Nat
        /\ \A u \in 1..made : worker'[u] = worker[u]
    BY WorkerParts, WorkerConstants DEF Clients
  <1>1. call'[c] = k /\ \A d \in Calls \ {c} : call'[d] = call[d]
    BY <1>0
  <1>2. WorkerTypeOK'
    <2>1. \A d \in Calls : call[d] \in CallRecords(made')
      BY <1>0 DEF CallRecords
    <2>2. call' \in [Calls -> CallRecords(made')]
      BY <1>0, <2>1
    <2>3. /\ adoption' \in [at : {"idle", "probing", "swapped"}, client : 0..made']
          /\ tick' \in [at : {"idle", "seen", "forgetting"}, client : 0..made']
      BY <1>0, OwnerParts
    <2>4. crossed' \in BOOLEAN
      BY DEF WorkersInv, WorkerTypeOK
    <2>5. down' \in BOOLEAN
      BY OwnerParts
    <2>6. deaths' \in 0..MaxDeaths /\ strays' \subseteq Clients
      BY OwnerParts
    <2> QED BY <2>2, <2>3, <2>4, <2>5, <2>6 DEF WorkerTypeOK, Records, CallRecords
  <1>3. ASSUME NEW u \in Clients
        PROVE  worker'[u] = worker[u] \/ (worker'[u].lock = NoCall /\ worker'[u].state = "none")
    <2>1. CASE made < u /\ u <= made'
      BY <2>1
    <2>2. CASE ~(made < u /\ u <= made')
      BY <2>2
    <2> QED BY <2>1, <2>2
  <1>4. \A d \in Calls : call[d].at # "idle" => call[d].client \in 1..made
    BY DEF WorkersInv, ServesOne
  <1>5. ServesOne'
    <2>1. \A d \in Calls : call'[d].at # "idle" => call'[d].client \in 1..made' /\ call'[d].todo # <<>>
      BY <1>0, <1>1 DEF WorkersInv, ServesOne
    <2>2. ASSUME NEW d \in Calls, UsingOf(call'[d]) PROVE worker'[call'[d].client].lock = d
      <3>1. d # c /\ call'[d] = call[d]
        BY <1>1, <2>2
      <3>2. call[d].client \in 1..made
        BY <1>4, <2>2, <3>1 DEF UsingOf
      <3> QED BY <1>0, <2>2, <3>1, <3>2 DEF WorkersInv, ServesOne
    <2>3. \A u \in Clients : worker[u].lock # c
      BY WorkerConstants DEF WorkersInv, ServesOne
    <2>4. ASSUME NEW u \in Clients, worker'[u].lock # NoCall
          PROVE  UsingOf(call'[worker'[u].lock]) /\ call'[worker'[u].lock].client = u
      <3>1. worker'[u] = worker[u] /\ worker[u].lock \in Calls \ {c}
        BY <1>0, <1>3, <2>3, <2>4 DEF Records
      <3> QED BY <1>1, <2>4, <3>1 DEF WorkersInv, ServesOne
    <2>5. ASSUME NEW u \in Clients, worker'[u].state = "up"
          PROVE  worker'[u].pipe = IF worker'[u].lock = NoCall THEN <<>>
                                   ELSE ExpectedOf(worker'[u].lock, call'[worker'[u].lock])
      <3>1. worker'[u] = worker[u] /\ worker[u].lock \in (Calls \ {c}) \union {NoCall}
        BY <1>0, <1>3, <2>3, <2>5 DEF Records
      <3>2. worker[u].pipe = IF worker[u].lock = NoCall THEN <<>>
                             ELSE ExpectedOf(worker[u].lock, call[worker[u].lock])
        BY <2>5, <3>1 DEF WorkersInv, ServesOne
      <3> QED BY <1>1, <3>1, <3>2
    <2> QED BY <2>1, <2>2, <2>4, <2>5 DEF ServesOne
  <1>6. ClientsAreMade'
    <2>1. ASSUME NEW u \in Clients
          PROVE  /\ worker'[u].retired => worker'[u].state # "up" /\ worker'[u].lock = NoCall
                 /\ IF u <= made' THEN worker'[u].home # "none" ELSE worker'[u] = NewWorker
      <3>1. CASE made < u /\ u <= made'
        BY <3>1
      <3>2. CASE ~(made < u /\ u <= made')
        <4>1. worker'[u] = worker[u]
          BY <3>2
        <4>2. u <= made' <=> u <= made
          BY <1>0, <3>2 DEF Clients
        <4> QED BY <4>1, <4>2 DEF WorkersInv, ClientsAreMade
      <3> QED BY <3>1, <3>2
    <2>2. hubs' # 0 => worker'[hubs'].home = "hub"
      BY <1>0, OwnerParts
    <2>3. tick'.at # "idle" => tick'.client \in 1..made' /\ worker'[tick'.client].home = "hub"
      BY <1>0, OwnerParts
    <2>4. IF adoption'.at = "idle" THEN adoption'.client = 0 ELSE adoption'.client \in 1..made'
      BY <1>0, OwnerParts
    <2> QED BY <2>1, <2>2, <2>3, <2>4 DEF ClientsAreMade
  <1>7. HubsAreKnown'
    <2>1. ASSUME NEW u \in Clients, worker'[u].home = "hub", worker'[u].state = "up"
          PROVE  u \in {hubs'} \union strays' \/ \E d \in Calls : call'[d].at = "closing" /\ call'[d].client = u
      <3>1. worker'[u] = worker[u] /\ u # 0
        BY <1>3, <2>1 DEF Clients
      <3>2. u \in {hubs} \union strays \/ \E d \in Calls : call[d].at = "closing" /\ call[d].client = u
        BY <2>1, <3>1 DEF WorkersInv, HubsAreKnown
      <3>3. (\E d \in Calls : call[d].at = "closing" /\ call[d].client = u) =>
              \E d \in Calls : call'[d].at = "closing" /\ call'[d].client = u
        BY <1>1
      <3>4. ASSUME u = hubs, hubs' # hubs PROVE call'[c].at = "closing" /\ call'[c].client = u
        <4>1. hubs' = 0 /\ k.at = "closing" /\ k.client = hubs
          BY <3>1, <3>4
        <4> QED BY <1>1, <3>4, <4>1
      <3> QED BY <3>2, <3>3, <3>4
    <2>2. tick'.at = "forgetting" /\ worker'[tick'.client].state = "up" => tick'.client \in strays'
      BY <1>0, OwnerParts
    <2> QED BY <2>1, <2>2 DEF HubsAreKnown
  <1>8. DaemonsAreKnown'
    <2>1. ASSUME NEW u \in Clients, worker'[u].home = "daemon", ~worker'[u].retired
          PROVE  u \in {private', adoption'.client} \union strays'
      <3>1. CASE made < u /\ u <= made'
        BY <2>1, <3>1
      <3>2. CASE ~(made < u /\ u <= made')
        <4>1. worker'[u] = worker[u] /\ u # 0
          BY <3>2 DEF Clients
        <4>2. u \in {private, adoption.client} \union strays
          BY <2>1, <4>1 DEF WorkersInv, DaemonsAreKnown
        <4> QED BY <4>1, <4>2
      <3> QED BY <3>1, <3>2
    <2>2. ASSUME adoption.at = "probing"
          PROVE  /\ private' # Shared
                 /\ private' # adoption.client => down /\ worker'[adoption.client].retired
      <3>1. adoption.client \in 1..made /\ worker'[adoption.client] = worker[adoption.client]
        BY <1>0, <2>2, OwnerParts
      <3>2. private # Shared
        BY <2>2 DEF WorkersInv, DaemonsAreKnown
      <3>3. private # adoption.client => down /\ worker[adoption.client].retired
        BY <2>2 DEF WorkersInv, DaemonsAreKnown
      <3>4. private' # adoption.client => private # adoption.client
        BY <1>0, <3>1
      <3> QED BY <3>1, <3>2, <3>3, <3>4
    <2> QED BY <2>1, <2>2 DEF DaemonsAreKnown
  <1>9. HeadersAreOfTheProcess'
    BY DEF WorkersInv, HeadersAreOfTheProcess
  <1>10. crossed' = FALSE
    BY DEF WorkersInv, WorkerTypeOK
  <1> QED BY <1>2, <1>5, <1>6, <1>7, <1>8, <1>9, <1>10 DEF WorkersInv

LEMMA MakeIs ==
  ASSUME WorkersInv, NEW home \in {"hub", "daemon"}, Make(home)
  PROVE  /\ made' = made + 1 /\ made' \in 0..MaxClients /\ made <= made' /\ made' \in 1..made'
         /\ worker' \in [Clients -> Records] /\ worker'[made'].home = home
         /\ \A u \in Clients : ~(made < u /\ u <= made') => worker'[u] = worker[u]
         /\ \A u \in Clients : made < u /\ u <= made' =>
              /\ u = made' /\ worker'[u].state = "none" /\ worker'[u].lock = NoCall
              /\ ~worker'[u].header /\ ~worker'[u].retired /\ worker'[u].home = home
  <1> DEFINE n == made + 1
             v == [worker[n] EXCEPT !.home = home]
  <1>1. made' = n /\ made < MaxClients /\ worker' = [worker EXCEPT ![n] = v]
    BY DEF Make
  <1>2. n \in Clients /\ made \in Nat /\ n \in 0..MaxClients /\ n \in 1..n /\ ~(n <= made)
    BY <1>1, WorkerParts, WorkerConstants DEF Clients
  <1>3. worker[n] = NewWorker /\ worker[n] \in Records /\ worker \in [Clients -> Records]
    BY <1>2, WorkerParts DEF WorkersInv, ClientsAreMade
  <1>4. /\ v \in Records /\ v.state = "none" /\ v.lock = NoCall /\ ~v.header /\ ~v.retired
        /\ v.home = home
    <2>1. v = [NewWorker EXCEPT !.home = home]
      BY <1>3
    <2> HIDE DEF v
    <2>2. NewWorker \in Records
      BY <1>3
    <2> QED BY <2>1, <2>2 DEF Records, NewWorker
  <1>5. \A u \in Clients : made < u /\ u <= n <=> u = n
    BY <1>2 DEF Clients
  <1> HIDE DEF v, n
  <1>6. worker' \in [Clients -> Records]
    BY <1>1, <1>2, <1>3, <1>4
  <1>7. worker'[n] = v /\ \A u \in Clients \ {n} : worker'[u] = worker[u]
    BY <1>1, <1>2, <1>3
  <1> QED BY <1>1, <1>2, <1>4, <1>5, <1>6, <1>7 DEF n

\* No client is made.
LEMMA WaitOnlyKeeps ==
  ASSUME WorkersInv, NEW c \in Calls, ~UsingOf(call[c]), call[c].at # "closing",
         NEW k \in CallRecords(made), call' = [call EXCEPT ![c] = k], ~UsingOf(k),
         k.at # "idle" => k.client \in 1..made /\ k.todo # <<>>,
         hubs' = hubs \/ (hubs' = 0 /\ k.at = "closing" /\ k.client = hubs),
         UNCHANGED <<worker, made, private, adoption, down, tick, deaths, strays, crossed>>
  PROVE  WorkersInv'
  <1>1. made' = made /\ made \in 0..MaxClients /\ made <= made /\ made \in Nat /\ 0 \in 0..made
    BY WorkerParts
  <1>2. k \in CallRecords(made') /\ (k.at # "idle" => k.client \in 1..made' /\ k.todo # <<>>)
    BY <1>1
  <1>3. /\ worker' \in [Clients -> Records]
        /\ \A u \in Clients : ~(made < u /\ u <= made') => worker'[u] = worker[u]
    BY WorkerParts
  <1>4. \A u \in Clients : ~(made < u /\ u <= made')
    BY <1>1 DEF Clients
  <1>5. hubs' \in 0..made' /\ private' \in 0..made' \union {Shared}
    BY <1>1, OwnerParts
  <1>6. made' \in 0..MaxClients /\ made <= made' /\ private' = private
    BY <1>1
  <1> QED BY <1>2, <1>3, <1>4, <1>5, <1>6, WaitKeeps

LEMMA AskHubKeeps ==
  ASSUME WorkersInv, NEW c \in Calls, NEW request \in Requests, AskHub(c, request) PROVE WorkersInv'
  <1>1. /\ call[c].at = "idle"
        /\ UNCHANGED <<private, adoption, down, tick, deaths, strays, crossed>>
    BY DEF AskHub
  <1>2. ~UsingOf(call[c]) /\ call[c].at # "closing"
    BY <1>1 DEF UsingOf
  <1>3. CASE hubs = 0
    <2>1. Make("hub") /\ hubs' = made' /\ TakeClient(c, made', <<"info", request>>)
      BY <1>3 DEF AskHub
    <2>2. /\ made' = made + 1 /\ made' \in 0..MaxClients /\ made <= made' /\ made' \in 1..made'
          /\ worker' \in [Clients -> Records] /\ worker'[made'].home = "hub"
          /\ \A u \in Clients : ~(made < u /\ u <= made') => worker'[u] = worker[u]
          /\ \A u \in Clients : made < u /\ u <= made' =>
               /\ u = made' /\ worker'[u].state = "none" /\ worker'[u].lock = NoCall
               /\ ~worker'[u].header /\ ~worker'[u].retired /\ worker'[u].home = "hub"
      BY <2>1, MakeIs
    <2>3. <<"info", request>> \in Seq(Requests) /\ <<"info", request>> # <<>>
      BY DEF Requests
    <2>4. made' \in Nat
      BY <2>2, WorkerParts
    <2> DEFINE k == [at |-> "waiting", client |-> made', todo |-> <<"info", request>>]
    <2>5. /\ k \in CallRecords(made') /\ call' = [call EXCEPT ![c] = k]
          /\ k.at = "waiting" /\ k.client = made' /\ k.todo # <<>> /\ ~UsingOf(k)
      <3>1. k \in CallRecords(made')
        BY <2>2, <2>3, <2>4 DEF CallRecords
      <3>2. call' = [call EXCEPT ![c] = k]
        BY <2>1 DEF TakeClient
      <3> QED BY <2>3, <3>1, <3>2 DEF UsingOf
    <2> HIDE DEF k
    <2>6. private' \in 0..made' \union {Shared} /\ hubs' \in 0..made'
      BY <1>1, <2>1, <2>2, <2>4, OwnerParts, WorkerParts
    <2> QED BY <1>1, <1>2, <1>3, <2>1, <2>2, <2>5, <2>6, WaitKeeps
  <1>4. CASE hubs # 0
    <2>1. TakeClient(c, hubs, <<request>>) /\ UNCHANGED <<worker, made, hubs>>
      BY <1>4 DEF AskHub
    <2>2. <<request>> \in Seq(Requests) /\ <<request>> # <<>> /\ hubs \in 1..made /\ made \in Nat
      BY <1>4, OwnerParts, WorkerParts
    <2> DEFINE k == [at |-> "waiting", client |-> hubs, todo |-> <<request>>]
    <2>3. /\ k \in CallRecords(made) /\ call' = [call EXCEPT ![c] = k]
          /\ k.at = "waiting" /\ k.client = hubs /\ k.todo # <<>> /\ ~UsingOf(k)
      <3>1. k \in CallRecords(made)
        BY <2>2 DEF CallRecords
      <3>2. call' = [call EXCEPT ![c] = k]
        BY <2>1 DEF TakeClient
      <3> QED BY <2>2, <3>1, <3>2 DEF UsingOf
    <2> HIDE DEF k
    <2> QED BY <1>1, <1>2, <2>1, <2>2, <2>3, WaitOnlyKeeps
  <1> QED BY <1>3, <1>4

LEMMA AskPrivateKeeps ==
  ASSUME WorkersInv, NEW c \in Calls, NEW request \in Requests, AskPrivate(c, request) PROVE WorkersInv'
  <1>1. /\ call[c].at = "idle" /\ private # Shared
        /\ UNCHANGED <<hubs, adoption, down, tick, deaths, strays, crossed>>
    BY DEF AskPrivate
  <1>2. ~UsingOf(call[c]) /\ call[c].at # "closing"
    BY <1>1 DEF UsingOf
  <1>3. <<request>> \in Seq(Requests) /\ <<request>> # <<>>
    OBVIOUS
  <1>4. CASE private = 0
    <2>1. Make("daemon") /\ private' = made' /\ TakeClient(c, made', <<request>>)
      BY <1>4 DEF AskPrivate
    <2>2. /\ made' = made + 1 /\ made' \in 0..MaxClients /\ made <= made' /\ made' \in 1..made'
          /\ worker' \in [Clients -> Records] /\ worker'[made'].home = "daemon"
          /\ \A u \in Clients : ~(made < u /\ u <= made') => worker'[u] = worker[u]
          /\ \A u \in Clients : made < u /\ u <= made' =>
               /\ u = made' /\ worker'[u].state = "none" /\ worker'[u].lock = NoCall
               /\ ~worker'[u].header /\ ~worker'[u].retired /\ worker'[u].home = "daemon"
      BY <2>1, MakeIs
    <2>3. made' \in Nat
      BY <2>2, WorkerParts
    <2> DEFINE k == [at |-> "waiting", client |-> made', todo |-> <<request>>]
    <2>4. /\ k \in CallRecords(made') /\ call' = [call EXCEPT ![c] = k]
          /\ k.at = "waiting" /\ k.client = made' /\ k.todo # <<>> /\ ~UsingOf(k)
      <3>1. k \in CallRecords(made')
        BY <1>3, <2>2, <2>3 DEF CallRecords
      <3>2. call' = [call EXCEPT ![c] = k]
        BY <2>1 DEF TakeClient
      <3> QED BY <1>3, <3>1, <3>2 DEF UsingOf
    <2> HIDE DEF k
    <2>5. private' \in 0..made' \union {Shared} /\ hubs' \in 0..made' /\ private' # Shared
      BY <1>1, <2>1, <2>2, <2>3, OwnerParts, WorkerParts, WorkerConstants
    <2> QED BY <1>1, <1>2, <1>4, <2>1, <2>2, <2>4, <2>5, WaitKeeps
  <1>5. CASE private # 0
    <2>1. TakeClient(c, private, <<request>>) /\ UNCHANGED <<worker, made, private>>
      BY <1>5 DEF AskPrivate
    <2>2. private \in 1..made /\ made \in Nat
      BY <1>1, <1>5, OwnerParts, WorkerParts
    <2> DEFINE k == [at |-> "waiting", client |-> private, todo |-> <<request>>]
    <2>3. /\ k \in CallRecords(made) /\ call' = [call EXCEPT ![c] = k]
          /\ k.at = "waiting" /\ k.client = private /\ k.todo # <<>> /\ ~UsingOf(k)
      <3>1. k \in CallRecords(made)
        BY <1>3, <2>2 DEF CallRecords
      <3>2. call' = [call EXCEPT ![c] = k]
        BY <2>1 DEF TakeClient
      <3> QED BY <1>3, <3>1, <3>2 DEF UsingOf
    <2> HIDE DEF k
    <2> QED BY <1>1, <1>2, <2>1, <2>2, <2>3, WaitOnlyKeeps
  <1> QED BY <1>4, <1>5

LEMMA DropKeeps == ASSUME WorkersInv, NEW c \in Calls, Drop(c) PROVE WorkersInv'
  <1>1. /\ call[c].at = "dropping"
        /\ UNCHANGED <<worker, made, private, adoption, down, tick, deaths, strays, crossed>>
    BY DEF Drop
  <1>2. ~UsingOf(call[c]) /\ call[c].at # "closing"
    BY <1>1 DEF UsingOf
  <1>3. Client(c) \in 1..made /\ call[c].todo # <<>>
    BY <1>1, CallParts
  <1>5. CASE hubs' = 0 /\ hubs = Client(c) /\ To(c, "closing")
    <2>1. PICK k \in CallRecords(made) :
            /\ call' = [call EXCEPT ![c] = k] /\ k.at = "closing"
            /\ k.client = call[c].client /\ k.todo = call[c].todo
      BY <1>5, ToIs
    <2>2. ~UsingOf(k) /\ k.client = hubs /\ k.client \in 1..made /\ k.todo # <<>>
      BY <1>3, <1>5, <2>1 DEF UsingOf, Client
    <2> QED BY <1>1, <1>2, <1>5, <2>1, <2>2, WaitOnlyKeeps
  <1>6. CASE Over(c) /\ UNCHANGED hubs
    <2>1. PICK k \in CallRecords(made) :
            /\ call' = [call EXCEPT ![c] = k] /\ k.at \in {"idle", "waiting"}
            /\ k.at # "idle" => k.client = call[c].client /\ k.todo # <<>>
      BY <1>1, <1>6, OverIs
    <2>2. ~UsingOf(k) /\ (k.at # "idle" => k.client \in 1..made /\ k.todo # <<>>)
      BY <1>3, <2>1 DEF UsingOf, Client
    <2> QED BY <1>1, <1>2, <1>6, <2>1, <2>2, WaitOnlyKeeps
  <1> QED BY <1>5, <1>6 DEF Drop

LEMMA StutterWorkersInv == ASSUME WorkersInv, UNCHANGED workerVars PROVE WorkersInv'
  <1>1. UNCHANGED <<worker, made, hubs, private, adoption, down, call, tick, deaths, strays, crossed>>
    BY DEF workerVars
  <1>2. DaemonsAreKnown'
    BY <1>1, DaemonsStay
  <1> QED BY <1>1, <1>2, OwnerParts, WorkerParts, DownKeeps

LEMMA NextWorkersInv == WorkersInv /\ [WorkersNext]_workerVars => WorkersInv'
  <1> SUFFICES ASSUME WorkersInv, [WorkersNext]_workerVars PROVE WorkersInv'
    OBVIOUS
  <1>1. ASSUME NEW c \in Calls,
               \/ \E request \in Requests : AskHub(c, request)
               \/ \E request \in {"score", "info"} : AskPrivate(c, request)
               \/ Enter(c) \/ Refill(c) \/ Expire(c) \/ ReadEnd(c)
               \/ \E ok \in BOOLEAN : ReadAnswer(c, ok)
               \/ Drop(c) \/ CloseDropped(c)
        PROVE  WorkersInv'
    <2>1. {"score", "info"} \subseteq Requests
      BY DEF Requests
    <2> QED BY <1>1, <2>1, AskHubKeeps, AskPrivateKeeps, EnterKeeps, RefillKeeps, ExpireKeeps,
               ReadEndKeeps, ReadAnswerKeeps, DropKeeps, CloseDroppedKeeps
  <1>2. ASSUME NEW w \in Clients, Die(w) PROVE WorkersInv'
    BY <1>2, DieKeeps
  <1>3. CASE \/ TickLists \/ TickEvicts \/ TickForgets
             \/ EvictPrivate \/ AdoptBegins \/ AdoptFails \/ Swap \/ RetireOld \/ CloseWorkers
    BY <1>3, TickListsKeeps, TickEvictsKeeps, TickForgetsKeeps, EvictPrivateKeeps, AdoptBeginsKeeps,
       AdoptFailsKeeps, SwapKeeps, RetireOldKeeps, CloseWorkersKeeps
  <1>4. CASE UNCHANGED workerVars
    BY <1>4, StutterWorkersInv
  <1> QED BY <1>1, <1>2, <1>3, <1>4 DEF WorkersNext

\* Every record keeps its type: a client's process is none, up or dead, its lock
\* is free or a call's, and who refers to a client refers to one that was made.
\* (subproc.py:205-240; modelsrv.py:266-317; daemon.py:913-1072)
THEOREM WorkerTypeCorrect == WorkersSpec => []WorkerTypeOK
  <1>1. WorkersInv => WorkerTypeOK
    BY DEF WorkersInv
  <1> QED BY <1>1, InitWorkersInv, NextWorkersInv, PTL DEF WorkersSpec

\* Whatever times out, dies, is evicted, dropped, retired or replaced while calls
\* hold a client: no call reads what answers another frame, a kept header is of
\* the process that is there, and a process that is up has an owner that knows
\* it, or a cause.  (subproc.py:294-434; modelsrv.py:301-407; daemon.py:1024-1072)
THEOREM WorkersAreAccounted == WorkersSpec => []WorkersAccounted
  <1>1. WorkersInv => WorkersAccounted
    <2> SUFFICES ASSUME WorkersInv PROVE WorkersAccounted
      OBVIOUS
    <2>1. ASSUME NEW w \in Clients, IsUp(w)
          PROVE  \/ w \in {hubs, private, adoption.client} \union strays
                 \/ \E c \in Calls : call[c].at = "closing" /\ Client(c) = w
      <3>1. ~worker[w].retired /\ worker[w].home \in {"hub", "daemon"}
        <4>1. worker[w] # NewWorker
          BY <2>1 DEF IsUp, NewWorker
        <4>2. ~worker[w].retired /\ worker[w].home # "none"
          BY <2>1, <4>1 DEF WorkersInv, ClientsAreMade, IsUp
        <4>3. worker[w] \in Records
          BY WorkerParts
        <4> QED BY <4>2, <4>3 DEF Records
      <3>2. CASE worker[w].home = "hub"
        BY <2>1, <3>2 DEF WorkersInv, HubsAreKnown, IsUp, Client
      <3>3. CASE worker[w].home = "daemon"
        BY <3>1, <3>3 DEF WorkersInv, DaemonsAreKnown
      <3> QED BY <3>1, <3>2, <3>3
    <2>2. LiveAreKnown
      BY <2>1 DEF LiveAreKnown
    <2> QED BY <2>2 DEF WorkersInv, WorkersAccounted
  <1> QED BY <1>1, InitWorkersInv, NextWorkersInv, PTL DEF WorkersSpec

-----------------------------------------------------------------------------
(* VECTORS *)

(***************************************************************************)
(* For any rows, partitions, writes, failures and kills. An embed stores   *)
(* what it took long ago, and a rollback brings back rows as they were and *)
(* leaves the vectors. So `TextTaken' says that where the clock an embed   *)
(* has seen is still the row's, so is the text it took; and everything is  *)
(* said twice, of the table the writer sees (`ViewInv') and of the one a   *)
(* rollback restores (`SavedInv'). `BereftInv' is the converse for rows    *)
(* without a vector, and `EmbedInv' says that while vectors are stored the *)
(* rows of the batch are as its first phase saw them.                      *)
(***************************************************************************)

\* The vector of a row, in the dataset where it belongs.
Vector(e) == vec[PartOf[e]][e]

\* What follows is said of a table: its rows r, texts x, clocks c, stamps s.

Fresh(r, c, s, e) == r[e] = "there" /\ ~(s[e] < c[e] \/ s[e] = 0)

\* A stamp is a clock's reading, and a row to come has none.
Clocked(r, c, s) == \A e \in Rows : s[e] <= c[e] /\ (r[e] = "unborn" => s[e] = 0)

\* A fresh row has no vector of another text, unless it was reworded.
TextKept(r, x, c, s, e) ==
  Fresh(r, c, s, e) => Vector(e) \in {NoVector, x[e]} \/ e \in reworded

\* The embed's batch has been there, and was read before now.
Followed(r, c) == \A e \in embed.todo : r[e] # "unborn" /\ embed.seen[e] <= c[e]

\* Where the clock stands, the text in the batch is the row's.
TextTaken(x, c, e) ==
  e \in embed.todo /\ embed.seen[e] = c[e] => embed.taken[e] = x[e] \/ e \in reworded

\* The table as the writer sees it.
ViewInv ==
  /\ Clocked(row, clock, stamp)
  /\ Followed(row, clock)
  /\ \A e \in Rows \ {half} : TextKept(row, text, clock, stamp, e) /\ TextTaken(text, clock, e)

\* The table that a rollback restores.
SavedInv ==
  saved # NoTx =>
    /\ Clocked(saved.row, saved.clock, saved.stamp)
    /\ Followed(saved.row, saved.clock)
    /\ \A e \in Rows : /\ TextKept(saved.row, saved.text, saved.clock, saved.stamp, e)
                       /\ TextTaken(saved.text, saved.clock, e)
                       /\ Vector(e) # NoVector => saved.row[e] = "there" \/ e \in astray

\* A fresh row without a vector is one whose purge is under way or was undone.
BereftInv ==
  \A e \in Rows \ doomed :
    Fresh(row, clock, stamp, e) /\ Vector(e) = NoVector => e \in bereft

\* While the batch is stored nobody else is at work, and its rows are as the
\* first phase saw them.
EmbedInv ==
  /\ \A e \in embed.todo : PartOf[e] = embed.part
  /\ embed.phase # "storing" => embed.put = {}
  /\ embed.phase = "storing" =>
       /\ half = NoRow /\ doomed = {} /\ saved = NoTx
       /\ embed.put \subseteq embed.todo
       /\ \A e \in embed.todo : There(e) /\ clock[e] = embed.seen[e]
       /\ \A e \in embed.put : Vector(e) = embed.taken[e]

\* The types, field by field.
VectorTypes ==
  /\ row \in [Rows -> {"unborn", "there", "purged"}]
  /\ text \in [Rows -> Nat] /\ clock \in [Rows -> Nat] /\ stamp \in [Rows -> Nat]
  /\ saved \in Tables \union {NoTx}
  /\ half \in Rows \union {NoRow} /\ doomed \subseteq Rows
  /\ vec \in [Parts -> [Rows -> Nat \union {NoVector}]]
  /\ embed \in [phase : {"idle", "encoding", "storing"}, part : Parts,
                seen : [Rows -> Nat], taken : [Rows -> Nat],
                todo : SUBSET Rows, put : SUBSET Rows]
  /\ changes \in 0..MaxChanges /\ mishaps \in 0..MaxMishaps
  /\ reworded \subseteq Rows /\ bereft \subseteq Rows /\ astray \subseteq Rows

VectorInv == /\ VectorTypes /\ ViewInv /\ SavedInv /\ BereftInv /\ EmbedInv
        /\ OrphansForACause

-----------------------------------------------------------------------------
LEMMA VectorTypesAreOK == VectorTypes => VectorTypeOK
  <1> DEFINE Now == [row |-> row, text |-> text, clock |-> clock, stamp |-> stamp]
  <1>1. VectorTypes => Now \in Tables
    BY DEF VectorTypes, Tables
  <1> QED BY <1>1 DEF VectorTypeOK, VectorTypes

LEMMA RestedType ==
    Rested \in [phase : {"idle", "encoding", "storing"}, part : Parts,
                seen : [Rows -> Nat], taken : [Rows -> Nat],
                todo : SUBSET Rows, put : SUBSET Rows]
  <1>1. (CHOOSE p \in Parts : TRUE) \in Parts
    BY VectorConstants
  <1> QED BY <1>1 DEF Rested, NoSeen

LEMMA InitVectorInv == VectorInit => VectorInv
  <1> SUFFICES ASSUME VectorInit PROVE VectorInv
    OBVIOUS
  <1> USE DEF VectorInit, NoSeen
  <1>1. VectorTypes
    <2>1. changes \in 0..MaxChanges /\ mishaps \in 0..MaxMishaps
      BY VectorConstants
    <2> QED BY <2>1, RestedType DEF VectorTypes
  <1>2. /\ ViewInv /\ SavedInv /\ BereftInv /\ EmbedInv /\ OrphansForACause
    BY VectorConstants DEF ViewInv, SavedInv, BereftInv, EmbedInv, OrphansForACause,
       Clocked, Followed, TextKept, TextTaken, Fresh, Rested
  <1> QED BY <1>1, <1>2 DEF VectorInv

-----------------------------------------------------------------------------
(* Writes *)

LEMMA AddRowKeeps ==
    ASSUME VectorInv, NEW e \in Rows, AddRow(e)
    PROVE  VectorInv'
  <1> USE VectorConstants DEF VectorInv, VectorTypes, There, Between
  <1>1. VectorTypes'
    BY DEF AddRow, Change
  <1>2. ViewInv'
    BY DEF AddRow, Change, ViewInv, Clocked, Followed, TextKept, TextTaken, Fresh, Vector
  <1>3. SavedInv'
    BY DEF AddRow, Change, SavedInv, Clocked, Followed, TextKept, TextTaken, Fresh, Vector
  <1>4. BereftInv'
    BY DEF AddRow, Change, ViewInv, Clocked, BereftInv, Fresh, Vector
  <1>5. EmbedInv'
    BY DEF AddRow, Change, EmbedInv, Vector
  <1>6. OrphansForACause'
    BY DEF AddRow, Change, OrphansForACause
  <1> QED BY <1>1, <1>2, <1>3, <1>4, <1>5, <1>6

LEMMA EditBodyKeeps ==
    ASSUME VectorInv, NEW e \in Rows, EditBody(e)
    PROVE  VectorInv'
  <1> USE VectorConstants DEF VectorInv, VectorTypes, There, Between
  <1>1. VectorTypes'
    BY DEF EditBody, Change
  <1>2. ViewInv'
    BY DEF EditBody, Change, ViewInv, Clocked, Followed, TextKept, TextTaken, Fresh,
       Vector
  <1>3. SavedInv'
    BY DEF EditBody, Change, SavedInv, Clocked, Followed, TextKept, TextTaken, Fresh,
       Vector
  <1>4. BereftInv'
    BY DEF EditBody, Change, BereftInv, Fresh, Vector
  <1>5. EmbedInv'
    BY DEF EditBody, Change, EmbedInv, Vector
  <1>6. OrphansForACause'
    BY DEF EditBody, Change, OrphansForACause
  <1> QED BY <1>1, <1>2, <1>3, <1>4, <1>5, <1>6

LEMMA EditClockKeeps ==
    ASSUME VectorInv, NEW e \in Rows, EditClock(e)
    PROVE  VectorInv'
  <1> USE VectorConstants DEF VectorInv, VectorTypes, There
  <1>1. VectorTypes'
    BY DEF EditClock
  <1>2. ViewInv'
    BY DEF EditClock, ViewInv, Clocked, Followed, TextKept, TextTaken, Fresh, Vector
  <1>3. SavedInv'
    BY DEF EditClock, SavedInv, Clocked, Followed, TextKept, TextTaken, Fresh, Vector
  <1>4. BereftInv'
    BY DEF EditClock, ViewInv, Clocked, BereftInv, Fresh, Vector
  <1>5. EmbedInv'
    BY DEF EditClock, EmbedInv, Vector
  <1>6. OrphansForACause'
    BY DEF EditClock, OrphansForACause
  <1> QED BY <1>1, <1>2, <1>3, <1>4, <1>5, <1>6

LEMMA UpsertKeeps ==
    ASSUME VectorInv, NEW e \in Rows, Upsert(e)
    PROVE  VectorInv'
  <1> USE VectorConstants DEF VectorInv, VectorTypes, There, Between
  <1>1. VectorTypes'
    BY DEF Upsert, Change
  <1>2. ViewInv'
    BY DEF Upsert, Change, ViewInv, Clocked, Followed, TextKept, TextTaken, Fresh, Vector
  <1>3. SavedInv'
    BY DEF Upsert, Change, SavedInv, Clocked, Followed, TextKept, TextTaken, Fresh, Vector
  <1>4. BereftInv'
    BY DEF Upsert, Change, ViewInv, Clocked, BereftInv, Fresh, Vector
  <1>5. EmbedInv'
    BY DEF Upsert, Change, EmbedInv, Vector
  <1>6. OrphansForACause'
    BY DEF Upsert, Change, OrphansForACause
  <1> QED BY <1>1, <1>2, <1>3, <1>4, <1>5, <1>6

LEMMA TouchKeeps ==
    ASSUME VectorInv, NEW e \in Rows, Touch(e)
    PROVE  VectorInv'
  <1> USE VectorConstants DEF VectorInv, VectorTypes, There, Between
  <1>1. VectorTypes'
    BY DEF Touch, Change
  <1>2. ViewInv'
    BY DEF Touch, Change, ViewInv, Clocked, Followed, TextKept, TextTaken, Fresh, Vector
  <1>3. SavedInv'
    BY DEF Touch, Change, SavedInv, Clocked, Followed, TextKept, TextTaken, Fresh, Vector
  <1>4. BereftInv'
    BY DEF Touch, Change, ViewInv, Clocked, BereftInv, Fresh, Vector
  <1>5. EmbedInv'
    BY DEF Touch, Change, EmbedInv, Vector
  <1>6. OrphansForACause'
    BY DEF Touch, Change, OrphansForACause
  <1> QED BY <1>1, <1>2, <1>3, <1>4, <1>5, <1>6

LEMMA RelabelKeeps ==
    ASSUME VectorInv, NEW e \in Rows, Relabel(e)
    PROVE  VectorInv'
  <1> USE VectorConstants DEF VectorInv, VectorTypes, There, Between, LockFree
  <1>1. VectorTypes'
    BY DEF Relabel, Change
  <1>2. ViewInv'
    BY DEF Relabel, Change, ViewInv, Clocked, Followed, TextKept, TextTaken, Fresh, Vector
  <1>3. SavedInv'
    BY DEF Relabel, Change, SavedInv, Clocked, Followed, TextKept, TextTaken, Fresh,
       Vector
  <1>4. BereftInv'
    BY DEF Relabel, Change, BereftInv, Fresh, Vector
  <1>5. EmbedInv'
    BY DEF Relabel, Change, EmbedInv, Vector
  <1>6. OrphansForACause'
    BY DEF Relabel, Change, OrphansForACause
  <1> QED BY <1>1, <1>2, <1>3, <1>4, <1>5, <1>6

(* Purges *)

LEMMA DropVectorsKeeps ==
    ASSUME VectorInv, NEW S \in SUBSET Rows, NEW p \in Parts, DropVectors(S, p)
    PROVE  VectorInv'
  <1> USE VectorConstants DEF VectorInv, VectorTypes, There, Between, Change
  <1>a. \A q \in Parts, e \in Rows : /\ vec'[q][e] \in {vec[q][e], NoVector}
                                     /\ e \notin S => vec'[q][e] = vec[q][e]
    BY DEF DropVectors
  <1>1. VectorTypes'
    <2>1. vec' \in [Parts -> [Rows -> Nat \union {NoVector}]]
      BY DEF DropVectors
    <2>2. /\ UNCHANGED <<tableVars, saved, half, embed, reworded, bereft, astray>>
          /\ doomed' \subseteq Rows /\ changes' \in 0..MaxChanges /\ mishaps' \in 0..MaxMishaps
      BY DEF DropVectors
    <2> QED BY <2>1, <2>2 DEF tableVars
  <1>2. ViewInv'
    BY <1>a DEF DropVectors, tableVars, ViewInv, Clocked, Followed, TextKept, TextTaken,
       Fresh, Vector
  <1>3. SavedInv'
    BY <1>a DEF DropVectors, tableVars, SavedInv, Clocked, Followed, TextKept, TextTaken,
       Fresh, Vector
  <1>4. BereftInv'
    BY <1>a DEF DropVectors, tableVars, BereftInv, Fresh, Vector
  <1>5. EmbedInv'
    BY <1>a DEF DropVectors, tableVars, EmbedInv, Vector
  <1>6. OrphansForACause'
    BY <1>a DEF DropVectors, tableVars, OrphansForACause
  <1> QED BY <1>1, <1>2, <1>3, <1>4, <1>5, <1>6

LEMMA DeleteRowKeeps ==
    ASSUME VectorInv, NEW e \in Rows, DeleteRow(e)
    PROVE  VectorInv'
  <1> USE VectorConstants DEF VectorInv, VectorTypes, There
  <1>1. VectorTypes'
    BY DEF DeleteRow
  <1>2. ViewInv'
    BY DEF DeleteRow, ViewInv, Clocked, Followed, TextKept, TextTaken, Fresh, Vector
  <1>3. SavedInv'
    BY DEF DeleteRow, SavedInv, Clocked, Followed, TextKept, TextTaken, Fresh, Vector
  <1>4. BereftInv'
    BY DEF DeleteRow, BereftInv, Fresh, Vector
  <1>5. EmbedInv'
    BY DEF DeleteRow, EmbedInv, Vector
  <1>6. OrphansForACause'
    BY DEF DeleteRow, Vector, OrphansForACause
  <1> QED BY <1>1, <1>2, <1>3, <1>4, <1>5, <1>6

(* Transactions and faults *)

LEMMA BeginTxKeeps ==
    ASSUME VectorInv, BeginTx
    PROVE  VectorInv'
  <1> USE VectorConstants DEF VectorInv, VectorTypes, There, Between, LockFree, Change
  <1>1. VectorTypes'
    BY DEF BeginTx, tableVars, Tables
  <1>2. ViewInv'
    BY DEF BeginTx, tableVars, ViewInv, Clocked, Followed, TextKept, TextTaken, Fresh,
       Vector
  <1>3. SavedInv'
    BY DEF BeginTx, tableVars, ViewInv, OrphansForACause, SavedInv, Clocked, Followed,
       TextKept, TextTaken, Fresh, Vector
  <1>4. BereftInv'
    BY DEF BeginTx, tableVars, BereftInv, Fresh, Vector
  <1>5. EmbedInv'
    BY DEF BeginTx, tableVars, EmbedInv, Vector
  <1>6. OrphansForACause'
    BY DEF BeginTx, tableVars, OrphansForACause
  <1> QED BY <1>1, <1>2, <1>3, <1>4, <1>5, <1>6

LEMMA CommitTxKeeps ==
    ASSUME VectorInv, CommitTx
    PROVE  VectorInv'
  <1> USE VectorConstants DEF VectorInv, VectorTypes, There, Between
  <1>1. VectorTypes'
    BY DEF CommitTx, tableVars
  <1>2. ViewInv'
    BY DEF CommitTx, tableVars, ViewInv, Clocked, Followed, TextKept, TextTaken, Fresh,
       Vector
  <1>3. SavedInv'
    BY DEF CommitTx, tableVars, SavedInv, Clocked, Followed, TextKept, TextTaken, Fresh,
       Vector
  <1>4. BereftInv'
    BY DEF CommitTx, tableVars, BereftInv, Fresh, Vector
  <1>5. EmbedInv'
    BY DEF CommitTx, tableVars, EmbedInv, Vector
  <1>6. OrphansForACause'
    BY DEF CommitTx, tableVars, OrphansForACause
  <1> QED BY <1>1, <1>2, <1>3, <1>4, <1>5, <1>6

LEMMA CutKeeps ==
    ASSUME VectorInv, Raise \/ DaemonDies
    PROVE  VectorInv'
  <1> USE VectorConstants DEF VectorInv, VectorTypes, There, Restored
  <1>1. VectorTypes'
    BY RestedType DEF Raise, DaemonDies, Cut, Tables
  <1>2. ViewInv'
    <2>1. embed' \in {embed, Rested} /\ UNCHANGED vec /\ reworded \subseteq reworded'
      BY DEF Raise, DaemonDies, Cut
    <2>2. CASE saved = NoTx
      BY <2>1, <2>2 DEF Raise, DaemonDies, Cut, Rested, ViewInv, Clocked, Followed, TextKept,
         TextTaken, Fresh, Vector
    <2>3. CASE saved # NoTx
      BY <2>1, <2>3 DEF Raise, DaemonDies, Cut, Rested, SavedInv, ViewInv, Clocked, Followed,
         TextKept, TextTaken, Fresh, Vector
    <2> QED BY <2>2, <2>3
  <1>3. SavedInv'
    BY DEF Raise, DaemonDies, Cut, SavedInv, Clocked, Followed, TextKept, TextTaken,
       Fresh, Vector
  <1>4. BereftInv'
    BY DEF Raise, DaemonDies, Cut, Tables, BereftInv, Fresh, Vector
  <1>5. EmbedInv'
    BY DEF Raise, DaemonDies, Cut, Rested, EmbedInv, Vector
  <1>6. OrphansForACause'
    BY DEF Raise, DaemonDies, Cut, SavedInv, Vector, OrphansForACause
  <1> QED BY <1>1, <1>2, <1>3, <1>4, <1>5, <1>6

(* The embed op *)

LEMMA SelectKeeps ==
    ASSUME VectorInv, NEW S \in SUBSET Rows, NEW p \in Parts, Select(p, S)
    PROVE  VectorInv'
  <1> USE VectorConstants DEF VectorInv, VectorTypes, There, Between, LockFree
  <1>1. VectorTypes'
    BY DEF Select, tableVars
  <1>2. ViewInv'
    BY DEF Select, tableVars, ViewInv, Clocked, Followed, TextKept, TextTaken, Fresh,
       Vector
  <1>3. SavedInv'
    BY DEF Select, tableVars, SavedInv, Clocked, Followed, TextKept, TextTaken, Fresh,
       Vector
  <1>4. BereftInv'
    BY DEF Select, tableVars, BereftInv, Fresh, Vector
  <1>5. EmbedInv'
    BY DEF Select, tableVars, EmbedInv, Vector
  <1>6. OrphansForACause'
    BY DEF Select, tableVars, OrphansForACause
  <1> QED BY <1>1, <1>2, <1>3, <1>4, <1>5, <1>6

LEMMA RestKeeps ==
    ASSUME VectorInv, GiveUp \/ EmbedEnds \/ StoreFails
    PROVE  VectorInv'
  <1> USE VectorConstants DEF VectorInv, VectorTypes, There, Rested
  <1>1. VectorTypes'
    BY RestedType DEF GiveUp, EmbedEnds, StoreFails, tableVars
  <1>2. ViewInv'
    BY DEF GiveUp, EmbedEnds, StoreFails, tableVars, ViewInv, Clocked, Followed, TextKept,
       TextTaken, Fresh, Vector
  <1>3. SavedInv'
    BY DEF GiveUp, EmbedEnds, StoreFails, tableVars, SavedInv, Clocked, Followed,
       TextKept, TextTaken, Fresh, Vector
  <1>4. BereftInv'
    BY DEF GiveUp, EmbedEnds, StoreFails, tableVars, BereftInv, Fresh, Vector
  <1>5. EmbedInv'
    BY DEF GiveUp, EmbedEnds, StoreFails, tableVars, EmbedInv, Vector
  <1>6. OrphansForACause'
    BY DEF GiveUp, EmbedEnds, StoreFails, tableVars, OrphansForACause
  <1> QED BY <1>1, <1>2, <1>3, <1>4, <1>5, <1>6

LEMMA StoreBeginsKeeps ==
    ASSUME VectorInv, StoreBegins
    PROVE  VectorInv'
  <1> USE VectorConstants DEF VectorInv, VectorTypes, There, Between, LockFree
  <1>1. VectorTypes'
    BY DEF StoreBegins, tableVars
  <1>2. ViewInv'
    BY DEF StoreBegins, tableVars, ViewInv, Clocked, Followed, TextKept, TextTaken, Fresh,
       Vector
  <1>3. SavedInv'
    BY DEF StoreBegins, tableVars, SavedInv, Clocked, Followed, TextKept, TextTaken,
       Fresh, Vector
  <1>4. BereftInv'
    BY DEF StoreBegins, tableVars, BereftInv, Fresh, Vector
  <1>5. EmbedInv'
    BY DEF StoreBegins, tableVars, EmbedInv, Vector
  <1>6. OrphansForACause'
    BY DEF StoreBegins, tableVars, OrphansForACause
  <1> QED BY <1>1, <1>2, <1>3, <1>4, <1>5, <1>6

LEMMA PutVectorsKeeps ==
    ASSUME VectorInv, NEW S \in SUBSET Rows, PutVectors(S)
    PROVE  VectorInv'
  <1> USE VectorConstants DEF VectorInv, VectorTypes, There
  <1>1. VectorTypes'
    BY DEF PutVectors, tableVars
  <1>2. ViewInv'
    BY DEF PutVectors, tableVars, EmbedInv, ViewInv, Clocked, Followed, TextKept,
       TextTaken, Fresh, Vector
  <1>3. SavedInv'
    BY DEF PutVectors, tableVars, EmbedInv, SavedInv, Clocked, Followed, TextKept,
       TextTaken, Fresh, Vector
  <1>4. BereftInv'
    BY DEF PutVectors, tableVars, EmbedInv, BereftInv, Fresh, Vector
  <1>5. EmbedInv'
    BY DEF PutVectors, tableVars, EmbedInv, Vector
  <1>6. OrphansForACause'
    BY DEF PutVectors, tableVars, EmbedInv, OrphansForACause
  <1> QED BY <1>1, <1>2, <1>3, <1>4, <1>5, <1>6

LEMMA StampRowsKeeps ==
    ASSUME VectorInv, StampRows
    PROVE  VectorInv'
  <1> USE VectorConstants DEF VectorInv, VectorTypes, There
  <1>1. VectorTypes'
    BY DEF StampRows
  <1>2. ViewInv'
    BY DEF StampRows, EmbedInv, ViewInv, Clocked, Followed, TextKept, TextTaken, Fresh,
       Vector
  <1>3. SavedInv'
    BY DEF StampRows, EmbedInv, SavedInv, Clocked, Followed, TextKept, TextTaken, Fresh,
       Vector
  <1>4. BereftInv'
    BY DEF StampRows, EmbedInv, ViewInv, BereftInv, Fresh, Vector
  <1>5. EmbedInv'
    BY DEF StampRows, EmbedInv, Vector
  <1>6. OrphansForACause'
    BY DEF StampRows, EmbedInv, OrphansForACause
  <1> QED BY <1>1, <1>2, <1>3, <1>4, <1>5, <1>6

LEMMA CollectKeeps ==
    ASSUME VectorInv, NEW S \in SUBSET Rows, NEW p \in Parts, NEW done \in BOOLEAN,
           Collect(p, S, done)
    PROVE  VectorInv'
  <1> USE VectorConstants DEF VectorInv, VectorTypes, There, Between, LockFree, Change
  <1>1. VectorTypes'
    BY DEF Collect
  <1>2. ViewInv'
    BY DEF Collect, ViewInv, Clocked, Followed, TextKept, TextTaken, Fresh, Vector
  <1>3. SavedInv'
    BY DEF Collect, SavedInv, Clocked, Followed, TextKept, TextTaken, Fresh, Vector
  <1>4. BereftInv'
    BY DEF Collect, BereftInv, Fresh, Vector
  <1>5. EmbedInv'
    BY DEF Collect, EmbedInv, Vector
  <1>6. OrphansForACause'
    BY DEF Collect, OrphansForACause
  <1> QED BY <1>1, <1>2, <1>3, <1>4, <1>5, <1>6

-----------------------------------------------------------------------------
LEMMA VectorStutterKeeps == ASSUME VectorInv, UNCHANGED vectorVars PROVE VectorInv'
  BY DEF vectorVars, tableVars, VectorInv, VectorTypes, ViewInv, SavedInv, BereftInv, EmbedInv,
     OrphansForACause, Clocked, Followed, TextKept, TextTaken, Fresh, Vector, There

LEMMA VectorNextKeeps == VectorInv /\ [VectorNext]_vectorVars => VectorInv'
  <1> SUFFICES ASSUME VectorInv, [VectorNext]_vectorVars PROVE VectorInv'
    OBVIOUS
  <1>1. ASSUME NEW e \in Rows,
               \/ AddRow(e) \/ EditBody(e) \/ EditClock(e) \/ Upsert(e)
               \/ Touch(e) \/ Relabel(e) \/ DeleteRow(e)
        PROVE  VectorInv'
    BY <1>1, AddRowKeeps, EditBodyKeeps, EditClockKeeps, UpsertKeeps, TouchKeeps,
       RelabelKeeps, DeleteRowKeeps
  <1>2. ASSUME NEW S \in SUBSET Rows, NEW p \in Parts,
               \/ DropVectors(S, p) \/ Select(p, S)
               \/ \E done \in BOOLEAN : Collect(p, S, done)
        PROVE  VectorInv'
    BY <1>2, DropVectorsKeeps, SelectKeeps, CollectKeeps
  <1>3. CASE BeginTx \/ CommitTx \/ Raise \/ DaemonDies
    BY <1>3, BeginTxKeeps, CommitTxKeeps, CutKeeps
  <1>4. CASE GiveUp \/ StoreBegins \/ StampRows \/ EmbedEnds \/ StoreFails
    BY <1>4, RestKeeps, StoreBeginsKeeps, StampRowsKeeps
  <1>5. ASSUME NEW S \in SUBSET Rows, PutVectors(S) PROVE VectorInv'
    BY <1>5, PutVectorsKeeps
  <1>6. CASE UNCHANGED vectorVars
    BY <1>6, VectorStutterKeeps
  <1> QED BY <1>1, <1>2, <1>3, <1>4, <1>5, <1>6 DEF VectorNext

LEMMA VectorInvariant == VectorSpec => []VectorInv
  BY InitVectorInv, VectorNextKeeps, PTL DEF VectorSpec

\* The state of rows, vectors and the embed op keeps its types.
\* (daemon.py:5917-6030, store.py:2174-2506, 3500-3646)
THEOREM VectorTypeCorrect == VectorSpec => []VectorTypeOK
  <1>1. VectorInv => VectorTypeOK
    BY VectorTypesAreOK DEF VectorInv
  <1> QED BY <1>1, VectorInvariant, PTL

\* A row that no embed would look at has a vector of its text, unless it was
\* relabelled, cut between its two statements, or its purge was undone.
\* (daemon.py:5943-6010, store.py:2464-2505)
THEOREM FreshRowsAreCurrent == VectorSpec => []CurrentUnlessReworded
  <1>1. VectorInv => CurrentUnlessReworded
    BY VectorConstants DEF VectorInv, VectorTypes, ViewInv, BereftInv, TextKept, Fresh, Vector,
       CurrentUnlessReworded, LockFree, Between, There, Pending
  <1> QED BY <1>1, VectorInvariant, PTL

\* A vector lies in its row's dataset, and without a row only after a purge
\* that missed it.  (daemon.py:5995-6001, store.py:6026-6027)
THEOREM OrphansAreExplained == VectorSpec => []OrphansForACause
  <1>1. VectorInv => OrphansForACause
    BY DEF VectorInv
  <1> QED BY <1>1, VectorInvariant, PTL

\* Whatever is written, purged, rolled back or killed while the model runs, rows
\* and vectors match but for the named causes.  (daemon.py:5943-6010)
THEOREM VectorsAreAccounted == VectorSpec => []VectorsAccounted
  <1>1. CurrentUnlessReworded /\ OrphansForACause => VectorsAccounted
    BY DEF VectorsAccounted
  <1> QED BY <1>1, FreshRowsAreCurrent, OrphansAreExplained, PTL

-----------------------------------------------------------------------------
(* ROTATION SLOTS *)

(***************************************************************************)
(* For any ids, keys and slots: a merge is the union of the slots by key,  *)
(* and its installation loses no row.                                      *)
(*                                                                         *)
(* The first part is about the operators: a key that shares no id has one  *)
(* id in the merge, its home, and the remaps send to it the ids of that    *)
(* key and of no other. The second follows the files through the op: once  *)
(* A is replaced it holds everything, and B is the file of before, torn,   *)
(* missing or a copy of A.                                                 *)
(***************************************************************************)

(* What merge_slots makes *)

LEMMA TypedRows ==
  ASSUME NEW c, IsTyped(c)
  PROVE  /\ \A i \in DOMAIN c.row : i \in Ids /\ c.row[i].key \in Keys /\ c.row[i].at \in Nat
         /\ \A i, j \in DOMAIN c.row : c.row[i].key = c.row[j].key => i = j
         /\ \A i \in DOMAIN c.text : i \in DOMAIN c.row /\ c.text[i] \in Nat
         /\ \A l \in c.links : l = <<l[1], l[2]>> /\ l[1] \in DOMAIN c.row /\ l[2] \in DOMAIN c.row
  <1>1. c.row \in [DOMAIN c.row -> [key : Keys, at : Nat]]
    BY DEF IsTyped
  <1>2. \A i \in DOMAIN c.row : c.row[i] \in [key : Keys, at : Nat]
    BY <1>1
  <1> QED
    BY <1>2 DEF IsTyped, KeysAreUnique

\* A loser gets the id of its key in the other slot; other ids stay.
LEMMA RemapAFacts ==
  ASSUME NEW a, NEW b, IsTyped(a), IsTyped(b), NEW x \in DOMAIN a.row
  PROVE  \/ x \notin LosersA(a, b) /\ RemapA(a, b, x) = x
         \/ /\ x \in LosersA(a, b) /\ RemapA(a, b, x) \in DOMAIN b.row
            /\ b.row[RemapA(a, b, x)].key = a.row[x].key
            /\ RemapA(a, b, x) # x /\ a.row[x].at < b.row[RemapA(a, b, x)].at
  <1>1. CASE x \notin LosersA(a, b)
    BY <1>1 DEF RemapA, Remap
  <1>2. CASE x \in LosersA(a, b)
    <2>1. PICK j \in DOMAIN b.row : x # j /\ a.row[x].key = b.row[j].key /\ a.row[x].at < b.row[j].at
      BY <1>2 DEF LosersA
    <2>2. RemapA(a, b, x) = CHOOSE i \in DOMAIN b.row : b.row[i].key = a.row[x].key
      BY <1>2 DEF RemapA, Remap
    <2>3. RemapA(a, b, x) \in DOMAIN b.row /\ b.row[RemapA(a, b, x)].key = a.row[x].key
      BY <2>1, <2>2
    <2>4. RemapA(a, b, x) = j
      BY <2>1, <2>3, TypedRows
    <2> QED
      BY <1>2, <2>1, <2>4
  <1> QED
    BY <1>1, <1>2

LEMMA RemapBFacts ==
  ASSUME NEW a, NEW b, IsTyped(a), IsTyped(b), NEW x \in DOMAIN b.row
  PROVE  \/ x \notin LosersB(a, b) /\ RemapB(a, b, x) = x
         \/ /\ x \in LosersB(a, b) /\ RemapB(a, b, x) \in DOMAIN a.row
            /\ a.row[RemapB(a, b, x)].key = b.row[x].key
            /\ RemapB(a, b, x) # x /\ a.row[RemapB(a, b, x)].at >= b.row[x].at
  <1>1. CASE x \notin LosersB(a, b)
    BY <1>1 DEF RemapB, Remap
  <1>2. CASE x \in LosersB(a, b)
    <2>1. PICK i \in DOMAIN a.row : i # x /\ a.row[i].key = b.row[x].key /\ a.row[i].at >= b.row[x].at
      BY <1>2 DEF LosersB
    <2>2. RemapB(a, b, x) = CHOOSE j \in DOMAIN a.row : a.row[j].key = b.row[x].key
      BY <1>2 DEF RemapB, Remap
    <2>3. RemapB(a, b, x) \in DOMAIN a.row /\ a.row[RemapB(a, b, x)].key = b.row[x].key
      BY <2>1, <2>2
    <2>4. RemapB(a, b, x) = i
      BY <2>1, <2>3, TypedRows
    <2> QED
      BY <1>2, <2>1, <2>4
  <1> QED
    BY <1>1, <1>2

\* Where a merged row comes from.
LEMMA RowsOfMerged ==
  ASSUME NEW a, NEW b, IsTyped(a), IsTyped(b)
  PROVE  LET m == MergedRows(a, b)
         IN /\ DOMAIN m = (DOMAIN a.row \ LosersA(a, b)) \union (DOMAIN b.row \ LosersB(a, b))
            /\ \A i \in DOMAIN m :
                 \/ i \in DOMAIN a.row \ LosersA(a, b) /\ m[i] = a.row[i]
                    /\ (i \in DOMAIN b.row => b.row[i].at <= a.row[i].at)
                 \/ i \in DOMAIN b.row /\ m[i] = b.row[i]
                    /\ (i \in DOMAIN a.row \ LosersA(a, b) => a.row[i].at < b.row[i].at)
                    /\ (i \notin DOMAIN a.row \ LosersA(a, b) => i \notin LosersB(a, b))
  BY TypedRows DEF MergedRows

\* A merged row is a row of a slot, whole.
LEMMA RowIsOneOfTheTwo ==
  ASSUME NEW a, NEW b, IsTyped(a), IsTyped(b), NEW i \in DOMAIN Merged(a, b).row
  PROVE  \/ i \in DOMAIN a.row /\ Merged(a, b).row[i] = a.row[i]
         \/ i \in DOMAIN b.row /\ Merged(a, b).row[i] = b.row[i]
  <1>1. Merged(a, b).row = MergedRows(a, b)
    BY DEF Merged
  <1>2. i \in DOMAIN MergedRows(a, b)
    BY <1>1
  <1>3. \/ i \in DOMAIN a.row /\ MergedRows(a, b)[i] = a.row[i]
        \/ i \in DOMAIN b.row /\ MergedRows(a, b)[i] = b.row[i]
    BY <1>2 DEF MergedRows
  <1> QED
    BY <1>1, <1>3

\* Two keys are linked iff a link joins rows of theirs.
LEMMA LinkedByLink ==
  ASSUME NEW c, IsTyped(c), NEW k, NEW l
  PROVE  Linked(c, k, l) <=> \E x \in c.links : c.row[x[1]].key = k /\ c.row[x[2]].key = l
  <1>1. ASSUME Linked(c, k, l)
        PROVE  \E x \in c.links : c.row[x[1]].key = k /\ c.row[x[2]].key = l
    <2>1. PICK i \in IdsOf(c, k), j \in IdsOf(c, l) : <<i, j>> \in c.links
      BY <1>1 DEF Linked
    <2>2. c.row[i].key = k /\ c.row[j].key = l
      BY <2>1 DEF IdsOf
    <2>3. <<i, j>>[1] = i /\ <<i, j>>[2] = j
      OBVIOUS
    <2> QED
      BY <2>1, <2>2, <2>3
  <1>2. ASSUME NEW x \in c.links, c.row[x[1]].key = k, c.row[x[2]].key = l
        PROVE  Linked(c, k, l)
    <2>1. x = <<x[1], x[2]>> /\ x[1] \in DOMAIN c.row /\ x[2] \in DOMAIN c.row
      BY TypedRows
    <2>2. x[1] \in IdsOf(c, k) /\ x[2] \in IdsOf(c, l)
      BY <1>2, <2>1 DEF IdsOf
    <2> QED
      BY <2>1, <2>2 DEF Linked
  <1> QED
    BY <1>1, <1>2

\* h is the id that key k has in the merge, and what its ids in the slots become.
Home(a, b, k, h) ==
  /\ \A x \in DOMAIN a.row : RemapA(a, b, x) = h <=> a.row[x].key = k
  /\ \A x \in DOMAIN b.row : RemapB(a, b, x) = h <=> b.row[x].key = k
  /\ h \in DOMAIN MergedRows(a, b)
  /\ \A x \in DOMAIN MergedRows(a, b) : MergedRows(a, b)[x].key = k <=> x = h
  /\ \/ \E x \in DOMAIN a.row : a.row[x].key = k /\ a.row[x].at = MergedRows(a, b)[h].at
     \/ \E x \in DOMAIN b.row : b.row[x].key = k /\ b.row[x].at = MergedRows(a, b)[h].at
  /\ \A x \in DOMAIN a.row : a.row[x].key = k => a.row[x].at <= MergedRows(a, b)[h].at
  /\ \A x \in DOMAIN b.row : b.row[x].key = k => b.row[x].at <= MergedRows(a, b)[h].at

\* An id that two keys share is not one of a clean key.
LEMMA CleanIds ==
  ASSUME NEW a, NEW b, NEW k \in Keys \ Unclean(a, b),
         NEW i \in DOMAIN a.row, i \in DOMAIN b.row
  PROVE  a.row[i].key = k <=> b.row[i].key = k
  BY DEF Unclean

\* Four cases: the key is in one slot only, or has one id in both, or has two
\* and the one or the other is newer.
LEMMA KeyHome ==
  ASSUME NEW a, NEW b, IsTyped(a), IsTyped(b), NEW k \in Keys \ Unclean(a, b),
         k \in KeysOf(a) \union KeysOf(b)
  PROVE  \E h : Home(a, b, k, h)
  <1> DEFINE RA(x) == RemapA(a, b, x)
             RB(x) == RemapB(a, b, x)
             LA == LosersA(a, b)
             LB == LosersB(a, b)
             m == MergedRows(a, b)
  <1>1. /\ \A i \in DOMAIN a.row : a.row[i].at \in Nat
        /\ \A i \in DOMAIN b.row : b.row[i].at \in Nat
        /\ \A i, j \in DOMAIN a.row : a.row[i].key = a.row[j].key => i = j
        /\ \A i, j \in DOMAIN b.row : b.row[i].key = b.row[j].key => i = j
    BY TypedRows
  <1>2. \A x \in DOMAIN a.row :
          \/ x \notin LA /\ RA(x) = x
          \/ /\ x \in LA /\ RA(x) \in DOMAIN b.row /\ b.row[RA(x)].key = a.row[x].key
             /\ RA(x) # x /\ a.row[x].at < b.row[RA(x)].at
    BY RemapAFacts
  <1>3. \A x \in DOMAIN b.row :
          \/ x \notin LB /\ RB(x) = x
          \/ /\ x \in LB /\ RB(x) \in DOMAIN a.row /\ a.row[RB(x)].key = b.row[x].key
             /\ RB(x) # x /\ a.row[RB(x)].at >= b.row[x].at
    BY RemapBFacts
  <1>4. \A i \in DOMAIN a.row : i \in DOMAIN b.row => (a.row[i].key = k <=> b.row[i].key = k)
    BY CleanIds
  <1>5. /\ DOMAIN m = (DOMAIN a.row \ LA) \union (DOMAIN b.row \ LB)
        /\ \A i \in DOMAIN m :
             \/ i \in DOMAIN a.row \ LA /\ m[i] = a.row[i]
                /\ (i \in DOMAIN b.row => b.row[i].at <= a.row[i].at)
             \/ i \in DOMAIN b.row /\ m[i] = b.row[i]
                /\ (i \in DOMAIN a.row \ LA => a.row[i].at < b.row[i].at)
                /\ (i \notin DOMAIN a.row \ LA => i \notin LB)
    BY RowsOfMerged
  <1>6. /\ LA \subseteq DOMAIN a.row /\ LB \subseteq DOMAIN b.row
        /\ \A i \in DOMAIN a.row : \A j \in DOMAIN b.row :
             i # j /\ a.row[i].key = b.row[j].key =>
               IF a.row[i].at < b.row[j].at THEN i \in LA ELSE j \in LB
    BY <1>1 DEF LosersA, LosersB
  <1> HIDE DEF RA, RB, LA, LB, m
  <1>7. ASSUME NEW h,
               \A x \in DOMAIN a.row : RA(x) = h <=> a.row[x].key = k,
               \A x \in DOMAIN b.row : RB(x) = h <=> b.row[x].key = k,
               h \in DOMAIN m,
               \A x \in DOMAIN m : m[x].key = k <=> x = h,
               \/ \E x \in DOMAIN a.row : a.row[x].key = k /\ a.row[x].at = m[h].at
               \/ \E x \in DOMAIN b.row : b.row[x].key = k /\ b.row[x].at = m[h].at,
               \A x \in DOMAIN a.row : a.row[x].key = k => a.row[x].at <= m[h].at,
               \A x \in DOMAIN b.row : b.row[x].key = k => b.row[x].at <= m[h].at
        PROVE  Home(a, b, k, h)
    BY <1>7 DEF RA, RB, m, Home
  <1>8. CASE \E i \in DOMAIN a.row : a.row[i].key = k /\ \A j \in DOMAIN b.row : b.row[j].key # k
    <2>1. PICK i \in DOMAIN a.row : a.row[i].key = k /\ \A j \in DOMAIN b.row : b.row[j].key # k
      BY <1>8
    <2>2. i \notin LA /\ i \notin DOMAIN b.row
      BY <2>1, <1>2, <1>4
    <2>3. \A x \in DOMAIN a.row : RA(x) = i <=> a.row[x].key = k
      BY <2>1, <2>2, <1>1, <1>2
    <2>4. \A x \in DOMAIN b.row : RB(x) = i <=> b.row[x].key = k
      BY <2>1, <2>2, <1>3
    <2>5. i \in DOMAIN m /\ m[i] = a.row[i]
      BY <2>1, <2>2, <1>5
    <2>6. \A x \in DOMAIN m : m[x].key = k <=> x = i
      BY <2>1, <2>2, <2>5, <1>1, <1>5
    <2> QED
      BY <2>1, <2>3, <2>4, <2>5, <2>6, <1>1, <1>7
  <1>9. CASE \E j \in DOMAIN b.row : b.row[j].key = k /\ \A i \in DOMAIN a.row : a.row[i].key # k
    <2>1. PICK j \in DOMAIN b.row : b.row[j].key = k /\ \A i \in DOMAIN a.row : a.row[i].key # k
      BY <1>9
    <2>2. j \notin LB /\ j \notin DOMAIN a.row
      BY <2>1, <1>3, <1>4
    <2>3. \A x \in DOMAIN b.row : RB(x) = j <=> b.row[x].key = k
      BY <2>1, <2>2, <1>1, <1>3
    <2>4. \A x \in DOMAIN a.row : RA(x) = j <=> a.row[x].key = k
      BY <2>1, <2>2, <1>2
    <2>5. j \in DOMAIN m /\ m[j] = b.row[j]
      BY <2>1, <2>2, <1>5
    <2>6. \A x \in DOMAIN m : m[x].key = k <=> x = j
      BY <2>1, <2>2, <2>5, <1>1, <1>5
    <2> QED
      BY <2>1, <2>3, <2>4, <2>5, <2>6, <1>1, <1>7
  <1>10. CASE \E i \in DOMAIN a.row : \E j \in DOMAIN b.row : a.row[i].key = k /\ b.row[j].key = k
    <2>1. PICK i \in DOMAIN a.row, j \in DOMAIN b.row : a.row[i].key = k /\ b.row[j].key = k
      BY <1>10
    <2>2. CASE i = j
      <3>1. i \notin LA /\ i \notin LB
        BY <2>1, <2>2, <1>1, <1>2, <1>3
      <3>2. \A x \in DOMAIN a.row : RA(x) = i <=> a.row[x].key = k
        BY <2>1, <2>2, <3>1, <1>1, <1>2
      <3>3. \A x \in DOMAIN b.row : RB(x) = i <=> b.row[x].key = k
        BY <2>1, <2>2, <3>1, <1>1, <1>3
      <3>4. i \in DOMAIN m /\ \A x \in DOMAIN m : m[x].key = k <=> x = i
        BY <2>1, <2>2, <3>1, <1>1, <1>5
      <3>5. /\ m[i].at \in {a.row[i].at, b.row[i].at}
            /\ a.row[i].at <= m[i].at /\ b.row[i].at <= m[i].at
        BY <2>1, <2>2, <3>1, <3>4, <1>1, <1>5
      <3> QED
        BY <2>1, <2>2, <3>2, <3>3, <3>4, <3>5, <1>1, <1>7
    <2>3. CASE i # j /\ a.row[i].at < b.row[j].at
      <3>1. i \in LA /\ j \notin DOMAIN a.row
        BY <2>1, <2>3, <1>1, <1>4, <1>6
      <3>2. j \notin LB
        BY <2>1, <2>3, <1>1, <1>3
      <3>3. RA(i) = j
        BY <2>1, <3>1, <1>1, <1>2
      <3>4. \A x \in DOMAIN a.row : RA(x) = j <=> a.row[x].key = k
        BY <2>1, <3>1, <3>3, <1>1, <1>2
      <3>5. \A x \in DOMAIN b.row : RB(x) = j <=> b.row[x].key = k
        BY <2>1, <3>1, <3>2, <1>1, <1>3
      <3>6. j \in DOMAIN m /\ m[j] = b.row[j]
        BY <3>1, <3>2, <1>5
      <3>7. \A x \in DOMAIN m : m[x].key = k <=> x = j
        BY <2>1, <3>1, <3>6, <1>1, <1>5
      <3> QED
        BY <2>1, <2>3, <3>4, <3>5, <3>6, <3>7, <1>1, <1>7
    <2>4. CASE i # j /\ ~(a.row[i].at < b.row[j].at)
      <3>1. j \in LB /\ i \notin DOMAIN b.row
        BY <2>1, <2>4, <1>1, <1>4, <1>6
      <3>2. i \notin LA
        BY <2>1, <2>4, <1>1, <1>2
      <3>3. RB(j) = i
        BY <2>1, <3>1, <1>1, <1>3
      <3>4. \A x \in DOMAIN b.row : RB(x) = i <=> b.row[x].key = k
        BY <2>1, <3>1, <3>3, <1>1, <1>3
      <3>5. \A x \in DOMAIN a.row : RA(x) = i <=> a.row[x].key = k
        BY <2>1, <3>1, <3>2, <1>1, <1>2
      <3>6. i \in DOMAIN m /\ m[i] = a.row[i]
        BY <3>1, <3>2, <1>5
      <3>7. \A x \in DOMAIN m : m[x].key = k <=> x = i
        BY <2>1, <2>4, <3>1, <3>2, <3>6, <1>1, <1>4, <1>5
      <3> QED
        BY <2>1, <2>4, <3>4, <3>5, <3>6, <3>7, <1>1, <1>7
    <2> QED
      BY <2>2, <2>3, <2>4
  <1> QED
    BY <1>8, <1>9, <1>10 DEF KeysOf

\* A set of times has a latest one, or none.
HasLatest(S) == S \subseteq Nat /\ (S = {} \/ \E t \in S : \A u \in S : u <= t)

LEMMA LatestOfUnion ==
  ASSUME NEW S, NEW T, HasLatest(S), HasLatest(T)
  PROVE  HasLatest(S \union T)
  BY DEF HasLatest

LEMMA LatestOfTwo ==
  ASSUME NEW f, NEW S, NEW y, NEW z, S \subseteq {y, z}, \A x \in S : f[x] \in Nat
  PROVE  HasLatest({f[x] : x \in S})
  <1>1. CASE y \in S /\ z \in S /\ f[y] <= f[z]
    BY <1>1 DEF HasLatest
  <1>2. CASE y \in S /\ z \in S /\ f[z] <= f[y]
    BY <1>2 DEF HasLatest
  <1>3. CASE ~(y \in S /\ z \in S)
    BY <1>3 DEF HasLatest
  <1> QED
    BY <1>1, <1>2, <1>3

\* Of the texts that end up under one id the latest is kept: under an id that is
\* in the merge there are at most two of each slot, and one more.
LEMMA LatestText ==
  ASSUME NEW a, NEW b, IsTyped(a), IsTyped(b), NEW i
  PROVE  HasLatest(TextsOf(a, b, i))
  <1> DEFINE X == {x \in DOMAIN a.text : RemapA(a, b, x) = i}
             Y == {x \in DOMAIN b.text : RemapB(a, b, x) = i}
             Z == {x \in DOMAIN b.text \ (DOMAIN b.text \ LosersB(a, b)) :
                     x = i /\ i \in DOMAIN a.text \ LosersA(a, b)}
             ya == CHOOSE x \in DOMAIN a.row : a.row[x].key = b.row[i].key
             yb == CHOOSE x \in DOMAIN b.row : b.row[x].key = a.row[i].key
  <1>1. \A x \in X : x = i \/ x = ya
    <2> TAKE x \in X
    <2>1. x \in DOMAIN a.row
      BY TypedRows
    <2>2. x = i \/ a.row[x].key = b.row[i].key
      BY <2>1, RemapAFacts
    <2> QED
      BY <2>1, <2>2, TypedRows
  <1>2. \A x \in Y : x = i \/ x = yb
    <2> TAKE x \in Y
    <2>1. x \in DOMAIN b.row
      BY TypedRows
    <2>2. x = i \/ b.row[x].key = a.row[i].key
      <3>1. RemapB(a, b, x) = i
        OBVIOUS
      <3>2. \/ x \notin LosersB(a, b) /\ RemapB(a, b, x) = x
            \/ /\ x \in LosersB(a, b) /\ RemapB(a, b, x) \in DOMAIN a.row
               /\ a.row[RemapB(a, b, x)].key = b.row[x].key
               /\ RemapB(a, b, x) # x /\ a.row[RemapB(a, b, x)].at >= b.row[x].at
        BY <2>1, RemapBFacts
      <3> QED BY <3>1, <3>2
    <2> QED
      BY <2>1, <2>2, TypedRows
  <1>3. /\ \A x \in DOMAIN a.text : a.text[x] \in Nat
        /\ \A x \in DOMAIN b.text : b.text[x] \in Nat
    BY TypedRows
  <1>4. HasLatest({a.text[x] : x \in X})
    <2>1. X \subseteq {i, ya} /\ \A x \in X : a.text[x] \in Nat
      BY <1>1, <1>3
    <2> HIDE DEF X, ya
    <2> QED
      BY <2>1, LatestOfTwo
  <1>5. HasLatest({b.text[x] : x \in Y})
    <2>1. Y \subseteq {i, yb} /\ \A x \in Y : b.text[x] \in Nat
      BY <1>2, <1>3
    <2> HIDE DEF Y, yb
    <2> QED
      BY <2>1, LatestOfTwo
  <1>6. HasLatest({b.text[x] : x \in Z})
    <2>1. Z \subseteq {i, i} /\ \A x \in Z : b.text[x] \in Nat
      BY <1>3
    <2> HIDE DEF Z
    <2> QED
      BY <2>1, LatestOfTwo
  <1>7. TextsOf(a, b, i) =
          ({a.text[x] : x \in X} \union {b.text[x] : x \in Y}) \union {b.text[x] : x \in Z}
    BY DEF TextsOf
  <1> HIDE DEF X, Y, Z
  <1>8. HasLatest({a.text[x] : x \in X} \union {b.text[x] : x \in Y})
    BY <1>4, <1>5, LatestOfUnion
  <1> QED
    BY <1>6, <1>7, <1>8, LatestOfUnion

LEMMA TextOfMerged ==
  ASSUME NEW a, NEW b, IsTyped(a), IsTyped(b), NEW i \in DOMAIN MergedTexts(a, b)
  PROVE  /\ MergedTexts(a, b)[i] \in TextsOf(a, b, i) /\ MergedTexts(a, b)[i] \in Nat
         /\ \A u \in TextsOf(a, b, i) : u <= MergedTexts(a, b)[i]
  <1>1. HasLatest(TextsOf(a, b, i)) /\ TextsOf(a, b, i) # {}
    BY LatestText DEF MergedTexts
  <1>2. PICK t \in TextsOf(a, b, i) : \A u \in TextsOf(a, b, i) : u <= t
    BY <1>1 DEF HasLatest
  <1>3. MergedTexts(a, b)[i] =
          CHOOSE s \in TextsOf(a, b, i) : \A u \in TextsOf(a, b, i) : u <= s
    BY DEF MergedTexts
  <1>4. /\ MergedTexts(a, b)[i] \in TextsOf(a, b, i)
        /\ \A u \in TextsOf(a, b, i) : u <= MergedTexts(a, b)[i]
    BY <1>2, <1>3
  <1> QED
    BY <1>1, <1>4 DEF HasLatest

\* What the unique index accepts is a catalog: links and texts name rows in it.
LEMMA MergedIsTyped ==
  ASSUME NEW a, NEW b, IsTyped(a), IsTyped(b), KeysAreUnique(Merged(a, b))
  PROVE  IsTyped(Merged(a, b)) /\ IsCatalog(Merged(a, b))
  <1> DEFINE m == Merged(a, b)
  <1>1. m.row = MergedRows(a, b) /\ m.text = MergedTexts(a, b) /\ m.links = MergedLinks(a, b)
    BY DEF Merged
  <1>2. DOMAIN m.row = (DOMAIN a.row \ LosersA(a, b)) \union (DOMAIN b.row \ LosersB(a, b))
    BY <1>1, RowsOfMerged
  <1>3. DOMAIN m.row \subseteq Ids /\ m.row \in [DOMAIN m.row -> [key : Keys, at : Nat]]
    <2>1. DOMAIN m.row \subseteq Ids
      BY <1>2, TypedRows
    <2>2. /\ a.row \in [DOMAIN a.row -> [key : Keys, at : Nat]]
          /\ b.row \in [DOMAIN b.row -> [key : Keys, at : Nat]]
      BY DEF IsTyped
    <2>3. ASSUME NEW i \in DOMAIN m.row PROVE m.row[i] \in [key : Keys, at : Nat]
      <3>1. \/ i \in DOMAIN a.row /\ m.row[i] = a.row[i]
            \/ i \in DOMAIN b.row /\ m.row[i] = b.row[i]
        BY RowIsOneOfTheTwo
      <3> QED
        BY <2>2, <3>1
    <2>4. m.row = [i \in DOMAIN m.row |-> m.row[i]]
      BY <1>1, <1>2 DEF MergedRows
    <2> QED
      BY <2>1, <2>3, <2>4
  <1>4. /\ \A x \in DOMAIN a.row : RemapA(a, b, x) \in DOMAIN m.row
        /\ \A x \in DOMAIN b.row : RemapB(a, b, x) \in DOMAIN m.row
    <2>1. ASSUME NEW x \in DOMAIN a.row PROVE RemapA(a, b, x) \in DOMAIN m.row
      <3>1. CASE x \notin LosersA(a, b)
        BY <1>2, <3>1, RemapAFacts
      <3>2. CASE x \in LosersA(a, b)
        <4> DEFINE j == RemapA(a, b, x)
        <4>1. /\ j \in DOMAIN b.row /\ b.row[j].key = a.row[x].key
              /\ a.row[x].at < b.row[j].at
          BY <3>2, RemapAFacts
        <4>2. j \notin LosersB(a, b)
          BY <4>1, TypedRows DEF LosersB
        <4> QED
          BY <1>2, <4>1, <4>2
      <3> QED
        BY <3>1, <3>2
    <2>2. ASSUME NEW x \in DOMAIN b.row PROVE RemapB(a, b, x) \in DOMAIN m.row
      <3>1. CASE x \notin LosersB(a, b)
        BY <1>2, <3>1, RemapBFacts
      <3>2. CASE x \in LosersB(a, b)
        <4> DEFINE i == RemapB(a, b, x)
        <4>1. /\ i \in DOMAIN a.row /\ a.row[i].key = b.row[x].key
              /\ a.row[i].at >= b.row[x].at
          BY <3>2, RemapBFacts
        <4>2. i \notin LosersA(a, b)
          BY <4>1, TypedRows DEF LosersA
        <4> QED
          BY <1>2, <4>1, <4>2
      <3> QED
        BY <3>1, <3>2
    <2> QED
      BY <2>1, <2>2
  <1>5. DOMAIN m.text \subseteq DOMAIN m.row /\ m.text \in [DOMAIN m.text -> Nat]
    <2>1. ASSUME NEW i \in DOMAIN m.text PROVE i \in DOMAIN m.row
      <3>1. TextsOf(a, b, i) # {}
        BY <1>1 DEF MergedTexts
      <3>2. \/ \E x \in DOMAIN a.text : RemapA(a, b, x) = i
            \/ \E x \in DOMAIN b.text : RemapB(a, b, x) = i
            \/ i \in DOMAIN a.text \ LosersA(a, b)
        BY <3>1 DEF TextsOf
      <3> QED
        BY <1>2, <1>4, <3>2, TypedRows
    <2>2. m.text = [i \in DOMAIN m.text |-> m.text[i]]
      BY <1>1 DEF MergedTexts
    <2>3. \A i \in DOMAIN m.text : m.text[i] \in Nat
      BY <1>1, TextOfMerged
    <2> QED
      BY <2>1, <2>2, <2>3
  <1>6. m.links \subseteq (DOMAIN m.row) \X (DOMAIN m.row)
    <2>1. /\ \A l \in a.links : l[1] \in DOMAIN a.row /\ l[2] \in DOMAIN a.row
          /\ \A l \in b.links : l[1] \in DOMAIN b.row /\ l[2] \in DOMAIN b.row
      BY TypedRows
    <2> QED
      BY <1>1, <1>4, <2>1 DEF MergedLinks
  <1> QED
    BY <1>3, <1>5, <1>6 DEF IsTyped, IsCatalog, Merged, Missing, Torn

\* The texts that end up under a key's home are those of its ids.
LEMMA TextsAtHome ==
  ASSUME NEW a, NEW b, IsTyped(a), IsTyped(b),
         NEW k \in Keys \ Unclean(a, b), NEW h, Home(a, b, k, h)
  PROVE  TextsOf(a, b, h) = TextTimes(a, k) \union TextTimes(b, k)
  <1>1. /\ DOMAIN a.text \subseteq DOMAIN a.row
        /\ DOMAIN b.text \subseteq DOMAIN b.row
    BY DEF IsTyped
  <1>2. /\ \A x \in DOMAIN a.row : RemapA(a, b, x) = h <=> a.row[x].key = k
        /\ \A x \in DOMAIN b.row : RemapB(a, b, x) = h <=> b.row[x].key = k
    BY DEF Home
  <1>3. /\ TextTimes(a, k) = {a.text[x] : x \in {y \in DOMAIN a.text : RemapA(a, b, y) = h}}
        /\ TextTimes(b, k) = {b.text[x] : x \in {y \in DOMAIN b.text : RemapB(a, b, y) = h}}
    <2>1. /\ IdsOf(a, k) \intersect DOMAIN a.text = {y \in DOMAIN a.text : RemapA(a, b, y) = h}
          /\ IdsOf(b, k) \intersect DOMAIN b.text = {y \in DOMAIN b.text : RemapB(a, b, y) = h}
      BY <1>1, <1>2 DEF IdsOf
    <2> QED
      BY <2>1 DEF TextTimes
  <1>4. ASSUME h \in DOMAIN b.text, h \in DOMAIN a.text, h \notin LosersA(a, b)
        PROVE  b.row[h].key = k
    <2>1. RemapA(a, b, h) = h
      BY <1>4 DEF RemapA, Remap
    <2>2. a.row[h].key = k
      BY <1>1, <1>2, <1>4, <2>1
    <2> QED
      BY <1>1, <1>4, <2>2, CleanIds
  <1>5. {b.text[l] : l \in {x \in DOMAIN b.text \ (DOMAIN b.text \ LosersB(a, b)) :
                            x = h /\ h \in DOMAIN a.text \ LosersA(a, b)}}
          \subseteq TextTimes(b, k)
    BY <1>1, <1>4 DEF TextTimes, IdsOf
  <1> QED
    BY <1>3, <1>5 DEF TextsOf

\* Two keys are linked through their homes as they were through their ids.
LEMMA LinkedAtHome ==
  ASSUME NEW a, NEW b, IsTyped(a), IsTyped(b),
         NEW k, NEW l, NEW h, NEW g, Home(a, b, k, h), Home(a, b, l, g)
  PROVE  Linked(Merged(a, b), k, l) <=> Linked(a, k, l) \/ Linked(b, k, l)
  <1> DEFINE m == Merged(a, b)
  <1>1. m.links = MergedLinks(a, b) /\ m.row = MergedRows(a, b)
    BY DEF Merged
  <1>2. Linked(m, k, l) <=> <<h, g>> \in MergedLinks(a, b)
    <2>1. IdsOf(m, k) = {h} /\ IdsOf(m, l) = {g}
      BY <1>1 DEF IdsOf, Home
    <2> QED
      BY <1>1, <2>1 DEF Linked
  <1>3. <<h, g>> \in {<<RemapA(a, b, x[1]), RemapA(a, b, x[2])>> : x \in a.links}
          <=> Linked(a, k, l)
    <2>1. <<h, g>> \in {<<RemapA(a, b, x[1]), RemapA(a, b, x[2])>> : x \in a.links}
            <=> \E x \in a.links : RemapA(a, b, x[1]) = h /\ RemapA(a, b, x[2]) = g
      OBVIOUS
    <2>2. (\E x \in a.links : RemapA(a, b, x[1]) = h /\ RemapA(a, b, x[2]) = g)
            <=> \E x \in a.links : a.row[x[1]].key = k /\ a.row[x[2]].key = l
      BY TypedRows DEF Home
    <2>3. (\E x \in a.links : a.row[x[1]].key = k /\ a.row[x[2]].key = l) <=> Linked(a, k, l)
      BY LinkedByLink
    <2> QED
      BY <2>1, <2>2, <2>3
  <1>4. <<h, g>> \in {<<RemapB(a, b, x[1]), RemapB(a, b, x[2])>> : x \in b.links}
          <=> Linked(b, k, l)
    <2>1. <<h, g>> \in {<<RemapB(a, b, x[1]), RemapB(a, b, x[2])>> : x \in b.links}
            <=> \E x \in b.links : RemapB(a, b, x[1]) = h /\ RemapB(a, b, x[2]) = g
      OBVIOUS
    <2>2. (\E x \in b.links : RemapB(a, b, x[1]) = h /\ RemapB(a, b, x[2]) = g)
            <=> \E x \in b.links : b.row[x[1]].key = k /\ b.row[x[2]].key = l
      BY TypedRows DEF Home
    <2>3. (\E x \in b.links : b.row[x[1]].key = k /\ b.row[x[2]].key = l) <=> Linked(b, k, l)
      BY LinkedByLink
    <2> QED
      BY <2>1, <2>2, <2>3
  <1> QED
    BY <1>2, <1>3, <1>4 DEF MergedLinks

\* The merge of any two slots is their union by key.
LEMMA MergeMakesUnion ==
  ASSUME NEW a, NEW b, IsTyped(a), IsTyped(b)
  PROVE  IsUnion(a, b, Merged(a, b))
  <1> DEFINE m == Merged(a, b)
  <1>1. m.row = MergedRows(a, b) /\ m.text = MergedTexts(a, b) /\ m.links = MergedLinks(a, b)
    BY DEF Merged
  <1>2. KeysOf(m) \subseteq KeysOf(a) \union KeysOf(b)
    <2>1. \A i \in DOMAIN m.row : \/ i \in DOMAIN a.row /\ m.row[i] = a.row[i]
                                  \/ i \in DOMAIN b.row /\ m.row[i] = b.row[i]
      BY RowIsOneOfTheTwo
    <2> QED
      BY <2>1 DEF KeysOf
  <1>3. ASSUME NEW k \in Keys \ Unclean(a, b), k \in KeysOf(a) \union KeysOf(b)
        PROVE  /\ \E i \in Ids : IdsOf(m, k) = {i}
               /\ IsNewest(TimesOf(m, k), TimesOf(a, k) \union TimesOf(b, k))
               /\ IsNewest(TextTimes(m, k), TextTimes(a, k) \union TextTimes(b, k))
    <2>1. PICK h : Home(a, b, k, h)
      BY <1>3, KeyHome
    <2>2. IdsOf(m, k) = {h} /\ h \in Ids
      <3>1. h \in DOMAIN a.row \/ h \in DOMAIN b.row
        BY <2>1, RowsOfMerged DEF Home
      <3>2. h \in Ids
        BY <3>1, TypedRows
      <3> QED
        BY <1>1, <2>1, <3>2 DEF IdsOf, Home
    <2>3. IsNewest(TimesOf(m, k), TimesOf(a, k) \union TimesOf(b, k))
      <3>1. TimesOf(m, k) = {MergedRows(a, b)[h].at}
        BY <1>1, <2>2 DEF TimesOf
      <3> QED
        BY <2>1, <3>1 DEF Home, TimesOf, IdsOf, IsNewest
    <2>4. IsNewest(TextTimes(m, k), TextTimes(a, k) \union TextTimes(b, k))
      <3>1. TextsOf(a, b, h) = TextTimes(a, k) \union TextTimes(b, k)
        BY <2>1, TextsAtHome
      <3>2. CASE TextsOf(a, b, h) = {}
        <4>1. TextTimes(m, k) = {}
          BY <1>1, <2>2, <3>2 DEF TextTimes, MergedTexts
        <4> QED
          BY <3>1, <3>2, <4>1 DEF IsNewest
      <3>3. CASE TextsOf(a, b, h) # {}
        <4>1. h \in DOMAIN MergedTexts(a, b)
          BY <2>2, <3>3 DEF MergedTexts
        <4>2. TextTimes(m, k) = {MergedTexts(a, b)[h]}
          BY <1>1, <2>2, <4>1 DEF TextTimes
        <4>3. /\ MergedTexts(a, b)[h] \in TextsOf(a, b, h)
              /\ \A u \in TextsOf(a, b, h) : u <= MergedTexts(a, b)[h]
          BY <4>1, TextOfMerged
        <4> QED
          BY <3>1, <4>2, <4>3 DEF IsNewest
      <3> QED
        BY <3>2, <3>3
    <2> QED
      BY <2>2, <2>3, <2>4
  <1>4. ASSUME NEW k \in Keys \ Unclean(a, b), k \notin KeysOf(a) \union KeysOf(b)
        PROVE  /\ IsNewest(TimesOf(m, k), TimesOf(a, k) \union TimesOf(b, k))
               /\ IsNewest(TextTimes(m, k), TextTimes(a, k) \union TextTimes(b, k))
    <2>1. IdsOf(a, k) = {} /\ IdsOf(b, k) = {} /\ IdsOf(m, k) = {}
      BY <1>2, <1>4 DEF IdsOf, KeysOf
    <2> QED
      BY <2>1 DEF TimesOf, TextTimes, IsNewest
  <1>5. ASSUME NEW k \in Keys \ Unclean(a, b), NEW l \in Keys \ Unclean(a, b)
        PROVE  Linked(m, k, l) <=> Linked(a, k, l) \/ Linked(b, k, l)
    <2>1. CASE k \in KeysOf(a) \union KeysOf(b) /\ l \in KeysOf(a) \union KeysOf(b)
      BY <2>1, KeyHome, LinkedAtHome
    <2>2. CASE ~(k \in KeysOf(a) \union KeysOf(b) /\ l \in KeysOf(a) \union KeysOf(b))
      <3>1. \A c \in {a, b, m} : IdsOf(c, k) = {} \/ IdsOf(c, l) = {}
        BY <1>2, <2>2 DEF IdsOf, KeysOf
      <3> QED
        BY <3>1 DEF Linked
    <2> QED
      BY <2>1, <2>2
  <1> QED
    BY <1>2, <1>3, <1>4, <1>5 DEF IsUnion

-----------------------------------------------------------------------------
(* The installation of a merge *)

\* A key that a slot has, or a merge is about to put there, has been known.
KnownInv ==
  /\ \A s \in Slots : IsCatalog(slots[s]) => KeysOf(slots[s]) \subseteq everKnown
  /\ phase = "built" => KeysOf(target) \subseteq everKnown

\* Which files are whole, and what the daemon has open of them.
FilesInv ==
  /\ IsCatalog(slots["A"]) \/ IsCatalog(slots["B"])
  /\ phase \in {"up", "merged"} => writer = active /\ IsCatalog(slots[active])
  /\ phase \in {"closed", "built"} => before = active /\ IsCatalog(slots[active])
  /\ phase = "built" => IsCatalog(target)
  /\ phase = "copied" => slots["B"] = slots["A"]
  /\ phase = "repair" => Missing \in {slots["A"], slots["B"]}
  /\ phase = "cloning" => Torn \in {slots["A"], slots["B"]}
  /\ phase \in {"closed", "built", "replaced", "copying", "copied", "merged"} => task = "merge"
  /\ task = "merge" /\ phase \in {"replaced", "copying", "copied", "repair", "cloning", "merged"}
       => IsCatalog(slots["A"])
  /\ phase = "copying" => slots["B"] = Torn
  /\ task = "merge" /\ phase = "repair" => slots["B"] = Missing
  /\ task = "merge" /\ phase = "cloning" => slots["B"] = Torn

\* Where the rows are that must not get lost.
CoverInv ==
  /\ NothingIsLost
  /\ phase = "built" => everKnown \ clashed \subseteq KeysOf(target)
  /\ task = "merge" /\ phase \in {"replaced", "copying", "copied", "repair", "cloning"}
       => everKnown \ clashed \subseteq KeysOf(slots["A"])
  /\ phase = "merged" => everKnown \ clashed \subseteq KeysOf(slots[active])

\* The slot that a boot would open, or would when it has repaired the other.
Main == IF IsCatalog(slots[active]) THEN active ELSE Other(active)

\* What facts.log lacks is owed wherever a boot may begin; while a merge is
\* installed only the rows of slot A may be lacking, and Dies makes them owed.
LogInv ==
  /\ phase \in {"up", "closed", "built", "down"} \/ (task = "boot" /\ phase \in {"repair", "cloning"})
       => KeysOf(slots[Main]) \ facts \subseteq owed
  /\ phase = "replaced" /\ active = "B" /\ IsCatalog(slots["B"])
       => KeysOf(slots["B"]) \ facts \subseteq owed
  /\ phase = "merged" => KeysOf(slots[active]) \ KeysOf(slots["A"]) \subseteq facts

SlotsInv == RotationTypeOK /\ KnownInv /\ FilesInv /\ CoverInv /\ LogInv /\ MergeLeavesABoot

LEMMA FilesDiffer == Missing # Torn /\ ~IsCatalog(Missing) /\ ~IsCatalog(Torn)
  BY DEF Missing, Torn, IsCatalog

LEMMA NotACatalog == ASSUME NEW x PROVE IsCatalog(x) <=> x # Missing /\ x # Torn
  BY DEF IsCatalog

\* One slot is replaced and the other stays.
LEMMA OneSlot ==
  ASSUME DOMAIN slots = Slots, NEW s \in Slots, NEW x, slots' = [slots EXCEPT ![s] = x]
  PROVE  /\ DOMAIN slots' = Slots /\ slots'[s] = x /\ Other(s) \in Slots
         /\ slots'[Other(s)] = slots[Other(s)]
         /\ \A t \in Slots : t # s => t = Other(s)
  BY DEF Slots, Other

LEMMA LostMeansNowhere ==
  NothingIsLost <=>
    \A k \in everKnown \ clashed :
      \/ IsCatalog(slots["A"]) /\ k \in KeysOf(slots["A"])
      \/ IsCatalog(slots["B"]) /\ k \in KeysOf(slots["B"])
  BY DEF NothingIsLost, Slots

\* A new row under the next id of the slot's sequence replaces none.
LEMMA AddedRow ==
  ASSUME NEW c, IsTyped(c), NEW k \in Keys, k \notin KeysOf(c),
         NEW i \in Ids, \A x \in DOMAIN c.row : x < i,
         NEW d, d = [row |-> [x \in DOMAIN c.row \union {i} |->
                                IF x = i THEN [key |-> k, at |-> 1] ELSE c.row[x]],
                     text |-> c.text, links |-> c.links]
  PROVE  IsTyped(d) /\ IsCatalog(d) /\ KeysOf(d) = KeysOf(c) \union {k}
  <1>1. /\ d.row = [x \in DOMAIN c.row \union {i} |->
                       IF x = i THEN [key |-> k, at |-> 1] ELSE c.row[x]]
        /\ d.text = c.text /\ d.links = c.links
    OBVIOUS
  <1>2. i \notin DOMAIN c.row
    BY RotationConstants
  <1>3. /\ DOMAIN d.row = DOMAIN c.row \union {i}
        /\ d.row[i] = [key |-> k, at |-> 1]
        /\ \A x \in DOMAIN c.row : d.row[x] = c.row[x]
    BY <1>1, <1>2
  <1>4. /\ DOMAIN c.row \subseteq Ids /\ c.row \in [DOMAIN c.row -> [key : Keys, at : Nat]]
        /\ DOMAIN c.text \subseteq DOMAIN c.row /\ c.text \in [DOMAIN c.text -> Nat]
        /\ c.links \subseteq (DOMAIN c.row) \X (DOMAIN c.row)
        /\ KeysAreUnique(c)
    BY DEF IsTyped
  <1>5. d.row \in [DOMAIN d.row -> [key : Keys, at : Nat]]
    BY <1>1, <1>3, <1>4
  <1>6. KeysAreUnique(d)
    BY <1>3, <1>4 DEF KeysAreUnique, KeysOf
  <1>7. d.links \subseteq (DOMAIN d.row) \X (DOMAIN d.row)
    BY <1>1, <1>3, <1>4
  <1>8. IsTyped(d)
    BY <1>1, <1>3, <1>4, <1>5, <1>6, <1>7 DEF IsTyped
  <1>9. KeysOf(d) = KeysOf(c) \union {k}
    <2>1. ASSUME NEW l \in KeysOf(d) PROVE l \in KeysOf(c) \union {k}
      BY <1>3 DEF KeysOf
    <2>2. ASSUME NEW l \in KeysOf(c) \union {k} PROVE l \in KeysOf(d)
      BY <1>3 DEF KeysOf
    <2> QED
      BY <2>1, <2>2
  <1>10. IsCatalog(d)
    BY DEF IsCatalog, Missing, Torn
  <1> QED
    BY <1>8, <1>9, <1>10

\* A merge has every key of the slots but those that shared an id.
LEMMA MergedKeys ==
  ASSUME NEW a, NEW b, IsTyped(a), IsTyped(b)
  PROVE  /\ KeysOf(Merged(a, b)) \subseteq KeysOf(a) \union KeysOf(b)
         /\ (KeysOf(a) \union KeysOf(b)) \ Unclean(a, b) \subseteq KeysOf(Merged(a, b))
  <1>1. KeysOf(a) \subseteq Keys /\ KeysOf(b) \subseteq Keys
    BY TypedRows DEF KeysOf
  <1>2. IsUnion(a, b, Merged(a, b))
    BY MergeMakesUnion
  <1>3. ASSUME NEW k \in (KeysOf(a) \union KeysOf(b)) \ Unclean(a, b)
        PROVE  k \in KeysOf(Merged(a, b))
    <2>1. PICK i : IdsOf(Merged(a, b), k) = {i}
      BY <1>1, <1>2 DEF IsUnion
    <2> QED
      BY <2>1 DEF IdsOf, KeysOf
  <1> QED
    BY <1>2, <1>3 DEF IsUnion

LEMMA InitHolds == RotationInit => SlotsInv
  <1> SUFFICES ASSUME RotationInit PROVE SlotsInv
    OBVIOUS
  <1>1. /\ slots \in Drifts /\ active \in Slots
        /\ IsCatalog(slots["A"]) \/ IsCatalog(slots["B"])
        /\ facts = KeysOf(slots[Main])
        /\ writer = "none" /\ phase = "down" /\ task = "boot" /\ before = active
        /\ merges = 0 /\ failures = 0 /\ clashed = {} /\ owed = {}
        /\ everKnown = UNION {KeysOf(slots[s]) : s \in {x \in Slots : IsCatalog(slots[x])}}
    BY DEF RotationInit, Slots, Main
  <1>2. DOMAIN slots = Slots /\ \A s \in Slots : IsCatalog(slots[s]) => IsTyped(slots[s])
    BY <1>1, RotationConstants
  <1>3. \A s \in Slots : IsCatalog(slots[s]) => KeysOf(slots[s]) \subseteq Keys
    BY <1>2, TypedRows DEF KeysOf
  <1>4. Main \in Slots /\ IsCatalog(slots[Main])
    BY <1>1 DEF Main, Slots, Other
  <1>5. RotationTypeOK
    BY <1>1, <1>2, <1>3, <1>4, RotationConstants DEF RotationTypeOK
  <1>6. KnownInv /\ CoverInv
    BY <1>1 DEF KnownInv, CoverInv, NothingIsLost
  <1>7. FilesInv /\ LogInv /\ MergeLeavesABoot
    BY <1>1 DEF FilesInv, LogInv, MergeLeavesABoot
  <1> QED
    BY <1>5, <1>6, <1>7 DEF SlotsInv

\* What a step that moves no file and knows no new key leaves alone.
LEMMA SameFiles ==
  ASSUME SlotsInv, UNCHANGED <<slots, everKnown>>, clashed \subseteq clashed'
  PROVE  /\ NothingIsLost'
         /\ \A s \in Slots : IsCatalog(slots[s])' <=> IsCatalog(slots[s])
  BY DEF SlotsInv, CoverInv, NothingIsLost

\* The two slots, of which one is a catalog.
LEMMA SlotFacts ==
  ASSUME SlotsInv
  PROVE  /\ Slots = {"A", "B"} /\ active \in Slots /\ DOMAIN slots = Slots
         /\ Main \in Slots /\ IsCatalog(slots[Main])
         /\ Main = IF IsCatalog(slots[active]) THEN active ELSE Other(active)
         /\ Other("A") = "B" /\ Other("B") = "A"
  BY DEF SlotsInv, RotationTypeOK, FilesInv, Main, Slots, Other

(* Each action keeps the invariant *)

LEMMA MergeBeginsKeeps == ASSUME SlotsInv, MergeBegins PROVE SlotsInv'
  <1>1. RotationTypeOK'
    BY SlotFacts, TypedRows, RotationConstants
    DEF SlotsInv, RotationTypeOK, FilesInv, KnownInv, MergeBegins
  <1>2. KnownInv' /\ FilesInv'
    BY SlotFacts, NotACatalog DEF SlotsInv, KnownInv, FilesInv, MergeBegins
  <1>3. CoverInv'
    BY SlotFacts, SameFiles DEF SlotsInv, CoverInv, FilesInv, MergeBegins
  <1>4. LogInv' /\ MergeLeavesABoot'
    BY SlotFacts, NotACatalog DEF SlotsInv, LogInv, FilesInv, MergeLeavesABoot, Main, MergeBegins
  <1> QED
    BY <1>1, <1>2, <1>3, <1>4 DEF SlotsInv

LEMMA NothingInstalledKeeps == ASSUME SlotsInv, NothingInstalled PROVE SlotsInv'
  <1>1. RotationTypeOK'
    BY SlotFacts, TypedRows, RotationConstants
    DEF SlotsInv, RotationTypeOK, FilesInv, KnownInv, NothingInstalled
  <1>2. KnownInv' /\ FilesInv'
    BY SlotFacts, NotACatalog DEF SlotsInv, KnownInv, FilesInv, NothingInstalled
  <1>3. CoverInv'
    BY SlotFacts, SameFiles DEF SlotsInv, CoverInv, FilesInv, NothingInstalled
  <1>4. LogInv' /\ MergeLeavesABoot'
    BY SlotFacts, NotACatalog
    DEF SlotsInv, LogInv, FilesInv, MergeLeavesABoot, Main, NothingInstalled
  <1> QED
    BY <1>1, <1>2, <1>3, <1>4 DEF SlotsInv

LEMMA PromoteKeeps == ASSUME SlotsInv, Promote PROVE SlotsInv'
  <1>1. RotationTypeOK'
    BY SlotFacts, TypedRows, RotationConstants
    DEF SlotsInv, RotationTypeOK, FilesInv, KnownInv, Promote
  <1>2. KnownInv' /\ FilesInv'
    BY SlotFacts, NotACatalog DEF SlotsInv, KnownInv, FilesInv, Promote
  <1>3. CoverInv'
    BY SlotFacts, SameFiles DEF SlotsInv, CoverInv, FilesInv, Promote
  <1>4. LogInv' /\ MergeLeavesABoot'
    BY SlotFacts, NotACatalog DEF SlotsInv, LogInv, FilesInv, MergeLeavesABoot, Main, Promote
  <1> QED
    BY <1>1, <1>2, <1>3, <1>4 DEF SlotsInv

LEMMA CompactKeeps == ASSUME SlotsInv, Compact PROVE SlotsInv'
  <1>1. RotationTypeOK'
    BY SlotFacts, TypedRows, RotationConstants
    DEF SlotsInv, RotationTypeOK, FilesInv, KnownInv, Compact
  <1>2. KnownInv' /\ FilesInv'
    BY SlotFacts, NotACatalog DEF SlotsInv, KnownInv, FilesInv, Compact
  <1>3. CoverInv'
    BY SlotFacts, SameFiles DEF SlotsInv, CoverInv, FilesInv, Compact
  <1>4. LogInv' /\ MergeLeavesABoot'
    BY SlotFacts, NotACatalog DEF SlotsInv, LogInv, FilesInv, MergeLeavesABoot, Main, Compact
  <1> QED
    BY <1>1, <1>2, <1>3, <1>4 DEF SlotsInv

LEMMA CompactFailsKeeps == ASSUME SlotsInv, CompactFails PROVE SlotsInv'
  <1>1. RotationTypeOK'
    BY SlotFacts, TypedRows, RotationConstants
    DEF SlotsInv, RotationTypeOK, FilesInv, KnownInv, CompactFails, Fails
  <1>2. KnownInv' /\ FilesInv'
    BY SlotFacts, NotACatalog DEF SlotsInv, KnownInv, FilesInv, CompactFails
  <1>3. CoverInv'
    BY SlotFacts, SameFiles DEF SlotsInv, CoverInv, FilesInv, CompactFails
  <1>4. LogInv' /\ MergeLeavesABoot'
    BY SlotFacts, NotACatalog DEF SlotsInv, LogInv, FilesInv, MergeLeavesABoot, Main, CompactFails
  <1> QED
    BY <1>1, <1>2, <1>3, <1>4 DEF SlotsInv

LEMMA BootKeeps == ASSUME SlotsInv, Boot PROVE SlotsInv'
  <1>1. RotationTypeOK'
    BY SlotFacts, TypedRows, RotationConstants
    DEF SlotsInv, RotationTypeOK, FilesInv, KnownInv, Boot
  <1>2. KnownInv' /\ FilesInv'
    BY SlotFacts, NotACatalog DEF SlotsInv, KnownInv, FilesInv, Boot
  <1>3. CoverInv'
    BY SlotFacts, SameFiles DEF SlotsInv, CoverInv, FilesInv, Boot
  <1>4. LogInv' /\ MergeLeavesABoot'
    BY SlotFacts, NotACatalog DEF SlotsInv, LogInv, FilesInv, MergeLeavesABoot, Main, Boot
  <1> QED
    BY <1>1, <1>2, <1>3, <1>4 DEF SlotsInv

LEMMA ReplaceAKeeps == ASSUME SlotsInv, ReplaceA PROVE SlotsInv'
  <1>1. DOMAIN slots' = Slots /\ slots'["A"] = target /\ slots'["B"] = slots["B"]
    BY SlotFacts DEF ReplaceA
  <1>2. RotationTypeOK'
    BY <1>1, SlotFacts, FilesDiffer, RotationConstants
    DEF SlotsInv, RotationTypeOK, FilesInv, ReplaceA
  <1>3. KnownInv' /\ FilesInv'
    BY <1>1, SlotFacts, NotACatalog, FilesDiffer DEF SlotsInv, KnownInv, FilesInv, ReplaceA
  <1>4. CoverInv'
    BY <1>1, SlotFacts, NotACatalog, FilesDiffer, LostMeansNowhere
    DEF SlotsInv, CoverInv, FilesInv, NothingIsLost, ReplaceA
  <1>5. LogInv' /\ MergeLeavesABoot'
    BY <1>1, SlotFacts, NotACatalog, FilesDiffer
    DEF SlotsInv, LogInv, FilesInv, MergeLeavesABoot, Main, ReplaceA
  <1> QED
    BY <1>2, <1>3, <1>4, <1>5 DEF SlotsInv

LEMMA CopyBeginsKeeps == ASSUME SlotsInv, CopyBegins PROVE SlotsInv'
  <1>1. DOMAIN slots' = Slots /\ slots'["B"] = Torn /\ slots'["A"] = slots["A"]
    BY SlotFacts DEF CopyBegins
  <1>2. RotationTypeOK'
    BY <1>1, SlotFacts, FilesDiffer, RotationConstants
    DEF SlotsInv, RotationTypeOK, FilesInv, CopyBegins
  <1>3. KnownInv' /\ FilesInv'
    BY <1>1, SlotFacts, NotACatalog, FilesDiffer DEF SlotsInv, KnownInv, FilesInv, CopyBegins
  <1>4. CoverInv'
    BY <1>1, SlotFacts, NotACatalog, FilesDiffer, LostMeansNowhere
    DEF SlotsInv, CoverInv, FilesInv, NothingIsLost, CopyBegins
  <1>5. LogInv' /\ MergeLeavesABoot'
    BY <1>1, SlotFacts, NotACatalog, FilesDiffer
    DEF SlotsInv, LogInv, FilesInv, MergeLeavesABoot, Main, CopyBegins
  <1> QED
    BY <1>2, <1>3, <1>4, <1>5 DEF SlotsInv

LEMMA CopyEndsKeeps == ASSUME SlotsInv, CopyEnds PROVE SlotsInv'
  <1>1. DOMAIN slots' = Slots /\ slots'["B"] = slots["A"] /\ slots'["A"] = slots["A"]
    BY SlotFacts DEF CopyEnds
  <1>2. RotationTypeOK'
    BY <1>1, SlotFacts, FilesDiffer, RotationConstants
    DEF SlotsInv, RotationTypeOK, FilesInv, CopyEnds
  <1>3. KnownInv' /\ FilesInv'
    BY <1>1, SlotFacts, NotACatalog, FilesDiffer DEF SlotsInv, KnownInv, FilesInv, CopyEnds
  <1>4. CoverInv'
    BY <1>1, SlotFacts, NotACatalog, FilesDiffer, LostMeansNowhere
    DEF SlotsInv, CoverInv, FilesInv, NothingIsLost, CopyEnds
  <1>5. LogInv' /\ MergeLeavesABoot'
    BY <1>1, SlotFacts, NotACatalog, FilesDiffer
    DEF SlotsInv, LogInv, FilesInv, MergeLeavesABoot, Main, CopyEnds
  <1> QED
    BY <1>2, <1>3, <1>4, <1>5 DEF SlotsInv

LEMMA InstallFailsKeeps == ASSUME SlotsInv, InstallFails PROVE SlotsInv'
  <1>1. DOMAIN slots' = Slots /\ slots'["B"] = Missing /\ slots'["A"] = slots["A"]
    BY SlotFacts DEF InstallFails
  <1>2. RotationTypeOK'
    BY <1>1, SlotFacts, FilesDiffer, RotationConstants
    DEF SlotsInv, RotationTypeOK, FilesInv, InstallFails, Fails
  <1>3. KnownInv' /\ FilesInv'
    BY <1>1, SlotFacts, NotACatalog, FilesDiffer DEF SlotsInv, KnownInv, FilesInv, InstallFails
  <1>4. CoverInv'
    BY <1>1, SlotFacts, NotACatalog, FilesDiffer, LostMeansNowhere
    DEF SlotsInv, CoverInv, FilesInv, NothingIsLost, InstallFails
  <1>5. LogInv' /\ MergeLeavesABoot'
    BY <1>1, SlotFacts, NotACatalog, FilesDiffer
    DEF SlotsInv, LogInv, FilesInv, MergeLeavesABoot, Main, InstallFails
  <1> QED
    BY <1>2, <1>3, <1>4, <1>5 DEF SlotsInv

LEMMA BuildKeeps == ASSUME SlotsInv, Build PROVE SlotsInv'
  <1>1. IsTyped(slots["A"]) /\ IsTyped(slots["B"]) /\ IsCatalog(slots["A"]) /\ IsCatalog(slots["B"])
    BY SlotFacts DEF SlotsInv, RotationTypeOK, Build
  <1>2. target' = Merged(slots["A"], slots["B"]) /\ IsTyped(target') /\ IsCatalog(target')
    BY <1>1, MergedIsTyped DEF Build
  <1>3. /\ KeysOf(target') \subseteq KeysOf(slots["A"]) \union KeysOf(slots["B"])
        /\ (KeysOf(slots["A"]) \union KeysOf(slots["B"])) \ Unclean(slots["A"], slots["B"])
             \subseteq KeysOf(target')
    BY <1>1, <1>2, MergedKeys
  <1>4. RotationTypeOK'
    BY <1>2, SlotFacts DEF SlotsInv, RotationTypeOK, Unclean, Build
  <1>5. KnownInv' /\ FilesInv'
    BY <1>1, <1>2, <1>3, SlotFacts DEF SlotsInv, KnownInv, FilesInv, Build
  <1>6. CoverInv'
    <2>1. everKnown \ clashed \subseteq KeysOf(slots["A"]) \union KeysOf(slots["B"])
      BY LostMeansNowhere DEF SlotsInv, CoverInv
    <2> QED
      BY <1>3, <2>1, SlotFacts, SameFiles DEF SlotsInv, CoverInv, Build
  <1>7. LogInv' /\ MergeLeavesABoot'
    BY SlotFacts DEF SlotsInv, LogInv, FilesInv, MergeLeavesABoot, Main, Build
  <1> QED
    BY <1>4, <1>5, <1>6, <1>7 DEF SlotsInv

LEMMA CloneBeginsKeeps == ASSUME SlotsInv, CloneBegins PROVE SlotsInv'
  <1>1. PICK s \in Slots : slots[s] = Missing /\ slots' = [slots EXCEPT ![s] = Torn]
    BY DEF CloneBegins
  <1>2. /\ DOMAIN slots' = Slots /\ slots'[s] = Torn /\ slots'[Other(s)] = slots[Other(s)]
        /\ IsCatalog(slots[Other(s)])
    BY <1>1, SlotFacts, FilesDiffer DEF SlotsInv, FilesInv
  <1>3. RotationTypeOK'
    BY <1>1, <1>2, SlotFacts, FilesDiffer, RotationConstants
    DEF SlotsInv, RotationTypeOK, CloneBegins
  <1>4. KnownInv' /\ FilesInv'
    BY <1>1, <1>2, SlotFacts, NotACatalog, FilesDiffer DEF SlotsInv, KnownInv, FilesInv, CloneBegins
  <1>5. CoverInv'
    BY <1>1, <1>2, SlotFacts, NotACatalog, FilesDiffer, LostMeansNowhere
    DEF SlotsInv, CoverInv, FilesInv, NothingIsLost, CloneBegins
  <1>6. LogInv' /\ MergeLeavesABoot'
    BY <1>1, <1>2, SlotFacts, NotACatalog, FilesDiffer
    DEF SlotsInv, LogInv, FilesInv, MergeLeavesABoot, Main, CloneBegins
  <1> QED
    BY <1>3, <1>4, <1>5, <1>6 DEF SlotsInv

LEMMA CloneEndsKeeps == ASSUME SlotsInv, CloneEnds PROVE SlotsInv'
  <1>1. PICK s \in Slots : slots[s] = Torn /\ slots' = [slots EXCEPT ![s] = slots[Other(s)]]
    BY DEF CloneEnds
  <1>2. /\ DOMAIN slots' = Slots /\ slots'[s] = slots[Other(s)] /\ slots'[Other(s)] = slots[Other(s)]
        /\ IsCatalog(slots[Other(s)])
    BY <1>1, SlotFacts, FilesDiffer DEF SlotsInv, FilesInv
  <1>3. RotationTypeOK'
    BY <1>1, <1>2, SlotFacts, FilesDiffer, RotationConstants
    DEF SlotsInv, RotationTypeOK, CloneEnds, Reopen
  <1>4. KnownInv' /\ FilesInv'
    BY <1>1, <1>2, SlotFacts, NotACatalog, FilesDiffer
    DEF SlotsInv, KnownInv, FilesInv, CloneEnds, Reopen
  <1>5. CoverInv'
    BY <1>1, <1>2, SlotFacts, NotACatalog, FilesDiffer, LostMeansNowhere
    DEF SlotsInv, CoverInv, FilesInv, NothingIsLost, CloneEnds, Reopen
  <1>6. LogInv' /\ MergeLeavesABoot'
    <2>1. /\ phase = "cloning" /\ phase' \in {"merged", "up"}
          /\ phase' = "merged" => task = "merge"
          /\ phase' = "up" => task = "boot"
          /\ UNCHANGED <<task, facts, owed>>
      BY DEF SlotsInv, RotationTypeOK, CloneEnds, Reopen
    <2>2. /\ Main = Other(s) /\ active' \in Slots /\ IsCatalog(slots'[active'])
          /\ slots'[active'] = slots[Main]
      BY <1>1, <1>2, SlotFacts, FilesDiffer DEF CloneEnds, Reopen
    <2>3. CASE phase' = "up"
      <3>1. KeysOf(slots[Main]) \ facts \subseteq owed
        BY <2>1, <2>3 DEF SlotsInv, LogInv
      <3> QED
        BY <2>1, <2>2, <2>3, <3>1 DEF LogInv, MergeLeavesABoot, Main
    <2>4. CASE phase' = "merged"
      <3>1. slots'["A"] = slots[Main]
        BY <1>1, <1>2, <2>1, <2>2, <2>4, SlotFacts, NotACatalog DEF SlotsInv, FilesInv
      <3> QED
        BY <2>1, <2>2, <2>4, <3>1 DEF LogInv, MergeLeavesABoot
    <2> QED
      BY <2>1, <2>3, <2>4
  <1> QED
    BY <1>3, <1>4, <1>5, <1>6 DEF SlotsInv

LEMMA CloneFailsKeeps == ASSUME SlotsInv, CloneFails PROVE SlotsInv'
  <1>1. PICK s \in Slots : slots[s] = Torn /\ slots' = [slots EXCEPT ![s] = Missing]
    BY DEF CloneFails
  <1>2. /\ DOMAIN slots' = Slots /\ slots'[s] = Missing /\ slots'[Other(s)] = slots[Other(s)]
        /\ IsCatalog(slots[Other(s)])
    BY <1>1, SlotFacts, FilesDiffer DEF SlotsInv, FilesInv
  <1>3. RotationTypeOK'
    BY <1>1, <1>2, SlotFacts, FilesDiffer, RotationConstants
    DEF SlotsInv, RotationTypeOK, CloneFails, Fails, Reopen
  <1>4. KnownInv' /\ FilesInv'
    BY <1>1, <1>2, SlotFacts, NotACatalog, FilesDiffer
    DEF SlotsInv, KnownInv, FilesInv, CloneFails, Reopen
  <1>5. CoverInv'
    BY <1>1, <1>2, SlotFacts, NotACatalog, FilesDiffer, LostMeansNowhere
    DEF SlotsInv, CoverInv, FilesInv, NothingIsLost, CloneFails, Reopen
  <1>6. LogInv' /\ MergeLeavesABoot'
    <2>1. /\ phase = "cloning" /\ phase' \in {"merged", "up"}
          /\ phase' = "merged" => task = "merge"
          /\ phase' = "up" => task = "boot"
          /\ UNCHANGED <<task, facts, owed>>
      BY DEF SlotsInv, RotationTypeOK, CloneFails, Reopen
    <2>2. /\ Main = Other(s) /\ active' \in Slots /\ IsCatalog(slots'[active'])
          /\ slots'[active'] = slots[Main]
      BY <1>1, <1>2, SlotFacts, FilesDiffer DEF CloneFails, Reopen
    <2>3. CASE phase' = "up"
      <3>1. KeysOf(slots[Main]) \ facts \subseteq owed
        BY <2>1, <2>3 DEF SlotsInv, LogInv
      <3> QED
        BY <2>1, <2>2, <2>3, <3>1 DEF LogInv, MergeLeavesABoot, Main
    <2>4. CASE phase' = "merged"
      <3>1. slots'["A"] = slots[Main]
        BY <1>1, <1>2, <2>1, <2>2, <2>4, SlotFacts, NotACatalog DEF SlotsInv, FilesInv
      <3> QED
        BY <2>1, <2>2, <2>4, <3>1 DEF LogInv, MergeLeavesABoot
    <2> QED
      BY <2>1, <2>3, <2>4
  <1> QED
    BY <1>3, <1>4, <1>5, <1>6 DEF SlotsInv

LEMMA DiesKeeps == ASSUME SlotsInv, Dies PROVE SlotsInv'
  <1>1. RotationTypeOK'
    <2>1. IsCatalog(slots["A"]) => KeysOf(slots["A"]) \subseteq Keys
      BY SlotFacts, TypedRows DEF SlotsInv, RotationTypeOK, KeysOf
    <2> QED
      BY <2>1, SlotFacts, RotationConstants
      DEF SlotsInv, RotationTypeOK, FilesInv, Dies, Fails, Installed
  <1>2. KnownInv' /\ FilesInv'
    BY SlotFacts DEF SlotsInv, KnownInv, FilesInv, Dies
  <1>3. CoverInv'
    BY SlotFacts, SameFiles DEF SlotsInv, CoverInv, Dies
  <1>4. LogInv'
    <2>1. /\ phase' = "down" /\ UNCHANGED <<slots, active, facts>>
          /\ owed' = owed \union (IF Installed THEN KeysOf(slots["A"]) \ facts ELSE {})
      BY DEF Dies
    <2>2. KeysOf(slots[Main]) \ facts \subseteq owed'
      <3>1. CASE ~Installed
        BY <2>1, <3>1, SlotFacts DEF SlotsInv, RotationTypeOK, FilesInv, LogInv, Installed, Dies
      <3>2. CASE Installed /\ phase = "merged"
        BY <2>1, <3>2, SlotFacts DEF SlotsInv, FilesInv, LogInv
      <3>3. CASE Installed /\ phase # "merged"
        BY <2>1, <3>3, SlotFacts, FilesDiffer DEF SlotsInv, FilesInv, LogInv, Installed
      <3> QED
        BY <3>1, <3>2, <3>3
    <2> QED
      BY <2>1, <2>2 DEF LogInv, Main
  <1>5. MergeLeavesABoot'
    BY SlotFacts, NotACatalog DEF SlotsInv, RotationTypeOK, FilesInv, MergeLeavesABoot, Dies
  <1> QED
    BY <1>1, <1>2, <1>3, <1>4, <1>5 DEF SlotsInv

LEMMA AddKeyKeeps ==
  ASSUME SlotsInv, NEW k \in Keys, NEW i \in Ids, AddKey(k, i)
  PROVE  SlotsInv'
  <1> DEFINE s == IF phase = "down" THEN active ELSE writer
  <1>1. s = active /\ s \in Slots /\ IsCatalog(slots[s]) /\ IsTyped(slots[s])
    BY SlotFacts DEF SlotsInv, RotationTypeOK, FilesInv, AddKey
  <1>2. PICK d :
          /\ d = [row |-> [x \in DOMAIN slots[s].row \union {i} |->
                            IF x = i THEN [key |-> k, at |-> 1] ELSE slots[s].row[x]],
                  text |-> slots[s].text, links |-> slots[s].links]
          /\ slots' = [slots EXCEPT ![s] = d]
    BY DEF AddKey
  <1>3. IsTyped(d) /\ IsCatalog(d) /\ KeysOf(d) = KeysOf(slots[s]) \union {k}
    <2>1. k \notin KeysOf(slots[s]) /\ \A x \in DOMAIN slots[s].row : x < i
      BY <1>1 DEF SlotsInv, KnownInv, AddKey
    <2> HIDE DEF s
    <2> QED
      BY <1>1, <1>2, <2>1, AddedRow
  <1>4. /\ DOMAIN slots' = Slots /\ slots'[active] = d
        /\ slots'[Other(active)] = slots[Other(active)]
    BY <1>1, <1>2, SlotFacts
  <1>5. /\ phase \in {"down", "up", "merged"} /\ IsCatalog(slots[active])
        /\ facts' = facts \union {k} /\ everKnown' = everKnown \union {k}
        /\ UNCHANGED <<active, writer, phase, task, before, target, merges, failures, clashed, owed>>
    BY <1>1 DEF AddKey
  <1> HIDE DEF s
  <1>6. RotationTypeOK'
    BY <1>3, <1>4, <1>5, SlotFacts DEF SlotsInv, RotationTypeOK
  <1>7. KnownInv' /\ FilesInv'
    BY <1>1, <1>3, <1>4, <1>5, SlotFacts, NotACatalog DEF SlotsInv, KnownInv, FilesInv
  <1>8. CoverInv'
    BY <1>1, <1>3, <1>4, <1>5, SlotFacts, LostMeansNowhere DEF SlotsInv, CoverInv, NothingIsLost
  <1>9. LogInv'
    <2>1. CASE phase = "merged"
      <3>1. KeysOf(slots[active]) \ KeysOf(slots["A"]) \subseteq facts
        BY <2>1 DEF SlotsInv, LogInv
      <3>2. slots'["A"] = IF active = "A" THEN d ELSE slots["A"]
        BY <1>4, SlotFacts
      <3>3. KeysOf(slots'[active']) \ KeysOf(slots'["A"]) \subseteq facts'
        <4>1. active' = active /\ slots'[active] = d
          BY <1>4, <1>5
        <4>2. CASE active = "A"
          BY <4>1, <4>2
        <4>3. CASE active # "A"
          <5>1. slots'["A"] = slots["A"]
            BY <3>2, <4>3
          <5> QED
            BY <1>3, <1>1, <1>5, <3>1, <4>1, <5>1
        <4> QED
          BY <4>2, <4>3
      <3>4. phase' = "merged"
        BY <1>5, <2>1
      <3> QED
        BY <3>3, <3>4 DEF LogInv
    <2>2. CASE phase # "merged"
      <3>1. Main = active /\ Main' = active
        BY <1>3, <1>4, <1>5 DEF Main
      <3>2. KeysOf(slots[active]) \ facts \subseteq owed
        BY <1>5, <2>2, <3>1 DEF SlotsInv, LogInv
      <3> QED
        BY <1>1, <1>3, <1>4, <1>5, <2>2, <3>1, <3>2 DEF LogInv
    <2> QED
      BY <2>1, <2>2
  <1>10. MergeLeavesABoot'
    BY <1>3, <1>4, <1>5, FilesDiffer DEF MergeLeavesABoot
  <1> QED
    BY <1>6, <1>7, <1>8, <1>9, <1>10 DEF SlotsInv

LEMMA StepKeeps == SlotsInv /\ [RotationNext]_rotationVars => SlotsInv'
  <1> SUFFICES ASSUME SlotsInv, [RotationNext]_rotationVars PROVE SlotsInv'
    OBVIOUS
  <1>1. CASE \E k \in Keys, i \in Ids : AddKey(k, i)
    BY <1>1, AddKeyKeeps
  <1>2. CASE MergeBegins
    BY <1>2, MergeBeginsKeeps
  <1>3. CASE Build
    BY <1>3, BuildKeeps
  <1>4. CASE NothingInstalled
    BY <1>4, NothingInstalledKeeps
  <1>5. CASE ReplaceA
    BY <1>5, ReplaceAKeeps
  <1>6. CASE CopyBegins
    BY <1>6, CopyBeginsKeeps
  <1>7. CASE CopyEnds
    BY <1>7, CopyEndsKeeps
  <1>8. CASE Promote
    BY <1>8, PromoteKeeps
  <1>9. CASE InstallFails
    BY <1>9, InstallFailsKeeps
  <1>10. CASE CloneBegins
    BY <1>10, CloneBeginsKeeps
  <1>11. CASE CloneEnds
    BY <1>11, CloneEndsKeeps
  <1>12. CASE CloneFails
    BY <1>12, CloneFailsKeeps
  <1>13. CASE Compact
    BY <1>13, CompactKeeps
  <1>14. CASE CompactFails
    BY <1>14, CompactFailsKeeps
  <1>15. CASE Dies
    BY <1>15, DiesKeeps
  <1>16. CASE Boot
    BY <1>16, BootKeeps
  <1>17. CASE UNCHANGED rotationVars
    BY <1>17 DEF rotationVars, SlotsInv, RotationTypeOK, KnownInv, FilesInv, CoverInv, LogInv,
                 MergeLeavesABoot, NothingIsLost, Main
  <1> QED
    BY <1>1, <1>2, <1>3, <1>4, <1>5, <1>6, <1>7, <1>8, <1>9, <1>10, <1>11, <1>12, <1>13, <1>14, <1>15, <1>16, <1>17
    DEF RotationNext

LEMMA SlotsInvariant == RotationSpec => []SlotsInv
  BY InitHolds, StepKeeps, PTL DEF RotationSpec

-----------------------------------------------------------------------------
(* The theorems *)

\* A slot that is not missing or torn is a catalog with unique keys, whose texts
\* and links name rows in it, after any merges, copies and repairs.
THEOREM SlotsTypeCorrect == RotationSpec => []RotationTypeOK
  <1>1. SlotsInv => RotationTypeOK
    BY DEF SlotsInv
  <1> QED
    BY <1>1, SlotsInvariant, PTL

\* merge_slots makes the union of any two slots a run can have: every key that
\* shares no id is kept once, with its newest row and text and with its links.
THEOREM MergeKeepsBothSlots == RotationSpec => []MergeIsUnion
  <1>1. SlotsInv => MergeIsUnion
    <2> SUFFICES ASSUME SlotsInv, phase = "closed", \A s \in Slots : IsCatalog(slots[s])
                 PROVE  IsUnion(slots["A"], slots["B"], Merged(slots["A"], slots["B"]))
      BY DEF MergeIsUnion
    <2>1. IsTyped(slots["A"]) /\ IsTyped(slots["B"])
      BY SlotFacts DEF SlotsInv, RotationTypeOK
    <2> QED
      BY <2>1, MergeMakesUnion
  <1> QED
    BY <1>1, SlotsInvariant, PTL

\* The op that installs a merge, and the repair of a slot, lose no row and leave a
\* slot that boots, whichever step fails or is killed.
THEOREM InstallLosesNothing == RotationSpec => []InstallAccounted
  <1>1. SlotsInv => InstallAccounted
    <2> SUFFICES ASSUME SlotsInv PROVE InstallAccounted
      OBVIOUS
    <2>1. ServesTheMarked
      BY DEF SlotsInv, FilesInv, ServesTheMarked
    <2>2. MergeIsServed
      BY DEF SlotsInv, FilesInv, CoverInv, MergeIsServed
    <2>3. LogHasWhatIsServed
      BY DEF SlotsInv, FilesInv, LogInv, Main, LogHasWhatIsServed
    <2> QED
      BY <2>1, <2>2, <2>3 DEF SlotsInv, CoverInv, InstallAccounted
  <1> QED
    BY <1>1, SlotsInvariant, PTL

-----------------------------------------------------------------------------
(* THE ERROR LOG *)

(***************************************************************************)
(* Every recorded error is in the log or counted, an owner that runs is    *)
(* shown each of its rows once or told how many were dropped, the root is  *)
(* shown the rest once, and an old log is moved once, for any hooks,       *)
(* owners, starts and old rows.                                            *)
(*                                                                         *)
(* The property adds up numbers of a log that is cut in the middle, so     *)
(* the section begins with sums.  A sum counts out the units of a          *)
(* function, and sets that pair off are as large as each other: this       *)
(* gives what the sum of two parts is, without an induction.  With it, a   *)
(* halving changes no total (`KeptIs'), since what it leaves weighs what   *)
(* it removed, for the whole log and for each owner.  Then the invariant   *)
(* says where the rows of an owner are that it was not told of: counted    *)
(* to it, carried by one of its runs, or weighing in the log above what it *)
(* has seen (`OwnersInv').  A start splits the last of these into rows     *)
(* that wait and rows that were dropped (`UnseenSplits') and takes both.   *)
(***************************************************************************)

-----------------------------------------------------------------------------
(* Sums *)

\* Functions whose values can be summed.
Counts(D) == [D -> Nat]

\* A function's values, counted out one by one.
Units(f) == UNION {{x} \X (1..f[x]) : x \in DOMAIN f}

\* What the units of a function are.
LEMMA UnitsAre ==
  ASSUME NEW D, NEW f \in Counts(D)
  PROVE  \A u : u \in Units(f) <=> \E x \in D : \E n \in 1..f[x] : u = <<x, n>>
  <1> USE DEF Counts
  <1>1. DOMAIN f = D
    OBVIOUS
  <1>2. \A u, x : u \in {x} \X (1..f[x]) <=> \E n \in 1..f[x] : u = <<x, n>>
    OBVIOUS
  <1>3. \A u : u \in Units(f) <=> \E x \in D : u \in {x} \X (1..f[x])
    BY <1>1 DEF Units
  <1> QED BY <1>2, <1>3

\* A sum over a finite set is a number.
LEMMA TallyIsFinite ==
  ASSUME NEW D, IsFiniteSet(D), NEW f \in Counts(D)
  PROVE  IsFiniteSet(Units(f)) /\ Tally(f) = Cardinality(Units(f)) /\ Tally(f) \in Nat
  <1> USE DEF Counts
  <1> DEFINE T == {{x} \X (1..f[x]) : x \in D}
             g == [x \in D |-> {x} \X (1..f[x])]
  <1>1. g \in [D -> T] /\ \A t \in T : \E x \in D : g[x] = t
    OBVIOUS
  <1>2. g \in Surjection(D, T)
    <2> HIDE DEF g, T
    <2> QED BY <1>1 DEF Surjection
  <1>3. IsFiniteSet(T)
    <2> HIDE DEF g, T
    <2> QED BY <1>2, FS_Surjection
  <1>4. ASSUME NEW x \in D PROVE IsFiniteSet({x} \X (1..f[x]))
    <2>1. f[x] \in Int /\ 1 \in Int
      OBVIOUS
    <2>2. IsFiniteSet(1..f[x])
      BY <2>1, FS_Interval
    <2>3. IsFiniteSet({x})
      BY FS_Singleton
    <2> QED BY <2>2, <2>3, FS_Product
  <1>5. \A t \in T : IsFiniteSet(t)
    BY <1>4
  <1>6. IsFiniteSet(UNION T)
    <2> HIDE DEF T
    <2> QED BY <1>3, <1>5, FS_UNION
  <1>7. DOMAIN f = D
    OBVIOUS
  <1>8. Units(f) = UNION T
    BY <1>7 DEF Units
  <1>9. IsFiniteSet(Units(f)) /\ Tally(f) = Cardinality(Units(f))
    BY <1>6, <1>8 DEF Tally, Units
  <1> QED BY <1>9, FS_CardinalityType

\* Two sets whose members pair off are as large as each other.
LEMMA PairedSets ==
  ASSUME NEW S, IsFiniteSet(S), NEW T, NEW g \in [S -> T],
         \A x, y \in S : g[x] = g[y] => x = y,
         \A z \in T : \E x \in S : g[x] = z
  PROVE  IsFiniteSet(T) /\ Cardinality(T) = Cardinality(S)
  <1>1. g \in Injection(S, T) /\ g \in Surjection(S, T)
    BY DEF Injection, Surjection, IsInjective
  <1>2. g \in Bijection(S, T)
    BY <1>1 DEF Bijection
  <1>3. ExistsBijection(S, T)
    BY <1>2 DEF ExistsBijection
  <1> QED BY <1>3, FS_Bijection

\* Two functions have one sum when their values other than 0 go together.
LEMMA TallyMoves ==
  ASSUME NEW D, IsFiniteSet(D), NEW f \in Counts(D),
         NEW R, NEW h \in Counts(R), NEW b \in [D -> R],
         \A x, y \in D : b[x] = b[y] => x = y,
         \A x \in D : h[b[x]] = f[x],
         \A y \in R : h[y] # 0 => \E x \in D : b[x] = y
  PROVE  Tally(f) = Tally(h)
  <1> USE DEF Counts
  <1> DEFINE g == [u \in Units(f) |-> <<b[u[1]], u[2]>>]
  <1>1. \A u : u \in Units(f) <=> \E x \in D : \E n \in 1..f[x] : u = <<x, n>>
    BY UnitsAre
  <1>2. \A u : u \in Units(h) <=> \E x \in R : \E n \in 1..h[x] : u = <<x, n>>
    BY UnitsAre
  <1>3. ASSUME NEW u \in Units(f) PROVE g[u] \in Units(h)
    <2>a. PICK x \in D : \E n \in 1..f[x] : u = <<x, n>>
      BY <1>1
    <2>1. PICK n \in 1..f[x] : u = <<x, n>>
      BY <2>a
    <2>2. g[u] = <<b[x], n>> /\ b[x] \in R /\ n \in 1..h[b[x]]
      BY <2>1
    <2> QED BY <1>2, <2>2
  <1>4. ASSUME NEW u \in Units(f), NEW v \in Units(f), g[u] = g[v] PROVE u = v
    <2>a. PICK x \in D : \E n \in 1..f[x] : u = <<x, n>>
      BY <1>1
    <2>1. PICK n \in 1..f[x] : u = <<x, n>>
      BY <2>a
    <2>b. PICK y \in D : \E m \in 1..f[y] : v = <<y, m>>
      BY <1>1
    <2>2. PICK m \in 1..f[y] : v = <<y, m>>
      BY <2>b
    <2>3. b[x] = b[y] /\ n = m
      BY <1>4, <2>1, <2>2
    <2> QED BY <2>1, <2>2, <2>3
  <1>5. ASSUME NEW v \in Units(h) PROVE \E u \in Units(f) : g[u] = v
    <2>a. PICK y \in R : \E n \in 1..h[y] : v = <<y, n>>
      BY <1>2
    <2>1. PICK n \in 1..h[y] : v = <<y, n>>
      BY <2>a
    <2>2. h[y] # 0
      OBVIOUS
    <2>3. PICK x \in D : b[x] = y
      BY <2>2
    <2>4. n \in 1..f[x]
      BY <2>3
    <2>5. <<x, n>> \in Units(f)
      BY <1>1, <2>4
    <2>6. g[<<x, n>>] = v
      BY <2>1, <2>3, <2>5
    <2> QED BY <2>5, <2>6
  <1>6. g \in [Units(f) -> Units(h)]
    BY <1>3
  <1> HIDE DEF g
  <1>9. IsFiniteSet(Units(f)) /\ Tally(f) = Cardinality(Units(f))
    BY TallyIsFinite
  <1>10. Cardinality(Units(h)) = Cardinality(Units(f))
    BY <1>4, <1>5, <1>6, <1>9, PairedSets
  <1>11. Tally(h) = Cardinality(Units(h))
    BY DEF Tally, Units
  <1> QED BY <1>9, <1>10, <1>11

\* The sum of two functions together: the units of the second come after those
\* of the first.
LEMMA TallyAdds ==
  ASSUME NEW D, IsFiniteSet(D), NEW f \in Counts(D), NEW g \in Counts(D), NEW h \in Counts(D),
         \A x \in D : h[x] = f[x] + g[x]
  PROVE  Tally(h) = Tally(f) + Tally(g)
  <1> USE DEF Counts
  <1> DEFINE up == [u \in Units(g) |-> <<u[1], u[2] + f[u[1]]>>]
             V == {v \in Units(h) : v \notin Units(f)}
  <1>1. \A u : u \in Units(f) <=> \E x \in D : \E n \in 1..f[x] : u = <<x, n>>
    BY UnitsAre
  <1>2. \A u : u \in Units(g) <=> \E x \in D : \E n \in 1..g[x] : u = <<x, n>>
    BY UnitsAre
  <1>3. \A u : u \in Units(h) <=> \E x \in D : \E n \in 1..h[x] : u = <<x, n>>
    BY UnitsAre
  <1>4. ASSUME NEW u \in Units(g) PROVE up[u] \in V
    <2>a. PICK x \in D : \E n \in 1..g[x] : u = <<x, n>>
      BY <1>2
    <2>1. PICK n \in 1..g[x] : u = <<x, n>>
      BY <2>a
    <2>2. up[u] = <<x, n + f[x]>>
      BY <2>1
    <2>3. f[x] \in Nat /\ g[x] \in Nat /\ h[x] = f[x] + g[x]
      OBVIOUS
    <2>4. n + f[x] \in 1..h[x] /\ n + f[x] \notin 1..f[x]
      BY <2>3
    <2>5. up[u] \in Units(h)
      BY <1>3, <2>2, <2>4
    <2>6. up[u] \notin Units(f)
      BY <1>1, <2>2, <2>4
    <2> QED BY <2>5, <2>6
  <1>5. ASSUME NEW u \in Units(g), NEW v \in Units(g), up[u] = up[v] PROVE u = v
    <2>a. PICK x \in D : \E n \in 1..g[x] : u = <<x, n>>
      BY <1>2
    <2>1. PICK n \in 1..g[x] : u = <<x, n>>
      BY <2>a
    <2>b. PICK y \in D : \E m \in 1..g[y] : v = <<y, m>>
      BY <1>2
    <2>2. PICK m \in 1..g[y] : v = <<y, m>>
      BY <2>b
    <2>3. up[u] = <<x, n + f[x]>> /\ up[v] = <<y, m + f[y]>>
      BY <2>1, <2>2
    <2>4. x = y /\ n + f[x] = m + f[x] /\ f[x] \in Nat
      BY <1>5, <2>3
    <2>5. n = m
      BY <2>4
    <2> QED BY <2>1, <2>2, <2>4, <2>5
  <1>6. ASSUME NEW v \in V PROVE \E u \in Units(g) : up[u] = v
    <2>a. PICK x \in D : \E n \in 1..h[x] : v = <<x, n>>
      BY <1>3
    <2>1. PICK n \in 1..h[x] : v = <<x, n>>
      BY <2>a
    <2>2. n \notin 1..f[x]
      BY <1>1, <2>1
    <2>3. f[x] \in Nat /\ g[x] \in Nat /\ h[x] = f[x] + g[x]
      OBVIOUS
    <2>4. n - f[x] \in 1..g[x] /\ (n - f[x]) + f[x] = n
      BY <2>2, <2>3
    <2>5. <<x, n - f[x]>> \in Units(g)
      BY <1>2, <2>4
    <2>6. up[<<x, n - f[x]>>] = v
      BY <2>1, <2>4, <2>5
    <2> QED BY <2>5, <2>6
  <1>7. up \in [Units(g) -> V]
    BY <1>4
  <1>8. Units(f) \subseteq Units(h)
    <2> SUFFICES ASSUME NEW u \in Units(f) PROVE u \in Units(h)
      OBVIOUS
    <2>a. PICK x \in D : \E n \in 1..f[x] : u = <<x, n>>
      BY <1>1
    <2>1. PICK n \in 1..f[x] : u = <<x, n>>
      BY <2>a
    <2>2. f[x] \in Nat /\ g[x] \in Nat /\ h[x] = f[x] + g[x]
      OBVIOUS
    <2>3. n \in 1..h[x]
      BY <2>2
    <2> QED BY <1>3, <2>1, <2>3
  <1>9. Units(h) = Units(f) \union V /\ Units(f) \intersect V = {}
    BY <1>8
  <1> HIDE DEF up, V
  <1>12. /\ IsFiniteSet(Units(f)) /\ Tally(f) = Cardinality(Units(f)) /\ Tally(f) \in Nat
         /\ IsFiniteSet(Units(g)) /\ Tally(g) = Cardinality(Units(g)) /\ Tally(g) \in Nat
         /\ Tally(h) = Cardinality(Units(h))
    BY TallyIsFinite
  <1>13. IsFiniteSet(V) /\ Cardinality(V) = Tally(g)
    BY <1>5, <1>6, <1>7, <1>12, PairedSets
  <1>14. Cardinality(Units(f) \union V) = Cardinality(Units(f)) + Cardinality(V) - Cardinality({})
    BY <1>9, <1>12, <1>13, FS_Union
  <1> QED BY <1>9, <1>12, <1>13, <1>14, FS_EmptySet

\* A sum of ones and zeros counts the ones.
LEMMA TallyOfOnes ==
  ASSUME NEW D, IsFiniteSet(D), NEW f \in [D -> {0, 1}]
  PROVE  Tally(f) = Cardinality({x \in D : f[x] = 1})
  <1> USE DEF Counts
  <1> DEFINE S == {x \in D : f[x] = 1}
             g == [x \in S |-> <<x, 1>>]
  <1>1. f \in Counts(D)
    OBVIOUS
  <1>2. \A u : u \in Units(f) <=> \E x \in D : \E n \in 1..f[x] : u = <<x, n>>
    BY <1>1, UnitsAre
  <1>3. \A u : u \in Units(f) <=> \E x \in S : u = <<x, 1>>
    <2>1. \A x \in D : f[x] = 1 \/ f[x] = 0
      OBVIOUS
    <2>2. \A x \in D : \A n : n \in 1..f[x] <=> f[x] = 1 /\ n = 1
      BY <2>1
    <2> QED BY <1>2, <2>2
  <1>4. /\ g \in [S -> Units(f)]
        /\ \A x, y \in S : g[x] = g[y] => x = y
        /\ \A u \in Units(f) : \E x \in S : g[x] = u
    BY <1>3
  <1>5. IsFiniteSet(S)
    BY FS_Subset
  <1> HIDE DEF g, S
  <1>8. Cardinality(Units(f)) = Cardinality(S)
    BY <1>4, <1>5, PairedSets
  <1> QED BY <1>1, <1>8, TallyIsFinite DEF S

\* A function that is zero but at one place sums to its value there.
LEMMA TallyOfOne ==
  ASSUME NEW D, IsFiniteSet(D), NEW f \in Counts(D), NEW a \in D, \A x \in D : x # a => f[x] = 0
  PROVE  Tally(f) = f[a]
  <1> USE DEF Counts
  <1> DEFINE N == 1..f[a]
             g == [n \in N |-> <<a, n>>]
  <1>1. \A u : u \in Units(f) <=> \E x \in D : \E n \in 1..f[x] : u = <<x, n>>
    BY UnitsAre
  <1>2. \A u : u \in Units(f) <=> \E n \in 1..f[a] : u = <<a, n>>
    BY <1>1
  <1>3. /\ g \in [N -> Units(f)]
        /\ \A n, m \in N : g[n] = g[m] => n = m
        /\ \A u \in Units(f) : \E n \in N : g[n] = u
    BY <1>2
  <1>4. f[a] \in Nat /\ f[a] \in Int /\ 1 \in Int
    OBVIOUS
  <1>5. IsFiniteSet(N) /\ Cardinality(N) = f[a]
    BY <1>4, FS_Interval
  <1> HIDE DEF g, N
  <1>6. Cardinality(Units(f)) = f[a]
    BY <1>3, <1>5, PairedSets
  <1> QED BY <1>6, TallyIsFinite

\* A function that is zero everywhere sums to zero.
LEMMA TallyOfNone ==
  ASSUME NEW D, IsFiniteSet(D), NEW f \in Counts(D), \A x \in D : f[x] = 0
  PROVE  Tally(f) = 0
  <1> USE DEF Counts
  <1>1. \A u : u \in Units(f) <=> \E x \in D : \E n \in 1..f[x] : u = <<x, n>>
    BY UnitsAre
  <1>2. Units(f) = {}
    BY <1>1
  <1> QED BY <1>2, TallyIsFinite, FS_EmptySet

\* h is f, up to n, and then g, up to m.
Joins(h, n, f, m, g) ==
  /\ n \in Nat /\ m \in Nat /\ f \in Counts(1..n) /\ g \in Counts(1..m) /\ h \in Counts(1..(n + m))
  /\ \A i \in 1..n : h[i] = f[i]
  /\ \A i \in 1..m : h[n + i] = g[i]

\* Of two sequences of numbers, one after the other.
LEMMA TallyOfTwo ==
  ASSUME NEW h, NEW n, NEW f1, NEW m, NEW f2, Joins(h, n, f1, m, f2)
  PROVE  Tally(h) = Tally(f1) + Tally(f2)
  <1> SUFFICES ASSUME n \in Nat, m \in Nat, f1 \in Counts(1..n), f2 \in Counts(1..m),
                      h \in Counts(1..(n + m)),
                      \A i \in 1..n : h[i] = f1[i], \A i \in 1..m : h[n + i] = f2[i]
               PROVE  Tally(h) = Tally(f1) + Tally(f2)
    BY DEF Joins
  <1> DEFINE D == 1..(n + m)
             P == 1..n
             R == 1..m
             f == [i \in D |-> IF i <= n THEN h[i] ELSE 0]
             g == [i \in D |-> IF i <= n THEN 0 ELSE h[i]]
             b == [i \in P |-> i]
             c == [i \in R |-> n + i]
  <1>2. IsFiniteSet(D) /\ IsFiniteSet(P) /\ IsFiniteSet(R)
    <2>1. 1 \in Int /\ n \in Int /\ m \in Int /\ n + m \in Int
      OBVIOUS
    <2> QED BY <2>1, FS_Interval
  <1>4. /\ f \in Counts(D) /\ g \in Counts(D) /\ h \in Counts(D)
        /\ \A i \in D : h[i] = f[i] + g[i]
    BY DEF Counts
  <1>5. Tally(h) = Tally(f) + Tally(g)
    <2> HIDE DEF D, f, g
    <2> QED BY <1>2, <1>4, TallyAdds
  <1>6. Tally(f1) = Tally(f)
    <2>1. b \in [P -> D] /\ \A i, j \in P : b[i] = b[j] => i = j
      OBVIOUS
    <2>2. \A i \in P : f[b[i]] = f1[i]
      OBVIOUS
    <2>3. \A j \in D : f[j] # 0 => \E i \in P : b[i] = j
      OBVIOUS
    <2>4. f1 \in Counts(P)
      OBVIOUS
    <2> HIDE DEF D, P, f, b
    <2> QED BY <1>2, <1>4, <2>1, <2>2, <2>3, <2>4, TallyMoves
  <1>7. Tally(f2) = Tally(g)
    <2>1. c \in [R -> D] /\ \A i, j \in R : c[i] = c[j] => i = j
      OBVIOUS
    <2>2. \A i \in R : g[c[i]] = f2[i]
      <3> SUFFICES ASSUME NEW i \in R PROVE g[c[i]] = f2[i]
        OBVIOUS
      <3>1. c[i] = n + i /\ n + i \in D /\ ~ (n + i <= n) /\ h[n + i] = f2[i]
        OBVIOUS
      <3> QED BY <3>1
    <2>3. ASSUME NEW j \in D, g[j] # 0 PROVE \E i \in R : c[i] = j
      <3>0. ~ (j <= n)
        BY <2>3
      <3>1. j - n \in R /\ c[j - n] = j
        BY <3>0
      <3> QED BY <3>1
    <2>4. f2 \in Counts(R)
      OBVIOUS
    <2> HIDE DEF D, R, g, c
    <2> QED BY <1>2, <1>4, <2>1, <2>2, <2>3, <2>4, TallyMoves
  <1> QED BY <1>5, <1>6, <1>7

\* The sum of what w says of the members of s.
Weights(w, s) == [i \in DOMAIN s |-> w[s[i]]]
\* What a sequence comes to, when x weighs w[x].
Total(w, s) == Tally(Weights(w, s))

\* The weights of a sequence are numbers, and so is its total.
LEMMA WeightsType ==
  ASSUME NEW E, NEW w \in [E -> Nat], NEW s \in Seq(E)
  PROVE  /\ Len(s) \in Nat /\ DOMAIN s = 1..Len(s) /\ IsFiniteSet(DOMAIN s)
         /\ Weights(w, s) \in Counts(1..Len(s))
         /\ \A i \in 1..Len(s) : s[i] \in E
         /\ Total(w, s) \in Nat
  <1>1. Len(s) \in Nat /\ DOMAIN s = 1..Len(s) /\ \A i \in 1..Len(s) : s[i] \in E
    OBVIOUS
  <1>2. Weights(w, s) \in Counts(1..Len(s))
    BY <1>1 DEF Counts, Weights
  <1>3. Len(s) \in Int /\ 1 \in Int
    BY <1>1
  <1>4. IsFiniteSet(1..Len(s))
    BY <1>3, FS_Interval
  <1> QED BY <1>1, <1>2, <1>4, TallyIsFinite DEF Total

\* u is s and then t.
Follows(u, s, t) ==
  /\ Len(u) = Len(s) + Len(t)
  /\ \A i \in 1..Len(s) : u[i] = s[i]
  /\ \A i \in 1..Len(t) : u[Len(s) + i] = t[i]

\* A sequence comes to what its two parts come to.
LEMMA TotalOfTwo ==
  ASSUME NEW E, NEW w \in [E -> Nat], NEW s \in Seq(E), NEW t \in Seq(E), NEW u \in Seq(E),
         Follows(u, s, t)
  PROVE  Total(w, u) = Total(w, s) + Total(w, t)
  <1> DEFINE n == Len(s)
             m == Len(t)
  <1>0. /\ Len(u) = n + m /\ \A i \in 1..n : u[i] = s[i]
        /\ \A i \in 1..m : u[n + i] = t[i]
    BY DEF Follows
  <1>1. n \in Nat /\ DOMAIN s = 1..n /\ Weights(w, s) \in Counts(1..n)
    BY WeightsType
  <1>2. m \in Nat /\ DOMAIN t = 1..m /\ Weights(w, t) \in Counts(1..m)
    BY WeightsType
  <1>3. DOMAIN u = 1..(n + m) /\ Weights(w, u) \in Counts(1..(n + m))
    BY <1>0, WeightsType
  <1>4. \A i \in 1..n : Weights(w, u)[i] = Weights(w, s)[i]
    BY <1>0, <1>1, <1>2, <1>3 DEF Weights
  <1>5. \A i \in 1..m : Weights(w, u)[n + i] = Weights(w, t)[i]
    BY <1>0, <1>1, <1>2, <1>3 DEF Weights
  <1>6. Tally(Weights(w, u)) = Tally(Weights(w, s)) + Tally(Weights(w, t))
    <2> DEFINE f == Weights(w, s)
               g == Weights(w, t)
               h == Weights(w, u)
    <2>1. Joins(h, n, f, m, g)
      BY <1>1, <1>2, <1>3, <1>4, <1>5 DEF Joins
    <2> HIDE DEF n, m, f, g, h
    <2>2. Tally(h) = Tally(f) + Tally(g)
      BY <2>1, TallyOfTwo
    <2> QED BY <2>2 DEF f, g, h
  <1> QED BY <1>6 DEF Total

\* The same, of a concatenation.
LEMMA TotalOfConcat ==
  ASSUME NEW E, NEW w \in [E -> Nat], NEW s \in Seq(E), NEW t \in Seq(E)
  PROVE  Total(w, s \o t) = Total(w, s) + Total(w, t)
  <1> DEFINE u == s \o t
  <1>1. Len(s) \in Nat /\ Len(t) \in Nat /\ u \in Seq(E) /\ Len(u) = Len(s) + Len(t)
    OBVIOUS
  <1>2. \A i \in 1..Len(s) : u[i] = s[i]
    OBVIOUS
  <1>3. \A i \in 1..Len(t) : u[Len(s) + i] = t[i]
    OBVIOUS
  <1> HIDE DEF u
  <1>4. Total(w, u) = Total(w, s) + Total(w, t)
    <2>1. Follows(u, s, t)
      BY <1>1, <1>2, <1>3 DEF Follows
    <2> QED BY <1>1, <2>1, TotalOfTwo
  <1> QED BY <1>4 DEF u

\* One more entry adds its weight.
LEMMA TotalOfAppend ==
  ASSUME NEW E, NEW w \in [E -> Nat], NEW s \in Seq(E), NEW x \in E
  PROVE  Append(s, x) \in Seq(E) /\ Total(w, Append(s, x)) = Total(w, s) + w[x]
  <1> DEFINE u == Append(s, x)
             t == <<x>>
             f == Weights(w, t)
  <1>1. /\ t \in Seq(E) /\ u \in Seq(E) /\ Len(t) = 1 /\ t[1] = x /\ Len(u) = Len(s) + Len(t)
        /\ u[Len(s) + 1] = x /\ \A i \in 1..Len(s) : u[i] = s[i]
    OBVIOUS
  <1>2. \A i \in 1..Len(t) : u[Len(s) + i] = t[i]
    BY <1>1
  <1>3. DOMAIN t = {1} /\ f \in Counts({1}) /\ f[1] = w[x]
    BY <1>1 DEF Counts, Weights
  <1>4. Tally(f) = w[x]
    <2>1. IsFiniteSet({1}) /\ 1 \in {1} /\ \A y \in {1} : y # 1 => f[y] = 0
      BY FS_Singleton
    <2> HIDE DEF f
    <2> QED BY <1>3, <2>1, TallyOfOne
  <1>5. Total(w, t) = w[x]
    BY <1>4 DEF Total
  <1> HIDE DEF t, u
  <1>6. Total(w, u) = Total(w, s) + Total(w, t)
    <2>1. Follows(u, s, t)
      BY <1>1, <1>2 DEF Follows
    <2> QED BY <1>1, <2>1, TotalOfTwo
  <1> QED BY <1>1, <1>5, <1>6 DEF u

\* A cut changes no total.
LEMMA TotalOfHalves ==
  ASSUME NEW E, NEW w \in [E -> Nat], NEW s \in Seq(E), NEW k \in 0..Len(s)
  PROVE  /\ SubSeq(s, 1, k) \in Seq(E) /\ SubSeq(s, k + 1, Len(s)) \in Seq(E)
         /\ Total(w, s) = Total(w, SubSeq(s, 1, k)) + Total(w, SubSeq(s, k + 1, Len(s)))
  <1> DEFINE p == SubSeq(s, 1, k)
             q == SubSeq(s, k + 1, Len(s))
  <1>0. k \in Nat /\ Len(s) \in Nat /\ k <= Len(s)
    OBVIOUS
  <1>1. /\ p \in Seq(E) /\ q \in Seq(E) /\ Len(p) = k /\ Len(q) = Len(s) - k
    BY <1>0
  <1>2. (\A i \in 1..Len(p) : s[i] = p[i]) /\ (\A i \in 1..Len(q) : s[Len(p) + i] = q[i])
    <2>1. \A i \in 1..k : s[i] = p[i]
      BY <1>0
    <2>2. \A i \in 1..(Len(s) - k) : q[i] = s[k + 1 + i - 1]
      BY <1>0
    <2>3. \A i \in 1..(Len(s) - k) : k + 1 + i - 1 = k + i
      BY <1>0
    <2> HIDE DEF p, q
    <2> QED BY <1>1, <2>1, <2>2, <2>3
  <1> HIDE DEF p, q
  <1>3. Len(s) = Len(p) + Len(q)
    BY <1>0, <1>1
  <1>4. Total(w, s) = Total(w, p) + Total(w, q)
    <2>1. Follows(s, p, q)
      BY <1>2, <1>3 DEF Follows
    <2> QED BY <1>1, <2>1, TotalOfTwo
  <1> QED BY <1>1, <1>4 DEF p, q

\* A function that changes at one place.
LEMMA TallyOfChange ==
  ASSUME NEW D, IsFiniteSet(D), NEW f \in Counts(D), NEW g \in Counts(D), NEW a \in D,
         \A x \in D : x # a => f[x] = g[x]
  PROVE  Tally(f) + g[a] = Tally(g) + f[a]
  <1> DEFINE r == [x \in D |-> IF x = a THEN 0 ELSE f[x]]
             u == [x \in D |-> IF x = a THEN f[a] ELSE 0]
             v == [x \in D |-> IF x = a THEN g[a] ELSE 0]
  <1>1. /\ r \in Counts(D) /\ u \in Counts(D) /\ v \in Counts(D)
        /\ \A x \in D : f[x] = r[x] + u[x]
        /\ \A x \in D : g[x] = r[x] + v[x]
    BY DEF Counts
  <1>2. /\ u[a] = f[a] /\ \A x \in D : x # a => u[x] = 0
        /\ v[a] = g[a] /\ \A x \in D : x # a => v[x] = 0
    OBVIOUS
  <1> HIDE DEF r, u, v
  <1>3. Tally(f) = Tally(r) + Tally(u) /\ Tally(g) = Tally(r) + Tally(v)
    BY <1>1, TallyAdds
  <1>4. Tally(u) = f[a] /\ Tally(v) = g[a]
    BY <1>1, <1>2, TallyOfOne
  <1>5. Tally(r) \in Nat /\ f[a] \in Nat /\ g[a] \in Nat
    BY <1>1, TallyIsFinite DEF Counts
  <1> QED BY <1>3, <1>4, <1>5

-----------------------------------------------------------------------------
(* The entries of a log, and what a halving makes of them *)

\* The weight of an entry: the rows that it stands for.
Stands == [x \in Entry |-> StandsFor(x)]
\* What o has not seen of an entry, when it has seen all up to k.
UnseenAbove(o, k) ==
  [x \in Entry |-> IF x.t <= k THEN 0
                   ELSE IF IsRow(x) THEN (IF x.owner = o THEN 1 ELSE 0) ELSE x.unseen[o]]

\* The types of an entry's parts.
LEMMA EntryParts ==
  \A x \in Entry : /\ x.name \in Names /\ x.owner \in Owners \union {NoOwner} /\ x.t \in Nat
                   /\ x.dropped \in Nat /\ x.unseen \in [Owners -> Nat]
  BY DEF Entry

\* A row is an entry, that has dropped none.
LEMMA RowIs ==
  ASSUME NEW n \in Names, NEW o \in Owners \union {NoOwner}, NEW t \in Nat
  PROVE  /\ Row(n, o, t) \in Entry
         /\ Row(n, o, t).name = n /\ Row(n, o, t).owner = o /\ Row(n, o, t).t = t
         /\ Row(n, o, t).dropped = 0 /\ Row(n, o, t).unseen = NoCounts
  <1>1. NoCounts \in [Owners -> Nat]
    BY DEF NoCounts
  <1> QED BY <1>1 DEF Row, Entry

\* The sums of two logs, one after the other.
LEMMA EntriesConcat ==
  ASSUME NEW w \in Counts(Entry), NEW l \in Seq(Entry), NEW m \in Seq(Entry)
  PROVE  Total(w, l \o m) = Total(w, l) + Total(w, m)
  BY TotalOfConcat DEF Counts

\* Both weights are numbers.
LEMMA StandsType == Stands \in [Entry -> Nat]
  <1>1. \A x \in Entry : StandsFor(x) \in Nat
    BY EntryParts DEF StandsFor
  <1> QED BY <1>1 DEF Stands

\* And so is the second, of rows an owner has not seen.
LEMMA UnseenType ==
  ASSUME NEW o \in Owners, NEW k \in Nat
  PROVE  UnseenAbove(o, k) \in [Entry -> Nat]
  <1>1. \A x \in Entry : (IF x.t <= k THEN 0 ELSE IF IsRow(x) THEN (IF x.owner = o THEN 1 ELSE 0)
                          ELSE x.unseen[o]) \in Nat
    BY EntryParts
  <1> QED BY <1>1 DEF UnseenAbove

\* The sums that the model takes are those of the weights.
LEMMA SumsAre ==
  ASSUME NEW l \in Seq(Entry)
  PROVE  /\ Tally([i \in DOMAIN l |-> StandsFor(l[i])]) = Total(Stands, l)
         /\ \A o \in Owners : Tally([i \in DOMAIN l |-> UnseenIn(l[i], o)])
                                = Total(UnseenAbove(o, surfaced[o]), l)
  <1>1. \A i \in DOMAIN l : l[i] \in Entry
    OBVIOUS
  <1>2. [i \in DOMAIN l |-> StandsFor(l[i])] = Weights(Stands, l)
    BY <1>1 DEF Weights, Stands
  <1>3. ASSUME NEW o \in Owners
        PROVE  [i \in DOMAIN l |-> UnseenIn(l[i], o)] = Weights(UnseenAbove(o, surfaced[o]), l)
    BY <1>1 DEF Weights, UnseenAbove, UnseenIn
  <1> QED BY <1>2, <1>3 DEF Total

\* What a halving leaves of the rows it removes weighs what they weighed.
LEMMA TruncationIs ==
  ASSUME PointerConstants, surfaced \in [Owners -> Nat], now \in Nat, NEW l \in Seq(Entry)
  PROVE  /\ Truncation(l) \in Entry
         /\ Truncation(l).name = Truncated /\ Truncation(l).owner = NoOwner /\ Truncation(l).t = now
         /\ Stands[Truncation(l)] = Total(Stands, l)
         /\ \A o \in Owners : surfaced[o] < now =>
              UnseenAbove(o, surfaced[o])[Truncation(l)] = Total(UnseenAbove(o, surfaced[o]), l)
  <1> DEFINE x == Truncation(l)
  <1>1. /\ x.name = Truncated /\ x.owner = NoOwner /\ x.t = now
        /\ x.dropped = Total(Stands, l)
        /\ x.unseen = [o \in Owners |-> Total(UnseenAbove(o, surfaced[o]), l)]
        /\ x = [name |-> x.name, owner |-> x.owner, t |-> x.t, dropped |-> x.dropped, unseen |-> x.unseen]
    BY SumsAre DEF Truncation
  <1>2. Total(Stands, l) \in Nat
    BY StandsType, WeightsType
  <1>3. \A o \in Owners : Total(UnseenAbove(o, surfaced[o]), l) \in Nat
    <2> SUFFICES ASSUME NEW o \in Owners PROVE Total(UnseenAbove(o, surfaced[o]), l) \in Nat
      OBVIOUS
    <2>1. UnseenAbove(o, surfaced[o]) \in [Entry -> Nat]
      BY UnseenType
    <2> QED BY <2>1, WeightsType
  <1>4. x \in Entry
    <2> HIDE DEF x
    <2> QED BY <1>1, <1>2, <1>3 DEF Entry, Names
  <1>5. ~ IsRow(x)
    BY <1>1 DEF IsRow
  <1> HIDE DEF x
  <1>6. Stands[x] = Total(Stands, l)
    BY <1>1, <1>4, <1>5 DEF Stands, StandsFor
  <1>7. ASSUME NEW o \in Owners, surfaced[o] < now
        PROVE  UnseenAbove(o, surfaced[o])[x] = Total(UnseenAbove(o, surfaced[o]), l)
    <2>1. ~ (x.t <= surfaced[o])
      BY <1>1, <1>7
    <2>2. UnseenAbove(o, surfaced[o])[x] = x.unseen[o]
      BY <1>4, <1>5, <2>1 DEF UnseenAbove
    <2> QED BY <1>1, <2>2
  <1> QED BY <1>1, <1>4, <1>6, <1>7 DEF x

\* So a halving changes no total.
LEMMA KeptIs ==
  ASSUME PointerConstants, ErrorTypeOK, \A o \in Owners : surfaced[o] < now
  PROVE  /\ KeptLog \in Seq(Entry)
         /\ Total(Stands, KeptLog) = Total(Stands, log)
         /\ \A o \in Owners : Total(UnseenAbove(o, surfaced[o]), KeptLog)
                                = Total(UnseenAbove(o, surfaced[o]), log)
  <1> DEFINE p == SubSeq(log, 1, Half)
             q == SubSeq(log, Half + 1, Len(log))
             x == Truncation(p)
  <1>0. log \in Seq(Entry) /\ now \in Nat /\ surfaced \in [Owners -> Nat]
    BY DEF ErrorTypeOK
  <1>1. CASE ~ (Len(log) > MaxLog)
    BY <1>0, <1>1 DEF KeptLog
  <1>2. CASE Len(log) > MaxLog
    <2>1. Half \in 0..Len(log)
      BY <1>0 DEF Half
    <2>2. p \in Seq(Entry) /\ q \in Seq(Entry)
      BY <1>0, <2>1, TotalOfHalves, StandsType
    <2>3. x \in Entry /\ Stands[x] = Total(Stands, p)
      BY <1>0, <2>2, TruncationIs
    <2>4. KeptLog = Append(q, x)
      BY <1>2 DEF KeptLog
    <2>5. ASSUME NEW w \in [Entry -> Nat], w[x] = Total(w, p)
          PROVE  KeptLog \in Seq(Entry) /\ Total(w, KeptLog) = Total(w, log)
      <3>1. Total(w, log) = Total(w, p) + Total(w, q)
        BY <1>0, <2>1, TotalOfHalves
      <3> HIDE DEF p, q, x
      <3>2. KeptLog \in Seq(Entry) /\ Total(w, KeptLog) = Total(w, q) + w[x]
        BY <2>2, <2>3, <2>4, TotalOfAppend
      <3>3. Total(w, p) \in Nat /\ Total(w, q) \in Nat
        BY <2>2, WeightsType
      <3> QED BY <2>5, <3>1, <3>2, <3>3
    <2>6. KeptLog \in Seq(Entry) /\ Total(Stands, KeptLog) = Total(Stands, log)
      <3> HIDE DEF p, q, x
      <3> QED BY <2>3, <2>5, StandsType
    <2>7. ASSUME NEW o \in Owners
          PROVE  Total(UnseenAbove(o, surfaced[o]), KeptLog) = Total(UnseenAbove(o, surfaced[o]), log)
      <3>1. UnseenAbove(o, surfaced[o])[x] = Total(UnseenAbove(o, surfaced[o]), p)
        BY <1>0, <2>2, TruncationIs
      <3>2. UnseenAbove(o, surfaced[o]) \in [Entry -> Nat]
        BY <1>0, UnseenType
      <3> HIDE DEF p, q, x
      <3> QED BY <2>5, <3>1, <3>2
    <2> QED BY <2>6, <2>7
  <1> QED BY <1>1, <1>2

\* In a log whose rows have times before k: a hook's row is its own, an old
\* row has no owner, nor has the entry of a halving, and a hook has one row.
EntryIs(x, k, hk) ==
  /\ x.t < k
  /\ x.name \in Hooks => /\ hk[x.name].at = "written"
                         /\ x = Row(x.name, hk[x.name].owner, hk[x.name].t)
  /\ x.name \in Legacy => x = Row(x.name, NoOwner, 0)
  /\ x.name = Truncated => x.owner = NoOwner
\* A hook's row is in a log once.
OnceIn(l) == \A i, j \in DOMAIN l : l[i].name = l[j].name /\ l[i].name \in Hooks => i = j
EntriesOf(l, k, hk) == (\A i \in DOMAIN l : EntryIs(l[i], k, hk)) /\ OnceIn(l)
EntriesInv == EntriesOf(log, now, hook)

\* Entries stay what they are as time passes.
LEMMA LaterEntries ==
  ASSUME NEW l \in Seq(Entry), NEW k \in Nat, NEW m \in Nat, k <= m, NEW hk, EntriesOf(l, k, hk)
  PROVE  EntriesOf(l, m, hk)
  <1>1. ASSUME NEW i \in DOMAIN l PROVE l[i].t < m
    <2>1. l[i] \in Entry
      OBVIOUS
    <2>2. l[i].t \in Nat /\ l[i].t < k
      BY <2>1, EntryParts DEF EntriesOf, EntryIs
    <2> QED BY <2>2
  <1> QED BY <1>1 DEF EntriesOf, EntryIs

\* Where the rows that are kept were.
LEMMA KeptWere ==
  ASSUME PointerConstants, ErrorTypeOK, Keeps
  PROVE  /\ now' \in Nat /\ now <= now'
         /\ halved \subseteq halved' /\ halved' \subseteq Legacy
         /\ \E d \in Nat : \A i \in DOMAIN KeptLog :
              \/ /\ i + d \in DOMAIN log /\ KeptLog[i] = log[i + d]
              \/ /\ i = Len(KeptLog) /\ KeptLog[i] = Truncation(SubSeq(log, 1, Half)) /\ now < now'
         /\ \A i \in DOMAIN log : log[i].name \in Legacy =>
                    log[i].name \in halved' \/ \E j \in DOMAIN KeptLog : KeptLog[j] = log[i]
         /\ \A n \in halved' : n \in halved \/ \E i \in DOMAIN log : log[i].name = n
  <1>0. log \in Seq(Entry) /\ now \in Nat /\ halved \subseteq Legacy /\ DOMAIN log = 1..Len(log)
        /\ Len(log) \in Nat
    BY DEF ErrorTypeOK
  <1>1. CASE ~ (Len(log) > MaxLog)
    <2>1. KeptLog = log /\ now' = now /\ halved' = halved
      BY <1>1 DEF KeptLog, Keeps, Halves
    <2>2. \A i \in DOMAIN KeptLog : i + 0 \in DOMAIN log /\ KeptLog[i] = log[i + 0]
      BY <1>0, <2>1
    <2>3. \E d \in Nat : \A i \in DOMAIN KeptLog :
              \/ /\ i + d \in DOMAIN log /\ KeptLog[i] = log[i + d]
              \/ /\ i = Len(KeptLog) /\ KeptLog[i] = Truncation(SubSeq(log, 1, Half)) /\ now < now'
      <3>1. PICK d \in Nat : d = 0
        OBVIOUS
      <3>2. \A i \in DOMAIN KeptLog : i + d \in DOMAIN log /\ KeptLog[i] = log[i + d]
        BY <2>2, <3>1
      <3> QED BY <3>2
    <2>4. \A i \in DOMAIN log : \E j \in DOMAIN KeptLog : KeptLog[j] = log[i]
      BY <2>1
    <2>5. now' \in Nat /\ now <= now' /\ halved \subseteq halved' /\ halved' \subseteq Legacy
      BY <1>0, <2>1
    <2>6. \A m \in halved' : m \in halved \/ \E i \in DOMAIN log : log[i].name = m
      BY <2>1
    <2> QED BY <2>3, <2>4, <2>5, <2>6
  <1>2. CASE Len(log) > MaxLog
    <2> DEFINE q == SubSeq(log, Half + 1, Len(log))
               x == Truncation(SubSeq(log, 1, Half))
               n == Len(log) - Half
    <2>0. MaxLog \in Nat
      BY DEF PointerConstants
    <2>1. /\ now' = now + 1 /\ KeptLog = Append(q, x)
          /\ halved' = halved \union {log[i].name : i \in {j \in 1..Half : log[j].name \in Legacy}}
      <3>1. ~ (Len(log) <= MaxLog)
        BY <1>0, <1>2, <2>0
      <3>2. KeptLog = Append(q, x) /\ now' = now + 1
        BY <1>2 DEF KeptLog, Keeps
      <3>3. Halves
        BY <3>1 DEF Keeps
      <3> QED BY <3>2, <3>3 DEF Halves
    <2>2. Half \in Nat /\ Half <= Len(log) /\ n \in Nat
      BY <1>0 DEF Half
    <2>3. Len(q) = n /\ DOMAIN q = 1..n /\ \A i \in 1..n : i + Half \in DOMAIN log /\ q[i] = log[i + Half]
      <3> HIDE DEF Half
      <3>a. Half + 1 \in Nat /\ Half \in Nat /\ Half <= Len(log) /\ log \in Seq(Entry) /\ Len(log) \in Nat
        BY <1>0, <2>2
      <3>1. Len(q) = n /\ DOMAIN q = 1..n
        <4>1. Len(q) = IF Half + 1 <= Len(log) THEN Len(log) - (Half + 1) + 1 ELSE 0
          BY <3>a
        <4>2. DOMAIN q = 1..Len(q)
          BY <3>a
        <4> HIDE DEF q
        <4> QED BY <3>a, <4>1, <4>2
      <3>2. \A i \in 1..n : q[i] = log[Half + 1 + i - 1]
        BY <1>0, <2>2
      <3>3. \A i \in 1..n : i + Half \in DOMAIN log /\ Half + 1 + i - 1 = i + Half
        BY <1>0, <2>2
      <3> HIDE DEF q
      <3> QED BY <3>1, <3>2, <3>3
    <2>4. /\ Len(KeptLog) = n + 1 /\ DOMAIN KeptLog = 1..(n + 1)
          /\ KeptLog[n + 1] = x /\ \A i \in 1..n : KeptLog[i] = q[i]
      <3>1. q \in Seq(Entry)
        BY <1>0, <2>2
      <3> HIDE DEF q, x
      <3> QED BY <2>1, <2>2, <2>3, <3>1
    <2> HIDE DEF q, x
    <2>5. ASSUME NEW i \in DOMAIN KeptLog
          PROVE  \/ /\ i + Half \in DOMAIN log /\ KeptLog[i] = log[i + Half]
                 \/ /\ i = Len(KeptLog) /\ KeptLog[i] = x /\ now < now'
      <3>1. CASE i = n + 1
        BY <1>0, <2>1, <2>4, <3>1
      <3>2. CASE i \in 1..n
        BY <2>3, <2>4, <3>2
      <3> QED BY <2>2, <2>4, <3>1, <3>2
    <2>6. \A i \in DOMAIN log : log[i].name \in Legacy =>
                    log[i].name \in halved' \/ \E j \in DOMAIN KeptLog : KeptLog[j] = log[i]
      <3> SUFFICES ASSUME NEW i \in DOMAIN log
                   PROVE  log[i].name \in Legacy =>
                    log[i].name \in halved' \/ \E j \in DOMAIN KeptLog : KeptLog[j] = log[i]
        OBVIOUS
      <3>1. CASE i \in 1..Half
        BY <2>1, <3>1
      <3>2. CASE i \notin 1..Half
        <4>1. i - Half \in 1..n /\ (i - Half) + Half = i
          BY <1>0, <2>2, <3>2
        <4>2. KeptLog[i - Half] = log[i] /\ i - Half \in DOMAIN KeptLog
          BY <2>2, <2>3, <2>4, <4>1
        <4> QED BY <4>2
      <3> QED BY <3>1, <3>2
    <2>7. \A m \in halved' : m \in halved \/ \E i \in DOMAIN log : log[i].name = m
      BY <1>0, <2>1, <2>2
    <2>8. halved \subseteq halved' /\ halved' \subseteq Legacy
      BY <1>0, <2>1
    <2>9. \E d \in Nat : \A i \in DOMAIN KeptLog :
            \/ /\ i + d \in DOMAIN log /\ KeptLog[i] = log[i + d]
            \/ /\ i = Len(KeptLog) /\ KeptLog[i] = x /\ now < now'
      <3> HIDE DEF Half
      <3>1. \A i \in DOMAIN KeptLog :
              \/ /\ i + Half \in DOMAIN log /\ KeptLog[i] = log[i + Half]
              \/ /\ i = Len(KeptLog) /\ KeptLog[i] = x /\ now < now'
        BY <2>5
      <3>2. PICK d \in Nat : d = Half
        BY <2>2
      <3>3. \A i \in DOMAIN KeptLog :
              \/ /\ i + d \in DOMAIN log /\ KeptLog[i] = log[i + d]
              \/ /\ i = Len(KeptLog) /\ KeptLog[i] = x /\ now < now'
        BY <3>1, <3>2
      <3> QED BY <3>3
    <2>10. now' \in Nat /\ now <= now'
      BY <1>0, <2>1
    <2> QED
      <3> HIDE DEF Half
      <3> QED BY <2>6, <2>7, <2>8, <2>9, <2>10 DEF x
  <1> QED BY <1>1, <1>2

\* What a halving leaves is a log of that kind too.
LEMMA KeptEntries ==
  ASSUME PointerConstants, ErrorTypeOK, EntriesInv, Keeps
  PROVE  EntriesOf(KeptLog, now', hook)
  <1>0. /\ log \in Seq(Entry) /\ now \in Nat /\ surfaced \in [Owners -> Nat]
        /\ Truncated \notin Hooks \union Legacy
    BY DEF ErrorTypeOK, PointerConstants
  <1>1. PICK d \in Nat : \A i \in DOMAIN KeptLog :
              \/ /\ i + d \in DOMAIN log /\ KeptLog[i] = log[i + d]
              \/ /\ i = Len(KeptLog) /\ KeptLog[i] = Truncation(SubSeq(log, 1, Half)) /\ now < now'
    BY KeptWere
  <1>2. now' \in Nat /\ now <= now'
    BY KeptWere
  <1>3. EntriesOf(log, now', hook)
    BY <1>0, <1>2, LaterEntries DEF EntriesInv
  <1>4. /\ Truncation(SubSeq(log, 1, Half)).name = Truncated
        /\ Truncation(SubSeq(log, 1, Half)).owner = NoOwner
        /\ Truncation(SubSeq(log, 1, Half)).t = now
    BY DEF Truncation
  <1>5. ASSUME NEW i \in DOMAIN KeptLog PROVE EntryIs(KeptLog[i], now', hook)
    BY <1>0, <1>1, <1>3, <1>4 DEF EntriesOf, EntryIs
  <1>6. DOMAIN KeptLog \subseteq Nat
    BY <1>0 DEF KeptLog
  <1>7. ASSUME NEW i \in DOMAIN KeptLog, NEW j \in DOMAIN KeptLog,
               KeptLog[i].name = KeptLog[j].name, KeptLog[i].name \in Hooks
        PROVE  i = j
    <2>1. i + d \in DOMAIN log /\ KeptLog[i] = log[i + d] /\ j + d \in DOMAIN log /\ KeptLog[j] = log[j + d]
      BY <1>0, <1>1, <1>4, <1>7
    <2>2. i + d = j + d
      BY <1>3, <1>7, <2>1 DEF EntriesOf, OnceIn
    <2> QED BY <1>6, <2>2
  <1> QED BY <1>5, <1>7 DEF EntriesOf, OnceIn

-----------------------------------------------------------------------------
(* The invariant *)

\* The runs of an owner, and what it was told or is being told.
RunsOf(o) == {s \in Starts : StartOwner[s] = o}
ToldRows(o) == known[o].rows \union muted[o].rows \union UNION {picked[s].rows : s \in RunsOf(o)}
PickedCounts(o) == [s \in RunsOf(o) |-> picked[s].count]
Untold(o) == Written(o) \ (ToldRows(o) \union late)

\* Times have passed, and a run that has picked is past the picking.
TimesInv ==
  /\ \A h \in Hooks : hook[h].at # "new" => hook[h].t < now
  /\ \A o \in Owners : surfaced[o] < now
  /\ \A s \in Starts : start[s] \in {"new", "claimed", "copied", "own", "gone"} => picked[s] = Nothing

\* What an owner was told of, and what came in late, it has seen.
ToldInv ==
  /\ \A h \in late : hook[h].at = "written"
  /\ \A o \in alive :
       /\ \A h \in ToldRows(o) : h \in Written(o) /\ hook[h].t <= surfaced[o] /\ h \notin late
       /\ \A h \in late : h \in Written(o) => hook[h].t <= surfaced[o]

\* The rest of its rows are in the log, or were counted out.
RowsInv ==
  Cardinality({h \in Hooks : hook[h].at = "written"}) + Tally(copies) = Total(Stands, log)
\* An owner's untold rows are those it has had counted to it, those a run of its
\* carries, and those that the log holds above what it has seen.
OwnersInv ==
  \A o \in alive :
    Cardinality(Untold(o))
      = known[o].count + muted[o].count + Tally(PickedCounts(o)) + Total(UnseenAbove(o, surfaced[o]), log)

\* An old row that was appended is in the log, if no halving removed it.
MovesInv ==
  /\ \A l \in Legacy : copies[l] > 0 <=> (\E i \in DOMAIN log : log[i].name = l) \/ l \in halved
  /\ \A s \in Starts : start[s] = "copied" => \A l \in Legacy : copies[l] > 0

\* A row that was picked for the root is below what the root has seen.
EndedInv ==
  /\ \A h \in Hooks : \/ ended[h] = 0
                      \/ /\ ended[h] = 1 /\ hook[h].at = "written"
                         /\ hook[h].owner \in Owners \ alive
                         /\ hook[h].t <= consumed[hook[h].owner]
  /\ \A i \in DOMAIN log :
       log[i].name \in Hooks /\ log[i].owner # NoOwner /\ ended[log[i].name] = 0 =>
         log[i].name \in lateEnded \/ log[i].t > consumed[log[i].owner]

\* All of it, with the types and the property that is inductive by itself.
ErrorsInv == /\ ErrorTypeOK /\ EntriesInv /\ TimesInv /\ ToldInv /\ RowsInv /\ OwnersInv
             /\ MovesInv /\ EndedInv /\ LegacyMovesOnce

\* The types of a notice's parts.
LEMMA NoticeParts ==
  /\ Nothing \in Notice /\ Nothing.rows = {} /\ Nothing.count = 0
  /\ \A n \in Notice : n.rows \subseteq Hooks /\ n.count \in Nat
  /\ \A r, c : r \subseteq Hooks /\ c \in Nat => [rows |-> r, count |-> c] \in Notice
  BY DEF Notice, Nothing

\* An owner has finitely many runs.
LEMMA RunsAreFinite ==
  ASSUME PointerConstants, NEW o
  PROVE  IsFiniteSet(RunsOf(o)) /\ RunsOf(o) \subseteq Starts
  <1>1. RunsOf(o) \in SUBSET Starts
    BY DEF RunsOf
  <1> QED BY <1>1, FS_Subset DEF PointerConstants

\* It holds at first: nothing is written, and the log is empty.
LEMMA InitErrorsInv == ErrorInit /\ PointerConstants => ErrorsInv
  <1> SUFFICES ASSUME ErrorInit, PointerConstants PROVE ErrorsInv
    OBVIOUS
  <1> USE DEF ErrorInit
  <1>1. ErrorTypeOK
    BY NoticeParts DEF ErrorTypeOK, NoCounts, PointerConstants
  <1>2. DOMAIN log = {} /\ log \in Seq(Entry) /\ Len(log) = 0
    OBVIOUS
  <1>3. EntriesInv
    BY <1>2 DEF EntriesInv, EntriesOf, OnceIn
  <1>4. TimesInv
    BY DEF TimesInv, NoCounts
  <1>5. \A o \in Owners : ToldRows(o) = {} /\ Written(o) = {}
    <2>1. \A o \in Owners : \A s \in RunsOf(o) : picked[s].rows = {}
      BY NoticeParts DEF RunsOf
    <2> QED BY <2>1, NoticeParts DEF ToldRows, Written
  <1>6. ToldInv
    BY <1>5 DEF ToldInv
  <1>7. \A w : w \in [Entry -> Nat] => Total(w, log) = 0
    <2> SUFFICES ASSUME NEW w \in [Entry -> Nat] PROVE Total(w, log) = 0
      OBVIOUS
    <2>1. DOMAIN Weights(w, log) = {}
      BY <1>2 DEF Weights
    <2>2. Weights(w, log) \in Counts({}) /\ \A x \in {} : Weights(w, log)[x] = 0
      BY <1>2 DEF Weights, Counts
    <2>3. IsFiniteSet({})
      BY FS_EmptySet
    <2> QED BY <2>2, <2>3, TallyOfNone DEF Total
  <1>8. RowsInv
    <2>1. {h \in Hooks : hook[h].at = "written"} = {}
      OBVIOUS
    <2>2. Tally(copies) = 0
      <3>1. copies \in Counts(Legacy) /\ \A l \in Legacy : copies[l] = 0
        BY DEF Counts
      <3>2. IsFiniteSet(Legacy)
        BY DEF PointerConstants
      <3> QED BY <3>1, <3>2, TallyOfNone
    <2>3. Cardinality({h \in Hooks : hook[h].at = "written"}) = 0
      BY <2>1, FS_EmptySet
    <2>4. Total(Stands, log) = 0
      BY <1>7, StandsType
    <2> HIDE DEF ErrorInit
    <2> QED BY <2>2, <2>3, <2>4 DEF RowsInv
  <1>9. OwnersInv
    <2> SUFFICES ASSUME NEW o \in Owners
                 PROVE  Cardinality(Untold(o)) = known[o].count + muted[o].count
                          + Tally(PickedCounts(o)) + Total(UnseenAbove(o, surfaced[o]), log)
      BY DEF OwnersInv
    <2>1. Cardinality(Untold(o)) = 0
      BY <1>5, FS_EmptySet DEF Untold
    <2>2. known[o].count = 0 /\ muted[o].count = 0
      BY NoticeParts
    <2>3. PickedCounts(o) \in Counts(RunsOf(o)) /\ \A s \in RunsOf(o) : PickedCounts(o)[s] = 0
      BY NoticeParts DEF PickedCounts, Counts, RunsOf
    <2>4. Tally(PickedCounts(o)) = 0
      BY <2>3, TallyOfNone, RunsAreFinite
    <2>5. surfaced[o] \in Nat
      BY DEF NoCounts
    <2>6. Total(UnseenAbove(o, surfaced[o]), log) = 0
      BY <1>7, <2>5, UnseenType
    <2> QED BY <2>1, <2>2, <2>4, <2>6
  <1>10. MovesInv /\ EndedInv /\ LegacyMovesOnce
    BY <1>2 DEF MovesInv, EndedInv, LegacyMovesOnce
  <1> QED BY <1>1, <1>3, <1>4, <1>6, <1>8, <1>9, <1>10 DEF ErrorsInv

-----------------------------------------------------------------------------
(* Types *)

\* How the log and the run are typed, of each step that appends.
LEMMA KeepsTypes ==
  ASSUME PointerConstants, ErrorTypeOK, TimesInv, Keeps
  PROVE  KeptLog \in Seq(Entry) /\ now' \in Nat /\ halved' \subseteq Legacy
  BY KeptIs, KeptWere DEF TimesInv

\* The types of a hook's parts.
LEMMA HookType ==
  ASSUME ErrorTypeOK, NEW h \in Hooks
  PROVE  hook[h].t \in Nat /\ hook[h].owner \in Owners \union {NoOwner}
  BY DEF ErrorTypeOK

\* Copied rows, in some order.
LEMMA CopiesAre ==
  ASSUME PointerConstants, NEW S \in SUBSET Legacy
  PROVE  LET R == {Row(l, NoOwner, 0) : l \in S} IN
         /\ SetToSeq(R) \in Seq(Entry)
         /\ IsFiniteSet(S) /\ Len(SetToSeq(R)) = Cardinality(S)
         /\ \A i \in DOMAIN SetToSeq(R) : \E l \in S : SetToSeq(R)[i] = Row(l, NoOwner, 0)
         /\ \A l \in S : \E i \in DOMAIN SetToSeq(R) : SetToSeq(R)[i] = Row(l, NoOwner, 0)
  <1> DEFINE R == {Row(l, NoOwner, 0) : l \in S}
             n == Cardinality(R)
             q == SetToSeq(R)
             g == [l \in S |-> Row(l, NoOwner, 0)]
  <1>1. \A l \in S : Row(l, NoOwner, 0) \in Entry /\ Row(l, NoOwner, 0).name = l
    BY RowIs DEF Names
  <1>2. S \in SUBSET Legacy /\ IsFiniteSet(Legacy)
    BY DEF PointerConstants
  <1>3. IsFiniteSet(S)
    BY <1>2, FS_Subset
  <1>4. /\ g \in [S -> R] /\ (\A x, y \in S : g[x] = g[y] => x = y)
        /\ \A z \in R : \E x \in S : g[x] = z
    BY <1>1
  <1>5. IsFiniteSet(R) /\ n = Cardinality(S) /\ n \in Nat
    <2> HIDE DEF g, R
    <2> QED BY <1>3, <1>4, PairedSets, FS_CardinalityType
  <1>6. PICK m \in Nat : ExistsBijection(1..m, R)
    <2> HIDE DEF R
    <2> QED BY <1>5, FS_NatBijection
  <1>7. m = n
    <2> HIDE DEF R
    <2> QED BY <1>6, FS_CountingElements DEF n
  <1>8. \E f \in [1..n -> R] : IsInjective(f)
    <2> HIDE DEF R, n
    <2> QED BY <1>6, <1>7 DEF ExistsBijection, Bijection, Injection
  <1>9. q \in [1..n -> R] /\ IsInjective(q)
    <2> HIDE DEF R, n
    <2> QED BY <1>8 DEF q, SetToSeq, n
  <1>10. q \in Seq(Entry) /\ DOMAIN q = 1..n /\ Len(q) = n
    <2>1. R \subseteq Entry
      BY <1>1
    <2> HIDE DEF R, n, q
    <2> QED BY <1>5, <1>9, <2>1
  <1>11. \A i \in 1..n : \E l \in S : q[i] = Row(l, NoOwner, 0)
    <2> SUFFICES ASSUME NEW i \in 1..n PROVE q[i] \in R
      OBVIOUS
    <2> HIDE DEF R, n, q
    <2> QED BY <1>9
  <1>12. \A z \in R : \E i \in 1..n : q[i] = z
    <2>1. q \in Injection(1..n, R)
      <3> HIDE DEF R, n, q
      <3> QED BY <1>9 DEF Injection
    <2>2. IsFiniteSet(1..n) /\ Cardinality(1..n) = n
      <3>1. n \in Int /\ 1 \in Int
        BY <1>5
      <3> HIDE DEF n
      <3> QED BY <1>5, <3>1, FS_Interval
    <2>3. Cardinality(R) = Cardinality(1..n)
      BY <2>2
    <2> HIDE DEF R, n, q
    <2>4. q \in Surjection(1..n, R)
      BY <1>5, <2>1, <2>2, <2>3, FS_Injection
    <2> QED BY <2>4 DEF Surjection
  <1>13. \A l \in S : \E i \in 1..n : q[i] = Row(l, NoOwner, 0)
    <2>1. \A l \in S : Row(l, NoOwner, 0) \in R
      OBVIOUS
    <2> HIDE DEF R, n, q
    <2> QED BY <1>12, <2>1
  <1> HIDE DEF n
  <1> QED BY <1>3, <1>5, <1>10, <1>11, <1>13

\* The parts of the types, by who changes them.
LogTypes == log \in Seq(Entry) /\ now \in Nat /\ halved \subseteq Legacy /\ copies \in [Legacy -> Nat]
\* The rest of the types, grouped by the steps that change them.
HookTypes ==
  /\ hook \in [Hooks -> [at : {"new", "stamped", "written", "unrecorded"}, t : Nat, owner : Owners \union {NoOwner}]]
  /\ late \subseteq Hooks /\ lateEnded \subseteq Hooks
SeenTypes ==
  /\ surfaced \in [Owners -> Nat] /\ consumed \in [Owners -> Nat] /\ alive \subseteq Owners
  /\ ended \in [Hooks -> Nat]
RunTypes ==
  /\ legacy \in {"none", "there", "claimed"} /\ claims \subseteq Starts
  /\ start \in [Starts -> {"new", "claimed", "copied", "own", "ended", "prune", "print", "gone"}]
  /\ slips \in 0..MaxSlips
ToldTypes ==
  /\ picked \in [Starts -> Notice]
  /\ known \in [Owners -> Notice] /\ muted \in [Owners -> Notice]

\* The groups are all of the types.
LEMMA ErrorTypeParts == ErrorTypeOK <=> LogTypes /\ HookTypes /\ SeenTypes /\ RunTypes /\ ToldTypes
  BY DEF ErrorTypeOK, LogTypes, HookTypes, SeenTypes, RunTypes, ToldTypes

\* A fault or none.
LEMMA SlipsType ==
  ASSUME PointerConstants, slips \in 0..MaxSlips, Fault \/ Fine
  PROVE  slips' \in 0..MaxSlips
  BY DEF PointerConstants, Fault, Fine

\* Each step keeps the types. A hook reads the clock.
LEMMA StampTypes ==
  ASSUME PointerConstants, ErrorTypeOK, NEW h \in Hooks, Stamp(h)
  PROVE  ErrorTypeOK'
  <1>0. LogTypes /\ HookTypes /\ SeenTypes /\ RunTypes /\ ToldTypes
    BY ErrorTypeParts
  <1>1. PICK o \in {HookOwner[h], NoOwner} :
          /\ hook' = [hook EXCEPT ![h] = [at |-> "stamped", t |-> now, owner |-> o]]
          /\ Fine \/ Fault
    BY DEF Stamp
  <1>2. now' = now + 1
        /\ UNCHANGED <<log, surfaced, consumed, alive, legacyVars, startVars, toldVars, late, lateEnded>>
    BY DEF Stamp
  <1>3. o \in Owners \union {NoOwner}
    BY DEF PointerConstants
  <1>4. HookTypes'
    BY <1>0, <1>1, <1>2, <1>3 DEF HookTypes, LogTypes
  <1>5. RunTypes'
    BY <1>0, <1>1, <1>2, SlipsType DEF RunTypes, legacyVars, startVars
  <1>6. LogTypes' /\ SeenTypes' /\ ToldTypes'
    BY <1>0, <1>2 DEF LogTypes, SeenTypes, ToldTypes, legacyVars, startVars, toldVars
  <1> QED BY <1>4, <1>5, <1>6, ErrorTypeParts, PTL

\* It appends its row.
LEMMA AppendRowTypes ==
  ASSUME PointerConstants, ErrorTypeOK, TimesInv, NEW h \in Hooks, AppendRow(h)
  PROVE  ErrorTypeOK'
  <1>0. LogTypes /\ HookTypes /\ SeenTypes /\ RunTypes /\ ToldTypes
    BY ErrorTypeParts
  <1>1. /\ hook' = [hook EXCEPT ![h].at = "written"]
        /\ log' = Append(KeptLog, Row(h, hook[h].owner, hook[h].t))
        /\ late' \in {late, late \union {h}} /\ lateEnded' \in {lateEnded, lateEnded \union {h}}
        /\ Keeps /\ Fine
        /\ UNCHANGED <<surfaced, consumed, alive, legacy, claims, copies, startVars, toldVars>>
    BY DEF AppendRow
  <1>2. HookTypes'
    BY <1>0, <1>1 DEF HookTypes
  <1>3. RunTypes' /\ SeenTypes' /\ ToldTypes'
    BY <1>0, <1>1, SlipsType DEF RunTypes, SeenTypes, ToldTypes, startVars, toldVars
  <1>4. KeptLog \in Seq(Entry) /\ now' \in Nat /\ halved' \subseteq Legacy
    BY <1>1, KeepsTypes
  <1>5. Row(h, hook[h].owner, hook[h].t) \in Entry
    BY HookType, RowIs DEF Names
  <1>6. log' \in Seq(Entry)
    BY <1>1, <1>4, <1>5, StandsType, TotalOfAppend
  <1>7. LogTypes'
    BY <1>0, <1>1, <1>4, <1>6 DEF LogTypes
  <1> QED BY <1>2, <1>3, <1>7, ErrorTypeParts, PTL

\* Its append fails.
LEMMA AppendFailsTypes ==
  ASSUME PointerConstants, ErrorTypeOK, TimesInv, NEW h \in Hooks, AppendFails(h)
  PROVE  ErrorTypeOK'
  <1>0. LogTypes /\ HookTypes /\ SeenTypes /\ RunTypes /\ ToldTypes
    BY ErrorTypeParts
  <1>1. /\ hook' = [hook EXCEPT ![h].at = "unrecorded"]
        /\ (Keeps /\ log' = KeptLog) \/ UNCHANGED <<log, now, halved>>
        /\ Fault
        /\ UNCHANGED <<surfaced, consumed, alive, legacy, claims, copies, startVars, toldVars, late, lateEnded>>
    BY DEF AppendFails
  <1>2. HookTypes'
    BY <1>0, <1>1 DEF HookTypes
  <1>3. RunTypes' /\ SeenTypes' /\ ToldTypes'
    BY <1>0, <1>1, SlipsType DEF RunTypes, SeenTypes, ToldTypes, startVars, toldVars
  <1>4. LogTypes'
    BY <1>0, <1>1, KeepsTypes DEF LogTypes
  <1> QED BY <1>2, <1>3, <1>4, ErrorTypeParts, PTL

\* A start moves the old rows.
LEMMA CopyLegacyTypes ==
  ASSUME PointerConstants, ErrorTypeOK, TimesInv, NEW s \in Starts, CopyLegacy(s)
  PROVE  ErrorTypeOK'
  <1>0. LogTypes /\ HookTypes /\ SeenTypes /\ RunTypes /\ ToldTypes
    BY ErrorTypeParts
  <1>1. PICK S \in SUBSET Legacy :
          /\ log' = KeptLog \o SetToSeq({Row(l, NoOwner, 0) : l \in S})
          /\ copies' = [l \in Legacy |-> IF l \in S THEN copies[l] + 1 ELSE copies[l]]
          /\ \/ Goes(s, "claimed", "copied") /\ Fine
             \/ Goes(s, "claimed", "own") /\ Fault
    <2> DEFINE missing == {l \in Legacy : ~\E i \in DOMAIN KeptLog : KeptLog[i].name = l}
    <2>1. PICK S \in SUBSET missing :
            /\ log' = KeptLog \o SetToSeq({Row(l, NoOwner, 0) : l \in S})
            /\ copies' = [l \in Legacy |-> IF l \in S THEN copies[l] + 1 ELSE copies[l]]
            /\ \/ Goes(s, "claimed", "copied") /\ Fine
               \/ Goes(s, "claimed", "own") /\ Fault
      BY DEF CopyLegacy
    <2>2. S \in SUBSET Legacy
      OBVIOUS
    <2> QED BY <2>1, <2>2
  <1>2. /\ Keeps
        /\ UNCHANGED <<hook, surfaced, consumed, alive, legacy, claims, picked, toldVars, late, lateEnded>>
    BY DEF CopyLegacy
  <1>3. HookTypes' /\ SeenTypes' /\ ToldTypes'
    BY <1>0, <1>2 DEF HookTypes, SeenTypes, ToldTypes, toldVars
  <1>4. RunTypes'
    BY <1>0, <1>1, <1>2, SlipsType DEF RunTypes, Goes
  <1>5. KeptLog \in Seq(Entry) /\ now' \in Nat /\ halved' \subseteq Legacy
    BY <1>2, KeepsTypes
  <1>6. SetToSeq({Row(l, NoOwner, 0) : l \in S}) \in Seq(Entry)
    BY CopiesAre
  <1>7. log' \in Seq(Entry)
    BY <1>1, <1>5, <1>6
  <1>8. copies' \in [Legacy -> Nat]
    BY <1>0, <1>1 DEF LogTypes
  <1>9. LogTypes'
    BY <1>5, <1>7, <1>8 DEF LogTypes
  <1> QED BY <1>3, <1>4, <1>9, ErrorTypeParts, PTL

\* A set of numbers that has a bound, and is not empty, has a greatest member.
LEMMA HasLargest ==
  ASSUME NEW S, S \subseteq Nat, S # {}, NEW b \in Nat, \A k \in S : k <= b
  PROVE  \E m \in S : \A k \in S : k <= m
  <1>1. Largest(S) \in S \union {0} /\ \A k \in S : k <= Largest(S)
    BY LargestIs
  <1>2. CASE Largest(S) \in S
    BY <1>1, <1>2
  <1>3. CASE Largest(S) = 0 /\ 0 \notin S
    <2>1. PICK k \in S : TRUE
      OBVIOUS
    <2>2. k \in Nat /\ k # 0
      BY <1>3, <2>1
    <2>3. k <= 0
      BY <1>1, <1>3, <2>1
    <2> QED BY <2>2, <2>3
  <1> QED BY <1>1, <1>2, <1>3

\* The last time of some entries is the time of one of them.
LEMMA LastTimeIs ==
  ASSUME ErrorTypeOK, EntriesInv, NEW I \in SUBSET DOMAIN log, I # {}
  PROVE  /\ LastTime(I) \in Nat
         /\ \E i \in I : LastTime(I) = log[i].t
         /\ \A i \in I : log[i].t <= LastTime(I)
         /\ LastTime(I) < now
  <1> DEFINE S == {log[i].t : i \in I}
  <1>0. now \in Nat /\ log \in Seq(Entry)
    BY DEF ErrorTypeOK
  <1>1. ASSUME NEW i \in I PROVE log[i].t \in Nat /\ log[i].t < now
    <2>1. log[i] \in Entry /\ i \in DOMAIN log
      BY <1>0
    <2> QED BY <2>1, EntryParts DEF EntriesInv, EntriesOf, EntryIs
  <1>2. S \subseteq Nat /\ S # {} /\ \A k \in S : k < now /\ k <= now
    BY <1>0, <1>1
  <1>3. \E m \in S : \A k \in S : k <= m
    <2> HIDE DEF S
    <2> QED BY <1>0, <1>2, HasLargest
  <1>4. \E m \in S : \A i \in I : log[i].t <= m
    BY <1>3
  <1>5. LastTime(I) \in S /\ \A i \in I : log[i].t <= LastTime(I)
    <2> HIDE DEF S
    <2> QED BY <1>4 DEF LastTime, S
  <1> QED BY <1>2, <1>5

\* The counts of a log of which o has not been told.
NotesAbove(o, k) == [x \in Entry |-> IF x.t > k THEN x.unseen[o] ELSE 0]

\* What the log counts as dropped is a number.
LEMMA DroppedIs ==
  ASSUME ErrorTypeOK, NEW o \in Owners
  PROVE  /\ NotesAbove(o, surfaced[o]) \in [Entry -> Nat]
         /\ Dropped(o) = Total(NotesAbove(o, surfaced[o]), log)
         /\ Dropped(o) \in Nat
  <1>0. log \in Seq(Entry) /\ surfaced[o] \in Nat
    BY DEF ErrorTypeOK
  <1>1. \A x \in Entry : (IF x.t > surfaced[o] THEN x.unseen[o] ELSE 0) \in Nat
    BY EntryParts
  <1>2. NotesAbove(o, surfaced[o]) \in [Entry -> Nat]
    BY <1>1 DEF NotesAbove
  <1>3. \A i \in DOMAIN log : log[i] \in Entry
    BY <1>0
  <1>4. [i \in DOMAIN log |-> IF log[i].t > surfaced[o] THEN log[i].unseen[o] ELSE 0]
          = Weights(NotesAbove(o, surfaced[o]), log)
    BY <1>3 DEF Weights, NotesAbove
  <1>5. Dropped(o) = Total(NotesAbove(o, surfaced[o]), log)
    BY <1>4 DEF Dropped, Total
  <1> QED BY <1>0, <1>2, <1>5, WeightsType

\* A row that is still to be shown is a hook's.
LEMMA UnshownRows ==
  ASSUME PointerConstants, ErrorTypeOK, EntriesInv, NEW o \in Owners, NEW i \in Unshown(o), IsRow(log[i])
  PROVE  /\ log[i].name \in Written(o) /\ log[i].owner = o
         /\ log[i].t = hook[log[i].name].t /\ log[i].t > surfaced[o]
  <1>1. /\ i \in DOMAIN log /\ log[i] \in Entry /\ log[i].t > surfaced[o]
        /\ (log[i].owner = o \/ log[i].unseen[o] > 0)
    BY DEF ErrorTypeOK, Unshown
  <1>2. NoCounts[o] = 0 /\ NoOwner # o
    BY DEF NoCounts, PointerConstants
  <1>3. CASE log[i].name \in Legacy
    <2>1. log[i] = Row(log[i].name, NoOwner, 0)
      BY <1>1, <1>3 DEF EntriesInv, EntriesOf, EntryIs
    <2>2. log[i].owner = NoOwner /\ log[i].unseen = NoCounts
      BY <2>1, <1>3, RowIs DEF Names
    <2> QED BY <1>1, <1>2, <2>2
  <1>4. CASE log[i].name \in Hooks
    <2>1. /\ log[i] = Row(log[i].name, hook[log[i].name].owner, hook[log[i].name].t)
          /\ hook[log[i].name].at = "written"
      BY <1>1, <1>4 DEF EntriesInv, EntriesOf, EntryIs
    <2>2. /\ log[i].owner = hook[log[i].name].owner /\ log[i].unseen = NoCounts
          /\ log[i].t = hook[log[i].name].t
      BY <2>1, <1>4, RowIs, HookType DEF Names
    <2>3. log[i].owner = o
      BY <1>1, <1>2, <2>2
    <2> QED BY <1>1, <1>4, <2>1, <2>2, <2>3 DEF Written
  <1> QED BY <1>1, <1>3, <1>4, EntryParts DEF IsRow, Names

\* An owner ends.
LEMMA OwnerEndsTypes ==
  ASSUME PointerConstants, ErrorTypeOK, NEW o \in Owners, OwnerEnds(o)
  PROVE  ErrorTypeOK'
  <1>0. LogTypes /\ HookTypes /\ SeenTypes /\ RunTypes /\ ToldTypes
    BY ErrorTypeParts
  <1> USE DEF OwnerEnds, logVars, legacyVars, startVars, toldVars
  <1>1. LogTypes' /\ HookTypes' /\ SeenTypes' /\ ToldTypes'
    BY <1>0 DEF LogTypes, HookTypes, SeenTypes, ToldTypes
  <1>2. RunTypes'
    BY <1>0, SlipsType DEF RunTypes
  <1> QED BY <1>1, <1>2, ErrorTypeParts, PTL

\* A start claims the old log.
LEMMA ClaimTypes ==
  ASSUME PointerConstants, ErrorTypeOK, NEW s \in Starts, Claim(s) \/ EndClaim(s)
  PROVE  ErrorTypeOK'
  <1>0. LogTypes /\ HookTypes /\ SeenTypes /\ RunTypes /\ ToldTypes
    BY ErrorTypeParts
  <1>1. UNCHANGED <<logVars, hook, surfaced, consumed, alive, copies, halved, picked, toldVars, late, lateEnded>>
    BY DEF Claim, EndClaim
  <1>2. LogTypes' /\ HookTypes' /\ SeenTypes' /\ ToldTypes'
    BY <1>0, <1>1 DEF LogTypes, HookTypes, SeenTypes, ToldTypes, logVars, toldVars
  <1>3. start' \in [Starts -> {"new", "claimed", "copied", "own", "ended", "prune", "print", "gone"}]
    BY <1>0 DEF RunTypes, Claim, EndClaim, Goes
  <1>4. legacy' \in {"none", "there", "claimed"} /\ claims' \subseteq Starts
    BY <1>0 DEF RunTypes, Claim, EndClaim
  <1>5. slips' \in 0..MaxSlips
    BY <1>0, SlipsType DEF RunTypes, Claim, EndClaim
  <1>6. RunTypes'
    BY <1>3, <1>4, <1>5 DEF RunTypes
  <1> QED BY <1>2, <1>6, ErrorTypeParts, PTL

\* A start picks what its owner has not seen.
LEMMA SurfaceOwnTypes ==
  ASSUME PointerConstants, ErrorTypeOK, EntriesInv, NEW s \in Starts, SurfaceOwn(s)
  PROVE  ErrorTypeOK'
  <1> DEFINE o == StartOwner[s]
             I == Unshown(o)
             R == {log[i].name : i \in {j \in I : IsRow(log[j])}}
  <1>0. LogTypes /\ HookTypes /\ SeenTypes /\ RunTypes /\ ToldTypes /\ o \in Owners
    BY ErrorTypeParts DEF PointerConstants
  <1>1. /\ Goes(s, "own", "ended") /\ Fine
        /\ UNCHANGED <<logVars, hook, consumed, alive, legacyVars, toldVars, late, lateEnded>>
        /\ \/ /\ o \in alive /\ I # {}
              /\ surfaced' = [surfaced EXCEPT ![o] = LastTime(I)]
              /\ picked' = [picked EXCEPT ![s] = [rows |-> R, count |-> Dropped(o)]]
           \/ UNCHANGED <<surfaced, picked>>
    BY DEF SurfaceOwn
  <1>2. LogTypes' /\ HookTypes'
    BY <1>0, <1>1 DEF LogTypes, HookTypes, logVars, legacyVars
  <1>3. RunTypes'
    BY <1>0, <1>1, SlipsType DEF RunTypes, Goes, legacyVars
  <1>4. I \in SUBSET DOMAIN log
    BY DEF Unshown
  <1>5. [rows |-> R, count |-> Dropped(o)] \in Notice
    <2>1. R \subseteq Hooks
      BY <1>0, UnshownRows DEF Written
    <2>2. Dropped(o) \in Nat
      BY <1>0, DroppedIs
    <2> HIDE DEF R, o
    <2> QED BY <2>1, <2>2, NoticeParts
  <1>6. I # {} => LastTime(I) \in Nat
    <2> HIDE DEF I
    <2> QED BY <1>4, LastTimeIs
  <1> HIDE DEF I, R, o
  <1>7. SeenTypes' /\ ToldTypes'
    BY <1>0, <1>1, <1>5, <1>6 DEF SeenTypes, ToldTypes, toldVars
  <1> QED BY <1>2, <1>3, <1>7, ErrorTypeParts, PTL

\* A start picks what ended owners have left.
LEMMA SurfaceEndedTypes ==
  ASSUME PointerConstants, ErrorTypeOK, EntriesInv, NEW s \in Starts, SurfaceEnded(s)
  PROVE  ErrorTypeOK'
  <1> DEFINE I == {i \in DOMAIN log : /\ log[i].owner \in Owners \ alive
                                      /\ log[i].t > consumed[log[i].owner]}
             J(o) == {i \in I : log[i].owner = o}
  <1>0. LogTypes /\ HookTypes /\ SeenTypes /\ RunTypes /\ ToldTypes
    BY ErrorTypeParts
  <1>1. /\ Goes(s, "ended", "prune") /\ (Fine \/ Fault)
        /\ UNCHANGED <<logVars, hook, surfaced, alive, legacyVars, picked, known, muted, late, lateEnded>>
    BY DEF SurfaceEnded
  <1>2. LogTypes' /\ HookTypes' /\ ToldTypes'
    BY <1>0, <1>1 DEF LogTypes, HookTypes, ToldTypes, logVars, legacyVars
  <1>3. RunTypes'
    BY <1>0, <1>1, SlipsType DEF RunTypes, Goes, legacyVars
  <1>4. ASSUME NEW o \in Owners PROVE (IF J(o) = {} THEN consumed[o] ELSE LastTime(J(o))) \in Nat
    <2>1. J(o) \in SUBSET DOMAIN log
      OBVIOUS
    <2>2. J(o) # {} => LastTime(J(o)) \in Nat
      <3> HIDE DEF J
      <3> QED BY <2>1, LastTimeIs
    <2> HIDE DEF J
    <2> QED BY <1>0, <2>2 DEF SeenTypes
  <1>5. \/ consumed' = [o \in Owners |-> IF J(o) = {} THEN consumed[o] ELSE LastTime(J(o))]
           /\ ended' = [h \in Hooks |-> IF \E i \in I : log[i].name = h THEN ended[h] + 1 ELSE ended[h]]
        \/ UNCHANGED <<consumed, ended>>
    BY DEF SurfaceEnded
  <1>6. consumed' \in [Owners -> Nat]
    <2> HIDE DEF J
    <2> QED BY <1>0, <1>4, <1>5 DEF SeenTypes
  <1>7. ended' \in [Hooks -> Nat]
    <2> HIDE DEF I, J
    <2> QED BY <1>0, <1>5 DEF SeenTypes
  <1>8. SeenTypes'
    BY <1>0, <1>1, <1>6, <1>7 DEF SeenTypes
  <1> QED BY <1>2, <1>3, <1>8, ErrorTypeParts, PTL

\* A start forgets what the log has no use for.
LEMMA PruneTypes ==
  ASSUME PointerConstants, ErrorTypeOK, NEW s \in Starts, Prune(s)
  PROVE  ErrorTypeOK'
  <1>0. LogTypes /\ HookTypes /\ SeenTypes /\ RunTypes /\ ToldTypes
    BY ErrorTypeParts
  <1>1. /\ Goes(s, "prune", "print") /\ (Fine \/ Fault)
        /\ UNCHANGED <<logVars, hook, consumed, alive, legacyVars, picked, toldVars, late, lateEnded>>
        /\ \/ surfaced' = [o \in Owners |-> IF o \in alive THEN surfaced[o] ELSE 0]
           \/ UNCHANGED surfaced
    BY DEF Prune
  <1>2. LogTypes' /\ HookTypes' /\ ToldTypes'
    BY <1>0, <1>1 DEF LogTypes, HookTypes, ToldTypes, logVars, legacyVars, toldVars
  <1>3. RunTypes'
    BY <1>0, <1>1, SlipsType DEF RunTypes, Goes, legacyVars
  <1>4. SeenTypes'
    BY <1>0, <1>1 DEF SeenTypes, toldVars
  <1> QED BY <1>2, <1>3, <1>4, ErrorTypeParts, PTL

\* What telling one owner makes of what all were told.
LEMMA WithIs ==
  ASSUME PointerConstants, ErrorTypeOK, NEW s \in Starts, NEW told \in [Owners -> Notice]
  PROVE  /\ With(told, s) \in [Owners -> Notice]
         /\ \A o \in Owners : o # StartOwner[s] => With(told, s)[o] = told[o]
         /\ With(told, s)[StartOwner[s]].rows = told[StartOwner[s]].rows \union picked[s].rows
         /\ With(told, s)[StartOwner[s]].count = told[StartOwner[s]].count + picked[s].count
  <1> DEFINE o == StartOwner[s]
             n == [rows |-> told[o].rows \union picked[s].rows, count |-> told[o].count + picked[s].count]
  <1>1. o \in Owners /\ picked[s] \in Notice /\ told[o] \in Notice
    BY DEF PointerConstants, ErrorTypeOK
  <1>2. n \in Notice
    <2>1. told[o].rows \union picked[s].rows \subseteq Hooks /\ told[o].count + picked[s].count \in Nat
      BY <1>1, NoticeParts
    <2> HIDE DEF o
    <2> QED BY <2>1, NoticeParts
  <1>3. With(told, s) = [told EXCEPT ![o] = n]
    BY DEF With
  <1>4. n.rows = told[o].rows \union picked[s].rows /\ n.count = told[o].count + picked[s].count
    OBVIOUS
  <1> HIDE DEF n, o
  <1>5. /\ With(told, s) \in [Owners -> Notice] /\ With(told, s)[o] = n
        /\ \A q \in Owners : q # o => With(told, s)[q] = told[q]
    BY <1>1, <1>2, <1>3
  <1> QED BY <1>4, <1>5 DEF o

\* A start prints what it picked, or is killed.
LEMMA LeaveTypes ==
  ASSUME PointerConstants, ErrorTypeOK, NEW s \in Starts, PrintAll(s) \/ Killed(s)
  PROVE  ErrorTypeOK'
  <1>0. LogTypes /\ HookTypes /\ SeenTypes /\ RunTypes /\ ToldTypes
    BY ErrorTypeParts
  <1>1. /\ Leaves(s) /\ (Fine \/ Fault)
        /\ \/ known' = With(known, s) /\ muted' = muted
           \/ muted' = With(muted, s) /\ known' = known
    BY DEF PrintAll, Killed
  <1>2. LogTypes' /\ HookTypes' /\ SeenTypes'
    BY <1>0, <1>1 DEF LogTypes, HookTypes, SeenTypes, Leaves, logVars, legacyVars
  <1>3. RunTypes'
    BY <1>0, <1>1, SlipsType DEF RunTypes, Leaves, legacyVars
  <1>4. ToldTypes'
    BY <1>0, <1>1, WithIs, NoticeParts DEF ToldTypes, Leaves
  <1> QED BY <1>2, <1>3, <1>4, ErrorTypeParts, PTL

-----------------------------------------------------------------------------
(* Steps that neither append nor tell *)

\* A step that leaves the log and what was told alone keeps most of the
\* invariant, whoever ends.
LEMMA QuietKeeps ==
  ASSUME ErrorsInv, UNCHANGED <<log, now, hook, known, muted, picked, late, copies>>,
         alive' \subseteq alive, \A o \in alive' : surfaced'[o] = surfaced[o]
  PROVE  EntriesInv' /\ ToldInv' /\ RowsInv' /\ OwnersInv'
  <1>0. EntriesInv /\ ToldInv /\ RowsInv /\ OwnersInv
    BY DEF ErrorsInv
  <1>1. EntriesInv'
    BY <1>0 DEF EntriesInv
  <1>2. RowsInv'
    BY <1>0 DEF RowsInv
  <1>3. \A o : /\ ToldRows(o)' = ToldRows(o) /\ Written(o)' = Written(o)
               /\ PickedCounts(o)' = PickedCounts(o)
    BY DEF ToldRows, Written, PickedCounts
  <1>4. ToldInv'
    BY <1>0, <1>3 DEF ToldInv
  <1>5. \A o : Untold(o)' = Untold(o)
    BY <1>3 DEF Untold
  <1>6. OwnersInv'
    <2> SUFFICES ASSUME NEW o \in alive'
                 PROVE  Cardinality(Untold(o)') = known'[o].count + muted'[o].count
                          + Tally(PickedCounts(o)') + Total(UnseenAbove(o, surfaced'[o]), log')
      BY DEF OwnersInv
    <2>1. o \in alive /\ surfaced'[o] = surfaced[o] /\ log' = log /\ known' = known /\ muted' = muted
      OBVIOUS
    <2> QED BY <1>0, <1>3, <1>5, <2>1 DEF OwnersInv
  <1> QED BY <1>1, <1>2, <1>4, <1>6

\* An owner ends.
LEMMA OwnerEndsKeeps ==
  ASSUME PointerConstants, ErrorsInv, NEW o \in Owners, OwnerEnds(o)
  PROVE  ErrorsInv'
  <1>0. /\ alive' = alive \ {o}
        /\ UNCHANGED <<log, now, hook, surfaced, consumed, legacy, claims, copies, halved, start, picked,
                       known, muted, ended, late, lateEnded>>
    BY DEF OwnerEnds, logVars, legacyVars, startVars, toldVars
  <1>1. ErrorTypeOK'
    BY OwnerEndsTypes DEF ErrorsInv
  <1>2. EntriesInv' /\ ToldInv' /\ RowsInv' /\ OwnersInv'
    BY <1>0, QuietKeeps
  <1>3. TimesInv' /\ MovesInv' /\ LegacyMovesOnce'
    BY <1>0 DEF ErrorsInv, TimesInv, MovesInv, LegacyMovesOnce
  <1>4. EndedInv'
    BY <1>0 DEF ErrorsInv, EndedInv
  <1> QED BY <1>1, <1>2, <1>3, <1>4 DEF ErrorsInv

\* A start claims the old log.
LEMMA ClaimKeeps ==
  ASSUME PointerConstants, ErrorsInv, NEW s \in Starts, Claim(s)
  PROVE  ErrorsInv'
  <1>0. UNCHANGED <<log, now, hook, surfaced, consumed, alive, copies, halved, picked,
                    known, muted, ended, late, lateEnded>>
    BY DEF Claim, logVars, toldVars
  <1>1. ErrorTypeOK'
    BY ClaimTypes DEF ErrorsInv
  <1>2. EntriesInv' /\ ToldInv' /\ RowsInv' /\ OwnersInv'
    BY <1>0, QuietKeeps
  <1>3. \E to \in {"claimed", "own"} : Goes(s, "new", to)
    BY DEF Claim
  <1>4. TimesInv' /\ MovesInv'
    BY <1>0, <1>3 DEF ErrorsInv, TimesInv, MovesInv, Goes, ErrorTypeOK
  <1>5. EndedInv'
    BY <1>0 DEF ErrorsInv, EndedInv
  <1>6. legacy' = "claimed" => claims' # {} \/ (legacy = "claimed" /\ claims' = claims)
    BY DEF Claim
  <1>7. LegacyMovesOnce'
    BY <1>0, <1>6 DEF ErrorsInv, LegacyMovesOnce
  <1> QED BY <1>1, <1>2, <1>4, <1>5, <1>7 DEF ErrorsInv

\* It renames its claim away, its rows being copied.
LEMMA EndClaimKeeps ==
  ASSUME PointerConstants, ErrorsInv, NEW s \in Starts, EndClaim(s)
  PROVE  ErrorsInv'
  <1>0. /\ Goes(s, "copied", "own")
        /\ UNCHANGED <<log, now, hook, surfaced, consumed, alive, legacy, copies, halved, picked,
                       known, muted, ended, late, lateEnded>>
    BY DEF EndClaim, logVars, toldVars
  <1>1. ErrorTypeOK'
    BY ClaimTypes DEF ErrorsInv
  <1>2. EntriesInv' /\ ToldInv' /\ RowsInv' /\ OwnersInv'
    BY <1>0, QuietKeeps
  <1>3. TimesInv' /\ MovesInv'
    BY <1>0 DEF ErrorsInv, TimesInv, MovesInv, Goes, ErrorTypeOK
  <1>4. EndedInv'
    BY <1>0 DEF ErrorsInv, EndedInv
  <1>5. \A l \in Legacy : copies[l] > 0 /\ copies[l] \in Nat
    BY <1>0 DEF ErrorsInv, MovesInv, Goes, ErrorTypeOK
  <1>6. LegacyMovesOnce'
    BY <1>0, <1>5 DEF ErrorsInv, LegacyMovesOnce
  <1> QED BY <1>1, <1>2, <1>3, <1>4, <1>6 DEF ErrorsInv

\* It forgets the marks of owners that ended.
LEMMA PruneKeeps ==
  ASSUME PointerConstants, ErrorsInv, NEW s \in Starts, Prune(s)
  PROVE  ErrorsInv'
  <1>0. /\ Goes(s, "prune", "print")
        /\ \/ surfaced' = [o \in Owners |-> IF o \in alive THEN surfaced[o] ELSE 0]
           \/ surfaced' = surfaced
        /\ UNCHANGED <<log, now, hook, consumed, alive, legacy, claims, copies, halved, picked,
                       known, muted, ended, late, lateEnded>>
    BY DEF Prune, logVars, legacyVars, toldVars
  <1>1. ErrorTypeOK'
    BY PruneTypes DEF ErrorsInv
  <1>2. alive \subseteq Owners /\ surfaced \in [Owners -> Nat] /\ now \in Nat
    BY DEF ErrorsInv, ErrorTypeOK
  <1>3. EntriesInv' /\ ToldInv' /\ RowsInv' /\ OwnersInv'
    <2>1. \A o \in alive' : surfaced'[o] = surfaced[o]
      BY <1>0, <1>2
    <2> QED BY <1>0, <2>1, QuietKeeps
  <1>4. \A o \in Owners : surfaced'[o] < now'
    <2>1. \A o \in Owners : surfaced[o] < now /\ surfaced[o] \in Nat
      BY <1>2 DEF ErrorsInv, TimesInv
    <2> QED BY <1>0, <1>2, <2>1
  <1>5. TimesInv' /\ MovesInv' /\ LegacyMovesOnce'
    BY <1>0, <1>4 DEF ErrorsInv, TimesInv, MovesInv, LegacyMovesOnce, Goes, ErrorTypeOK
  <1>6. EndedInv'
    BY <1>0 DEF ErrorsInv, EndedInv
  <1> QED BY <1>1, <1>3, <1>5, <1>6 DEF ErrorsInv

\* It picks the rows of ended owners, above what the root has consumed of each.
LEMMA SurfaceEndedKeeps ==
  ASSUME PointerConstants, ErrorsInv, NEW s \in Starts, SurfaceEnded(s)
  PROVE  ErrorsInv'
  <1> DEFINE I == {i \in DOMAIN log : /\ log[i].owner \in Owners \ alive
                                      /\ log[i].t > consumed[log[i].owner]}
             J(o) == {i \in I : log[i].owner = o}
  <1>0. /\ Goes(s, "ended", "prune")
        /\ UNCHANGED <<log, now, hook, surfaced, alive, legacy, claims, copies, halved, picked,
                       known, muted, late, lateEnded>>
    BY DEF SurfaceEnded, logVars, legacyVars
  <1>1. ErrorTypeOK'
    BY SurfaceEndedTypes DEF ErrorsInv
  <1>2. EntriesInv' /\ ToldInv' /\ RowsInv' /\ OwnersInv'
    BY <1>0, QuietKeeps
  <1>3. TimesInv' /\ MovesInv' /\ LegacyMovesOnce'
    BY <1>0 DEF ErrorsInv, TimesInv, MovesInv, LegacyMovesOnce, Goes, ErrorTypeOK
  <1>4. EndedInv'
    <2>1. CASE UNCHANGED <<consumed, ended>>
      BY <1>0, <2>1 DEF ErrorsInv, EndedInv
    <2>2. CASE /\ consumed' = [o \in Owners |-> IF J(o) = {} THEN consumed[o] ELSE LastTime(J(o))]
               /\ ended' = [h \in Hooks |-> IF \E i \in I : log[i].name = h THEN ended[h] + 1 ELSE ended[h]]
      <3>0. /\ ErrorTypeOK /\ EntriesInv /\ log \in Seq(Entry) /\ consumed \in [Owners -> Nat]
            /\ ended \in [Hooks -> Nat]
        BY DEF ErrorsInv, ErrorTypeOK
      \* What the root has seen only grows, over all that was picked.
      <3>1. ASSUME NEW o \in Owners
            PROVE  /\ consumed'[o] \in Nat /\ consumed[o] <= consumed'[o]
                   /\ \A i \in I : log[i].owner = o => log[i].t <= consumed'[o]
                   /\ consumed'[o] # consumed[o] => o \notin alive
        <4>1. J(o) \in SUBSET DOMAIN log
          OBVIOUS
        <4>2. consumed'[o] = IF J(o) = {} THEN consumed[o] ELSE LastTime(J(o))
          <5> HIDE DEF J
          <5> QED BY <2>2
        <4>3. CASE J(o) = {}
          <5>1. consumed'[o] = consumed[o] /\ consumed[o] \in Nat /\ \A i \in I : log[i].owner # o
            BY <3>0, <4>2, <4>3
          <5> HIDE DEF I, J
          <5> QED BY <5>1
        <4>4. CASE J(o) # {}
          <5>1. PICK i \in J(o) : TRUE
            BY <4>4
          <5>2. /\ LastTime(J(o)) \in Nat /\ \A k \in J(o) : log[k].t <= LastTime(J(o))
            <6> HIDE DEF J
            <6> QED BY <3>0, <4>1, <4>4, LastTimeIs
          <5>3. i \in DOMAIN log /\ log[i].t > consumed[o] /\ o \notin alive
            OBVIOUS
          <5>4. log[i].t \in Nat /\ consumed[o] \in Nat
            BY <3>0, <5>3, EntryParts
          <5>5. consumed'[o] = LastTime(J(o)) /\ log[i].t <= LastTime(J(o))
            <6> HIDE DEF J
            <6> QED BY <4>2, <4>4, <5>2
          <5>6. \A k \in I : log[k].owner = o => k \in J(o)
            OBVIOUS
          <5> HIDE DEF I, J
          <5> QED BY <5>2, <5>3, <5>4, <5>5, <5>6
        <4> QED BY <4>3, <4>4
      <3>2. ASSUME NEW i \in DOMAIN log, log[i].name \in Hooks
            PROVE  /\ log[i].owner = hook[log[i].name].owner /\ log[i].t = hook[log[i].name].t
                   /\ hook[log[i].name].at = "written" /\ log[i].t \in Nat
        <4>1. log[i] = Row(log[i].name, hook[log[i].name].owner, hook[log[i].name].t)
              /\ hook[log[i].name].at = "written"
          BY <3>0, <3>2 DEF EntriesInv, EntriesOf, EntryIs
        <4>2. hook[log[i].name].owner \in Owners \union {NoOwner} /\ hook[log[i].name].t \in Nat
          BY <3>0, <3>2, HookType
        <4> QED BY <3>2, <4>1, <4>2, RowIs DEF Names
      \* A row that is picked was not picked before.
      <3>3. ASSUME NEW i \in I, log[i].name \in Hooks
            PROVE  ended[log[i].name] = 0
        <4>1. i \in DOMAIN log /\ log[i].owner \in Owners /\ log[i].t > consumed[log[i].owner]
          OBVIOUS
        <4>2. log[i].owner = hook[log[i].name].owner /\ log[i].t = hook[log[i].name].t /\ log[i].t \in Nat
          BY <3>2, <3>3, <4>1
        <4>3. consumed[log[i].owner] \in Nat
          BY <3>0, <4>1
        <4> HIDE DEF I, J
        <4> QED BY <3>3, <4>1, <4>2, <4>3 DEF ErrorsInv, EndedInv
      <3>4. ASSUME NEW h \in Hooks
            PROVE  \/ ended'[h] = 0
                   \/ /\ ended'[h] = 1 /\ hook[h].at = "written" /\ hook[h].owner \in Owners \ alive
                      /\ hook[h].t <= consumed'[hook[h].owner]
        <4>1. CASE \E i \in I : log[i].name = h
          <5>1. PICK i \in I : log[i].name = h
            BY <4>1
          <5>2. ended'[h] = ended[h] + 1 /\ ended[h] = 0
            <6>1. ended[h] = 0
              BY <3>3, <5>1
            <6> HIDE DEF I, J
            <6> QED BY <2>2, <4>1, <6>1
          <5>3. i \in DOMAIN log /\ log[i].owner \in Owners \ alive
            OBVIOUS
          <5>4. log[i].owner = hook[h].owner /\ log[i].t = hook[h].t /\ hook[h].at = "written"
            BY <3>2, <5>1, <5>3
          <5>5. log[i].t <= consumed'[log[i].owner]
            <6> HIDE DEF I, J
            <6> QED BY <3>1, <5>3
          <5> HIDE DEF I, J
          <5> QED BY <5>2, <5>3, <5>4, <5>5
        <4>2. CASE ~ \E i \in I : log[i].name = h
          <5>1. ended'[h] = ended[h]
            <6> HIDE DEF I, J
            <6> QED BY <2>2, <4>2
          <5>2. CASE ended[h] = 0
            BY <5>1, <5>2
          <5>3. CASE ended[h] # 0
            <6>1. /\ ended[h] = 1 /\ hook[h].at = "written" /\ hook[h].owner \in Owners \ alive
                  /\ hook[h].t <= consumed[hook[h].owner]
              BY <5>3 DEF ErrorsInv, EndedInv
            <6>2. consumed[hook[h].owner] \in Nat /\ hook[h].t \in Nat
              BY <3>0, <6>1, HookType
            <6>3. consumed'[hook[h].owner] \in Nat /\ consumed[hook[h].owner] <= consumed'[hook[h].owner]
              BY <3>1, <6>1
            <6> QED BY <5>1, <6>1, <6>2, <6>3
          <5> QED BY <5>2, <5>3
        <4> QED BY <4>1, <4>2
      <3>5. ASSUME NEW i \in DOMAIN log, log[i].name \in Hooks, log[i].owner # NoOwner,
                   ended'[log[i].name] = 0
            PROVE  log[i].name \in lateEnded \/ log[i].t > consumed'[log[i].owner]
        <4>1. log[i] \in Entry /\ log[i].owner \in Owners /\ log[i].t \in Nat
          BY <3>0, <3>5, EntryParts
        <4>2. ended[log[i].name] = 0 /\ i \notin I
          <5>1. \A k \in I : log[k].name # log[i].name
            <6> HIDE DEF I, J
            <6> QED BY <2>2, <3>0, <3>5
          <5> HIDE DEF I, J
          <5> QED BY <2>2, <3>5, <5>1
        <4>3. log[i].name \in lateEnded \/ log[i].t > consumed[log[i].owner]
          BY <3>5, <4>2 DEF ErrorsInv, EndedInv
        <4>4. log[i].t > consumed[log[i].owner] => log[i].owner \in alive
          BY <4>1, <4>2
        <4>5. log[i].owner \in alive => consumed'[log[i].owner] = consumed[log[i].owner]
          <5> HIDE DEF I, J
          <5> QED BY <3>1, <4>1
        <4> HIDE DEF I, J
        <4> QED BY <4>3, <4>4, <4>5
      <3> HIDE DEF I, J
      <3> QED BY <1>0, <3>4, <3>5 DEF EndedInv
    <2> QED BY <2>1, <2>2 DEF SurfaceEnded
  <1> QED BY <1>1, <1>2, <1>3, <1>4 DEF ErrorsInv

-----------------------------------------------------------------------------
(* Steps that append *)

\* A hook that moves without writing changes no set of written rows.
LEMMA HookMoves ==
  ASSUME NEW h \in Hooks, hook[h].at # "written", hook'[h].at # "written",
         \A g \in Hooks : g # h => hook'[g] = hook[g]
  PROVE  /\ \A o : Written(o)' = Written(o)
         /\ {g \in Hooks : hook'[g].at = "written"} = {g \in Hooks : hook[g].at = "written"}
         /\ \A l, k : EntriesOf(l, k, hook) => EntriesOf(l, k, hook')
  <1>1. \A g \in Hooks : hook[g].at = "written" \/ hook'[g].at = "written" => hook'[g] = hook[g]
    OBVIOUS
  <1>2. \A l, k : EntriesOf(l, k, hook) => EntriesOf(l, k, hook')
    BY <1>1 DEF EntriesOf, EntryIs
  <1>3. \A o : Written(o)' = Written(o)
    BY <1>1 DEF Written
  <1> QED BY <1>1, <1>2, <1>3

\* What the invariant says of the log is true of what is kept of it.
LEMMA KeptKeeps ==
  ASSUME PointerConstants, ErrorsInv, Keeps
  PROVE  /\ EntriesOf(KeptLog, now', hook) /\ KeptLog \in Seq(Entry)
         /\ now' \in Nat /\ now <= now'
         /\ Total(Stands, KeptLog) = Total(Stands, log)
         /\ \A o \in Owners : Total(UnseenAbove(o, surfaced[o]), KeptLog)
                                = Total(UnseenAbove(o, surfaced[o]), log)
         /\ halved \subseteq halved'
         /\ \A l \in Legacy : copies[l] > 0 <=> (\E i \in DOMAIN KeptLog : KeptLog[i].name = l) \/ l \in halved'
         /\ \A i \in DOMAIN KeptLog :
              KeptLog[i].name \in Hooks /\ KeptLog[i].owner # NoOwner /\ ended[KeptLog[i].name] = 0 =>
                KeptLog[i].name \in lateEnded \/ KeptLog[i].t > consumed[KeptLog[i].owner]
  <1>0. ErrorTypeOK /\ EntriesInv /\ MovesInv /\ EndedInv /\ \A o \in Owners : surfaced[o] < now
    BY DEF ErrorsInv, TimesInv
  <1>1. /\ KeptLog \in Seq(Entry)
        /\ Total(Stands, KeptLog) = Total(Stands, log)
        /\ \A o \in Owners : Total(UnseenAbove(o, surfaced[o]), KeptLog)
                               = Total(UnseenAbove(o, surfaced[o]), log)
    BY <1>0, KeptIs
  <1>2. EntriesOf(KeptLog, now', hook)
    BY <1>0, KeptEntries
  <1>3. /\ now' \in Nat /\ now <= now' /\ halved \subseteq halved' /\ halved' \subseteq Legacy
        /\ \A i \in DOMAIN log : log[i].name \in Legacy =>
             log[i].name \in halved' \/ \E j \in DOMAIN KeptLog : KeptLog[j] = log[i]
        /\ \A n \in halved' : n \in halved \/ \E i \in DOMAIN log : log[i].name = n
    BY <1>0, KeptWere
  <1>4. ASSUME NEW i \in DOMAIN KeptLog, KeptLog[i].name # Truncated
        PROVE  \E j \in DOMAIN log : KeptLog[i] = log[j]
    <2>1. PICK d \in Nat :
            \/ /\ i + d \in DOMAIN log /\ KeptLog[i] = log[i + d]
            \/ /\ i = Len(KeptLog) /\ KeptLog[i] = Truncation(SubSeq(log, 1, Half)) /\ now < now'
      BY <1>0, KeptWere
    <2>2. Truncation(SubSeq(log, 1, Half)).name = Truncated
      BY DEF Truncation
    <2> QED BY <1>4, <2>1, <2>2
  <1>5. Truncated \notin Hooks /\ Truncated \notin Legacy
    BY DEF PointerConstants
  <1>6. ASSUME NEW l \in Legacy
        PROVE  copies[l] > 0 <=> (\E i \in DOMAIN KeptLog : KeptLog[i].name = l) \/ l \in halved'
    <2>1. copies[l] > 0 <=> (\E i \in DOMAIN log : log[i].name = l) \/ l \in halved
      BY <1>0 DEF MovesInv
    <2>2. (\E i \in DOMAIN KeptLog : KeptLog[i].name = l) => \E i \in DOMAIN log : log[i].name = l
      BY <1>4, <1>5
    <2>3. (\E i \in DOMAIN log : log[i].name = l) => l \in halved' \/ \E i \in DOMAIN KeptLog : KeptLog[i].name = l
      BY <1>3
    <2> QED BY <1>3, <2>1, <2>2, <2>3
  <1>7. ASSUME NEW i \in DOMAIN KeptLog, KeptLog[i].name \in Hooks, KeptLog[i].owner # NoOwner,
               ended[KeptLog[i].name] = 0
        PROVE  KeptLog[i].name \in lateEnded \/ KeptLog[i].t > consumed[KeptLog[i].owner]
    <2>1. PICK j \in DOMAIN log : KeptLog[i] = log[j]
      BY <1>4, <1>5, <1>7
    <2> QED BY <1>0, <1>7, <2>1 DEF EndedInv
  <1> QED BY <1>1, <1>2, <1>3, <1>6, <1>7

\* A hook that has not appended, and does not now, is nobody's row.
LEMMA UnwrittenKeeps ==
  ASSUME ErrorsInv, NEW h \in Hooks, hook[h].at # "written", hook'[h].at # "written",
         \A g \in Hooks : g # h => hook'[g] = hook[g],
         UNCHANGED <<surfaced, alive, picked, known, muted, late, copies>>,
         Total(Stands, log') = Total(Stands, log),
         \A o \in Owners : Total(UnseenAbove(o, surfaced[o]), log') = Total(UnseenAbove(o, surfaced[o]), log)
  PROVE  ToldInv' /\ RowsInv' /\ OwnersInv'
  <1>1. /\ \A o : Written(o)' = Written(o)
        /\ {g \in Hooks : hook'[g].at = "written"} = {g \in Hooks : hook[g].at = "written"}
    BY HookMoves
  <1>2. \A o : ToldRows(o)' = ToldRows(o) /\ Untold(o)' = Untold(o) /\ PickedCounts(o)' = PickedCounts(o)
    BY <1>1 DEF Untold, ToldRows, PickedCounts
  <1>3. ToldInv'
    <2>1. ToldInv
      BY DEF ErrorsInv
    <2>2. \A g \in late : g # h /\ hook'[g] = hook[g]
      <3>1. \A g \in late : g \in Hooks /\ hook[g].at = "written"
        BY DEF ErrorsInv, ErrorTypeOK, ToldInv
      <3> QED BY <3>1
    <2>3. ASSUME NEW o \in alive', NEW g \in ToldRows(o)'
          PROVE  g \in Written(o)' /\ hook'[g].t <= surfaced'[o] /\ g \notin late'
      <3>1. g \in Written(o) /\ hook[g].t <= surfaced[o] /\ g \notin late
        BY <1>2, <2>1 DEF ToldInv
      <3>2. g \in Hooks /\ g # h
        BY <3>1 DEF Written
      <3> QED BY <1>1, <3>1, <3>2
    <2>4. ASSUME NEW o \in alive', NEW g \in late', g \in Written(o)' PROVE hook'[g].t <= surfaced'[o]
      BY <1>1, <2>1, <2>2, <2>4 DEF ToldInv
    <2>5. \A g \in late' : hook'[g].at = "written"
      BY <2>1, <2>2 DEF ToldInv
    <2> QED BY <2>3, <2>4, <2>5 DEF ToldInv
  <1>4. RowsInv'
    BY <1>1 DEF ErrorsInv, RowsInv
  <1>5. OwnersInv'
    <2> SUFFICES ASSUME NEW o \in alive'
                 PROVE  Cardinality(Untold(o)') = known'[o].count + muted'[o].count
                          + Tally(PickedCounts(o)') + Total(UnseenAbove(o, surfaced'[o]), log')
      BY DEF OwnersInv
    <2>1. o \in alive /\ o \in Owners
      BY DEF ErrorsInv, ErrorTypeOK
    <2>2. surfaced' = surfaced /\ known' = known /\ muted' = muted
      OBVIOUS
    <2> QED BY <1>2, <2>1, <2>2 DEF ErrorsInv, OwnersInv
  <1> QED BY <1>3, <1>4, <1>5

\* A hook reads the clock.
LEMMA StampKeeps ==
  ASSUME PointerConstants, ErrorsInv, NEW h \in Hooks, Stamp(h)
  PROVE  ErrorsInv'
  <1>0. /\ hook[h].at = "new" /\ now' = now + 1
        /\ UNCHANGED <<log, surfaced, consumed, alive, legacy, claims, copies, halved, start, picked,
                       known, muted, ended, late, lateEnded>>
        /\ \E o \in {HookOwner[h], NoOwner} :
             hook' = [hook EXCEPT ![h] = [at |-> "stamped", t |-> now, owner |-> o]]
    BY DEF Stamp, legacyVars, startVars, toldVars
  <1>1. ErrorTypeOK'
    BY StampTypes DEF ErrorsInv
  <1>2. /\ hook'[h].at = "stamped" /\ hook'[h].t = now /\ \A g \in Hooks : g # h => hook'[g] = hook[g]
    BY <1>0 DEF ErrorsInv, ErrorTypeOK
  <1>3. \A l, k : EntriesOf(l, k, hook) => EntriesOf(l, k, hook')
    BY <1>0, <1>2, HookMoves
  <1>4. now \in Nat /\ log \in Seq(Entry)
    BY DEF ErrorsInv, ErrorTypeOK
  <1>5. EntriesInv'
    <2>1. EntriesOf(log, now', hook)
      BY <1>0, <1>4, LaterEntries DEF ErrorsInv, EntriesInv
    <2> QED BY <1>0, <1>3, <2>1 DEF EntriesInv
  <1>6. TimesInv'
    <2>1. \A g \in Hooks : hook'[g].at # "new" => hook'[g].t < now'
      <3>1. \A g \in Hooks : hook[g].t \in Nat
        BY HookType DEF ErrorsInv
      <3> QED BY <1>0, <1>2, <1>4, <3>1 DEF ErrorsInv, TimesInv
    <2>2. \A o \in Owners : surfaced'[o] < now'
      <3>1. \A o \in Owners : surfaced[o] \in Nat
        BY DEF ErrorsInv, ErrorTypeOK
      <3> QED BY <1>0, <1>4, <3>1 DEF ErrorsInv, TimesInv
    <2>3. \A s \in Starts : start'[s] \in {"new", "claimed", "copied", "own", "gone"} => picked'[s] = Nothing
      BY <1>0 DEF ErrorsInv, TimesInv
    <2> QED BY <2>1, <2>2, <2>3 DEF TimesInv
  <1>7. ToldInv' /\ RowsInv' /\ OwnersInv'
    BY <1>0, <1>2, UnwrittenKeeps
  <1>10. MovesInv' /\ LegacyMovesOnce'
    BY <1>0 DEF ErrorsInv, MovesInv, LegacyMovesOnce
  <1>11. EndedInv'
    <2>1. EndedInv
      BY DEF ErrorsInv
    <2>2. ASSUME NEW g \in Hooks, ended[g] # 0 PROVE hook'[g] = hook[g]
      BY <1>0, <1>2, <2>1, <2>2 DEF EndedInv
    <2> QED BY <1>0, <2>1, <2>2 DEF EndedInv
  <1> QED BY <1>1, <1>5, <1>6, <1>7, <1>10, <1>11 DEF ErrorsInv

\* Its append fails, and may have halved the log before it did.
LEMMA AppendFailsKeeps ==
  ASSUME PointerConstants, ErrorsInv, NEW h \in Hooks, AppendFails(h)
  PROVE  ErrorsInv'
  <1>0. /\ hook[h].at = "stamped" /\ hook' = [hook EXCEPT ![h].at = "unrecorded"]
        /\ UNCHANGED <<surfaced, consumed, alive, legacy, claims, copies, start, picked,
                       known, muted, ended, late, lateEnded>>
        /\ (Keeps /\ log' = KeptLog) \/ UNCHANGED <<log, now, halved>>
    BY DEF AppendFails, startVars, toldVars
  <1>1. ErrorTypeOK'
    BY AppendFailsTypes DEF ErrorsInv
  <1>2. /\ hook'[h].at = "unrecorded" /\ hook'[h].t = hook[h].t
        /\ \A g \in Hooks : g # h => hook'[g] = hook[g]
    BY <1>0 DEF ErrorsInv, ErrorTypeOK
  <1>3. \A l, k : EntriesOf(l, k, hook) => EntriesOf(l, k, hook')
    BY <1>0, <1>2, HookMoves
  \* The log is kept, or is as it was.
  <1>4. /\ EntriesOf(log', now', hook)
        /\ now' \in Nat /\ now <= now'
        /\ Total(Stands, log') = Total(Stands, log)
        /\ \A o \in Owners : Total(UnseenAbove(o, surfaced[o]), log')
                               = Total(UnseenAbove(o, surfaced[o]), log)
        /\ halved \subseteq halved'
        /\ \A l \in Legacy : copies[l] > 0 <=> (\E i \in DOMAIN log' : log'[i].name = l) \/ l \in halved'
        /\ \A i \in DOMAIN log' :
             log'[i].name \in Hooks /\ log'[i].owner # NoOwner /\ ended[log'[i].name] = 0 =>
               log'[i].name \in lateEnded \/ log'[i].t > consumed[log'[i].owner]
    <2>1. CASE Keeps /\ log' = KeptLog
      BY <2>1, KeptKeeps
    <2>2. CASE UNCHANGED <<log, now, halved>>
      <3>1. now \in Nat
        BY DEF ErrorsInv, ErrorTypeOK
      <3> QED BY <2>2, <3>1 DEF ErrorsInv, EntriesInv, MovesInv, EndedInv
    <2> QED BY <1>0, <2>1, <2>2
  <1>5. EntriesInv'
    BY <1>3, <1>4 DEF EntriesInv
  <1>6. TimesInv'
    <2>1. /\ \A g \in Hooks : hook[g].t \in Nat
          /\ \A o \in Owners : surfaced[o] \in Nat
          /\ now \in Nat
      BY HookType DEF ErrorsInv, ErrorTypeOK
    <2>2. TimesInv
      BY DEF ErrorsInv
    <2>3. ASSUME NEW g \in Hooks, hook'[g].at # "new" PROVE hook'[g].t < now'
      <3>1. hook[g].at # "new" /\ hook'[g].t = hook[g].t
        BY <1>0, <1>2, <2>3
      <3> QED BY <1>4, <2>1, <2>2, <3>1 DEF TimesInv
    <2>4. ASSUME NEW o \in Owners PROVE surfaced'[o] < now'
      BY <1>0, <1>4, <2>1, <2>2 DEF TimesInv
    <2> QED BY <1>0, <2>2, <2>3, <2>4 DEF TimesInv
  <1>7. ToldInv' /\ RowsInv' /\ OwnersInv'
    BY <1>0, <1>2, <1>4, UnwrittenKeeps
  <1>8. MovesInv' /\ LegacyMovesOnce'
    BY <1>0, <1>4 DEF ErrorsInv, MovesInv, LegacyMovesOnce
  <1>9. EndedInv'
    <2>1. EndedInv
      BY DEF ErrorsInv
    <2>2. ASSUME NEW g \in Hooks, ended[g] # 0 PROVE hook'[g] = hook[g]
      BY <1>0, <1>2, <2>1, <2>2 DEF EndedInv
    <2>3. \A g \in Hooks : \/ ended'[g] = 0
                           \/ /\ ended'[g] = 1 /\ hook'[g].at = "written"
                              /\ hook'[g].owner \in Owners \ alive'
                              /\ hook'[g].t <= consumed'[hook'[g].owner]
      BY <1>0, <2>1, <2>2 DEF EndedInv
    <2> QED BY <1>0, <1>4, <2>3 DEF EndedInv
  <1> QED BY <1>1, <1>5, <1>6, <1>7, <1>8, <1>9 DEF ErrorsInv

\* One more entry, of a name that is new.
LEMMA EntriesOfAppend ==
  ASSUME NEW l \in Seq(Entry), NEW k \in Nat, NEW hk, NEW x \in Entry,
         EntriesOf(l, k, hk), EntryIs(x, k, hk), \A i \in DOMAIN l : x.name \in Hooks => l[i].name # x.name
  PROVE  EntriesOf(Append(l, x), k, hk)
  <1> DEFINE m == Append(l, x)
             n == Len(l)
  <1>1. /\ n \in Nat /\ DOMAIN l = 1..n /\ DOMAIN m = 1..(n + 1)
        /\ m[n + 1] = x /\ \A i \in 1..n : m[i] = l[i]
    OBVIOUS
  <1> HIDE DEF m, n
  <1>2. \A i \in DOMAIN m : i = n + 1 \/ i \in DOMAIN l
    BY <1>1
  <1>3. \A i \in DOMAIN m : EntryIs(m[i], k, hk)
    BY <1>1, <1>2 DEF EntriesOf
  <1>4. ASSUME NEW i \in DOMAIN m, NEW j \in DOMAIN m, m[i].name = m[j].name, m[i].name \in Hooks
        PROVE  i = j
    BY <1>1, <1>2, <1>4 DEF EntriesOf, OnceIn
  <1> QED BY <1>3, <1>4 DEF EntriesOf, OnceIn, m

\* One more member.
LEMMA OneMore ==
  ASSUME NEW S, IsFiniteSet(S), NEW x, x \notin S
  PROVE  IsFiniteSet(S \union {x}) /\ Cardinality(S \union {x}) = Cardinality(S) + 1
         /\ Cardinality(S) \in Nat
  BY FS_AddElement, FS_CardinalityType

\* The numbers that the invariant adds up are numbers.
LEMMA CountsAreFinite ==
  ASSUME PointerConstants, ErrorsInv, NEW o \in Owners
  PROVE  /\ known[o].count \in Nat /\ muted[o].count \in Nat
         /\ PickedCounts(o) \in Counts(RunsOf(o)) /\ Tally(PickedCounts(o)) \in Nat
         /\ UnseenAbove(o, surfaced[o]) \in [Entry -> Nat]
         /\ Total(UnseenAbove(o, surfaced[o]), log) \in Nat
         /\ IsFiniteSet(Untold(o)) /\ Cardinality(Untold(o)) \in Nat
  <1>1. known[o].count \in Nat /\ muted[o].count \in Nat
    BY NoticeParts DEF ErrorsInv, ErrorTypeOK
  <1>2. PickedCounts(o) \in Counts(RunsOf(o))
    BY NoticeParts DEF PickedCounts, Counts, RunsOf, ErrorsInv, ErrorTypeOK
  <1>3. Tally(PickedCounts(o)) \in Nat
    BY <1>2, TallyIsFinite, RunsAreFinite
  <1>4. UnseenAbove(o, surfaced[o]) \in [Entry -> Nat]
    BY UnseenType DEF ErrorsInv, ErrorTypeOK
  <1>5. Total(UnseenAbove(o, surfaced[o]), log) \in Nat
    <2>1. log \in Seq(Entry)
      BY DEF ErrorsInv, ErrorTypeOK
    <2> QED BY <1>4, <2>1, WeightsType
  <1>6. Untold(o) \in SUBSET Hooks /\ IsFiniteSet(Hooks)
    BY DEF Untold, Written, PointerConstants
  <1>7. IsFiniteSet(Untold(o)) /\ Cardinality(Untold(o)) \in Nat
    BY <1>6, FS_Subset, FS_CardinalityType
  <1> QED BY <1>1, <1>2, <1>3, <1>4, <1>5, <1>7

\* A hook appends its row: one more written, one more in the log, and one more
\* untold unless its owner has already seen that time, or has ended.
LEMMA AppendRowKeeps ==
  ASSUME PointerConstants, ErrorsInv, NEW h \in Hooks, AppendRow(h)
  PROVE  ErrorsInv'
  <1> DEFINE x == Row(h, hook[h].owner, hook[h].t)
             W == {g \in Hooks : hook[g].at = "written"}
  <1>0. /\ hook[h].at = "stamped" /\ hook' = [hook EXCEPT ![h].at = "written"]
        /\ Keeps /\ log' = Append(KeptLog, x)
        /\ UNCHANGED <<surfaced, consumed, alive, legacy, claims, copies, start, picked, known, muted, ended>>
    BY DEF AppendRow, startVars, toldVars
  <1>a. /\ late' = IF hook[h].owner # NoOwner /\ hook[h].t <= surfaced[hook[h].owner]
                   THEN late \union {h} ELSE late
        /\ lateEnded' = IF hook[h].owner # NoOwner /\ hook[h].t <= consumed[hook[h].owner]
                        THEN lateEnded \union {h} ELSE lateEnded
    BY DEF AppendRow
  <1>1. ErrorTypeOK'
    BY <1>0, AppendRowTypes DEF ErrorsInv
  <1>2. /\ hook'[h].at = "written" /\ hook'[h].t = hook[h].t /\ hook'[h].owner = hook[h].owner
        /\ \A g \in Hooks : g # h => hook'[g] = hook[g]
        /\ hook[h].t \in Nat /\ hook[h].owner \in Owners \union {NoOwner}
    BY <1>0, HookType DEF ErrorsInv, ErrorTypeOK
  <1>3. /\ x \in Entry /\ x.name = h /\ x.owner = hook[h].owner /\ x.t = hook[h].t
        /\ h \notin Legacy /\ h # Truncated
    BY <1>2, RowIs DEF Names, PointerConstants
  <1> HIDE DEF x
  <1>4. /\ EntriesOf(KeptLog, now', hook) /\ KeptLog \in Seq(Entry)
        /\ now' \in Nat /\ now <= now'
        /\ Total(Stands, KeptLog) = Total(Stands, log)
        /\ \A o \in Owners : Total(UnseenAbove(o, surfaced[o]), KeptLog)
                               = Total(UnseenAbove(o, surfaced[o]), log)
        /\ halved \subseteq halved'
        /\ \A l \in Legacy : copies[l] > 0 <=> (\E i \in DOMAIN KeptLog : KeptLog[i].name = l) \/ l \in halved'
        /\ \A i \in DOMAIN KeptLog :
             KeptLog[i].name \in Hooks /\ KeptLog[i].owner # NoOwner /\ ended[KeptLog[i].name] = 0 =>
               KeptLog[i].name \in lateEnded \/ KeptLog[i].t > consumed[KeptLog[i].owner]
    BY <1>0, KeptKeeps
  <1>5. /\ \A i \in DOMAIN KeptLog : i \in DOMAIN log' /\ log'[i] = KeptLog[i]
        /\ \A i \in DOMAIN log' : log'[i] = x \/ (i \in DOMAIN KeptLog /\ log'[i] = KeptLog[i])
    BY <1>0, <1>3, <1>4
  <1>6. \A i \in DOMAIN KeptLog : KeptLog[i].name # h
    BY <1>0, <1>4 DEF EntriesOf, EntryIs
  <1>7. now \in Nat /\ hook[h].t < now
    BY <1>0 DEF ErrorsInv, ErrorTypeOK, TimesInv
  <1>8. EntriesInv'
    <2>1. EntriesOf(KeptLog, now', hook')
      BY <1>2, <1>4, <1>6 DEF EntriesOf, EntryIs
    <2>2. EntryIs(x, now', hook')
      BY <1>2, <1>3, <1>4, <1>7 DEF EntryIs, x
    <2> QED BY <1>0, <1>3, <1>4, <1>6, <2>1, <2>2, EntriesOfAppend DEF EntriesInv
  <1>9. TimesInv'
    <2>1. /\ \A g \in Hooks : hook[g].t \in Nat
          /\ \A o \in Owners : surfaced[o] \in Nat
      BY HookType DEF ErrorsInv, ErrorTypeOK
    <2>2. TimesInv
      BY DEF ErrorsInv
    <2>3. ASSUME NEW g \in Hooks, hook'[g].at # "new" PROVE hook'[g].t < now'
      <3>1. hook[g].at # "new" /\ hook'[g].t = hook[g].t
        BY <1>0, <1>2, <2>3
      <3> QED BY <1>4, <1>7, <2>1, <2>2, <3>1 DEF TimesInv
    <2>4. ASSUME NEW o \in Owners PROVE surfaced'[o] < now'
      BY <1>0, <1>4, <1>7, <2>1, <2>2 DEF TimesInv
    <2> QED BY <1>0, <2>2, <2>3, <2>4 DEF TimesInv
  <1>10. /\ \A o : ToldRows(o)' = ToldRows(o) /\ PickedCounts(o)' = PickedCounts(o)
         /\ \A o : Written(o)' = IF o = hook[h].owner THEN Written(o) \union {h} ELSE Written(o)
         /\ \A o : h \notin Written(o)
         /\ h \notin late
    <2>1. \A o : ToldRows(o)' = ToldRows(o) /\ PickedCounts(o)' = PickedCounts(o)
      BY <1>0 DEF ToldRows, PickedCounts
    <2>2. \A o : Written(o)' = IF o = hook[h].owner THEN Written(o) \union {h} ELSE Written(o)
      BY <1>2 DEF Written
    <2>3. (\A o : h \notin Written(o)) /\ h \notin late
      BY <1>0 DEF Written, ErrorsInv, ToldInv
    <2> QED BY <2>1, <2>2, <2>3
  <1>11. \A o \in alive : o \in Owners /\ o # NoOwner
    BY DEF ErrorsInv, ErrorTypeOK, PointerConstants
  <1>12. \A o \in alive : h \notin ToldRows(o)
    BY <1>10 DEF ErrorsInv, ToldInv
  <1>13. ToldInv'
    <2>1. ToldInv /\ late \subseteq Hooks
      BY DEF ErrorsInv, ErrorTypeOK
    <2>2. \A g \in late' : hook'[g].at = "written"
      BY <1>a, <1>2, <2>1 DEF ToldInv
    <2>3. ASSUME NEW o \in alive', NEW g \in ToldRows(o)'
          PROVE  g \in Written(o)' /\ hook'[g].t <= surfaced'[o] /\ g \notin late'
      <3>1. g \in Written(o) /\ hook[g].t <= surfaced[o] /\ g \notin late /\ g # h
        BY <1>0, <1>10, <1>12, <2>1 DEF ToldInv
      <3>2. hook'[g] = hook[g]
        BY <1>2, <3>1 DEF Written
      <3> QED BY <1>0, <1>a, <1>10, <3>1, <3>2
    <2>4. ASSUME NEW o \in alive', NEW g \in late', g \in Written(o)' PROVE hook'[g].t <= surfaced'[o]
      <3>1. CASE g = h
        <4>1. o = hook[h].owner
          BY <1>10, <2>4, <3>1
        <4>2. hook[h].t <= surfaced[hook[h].owner]
          BY <1>a, <1>10, <3>1
        <4> QED BY <1>0, <1>2, <3>1, <4>1, <4>2
      <3>2. CASE g # h
        <4>1. g \in late /\ g \in Written(o) /\ hook'[g] = hook[g]
          BY <1>a, <1>2, <1>10, <2>1, <2>4, <3>2
        <4> QED BY <1>0, <2>1, <4>1 DEF ToldInv
      <3> QED BY <3>1, <3>2
    <2> QED BY <2>2, <2>3, <2>4 DEF ToldInv
  <1>14. IsFiniteSet(Hooks) /\ W \in SUBSET Hooks /\ h \notin W
    BY <1>0 DEF PointerConstants
  <1>15. RowsInv'
    <2>1. {g \in Hooks : hook'[g].at = "written"} = W \union {h}
      BY <1>2
    <2>2. IsFiniteSet(W)
      BY <1>14, FS_Subset
    <2>3. Cardinality(W \union {h}) = Cardinality(W) + 1 /\ Cardinality(W) \in Nat
      <3> HIDE DEF W
      <3> QED BY <1>14, <2>2, OneMore
    <2>4. Stands[x] = 1
      BY <1>3 DEF Stands, StandsFor, IsRow
    <2>5. Total(Stands, log') = Total(Stands, log) + 1
      <3>1. Total(Stands, Append(KeptLog, x)) = Total(Stands, KeptLog) + Stands[x]
        BY <1>3, <1>4, StandsType, TotalOfAppend
      <3> QED BY <1>0, <1>4, <2>4, <3>1
    <2>6. copies' = copies /\ Tally(copies) \in Nat
      <3>1. copies \in Counts(Legacy) /\ IsFiniteSet(Legacy)
        BY DEF ErrorsInv, ErrorTypeOK, PointerConstants, Counts
      <3> QED BY <1>0, <3>1, TallyIsFinite
    <2>7. Cardinality(W) + Tally(copies) = Total(Stands, log)
      BY DEF ErrorsInv, RowsInv
    <2>8. Cardinality(W \union {h}) + Tally(copies') = Total(Stands, log')
      <3> HIDE DEF W
      <3> QED BY <2>3, <2>5, <2>6, <2>7
    <2> QED BY <2>1, <2>8 DEF RowsInv
  <1>16. OwnersInv'
    <2> SUFFICES ASSUME NEW o \in alive'
                 PROVE  Cardinality(Untold(o)') = known'[o].count + muted'[o].count
                          + Tally(PickedCounts(o)') + Total(UnseenAbove(o, surfaced'[o]), log')
      BY DEF OwnersInv
    <2> DEFINE u == UnseenAbove(o, surfaced[o])
               t == known[o].count + muted[o].count + Tally(PickedCounts(o))
    <2>1. o \in alive /\ o \in Owners /\ o # NoOwner /\ surfaced[o] \in Nat
      BY <1>0, <1>11 DEF ErrorsInv, ErrorTypeOK
    <2>2. u \in [Entry -> Nat]
      BY <2>1, UnseenType
    <2>3. Total(u, log') = Total(u, log) + u[x]
      <3>1. Total(u, KeptLog) = Total(u, log)
        BY <1>4, <2>1
      <3> HIDE DEF u
      <3> QED BY <1>0, <1>3, <1>4, <2>2, <3>1, TotalOfAppend
    <2>4. u[x] = IF hook[h].t <= surfaced[o] THEN 0 ELSE IF hook[h].owner = o THEN 1 ELSE 0
      BY <1>3 DEF UnseenAbove, IsRow
    <2>5. Cardinality(Untold(o)) = t + Total(u, log)
      BY <2>1 DEF ErrorsInv, OwnersInv
    <2>6. IsFiniteSet(Untold(o)) /\ h \notin Untold(o) /\ Cardinality(Untold(o)) \in Nat
      BY <1>10, <2>1, CountsAreFinite DEF Untold
    <2>7. Cardinality(Untold(o)') = Cardinality(Untold(o)) + u[x]
      <3>1. CASE hook[h].owner # o
        <4>1. \A g \in Written(o) : g # h
          BY <1>10
        <4>2. Untold(o)' = Untold(o)
          BY <1>a, <1>10, <3>1, <4>1 DEF Untold
        <4> HIDE DEF u
        <4> QED BY <2>4, <2>6, <3>1, <4>2
      <3>2. CASE hook[h].owner = o /\ hook[h].t <= surfaced[o]
        <4>1. late' = late \union {h}
          BY <1>a, <2>1, <3>2
        <4>2. Untold(o)' = Untold(o)
          BY <1>10, <3>2, <4>1 DEF Untold
        <4> HIDE DEF u
        <4> QED BY <2>4, <2>6, <3>2, <4>2
      <3>3. CASE hook[h].owner = o /\ ~ (hook[h].t <= surfaced[o])
        <4>1. late' = late
          BY <1>a, <3>3
        <4>2. Untold(o)' = Untold(o) \union {h}
          BY <1>10, <1>12, <2>1, <3>3, <4>1 DEF Untold
        <4>3. Cardinality(Untold(o) \union {h}) = Cardinality(Untold(o)) + 1
          BY <2>6, OneMore
        <4> HIDE DEF u
        <4> QED BY <2>4, <3>3, <4>2, <4>3
      <3> QED BY <3>1, <3>2, <3>3
    <2>8. t \in Nat /\ Total(u, log) \in Nat /\ u[x] \in Nat
      <3>1. u[x] \in Nat
        <4> HIDE DEF u
        <4> QED BY <1>3, <2>2
      <3> QED BY <2>1, <3>1, CountsAreFinite
    <2>9. known' = known /\ muted' = muted /\ PickedCounts(o)' = PickedCounts(o) /\ surfaced' = surfaced
      BY <1>0, <1>10
    <2>10. Cardinality(Untold(o)') = t + Total(u, log')
      <3> HIDE DEF u, t
      <3> QED BY <2>3, <2>5, <2>7, <2>8
    <2> QED BY <2>9, <2>10
  <1>17. MovesInv' /\ LegacyMovesOnce'
    <2>1. ASSUME NEW l \in Legacy
          PROVE  (\E i \in DOMAIN log' : log'[i].name = l) <=> \E i \in DOMAIN KeptLog : KeptLog[i].name = l
      BY <1>3, <1>5
    <2> QED BY <1>0, <1>4, <2>1 DEF ErrorsInv, MovesInv, LegacyMovesOnce
  <1>18. EndedInv'
    <2>1. EndedInv
      BY DEF ErrorsInv
    <2>2. ASSUME NEW g \in Hooks, ended[g] # 0 PROVE hook'[g] = hook[g]
      BY <1>0, <1>2, <2>1, <2>2 DEF EndedInv
    <2>3. \A g \in Hooks : \/ ended'[g] = 0
                           \/ /\ ended'[g] = 1 /\ hook'[g].at = "written"
                              /\ hook'[g].owner \in Owners \ alive'
                              /\ hook'[g].t <= consumed'[hook'[g].owner]
      BY <1>0, <2>1, <2>2 DEF EndedInv
    <2>4. ASSUME NEW i \in DOMAIN log', log'[i].name \in Hooks, log'[i].owner # NoOwner,
                 ended'[log'[i].name] = 0
          PROVE  log'[i].name \in lateEnded' \/ log'[i].t > consumed'[log'[i].owner]
      <3>1. CASE i \in DOMAIN KeptLog /\ log'[i] = KeptLog[i]
        BY <1>0, <1>a, <1>4, <2>4, <3>1
      <3>2. CASE log'[i] = x
        <4>1. hook[h].owner \in Owners /\ consumed[hook[h].owner] \in Nat
          BY <1>2, <1>3, <2>4, <3>2 DEF ErrorsInv, ErrorTypeOK
        <4> QED BY <1>0, <1>a, <1>2, <1>3, <2>4, <3>2, <4>1
      <3> QED BY <1>5, <3>1, <3>2
    <2> QED BY <2>3, <2>4 DEF EndedInv
  <1> QED BY <1>1, <1>8, <1>9, <1>13, <1>15, <1>16, <1>17, <1>18 DEF ErrorsInv

\* A start appends the old rows that the log lacks, all of them or only some.
LEMMA CopyLegacyKeeps ==
  ASSUME PointerConstants, ErrorsInv, NEW s \in Starts, CopyLegacy(s)
  PROVE  ErrorsInv'
  <1> DEFINE missing == {l \in Legacy : ~\E i \in DOMAIN KeptLog : KeptLog[i].name = l}
             R(S) == {Row(l, NoOwner, 0) : l \in S}
  <1>0. /\ Keeps
        /\ UNCHANGED <<hook, surfaced, consumed, alive, legacy, claims, picked, known, muted, ended, late, lateEnded>>
    BY DEF CopyLegacy, toldVars
  <1>1. PICK S \in SUBSET missing :
          /\ log' = KeptLog \o SetToSeq(R(S))
          /\ copies' = [l \in Legacy |-> IF l \in S THEN copies[l] + 1 ELSE copies[l]]
          /\ \/ S = missing /\ Goes(s, "claimed", "copied")
             \/ Goes(s, "claimed", "own")
    BY DEF CopyLegacy
  <1> DEFINE q == SetToSeq(R(S))
             n == Len(KeptLog)
  <1>2. ErrorTypeOK'
    BY CopyLegacyTypes DEF ErrorsInv
  <1>3. /\ S \in SUBSET Legacy
        /\ \A l \in S : \A i \in DOMAIN KeptLog : KeptLog[i].name # l
        /\ S = missing => \A l \in Legacy : l \notin S => \E i \in DOMAIN KeptLog : KeptLog[i].name = l
    OBVIOUS
  <1>4. /\ q \in Seq(Entry)
        /\ IsFiniteSet(S) /\ Len(q) = Cardinality(S)
        /\ \A i \in DOMAIN q : \E l \in S : q[i] = Row(l, NoOwner, 0)
        /\ \A l \in S : \E i \in DOMAIN q : q[i] = Row(l, NoOwner, 0)
    BY <1>3, CopiesAre
  <1>5. /\ EntriesOf(KeptLog, now', hook) /\ KeptLog \in Seq(Entry)
        /\ now' \in Nat /\ now <= now'
        /\ Total(Stands, KeptLog) = Total(Stands, log)
        /\ \A o \in Owners : Total(UnseenAbove(o, surfaced[o]), KeptLog)
                               = Total(UnseenAbove(o, surfaced[o]), log)
        /\ halved \subseteq halved'
        /\ \A l \in Legacy : copies[l] > 0 <=> (\E i \in DOMAIN KeptLog : KeptLog[i].name = l) \/ l \in halved'
        /\ \A i \in DOMAIN KeptLog :
             KeptLog[i].name \in Hooks /\ KeptLog[i].owner # NoOwner /\ ended[KeptLog[i].name] = 0 =>
               KeptLog[i].name \in lateEnded \/ KeptLog[i].t > consumed[KeptLog[i].owner]
    BY <1>0, KeptKeeps
  <1>6. \A l \in S : /\ l \in Legacy /\ l \notin Hooks /\ l # Truncated
                     /\ Row(l, NoOwner, 0) \in Entry
                     /\ Row(l, NoOwner, 0).name = l /\ Row(l, NoOwner, 0).owner = NoOwner
                     /\ Row(l, NoOwner, 0).t = 0
    BY <1>3, RowIs DEF Names, PointerConstants
  <1>7. log' = KeptLog \o q /\ copies' = [l \in Legacy |-> IF l \in S THEN copies[l] + 1 ELSE copies[l]]
    BY <1>1
  <1>8. \/ S = missing /\ Goes(s, "claimed", "copied")
        \/ Goes(s, "claimed", "own")
    BY <1>1
  <1>9. S = missing => \A l \in Legacy : l \notin S => \E i \in DOMAIN KeptLog : KeptLog[i].name = l
    BY <1>3
  <1> HIDE DEF q, R, missing
  <1>10. /\ n \in Nat /\ DOMAIN KeptLog = 1..n /\ Len(q) \in Nat /\ DOMAIN q = 1..Len(q)
         /\ Len(log') = n + Len(q) /\ DOMAIN log' = 1..(n + Len(q))
         /\ \A i \in 1..n : log'[i] = KeptLog[i]
         /\ \A i \in 1..Len(q) : log'[n + i] = q[i]
    BY <1>4, <1>5, <1>7
  <1> HIDE DEF n
  <1>11. /\ \A i \in DOMAIN KeptLog : i \in DOMAIN log' /\ log'[i] = KeptLog[i]
         /\ \A i \in DOMAIN q : n + i \in DOMAIN log' /\ log'[n + i] = q[i]
         /\ \A i \in DOMAIN log' : \/ i \in DOMAIN KeptLog /\ log'[i] = KeptLog[i]
                                   \/ \E l \in S : log'[i] = Row(l, NoOwner, 0)
    <2>1. \A i \in DOMAIN log' : i \in 1..n \/ (i - n \in 1..Len(q) /\ n + (i - n) = i)
      BY <1>10
    <2>2. \A i \in DOMAIN KeptLog : i \in DOMAIN log' /\ log'[i] = KeptLog[i]
      BY <1>10
    <2>3. \A i \in DOMAIN q : n + i \in DOMAIN log' /\ log'[n + i] = q[i]
      BY <1>10
    <2>4. ASSUME NEW i \in DOMAIN log'
          PROVE  \/ i \in DOMAIN KeptLog /\ log'[i] = KeptLog[i]
                 \/ \E l \in S : log'[i] = Row(l, NoOwner, 0)
      <3>1. CASE i \in 1..n
        BY <1>10, <3>1
      <3>2. CASE i - n \in 1..Len(q) /\ n + (i - n) = i
        <4>1. PICK l \in S : q[i - n] = Row(l, NoOwner, 0)
          BY <1>4, <1>10, <3>2
        <4>2. log'[i] = q[i - n]
          BY <1>10, <3>2
        <4> QED BY <4>1, <4>2
      <3> QED BY <2>1, <3>1, <3>2
    <2> QED BY <2>2, <2>3, <2>4
  <1>12. now' \in Nat /\ now \in Nat /\ \A h \in Hooks : hook[h].t \in Nat
    BY <1>5, HookType DEF ErrorsInv, ErrorTypeOK
  <1>13. TimesInv'
    <2>1. TimesInv /\ \A o \in Owners : surfaced[o] \in Nat
      BY DEF ErrorsInv, ErrorTypeOK
    <2>2. \A h \in Hooks : hook'[h].at # "new" => hook'[h].t < now'
      BY <1>0, <1>5, <1>12, <2>1 DEF TimesInv
    <2>3. \A o \in Owners : surfaced'[o] < now'
      BY <1>0, <1>5, <1>12, <2>1 DEF TimesInv
    <2>4. \A r \in Starts : start'[r] \in {"new", "claimed", "copied", "own", "gone"} => picked'[r] = Nothing
      BY <1>0, <1>8, <2>1 DEF TimesInv, Goes, ErrorsInv, ErrorTypeOK
    <2> QED BY <2>2, <2>3, <2>4 DEF TimesInv
  <1>14. EntriesInv'
    <2>0. 0 < now'
      <3>1. Owners = {} \/ \E o \in Owners : surfaced[o] \in Nat /\ surfaced[o] < now
        BY DEF ErrorsInv, ErrorTypeOK, TimesInv
      <3>2. StartOwner[s] \in Owners
        BY DEF PointerConstants
      <3> QED BY <1>5, <1>12, <3>1, <3>2
    <2>1. ASSUME NEW i \in DOMAIN log' PROVE EntryIs(log'[i], now', hook)
      <3>1. CASE i \in DOMAIN KeptLog /\ log'[i] = KeptLog[i]
        BY <1>5, <3>1 DEF EntriesOf
      <3>2. CASE \E l \in S : log'[i] = Row(l, NoOwner, 0)
        BY <1>6, <2>0, <3>2 DEF EntryIs
      <3> QED BY <1>11, <3>1, <3>2
    <2>2. ASSUME NEW i \in DOMAIN log', NEW j \in DOMAIN log',
                 log'[i].name = log'[j].name, log'[i].name \in Hooks
          PROVE  i = j
      <3>1. i \in DOMAIN KeptLog /\ log'[i] = KeptLog[i] /\ j \in DOMAIN KeptLog /\ log'[j] = KeptLog[j]
        BY <1>6, <1>11, <2>2
      <3> QED BY <1>5, <2>2, <3>1 DEF EntriesOf, OnceIn
    <2> QED BY <1>0, <2>1, <2>2 DEF EntriesInv, EntriesOf, OnceIn
  <1>15. ToldInv'
    <2>1. \A o : ToldRows(o)' = ToldRows(o) /\ Written(o)' = Written(o)
      BY <1>0 DEF ToldRows, Written
    <2> QED BY <1>0, <2>1 DEF ErrorsInv, ToldInv
  \* The copied rows count as one each, and are nobody's.
  <1>16. Total(Stands, log') = Total(Stands, log) + Cardinality(S)
    <2>1. Total(Stands, log') = Total(Stands, KeptLog) + Total(Stands, q)
      <3>1. Total(Stands, KeptLog \o q) = Total(Stands, KeptLog) + Total(Stands, q)
        <4>1. Stands \in Counts(Entry)
          BY StandsType DEF Counts
        <4>2. KeptLog \in Seq(Entry)
          BY <1>5
        <4> QED BY <1>4, <4>1, <4>2, EntriesConcat
      <3> QED BY <1>7, <3>1
    <2>2. \A i \in DOMAIN q : Weights(Stands, q)[i] = 1
      BY <1>4, <1>6 DEF Weights, Stands, StandsFor, IsRow
    <2>3. DOMAIN Weights(Stands, q) = DOMAIN q /\ Weights(Stands, q) = [i \in DOMAIN q |-> Stands[q[i]]]
      BY DEF Weights
    <2>4. Weights(Stands, q) \in [DOMAIN q -> {0, 1}]
      BY <2>2, <2>3
    <2>5. IsFiniteSet(DOMAIN q) /\ Cardinality(DOMAIN q) = Len(q)
      <3>1. Len(q) \in Nat /\ Len(q) \in Int /\ 1 \in Int
        BY <1>10
      <3>2. /\ IsFiniteSet(1..Len(q))
            /\ Cardinality(1..Len(q)) = IF 1 > Len(q) THEN 0 ELSE Len(q) - 1 + 1
        BY <3>1, FS_Interval
      <3> QED BY <1>10, <3>1, <3>2
    <2>6. {i \in DOMAIN q : Weights(Stands, q)[i] = 1} = DOMAIN q
      BY <2>2
    <2>7. Total(Stands, q) = Cardinality(DOMAIN q)
      BY <2>4, <2>5, <2>6, TallyOfOnes DEF Total
    <2> QED BY <1>4, <1>5, <2>1, <2>5, <2>7
  <1>17. ASSUME NEW o \in Owners
         PROVE  Total(UnseenAbove(o, surfaced[o]), log') = Total(UnseenAbove(o, surfaced[o]), log)
    <2> DEFINE u == UnseenAbove(o, surfaced[o])
    <2>1. u \in [Entry -> Nat] /\ NoOwner # o /\ surfaced[o] \in Nat /\ Total(u, log) \in Nat
      BY CountsAreFinite DEF PointerConstants, ErrorsInv, ErrorTypeOK
    <2>2. \A i \in DOMAIN q : Weights(u, q)[i] = 0
      BY <1>4, <1>6, <2>1 DEF Weights, UnseenAbove, IsRow
    <2> HIDE DEF u
    <2>3. Total(u, log') = Total(u, KeptLog) + Total(u, q)
      <3>1. Total(u, KeptLog \o q) = Total(u, KeptLog) + Total(u, q)
        <4>1. u \in Counts(Entry)
          BY <2>1 DEF Counts
        <4>2. KeptLog \in Seq(Entry)
          BY <1>5
        <4> QED BY <1>4, <4>1, <4>2, EntriesConcat
      <3> QED BY <1>7, <3>1
    <2>4. Weights(u, q) \in Counts(DOMAIN q) /\ IsFiniteSet(DOMAIN q)
      <3>1. Weights(u, q) \in Counts(1..Len(q)) /\ DOMAIN q = 1..Len(q) /\ IsFiniteSet(DOMAIN q)
        BY <1>4, <2>1, WeightsType
      <3> QED BY <3>1
    <2>5. Total(u, q) = 0
      BY <2>2, <2>4, TallyOfNone DEF Total
    <2>6. Total(u, KeptLog) = Total(u, log)
      BY <1>5 DEF u
    <2> QED BY <2>1, <2>3, <2>5, <2>6 DEF u
  <1>18. RowsInv'
    <2> DEFINE g == [l \in Legacy |-> IF l \in S THEN 1 ELSE 0]
    <2>1. IsFiniteSet(Legacy) /\ copies \in Counts(Legacy) /\ copies' \in Counts(Legacy)
      BY <1>7 DEF PointerConstants, ErrorsInv, ErrorTypeOK, Counts
    <2>2. g \in [Legacy -> {0, 1}] /\ g \in Counts(Legacy) /\ {l \in Legacy : g[l] = 1} = S
      BY <1>3 DEF Counts
    <2>3. \A l \in Legacy : copies'[l] = copies[l] + g[l]
      BY <1>7, <2>1 DEF Counts
    <2> HIDE DEF g
    <2>4. Tally(copies') = Tally(copies) + Tally(g)
      BY <2>1, <2>2, <2>3, TallyAdds
    <2>5. Tally(g) = Cardinality(S)
      BY <2>1, <2>2, TallyOfOnes
    <2>6. Tally(copies) \in Nat /\ Cardinality(S) \in Nat
      BY <1>4, <2>1, TallyIsFinite, FS_CardinalityType
    <2>7. Cardinality({h \in Hooks : hook[h].at = "written"}) \in Nat
      <3>1. {h \in Hooks : hook[h].at = "written"} \in SUBSET Hooks /\ IsFiniteSet(Hooks)
        BY DEF PointerConstants
      <3> QED BY <3>1, FS_Subset, FS_CardinalityType
    <2> QED BY <1>0, <1>16, <2>4, <2>5, <2>6, <2>7 DEF ErrorsInv, RowsInv
  <1>19. OwnersInv'
    <2>1. \A o : Untold(o)' = Untold(o) /\ PickedCounts(o)' = PickedCounts(o)
      BY <1>0 DEF Untold, ToldRows, Written, PickedCounts
    <2> SUFFICES ASSUME NEW o \in alive'
                 PROVE  Cardinality(Untold(o)') = known'[o].count + muted'[o].count
                          + Tally(PickedCounts(o)') + Total(UnseenAbove(o, surfaced'[o]), log')
      BY DEF OwnersInv
    <2>2. o \in alive /\ o \in Owners
      BY <1>0 DEF ErrorsInv, ErrorTypeOK
    <2>3. surfaced' = surfaced /\ known' = known /\ muted' = muted
      BY <1>0
    <2> QED BY <1>17, <2>1, <2>2, <2>3 DEF ErrorsInv, OwnersInv
  <1>20. \A l \in Legacy : /\ copies[l] \in Nat
                           /\ copies'[l] = IF l \in S THEN copies[l] + 1 ELSE copies[l]
    BY <1>7 DEF ErrorsInv, ErrorTypeOK
  <1>21. MovesInv'
    <2>1. ASSUME NEW l \in Legacy
          PROVE  (\E i \in DOMAIN log' : log'[i].name = l)
                   <=> l \in S \/ \E i \in DOMAIN KeptLog : KeptLog[i].name = l
      <3>1. ASSUME l \in S PROVE \E i \in DOMAIN log' : log'[i].name = l
        <4>1. PICK i \in DOMAIN q : q[i] = Row(l, NoOwner, 0)
          BY <1>4, <3>1
        <4> QED BY <1>6, <1>11, <3>1, <4>1
      <3>2. ASSUME NEW i \in DOMAIN KeptLog, KeptLog[i].name = l PROVE \E j \in DOMAIN log' : log'[j].name = l
        BY <1>11, <3>2
      <3>3. ASSUME NEW i \in DOMAIN log', log'[i].name = l
            PROVE  l \in S \/ \E j \in DOMAIN KeptLog : KeptLog[j].name = l
        BY <1>6, <1>11, <3>3
      <3> QED BY <3>1, <3>2, <3>3
    <2>2. \A l \in Legacy : copies'[l] > 0 <=> (\E i \in DOMAIN log' : log'[i].name = l) \/ l \in halved'
      BY <1>5, <1>20, <2>1
    <2>3. ASSUME NEW r \in Starts, start'[r] = "copied", NEW l \in Legacy PROVE copies'[l] > 0
      <3>1. CASE start[r] = "copied"
        <4>1. copies[l] > 0
          BY <3>1 DEF ErrorsInv, MovesInv
        <4> QED BY <1>20, <4>1
      <3>2. CASE start[r] # "copied"
        <4>1. S = missing
          BY <1>8, <2>3, <3>2 DEF Goes, ErrorsInv, ErrorTypeOK
        <4> QED BY <1>5, <1>9, <1>20, <4>1
      <3> QED BY <3>1, <3>2
    <2> QED BY <2>2, <2>3 DEF MovesInv
  <1>22. LegacyMovesOnce'
    <2>1. ASSUME NEW l \in Legacy, copies'[l] = 0, legacy' = "claimed" PROVE claims' # {}
      BY <1>0, <1>20, <2>1 DEF ErrorsInv, LegacyMovesOnce
    <2>2. ASSUME NEW l \in Legacy, copies'[l] > 1 PROVE l \in halved'
      <3>1. CASE l \in S
        BY <1>3, <1>5, <1>20, <2>2, <3>1
      <3>2. CASE l \notin S
        BY <1>5, <1>20, <2>2, <3>2 DEF ErrorsInv, LegacyMovesOnce
      <3> QED BY <3>1, <3>2
    <2> QED BY <2>1, <2>2 DEF LegacyMovesOnce
  <1>23. EndedInv'
    <2>1. \A i \in DOMAIN log' : log'[i].name \in Hooks => i \in DOMAIN KeptLog /\ log'[i] = KeptLog[i]
      BY <1>6, <1>11
    <2> QED BY <1>0, <1>5, <2>1 DEF ErrorsInv, EndedInv
  <1> QED BY <1>2, <1>13, <1>14, <1>15, <1>18, <1>19, <1>21, <1>22, <1>23 DEF ErrorsInv

-----------------------------------------------------------------------------
(* Steps that tell *)

\* The rows that the next start of o would pick.
Waiting(o) == {log[i].name : i \in {j \in Unshown(o) : IsRow(log[j])}}

\* They were written, after what o has seen.
LEMMA WaitingAre ==
  ASSUME PointerConstants, ErrorsInv, NEW o \in Owners, NEW h \in Waiting(o)
  PROVE  /\ h \in Written(o) /\ hook[h].t > surfaced[o] /\ h \in Hooks
         /\ \E i \in Unshown(o) : hook[h].t = log[i].t
  <1>1. PICK i \in {j \in Unshown(o) : IsRow(log[j])} : h = log[i].name
    BY DEF Waiting
  <1>2. i \in Unshown(o) /\ IsRow(log[i])
    OBVIOUS
  <1>3. /\ log[i].name \in Written(o)
        /\ log[i].t = hook[log[i].name].t /\ log[i].t > surfaced[o]
    BY <1>2, UnshownRows DEF ErrorsInv
  <1> QED BY <1>1, <1>2, <1>3 DEF Written

\* What an owner has not seen is in rows, or in counts.
LEMMA UnseenSplits ==
  ASSUME PointerConstants, ErrorsInv, NEW o \in Owners
  PROVE  /\ Total(UnseenAbove(o, surfaced[o]), log) = Dropped(o) + Cardinality(Waiting(o))
         /\ IsFiniteSet(Waiting(o)) /\ Cardinality(Waiting(o)) \in Nat
  <1> DEFINE D == DOMAIN log
             W == {j \in Unshown(o) : IsRow(log[j])}
             u == UnseenAbove(o, surfaced[o])
             v == NotesAbove(o, surfaced[o])
             g == [i \in D |-> IF i \in W THEN 1 ELSE 0]
             b == [i \in W |-> log[i].name]
  <1>0. /\ log \in Seq(Entry) /\ surfaced[o] \in Nat /\ o # NoOwner
        /\ ErrorTypeOK /\ EntriesInv
    BY DEF ErrorsInv, ErrorTypeOK, PointerConstants
  <1>1. u \in [Entry -> Nat] /\ v \in [Entry -> Nat] /\ Dropped(o) = Total(v, log) /\ Dropped(o) \in Nat
    BY <1>0, CountsAreFinite, DroppedIs
  <1>2. /\ IsFiniteSet(D) /\ Weights(u, log) \in Counts(D) /\ Weights(v, log) \in Counts(D)
    <2> HIDE DEF u, v
    <2>1. IsFiniteSet(DOMAIN log) /\ DOMAIN log = 1..Len(log) /\ Weights(u, log) \in Counts(1..Len(log))
      BY <1>0, <1>1, WeightsType
    <2>2. Weights(v, log) \in Counts(1..Len(log))
      BY <1>0, <1>1, WeightsType
    <2> QED BY <2>1, <2>2
  <1>3. W \in SUBSET D
    BY DEF Unshown
  <1>4. g \in [D -> {0, 1}] /\ g \in Counts(D) /\ {i \in D : g[i] = 1} = W
    <2> HIDE DEF W, D
    <2> QED BY <1>3 DEF Counts
  \* Each entry counts in one of the two ways.
  <1>5. ASSUME NEW i \in D PROVE u[log[i]] = v[log[i]] + g[i]
    <2>1. /\ log[i] \in Entry /\ log[i].t \in Nat /\ log[i].name \in Names
          /\ log[i].unseen \in [Owners -> Nat] /\ log[i].unseen[o] \in Nat
      BY <1>0, EntryParts
    <2>2. /\ u[log[i]] = IF log[i].t <= surfaced[o] THEN 0
                         ELSE IF IsRow(log[i]) THEN (IF log[i].owner = o THEN 1 ELSE 0) ELSE log[i].unseen[o]
          /\ v[log[i]] = IF log[i].t > surfaced[o] THEN log[i].unseen[o] ELSE 0
      BY <2>1 DEF UnseenAbove, NotesAbove
    <2>3. i \in W <=> /\ log[i].t > surfaced[o] /\ IsRow(log[i])
                      /\ (log[i].owner = o \/ log[i].unseen[o] > 0)
      BY DEF Unshown
    <2>4. IsRow(log[i]) => log[i].unseen[o] = 0
      <3>1. CASE log[i].name \in Hooks
        <4>1. log[i] = Row(log[i].name, hook[log[i].name].owner, hook[log[i].name].t)
          BY <1>0, <3>1 DEF EntriesInv, EntriesOf, EntryIs
        <4>a. hook[log[i].name].owner \in Owners \union {NoOwner} /\ hook[log[i].name].t \in Nat
          BY <1>0, <3>1, HookType
        <4>2. log[i].unseen = NoCounts
          BY <3>1, <4>a, <4>1, RowIs DEF Names
        <4> QED BY <4>2 DEF NoCounts
      <3>2. CASE log[i].name \in Legacy
        <4>1. log[i] = Row(log[i].name, NoOwner, 0)
          BY <1>0, <3>2 DEF EntriesInv, EntriesOf, EntryIs
        <4>2. log[i].unseen = NoCounts
          BY <3>2, <4>1, RowIs DEF Names
        <4> QED BY <4>2 DEF NoCounts
      <3> QED BY <2>1, <3>1, <3>2 DEF IsRow, Names
    <2>5. g[i] = IF i \in W THEN 1 ELSE 0
      OBVIOUS
    <2> HIDE DEF W, D, u, v, g
    <2> QED BY <1>0, <2>1, <2>2, <2>3, <2>4, <2>5
  <1>6. Tally(Weights(u, log)) = Tally(Weights(v, log)) + Tally(g)
    <2>1. \A i \in D : Weights(u, log)[i] = Weights(v, log)[i] + g[i]
      <3> HIDE DEF u, v, g
      <3> QED BY <1>5 DEF Weights
    <2> HIDE DEF D, u, v, g
    <2> QED BY <1>2, <1>4, <2>1, TallyAdds
  <1>7. Tally(g) = Cardinality(W)
    <2> HIDE DEF D, W, g
    <2> QED BY <1>2, <1>4, TallyOfOnes
  <1>8. IsFiniteSet(Waiting(o)) /\ Cardinality(Waiting(o)) = Cardinality(W) /\ IsFiniteSet(W)
    <2>1. b \in [W -> Waiting(o)] /\ \A h \in Waiting(o) : \E i \in W : b[i] = h
      BY DEF Waiting
    <2>2. ASSUME NEW i \in W, NEW j \in W, b[i] = b[j] PROVE i = j
      <3>1. i \in Unshown(o) /\ IsRow(log[i]) /\ i \in DOMAIN log /\ j \in DOMAIN log
            /\ log[i].name = log[j].name
        BY <2>2 DEF Unshown
      <3>2. log[i].name \in Hooks
        BY <1>0, <3>1, UnshownRows DEF Written
      <3> HIDE DEF W, b
      <3> QED BY <1>0, <3>1, <3>2 DEF EntriesInv, EntriesOf, OnceIn
    <2>3. IsFiniteSet(W)
      <3> HIDE DEF D, W
      <3> QED BY <1>2, <1>3, FS_Subset
    <2> HIDE DEF W, b
    <2> QED BY <2>1, <2>2, <2>3, PairedSets
  <1>9. Cardinality(Waiting(o)) \in Nat
    BY <1>8, FS_CardinalityType
  <1> HIDE DEF W, g
  <1> QED BY <1>1, <1>6, <1>7, <1>8, <1>9 DEF Total

\* What o has not seen it was not told of either.
LEMMA WaitingAreUntold ==
  ASSUME PointerConstants, ErrorsInv, NEW o \in alive
  PROVE  /\ o \in Owners /\ Waiting(o) \subseteq Untold(o)
         /\ Cardinality(Untold(o) \ Waiting(o))
              = known[o].count + muted[o].count + Tally(PickedCounts(o)) + Dropped(o)
  <1>0. o \in Owners /\ surfaced[o] \in Nat
    BY DEF ErrorsInv, ErrorTypeOK
  <1>1. ASSUME NEW h \in Waiting(o) PROVE h \in Untold(o)
    <2>1. h \in Written(o) /\ hook[h].t > surfaced[o] /\ h \in Hooks
      BY <1>0, WaitingAre
    <2>2. hook[h].t \in Nat
      BY <2>1, HookType DEF ErrorsInv
    <2>3. h \notin ToldRows(o) /\ h \notin late
      BY <1>0, <2>1, <2>2 DEF ErrorsInv, ToldInv
    <2> QED BY <2>1, <2>3 DEF Untold
  <1>2. /\ Total(UnseenAbove(o, surfaced[o]), log) = Dropped(o) + Cardinality(Waiting(o))
        /\ IsFiniteSet(Waiting(o)) /\ Cardinality(Waiting(o)) \in Nat
    BY <1>0, UnseenSplits
  <1>3. Dropped(o) \in Nat /\ IsFiniteSet(Untold(o)) /\ Cardinality(Untold(o)) \in Nat
    BY <1>0, DroppedIs, CountsAreFinite DEF ErrorsInv
  <1>4. Untold(o) \intersect Waiting(o) = Waiting(o)
    BY <1>1
  <1>5. Cardinality(Untold(o) \ Waiting(o)) = Cardinality(Untold(o)) - Cardinality(Waiting(o))
    BY <1>3, <1>4, FS_Difference
  <1>6. Cardinality(Untold(o)) = known[o].count + muted[o].count + Tally(PickedCounts(o))
                                   + Total(UnseenAbove(o, surfaced[o]), log)
    BY DEF ErrorsInv, OwnersInv
  <1>7. known[o].count \in Nat /\ muted[o].count \in Nat /\ Tally(PickedCounts(o)) \in Nat
    BY <1>0, CountsAreFinite
  <1> QED BY <1>0, <1>1, <1>2, <1>3, <1>5, <1>6, <1>7

\* A start that finds nothing picks nothing.
LEMMA NothingToSurface ==
  ASSUME PointerConstants, ErrorsInv, NEW s \in Starts, SurfaceOwn(s), UNCHANGED <<surfaced, picked>>
  PROVE  ErrorsInv'
  <1>0. /\ Goes(s, "own", "ended")
        /\ UNCHANGED <<log, now, hook, surfaced, consumed, alive, legacy, claims, copies, halved, picked,
                       known, muted, ended, late, lateEnded>>
    BY DEF SurfaceOwn, logVars, legacyVars, toldVars
  <1>1. ErrorTypeOK'
    BY SurfaceOwnTypes DEF ErrorsInv
  <1>2. EntriesInv' /\ ToldInv' /\ RowsInv' /\ OwnersInv'
    BY <1>0, QuietKeeps
  <1>3. TimesInv' /\ MovesInv' /\ LegacyMovesOnce'
    BY <1>0 DEF ErrorsInv, TimesInv, MovesInv, LegacyMovesOnce, Goes, ErrorTypeOK
  <1>4. EndedInv'
    BY <1>0 DEF ErrorsInv, EndedInv
  <1> QED BY <1>1, <1>2, <1>3, <1>4 DEF ErrorsInv

\* A start picks: what waited is now carried by its run, and so is the count of
\* what was dropped.
LEMMA SurfaceOwnKeeps ==
  ASSUME PointerConstants, ErrorsInv, NEW s \in Starts, SurfaceOwn(s)
  PROVE  ErrorsInv'
  <1> DEFINE o == StartOwner[s]
             I == Unshown(o)
             n == [rows |-> Waiting(o), count |-> Dropped(o)]
  <1>1. CASE UNCHANGED <<surfaced, picked>>
    BY <1>1, NothingToSurface
  <1>2. CASE /\ o \in alive /\ I # {}
             /\ surfaced' = [surfaced EXCEPT ![o] = LastTime(I)]
             /\ picked' = [picked EXCEPT ![s] = n]
    <2>0. /\ Goes(s, "own", "ended")
          /\ UNCHANGED <<log, now, hook, consumed, alive, legacy, claims, copies, halved,
                         known, muted, ended, late, lateEnded>>
      BY DEF SurfaceOwn, logVars, legacyVars, toldVars
    <2>1. ErrorTypeOK'
      BY SurfaceOwnTypes DEF ErrorsInv
    <2>2. /\ o \in alive /\ o \in Owners /\ surfaced[o] \in Nat /\ now \in Nat
          /\ surfaced \in [Owners -> Nat] /\ picked \in [Starts -> Notice] /\ log \in Seq(Entry)
          /\ n.rows = Waiting(o) /\ n.count = Dropped(o)
      BY <1>2 DEF ErrorsInv, ErrorTypeOK
    <2>3. /\ LastTime(I) \in Nat /\ LastTime(I) < now
          /\ \A i \in I : log[i].t <= LastTime(I) /\ log[i].t > surfaced[o] /\ i \in DOMAIN log
      <3>1. I \in SUBSET DOMAIN log
        BY DEF Unshown
      <3>2. LastTime(I) \in Nat /\ LastTime(I) < now /\ \A i \in I : log[i].t <= LastTime(I)
        <4> HIDE DEF I
        <4> QED BY <1>2, <3>1, LastTimeIs DEF ErrorsInv
      <3>3. \A i \in I : log[i].t > surfaced[o] /\ i \in DOMAIN log
        BY DEF Unshown
      <3> QED BY <3>2, <3>3
    <2>4. surfaced[o] <= LastTime(I)
      <3>1. PICK i \in I : TRUE
        BY <1>2
      <3>2. log[i].t \in Nat
        BY <2>2, <2>3, EntryParts
      <3> HIDE DEF I
      <3> QED BY <2>2, <2>3, <3>2
    <2>5. I = Unshown(o)
      OBVIOUS
    <2> HIDE DEF I
    <2>6. /\ surfaced'[o] = LastTime(I) /\ \A p \in Owners : p # o => surfaced'[p] = surfaced[p]
      BY <1>2, <2>2
    <2>7. /\ picked'[s] = n /\ \A r \in Starts : r # s => picked'[r] = picked[r]
      <3> HIDE DEF n
      <3> QED BY <1>2, <2>2
    <2>8. picked[s] = Nothing /\ start[s] = "own"
      BY <2>0 DEF Goes, ErrorsInv, TimesInv
    <2>9. EntriesInv'
      BY <2>0 DEF ErrorsInv, EntriesInv
    <2>10. TimesInv'
      <3>1. \A p \in Owners : surfaced'[p] < now'
        BY <2>0, <2>3, <2>6 DEF ErrorsInv, TimesInv
      <3>2. \A r \in Starts : start'[r] \in {"new", "claimed", "copied", "own", "gone"} => picked'[r] = Nothing
        BY <2>0, <2>7 DEF ErrorsInv, TimesInv, Goes, ErrorTypeOK
      <3> QED BY <2>0, <3>1, <3>2 DEF ErrorsInv, TimesInv
    \* The run's owner is told of what waited for it; the others of nothing.
    <2>11. ToldRows(o)' = ToldRows(o) \union Waiting(o)
      <3>1. s \in RunsOf(o) /\ RunsOf(o) \subseteq Starts
        BY DEF RunsOf
      <3>2. \A r \in RunsOf(o) : picked'[r].rows = IF r = s THEN Waiting(o) ELSE picked[r].rows
        BY <2>2, <2>7, <3>1
      <3>3. picked[s].rows = {}
        BY <2>8, NoticeParts
      <3> HIDE DEF o, n
      <3>4. \A h : h \in ToldRows(o) <=> \/ h \in known[o].rows \/ h \in muted[o].rows
                                        \/ \E r \in RunsOf(o) : h \in picked[r].rows
        BY DEF ToldRows
      <3>5. \A h : h \in ToldRows(o)' <=> \/ h \in known[o].rows \/ h \in muted[o].rows
                                         \/ \E r \in RunsOf(o) : h \in picked'[r].rows
        BY <2>0 DEF ToldRows
      <3>6. \A h : (\E r \in RunsOf(o) : h \in picked'[r].rows)
                     <=> (\E r \in RunsOf(o) : h \in picked[r].rows) \/ h \in Waiting(o)
        BY <3>1, <3>2, <3>3
      <3>7. \A h : h \in ToldRows(o)' <=> h \in ToldRows(o) \/ h \in Waiting(o)
        BY <3>4, <3>5, <3>6
      <3> QED BY <3>7
    <2>12. ASSUME NEW p \in Owners, p # o
           PROVE  ToldRows(p)' = ToldRows(p) /\ PickedCounts(p)' = PickedCounts(p)
      <3>1. \A r \in RunsOf(p) : picked'[r] = picked[r]
        BY <2>7, <2>12 DEF RunsOf
      <3> QED BY <2>0, <3>1 DEF ToldRows, PickedCounts
    <2>13. \A p : Written(p)' = Written(p)
      BY <2>0 DEF Written
    <2> HIDE DEF o, n
    <2>14. ToldInv'
      <3>0. ToldInv /\ alive \subseteq Owners /\ late \subseteq Hooks
        BY DEF ErrorsInv, ErrorTypeOK
      <3>1. ASSUME NEW p \in alive', NEW h \in Hooks, hook[h].t <= surfaced[p]
            PROVE  hook'[h].t <= surfaced'[p]
        <4>1. p \in Owners /\ surfaced[p] \in Nat /\ hook[h].t \in Nat
          BY <2>0, <2>2, <3>0, HookType DEF ErrorsInv
        <4> QED BY <2>0, <2>2, <2>3, <2>4, <2>6, <3>1, <4>1
      <3>2. ASSUME NEW p \in alive', NEW h \in ToldRows(p)'
            PROVE  h \in Written(p)' /\ hook'[h].t <= surfaced'[p] /\ h \notin late'
        <4>1. CASE h \in ToldRows(p)
          <5>1. h \in Written(p) /\ hook[h].t <= surfaced[p] /\ h \notin late /\ h \in Hooks
            BY <2>0, <3>0, <4>1 DEF ToldInv, Written
          <5> QED BY <2>0, <2>13, <3>1, <5>1
        <4>2. CASE h \notin ToldRows(p)
          <5>1. p = o /\ h \in Waiting(o)
            BY <2>0, <2>11, <2>12, <3>0, <3>2, <4>2
          <5>2. h \in Written(o) /\ h \in Hooks /\ \E i \in I : hook[h].t = log[i].t
            BY <2>2, <2>5, <5>1, WaitingAre
          <5>3. h \notin late
            BY <2>2, <5>1, WaitingAreUntold DEF Untold
          <5>4. hook'[h].t <= surfaced'[o]
            BY <2>0, <2>3, <2>6, <5>2
          <5> QED BY <2>0, <2>13, <5>1, <5>2, <5>3, <5>4
        <4> QED BY <4>1, <4>2
      <3>3. ASSUME NEW p \in alive', NEW h \in late', h \in Written(p)' PROVE hook'[h].t <= surfaced'[p]
        <4>1. h \in Hooks /\ hook[h].t <= surfaced[p]
          BY <2>0, <2>13, <3>0, <3>3 DEF ToldInv
        <4> QED BY <3>1, <4>1
      <3>4. \A h \in late' : hook'[h].at = "written"
        BY <2>0, <3>0 DEF ToldInv
      <3> QED BY <3>2, <3>3, <3>4 DEF ToldInv
    <2>15. RowsInv'
      BY <2>0 DEF ErrorsInv, RowsInv
    <2>16. OwnersInv'
      <3> SUFFICES ASSUME NEW p \in alive'
                   PROVE  Cardinality(Untold(p)') = known'[p].count + muted'[p].count
                            + Tally(PickedCounts(p)') + Total(UnseenAbove(p, surfaced'[p]), log')
        BY DEF OwnersInv
      <3>0. p \in alive /\ p \in Owners /\ log' = log /\ known' = known /\ muted' = muted
        BY <2>0 DEF ErrorsInv, ErrorTypeOK
      <3>1. CASE p # o
        <4>1. Untold(p)' = Untold(p) /\ PickedCounts(p)' = PickedCounts(p) /\ surfaced'[p] = surfaced[p]
          BY <2>0, <2>6, <2>12, <2>13, <3>0, <3>1 DEF Untold
        <4> QED BY <3>0, <4>1 DEF ErrorsInv, OwnersInv
      <3>2. CASE p = o
        <4>1. Untold(o)' = Untold(o) \ Waiting(o)
          BY <2>0, <2>11, <2>13 DEF Untold
        <4>2. Cardinality(Untold(o) \ Waiting(o))
                = known[o].count + muted[o].count + Tally(PickedCounts(o)) + Dropped(o)
          BY <2>2, WaitingAreUntold
        <4>3. /\ s \in RunsOf(o) /\ IsFiniteSet(RunsOf(o)) /\ RunsOf(o) \subseteq Starts
              /\ PickedCounts(o) \in Counts(RunsOf(o)) /\ Tally(PickedCounts(o)) \in Nat
              /\ Dropped(o) \in Nat
          <5>1. s \in RunsOf(o)
            BY DEF RunsOf, o
          <5> QED BY <2>2, <5>1, RunsAreFinite, CountsAreFinite, DroppedIs DEF ErrorsInv
        <4>4. PickedCounts(o)' \in Counts(RunsOf(o))
          <5>1. \A r \in RunsOf(o) : picked'[r].count \in Nat
            BY <2>1, <4>3, NoticeParts DEF ErrorTypeOK
          <5> QED BY <5>1 DEF PickedCounts, Counts
        <4>5. /\ PickedCounts(o)[s] = 0 /\ PickedCounts(o)'[s] = Dropped(o)
              /\ \A r \in RunsOf(o) : r # s => PickedCounts(o)[r] = PickedCounts(o)'[r]
          BY <2>2, <2>7, <2>8, <4>3, NoticeParts DEF PickedCounts
        <4>6. Tally(PickedCounts(o)) + Dropped(o) = Tally(PickedCounts(o)') + 0
          <5> DEFINE f == PickedCounts(o)
                     g == PickedCounts(o)'
          <5> HIDE DEF f, g
          <5>1. /\ f \in Counts(RunsOf(o)) /\ g \in Counts(RunsOf(o)) /\ f[s] = 0 /\ g[s] = Dropped(o)
                /\ \A r \in RunsOf(o) : r # s => f[r] = g[r]
            BY <4>3, <4>4, <4>5 DEF f, g
          <5>2. Tally(f) + g[s] = Tally(g) + f[s]
            BY <4>3, <5>1, TallyOfChange
          <5> QED BY <5>1, <5>2 DEF f, g
        <4>7. Tally(PickedCounts(o)') \in Nat
          BY <4>3, <4>4, TallyIsFinite
        <4>8. Total(UnseenAbove(o, surfaced'[o]), log) = 0
          <5> DEFINE u == UnseenAbove(o, surfaced'[o])
          <5>1. surfaced'[o] \in Nat
            BY <2>3, <2>6
          <5>2. u \in [Entry -> Nat]
            BY <2>2, <5>1, UnseenType
          <5>3. ASSUME NEW i \in DOMAIN log PROVE u[log[i]] = 0
            <6>1. /\ log[i] \in Entry /\ log[i].t \in Nat /\ log[i].unseen[o] \in Nat
              BY <2>2, EntryParts
            <6>2. u[log[i]] = IF log[i].t <= surfaced'[o] THEN 0
                              ELSE IF IsRow(log[i]) THEN (IF log[i].owner = o THEN 1 ELSE 0) ELSE log[i].unseen[o]
              BY <6>1 DEF UnseenAbove
            <6>3. CASE i \in I
              BY <2>3, <2>6, <6>2, <6>3
            <6>4. CASE i \notin I
              <7>1. log[i].t <= surfaced[o] \/ (log[i].owner # o /\ log[i].unseen[o] = 0)
                BY <2>2, <2>5, <6>1, <6>4 DEF Unshown
              <7>2. log[i].t <= surfaced[o] => log[i].t <= surfaced'[o]
                BY <2>2, <2>3, <2>4, <2>6, <6>1
              <7> HIDE DEF u
              <7> QED BY <6>2, <7>1, <7>2
            <6> QED BY <6>3, <6>4
          <5> HIDE DEF u
          <5>4. Weights(u, log) \in Counts(DOMAIN log) /\ IsFiniteSet(DOMAIN log)
            <6>1. Weights(u, log) \in Counts(1..Len(log)) /\ DOMAIN log = 1..Len(log) /\ IsFiniteSet(DOMAIN log)
              BY <2>2, <5>2, WeightsType
            <6> QED BY <6>1
          <5>5. \A i \in DOMAIN log : Weights(u, log)[i] = 0
            BY <5>3 DEF Weights
          <5>6. Total(u, log) = 0
            BY <5>4, <5>5, TallyOfNone DEF Total
          <5> QED BY <5>6 DEF u
        <4>9. known[o].count \in Nat /\ muted[o].count \in Nat
          BY <2>2, CountsAreFinite
        <4> QED BY <3>0, <3>2, <4>1, <4>2, <4>3, <4>6, <4>7, <4>8, <4>9
      <3> QED BY <3>1, <3>2
    <2>17. MovesInv' /\ LegacyMovesOnce'
      BY <2>0 DEF ErrorsInv, MovesInv, LegacyMovesOnce, Goes, ErrorTypeOK
    <2>18. EndedInv'
      BY <2>0 DEF ErrorsInv, EndedInv
    <2> QED BY <2>1, <2>9, <2>10, <2>14, <2>15, <2>16, <2>17, <2>18 DEF ErrorsInv
  <1>3. \/ UNCHANGED <<surfaced, picked>>
        \/ /\ o \in alive /\ I # {}
           /\ surfaced' = [surfaced EXCEPT ![o] = LastTime(I)]
           /\ picked' = [picked EXCEPT ![s] = n]
    BY DEF SurfaceOwn, Waiting
  <1> QED BY <1>1, <1>2, <1>3

\* A run that leaves, having printed or not, hands what it picked on.
LEMMA LeaveKeeps ==
  ASSUME PointerConstants, ErrorsInv, NEW s \in Starts, PrintAll(s) \/ Killed(s)
  PROVE  ErrorsInv'
  <1> DEFINE o == StartOwner[s]
  <1>0. /\ start' = [start EXCEPT ![s] = "gone"] /\ picked' = [picked EXCEPT ![s] = Nothing]
        /\ UNCHANGED <<log, now, hook, surfaced, consumed, alive, legacy, claims, copies, halved,
                       ended, late, lateEnded>>
    BY DEF PrintAll, Killed, Leaves, logVars, legacyVars
  <1>1. ErrorTypeOK'
    BY LeaveTypes DEF ErrorsInv
  <1>2. /\ picked'[s] = Nothing /\ (\A r \in Starts : r # s => picked'[r] = picked[r])
        /\ start'[s] = "gone" /\ (\A r \in Starts : r # s => start'[r] = start[r])
        /\ o \in Owners /\ picked[s] \in Notice
        /\ known \in [Owners -> Notice] /\ muted \in [Owners -> Notice]
    BY <1>0 DEF ErrorsInv, ErrorTypeOK, PointerConstants
  <1>3. /\ known'[o].rows \union muted'[o].rows = known[o].rows \union muted[o].rows \union picked[s].rows
        /\ known'[o].count + muted'[o].count = known[o].count + muted[o].count + picked[s].count
        /\ \A p \in Owners : p # o => known'[p] = known[p] /\ muted'[p] = muted[p]
    <2>0. /\ known[o].count \in Nat /\ muted[o].count \in Nat /\ picked[s].count \in Nat
      BY <1>2, NoticeParts
    <2>1. \A told \in [Owners -> Notice] :
            /\ \A p \in Owners : p # o => With(told, s)[p] = told[p]
            /\ With(told, s)[o].rows = told[o].rows \union picked[s].rows
            /\ With(told, s)[o].count = told[o].count + picked[s].count
      BY WithIs DEF ErrorsInv
    <2> HIDE DEF o
    <2>2. CASE known' = With(known, s) /\ muted' = muted
      <3>1. /\ known'[o].rows = known[o].rows \union picked[s].rows
            /\ known'[o].count = known[o].count + picked[s].count
            /\ \A p \in Owners : p # o => known'[p] = known[p]
        BY <1>2, <2>1, <2>2
      <3>2. known'[o].rows \union muted'[o].rows = known[o].rows \union muted[o].rows \union picked[s].rows
        BY <2>2, <3>1
      <3>3. known'[o].count + muted'[o].count = known[o].count + muted[o].count + picked[s].count
        BY <2>0, <2>2, <3>1
      <3> QED BY <2>2, <3>1, <3>2, <3>3
    <2>3. CASE muted' = With(muted, s) /\ known' = known
      <3>1. /\ muted'[o].rows = muted[o].rows \union picked[s].rows
            /\ muted'[o].count = muted[o].count + picked[s].count
            /\ \A p \in Owners : p # o => muted'[p] = muted[p]
        BY <1>2, <2>1, <2>3
      <3>2. known'[o].rows \union muted'[o].rows = known[o].rows \union muted[o].rows \union picked[s].rows
        BY <2>3, <3>1
      <3>3. known'[o].count + muted'[o].count = known[o].count + muted[o].count + picked[s].count
        BY <2>0, <2>3, <3>1
      <3> QED BY <2>3, <3>1, <3>2, <3>3
    <2> QED BY <2>2, <2>3 DEF PrintAll, Killed
  <1>4. s \in RunsOf(o) /\ IsFiniteSet(RunsOf(o)) /\ RunsOf(o) \subseteq Starts
    BY RunsAreFinite DEF RunsOf
  <1>5. \A p \in Owners : \A r \in RunsOf(p) : p # o => picked'[r] = picked[r]
    BY <1>2 DEF RunsOf
  <1> HIDE DEF o
  <1>6. ToldRows(o)' = ToldRows(o)
    <2>1. \A h : h \in ToldRows(o) <=> \/ h \in known[o].rows \union muted[o].rows
                                       \/ \E r \in RunsOf(o) : h \in picked[r].rows
      BY DEF ToldRows
    <2>2. \A h : h \in ToldRows(o)' <=> \/ h \in known'[o].rows \union muted'[o].rows
                                        \/ \E r \in RunsOf(o) : h \in picked'[r].rows
      BY DEF ToldRows
    <2>3. \A h : (\E r \in RunsOf(o) : h \in picked[r].rows)
                   <=> (\E r \in RunsOf(o) : h \in picked'[r].rows) \/ h \in picked[s].rows
      <3>1. picked'[s].rows = {}
        BY <1>2, NoticeParts
      <3> QED BY <1>2, <1>4, <3>1
    <2>4. \A h : h \in known'[o].rows \union muted'[o].rows
                   <=> h \in known[o].rows \union muted[o].rows \/ h \in picked[s].rows
      BY <1>3
    <2>5. \A h : h \in ToldRows(o)' <=> h \in ToldRows(o)
      BY <2>1, <2>2, <2>3, <2>4
    <2> QED BY <2>5
  <1>7. \A p \in Owners : ToldRows(p)' = ToldRows(p) /\ Written(p)' = Written(p) /\ Untold(p)' = Untold(p)
    <2> SUFFICES ASSUME NEW p \in Owners
                 PROVE  ToldRows(p)' = ToldRows(p) /\ Written(p)' = Written(p) /\ Untold(p)' = Untold(p)
      OBVIOUS
    <2>1. Written(p)' = Written(p)
      BY <1>0 DEF Written
    <2>2. ToldRows(p)' = ToldRows(p)
      <3>1. CASE p = o
        BY <1>6, <3>1
      <3>2. CASE p # o
        BY <1>3, <1>5, <3>2 DEF ToldRows
      <3> QED BY <3>1, <3>2
    <2> QED BY <1>0, <2>1, <2>2 DEF Untold
  <1>8. EntriesInv' /\ RowsInv'
    BY <1>0 DEF ErrorsInv, EntriesInv, RowsInv
  <1>9. TimesInv'
    BY <1>0, <1>2 DEF ErrorsInv, TimesInv
  <1>10. alive \subseteq Owners
    BY DEF ErrorsInv, ErrorTypeOK
  <1>11. ToldInv'
    BY <1>0, <1>7, <1>10 DEF ErrorsInv, ToldInv
  <1>12. OwnersInv'
    <2> SUFFICES ASSUME NEW p \in alive'
                 PROVE  Cardinality(Untold(p)') = known'[p].count + muted'[p].count
                          + Tally(PickedCounts(p)') + Total(UnseenAbove(p, surfaced'[p]), log')
      BY DEF OwnersInv
    <2>1. p \in alive /\ p \in Owners /\ log' = log /\ surfaced' = surfaced /\ Untold(p)' = Untold(p)
      BY <1>0, <1>7, <1>10
    <2>2. Cardinality(Untold(p)) = known[p].count + muted[p].count
            + Tally(PickedCounts(p)) + Total(UnseenAbove(p, surfaced[p]), log)
      BY <2>1 DEF ErrorsInv, OwnersInv
    <2>3. CASE p # o
      <3>1. PickedCounts(p)' = PickedCounts(p)
        BY <1>5, <2>1, <2>3 DEF PickedCounts
      <3> QED BY <1>3, <2>1, <2>2, <2>3, <3>1
    <2>4. CASE p = o
      <3> DEFINE f == PickedCounts(o)
                 g == PickedCounts(o)'
      <3>1. f \in Counts(RunsOf(o)) /\ Tally(f) \in Nat /\ known[o].count \in Nat /\ muted[o].count \in Nat
        BY <1>2, CountsAreFinite
      <3>2. g \in Counts(RunsOf(o))
        <4>1. \A r \in RunsOf(o) : picked'[r].count \in Nat
          BY <1>1, <1>4, NoticeParts DEF ErrorTypeOK
        <4> QED BY <4>1 DEF PickedCounts, Counts
      <3>3. g[s] = 0 /\ f[s] = picked[s].count /\ \A r \in RunsOf(o) : r # s => f[r] = g[r]
        BY <1>2, <1>4, NoticeParts DEF PickedCounts
      <3> HIDE DEF f, g
      <3>4. Tally(f) + g[s] = Tally(g) + f[s]
        BY <1>4, <3>1, <3>2, <3>3, TallyOfChange
      <3>5. Tally(g) \in Nat /\ picked[s].count \in Nat
        BY <1>2, <1>4, <3>2, TallyIsFinite, NoticeParts
      <3>6. Total(UnseenAbove(o, surfaced[o]), log) \in Nat
        BY <1>2, CountsAreFinite
      <3>7. known'[o].count \in Nat /\ muted'[o].count \in Nat
        BY <1>1, <1>2, NoticeParts DEF ErrorTypeOK
      <3>8. known'[o].count + muted'[o].count + Tally(g) = known[o].count + muted[o].count + Tally(f)
        BY <1>3, <3>1, <3>3, <3>4, <3>5, <3>7
      <3> QED BY <2>1, <2>2, <2>4, <3>8 DEF f, g
    <2> QED BY <2>3, <2>4
  <1>13. MovesInv'
    BY <1>0, <1>2 DEF ErrorsInv, MovesInv
  <1>14. LegacyMovesOnce'
    BY <1>0 DEF ErrorsInv, LegacyMovesOnce
  <1>15. EndedInv'
    BY <1>0 DEF ErrorsInv, EndedInv
  <1> QED BY <1>1, <1>8, <1>9, <1>11, <1>12, <1>13, <1>14, <1>15 DEF ErrorsInv

-----------------------------------------------------------------------------

\* A step that changes nothing.
LEMMA StutterErrorsInv == ASSUME ErrorsInv, UNCHANGED errorVars PROVE ErrorsInv'
  <1>0. UNCHANGED <<log, now, hook, surfaced, consumed, alive, legacy, claims, copies, halved, start, picked,
                    known, muted, ended, late, lateEnded, slips>>
    BY DEF errorVars, logVars, legacyVars, startVars, toldVars
  <1>1. ErrorTypeOK'
    BY <1>0 DEF ErrorsInv, ErrorTypeOK
  <1>2. EntriesInv' /\ ToldInv' /\ RowsInv' /\ OwnersInv'
    BY <1>0, QuietKeeps
  <1>3. TimesInv' /\ MovesInv' /\ LegacyMovesOnce' /\ EndedInv'
    BY <1>0 DEF ErrorsInv, TimesInv, MovesInv, LegacyMovesOnce, EndedInv
  <1> QED BY <1>1, <1>2, <1>3 DEF ErrorsInv

\* Every step keeps the invariant.
LEMMA NextErrorsInv == ErrorsInv /\ [ErrorNext]_errorVars => ErrorsInv'
  <1> SUFFICES ASSUME ErrorsInv, [ErrorNext]_errorVars PROVE ErrorsInv'
    OBVIOUS
  <1>0. PointerConstants
    BY PointerConstants
  <1>1. ASSUME NEW h \in Hooks, Stamp(h) PROVE ErrorsInv'
    BY <1>0, <1>1, StampKeeps
  <1>2. ASSUME NEW h \in Hooks, AppendRow(h) PROVE ErrorsInv'
    BY <1>0, <1>2, AppendRowKeeps
  <1>3. ASSUME NEW h \in Hooks, AppendFails(h) PROVE ErrorsInv'
    BY <1>0, <1>3, AppendFailsKeeps
  <1>4. ASSUME NEW o \in Owners, OwnerEnds(o) PROVE ErrorsInv'
    BY <1>0, <1>4, OwnerEndsKeeps
  <1>5. ASSUME NEW s \in Starts, Claim(s) PROVE ErrorsInv'
    BY <1>0, <1>5, ClaimKeeps
  <1>6. ASSUME NEW s \in Starts, CopyLegacy(s) PROVE ErrorsInv'
    BY <1>0, <1>6, CopyLegacyKeeps
  <1>7. ASSUME NEW s \in Starts, EndClaim(s) PROVE ErrorsInv'
    BY <1>0, <1>7, EndClaimKeeps
  <1>8. ASSUME NEW s \in Starts, SurfaceOwn(s) PROVE ErrorsInv'
    BY <1>0, <1>8, SurfaceOwnKeeps
  <1>9. ASSUME NEW s \in Starts, SurfaceEnded(s) PROVE ErrorsInv'
    BY <1>0, <1>9, SurfaceEndedKeeps
  <1>10. ASSUME NEW s \in Starts, Prune(s) PROVE ErrorsInv'
    BY <1>0, <1>10, PruneKeeps
  <1>11. ASSUME NEW s \in Starts, PrintAll(s) \/ Killed(s) PROVE ErrorsInv'
    BY <1>0, <1>11, LeaveKeeps
  <1>12. ASSUME UNCHANGED errorVars PROVE ErrorsInv'
    BY <1>12, StutterErrorsInv
  <1> QED BY <1>1, <1>2, <1>3, <1>4, <1>5, <1>6, <1>7, <1>8, <1>9, <1>10, <1>11, <1>12 DEF ErrorNext

\* The properties follow.
LEMMA ToldIs ==
  ASSUME NEW o
  PROVE  UNION {n.rows : n \in ToldTo(o)} = ToldRows(o)
  <1>1. \A n : n \in ToldTo(o) <=> n = known[o] \/ n = muted[o] \/ \E s \in RunsOf(o) : n = picked[s]
    BY DEF ToldTo, RunsOf
  <1>2. \A h : h \in UNION {n.rows : n \in ToldTo(o)} <=> \E n \in ToldTo(o) : h \in n.rows
    OBVIOUS
  <1>3. \A h : h \in ToldRows(o) <=> \/ h \in known[o].rows \/ h \in muted[o].rows
                                     \/ \E s \in RunsOf(o) : h \in picked[s].rows
    BY DEF ToldRows
  <1>4. \A h : h \in UNION {n.rows : n \in ToldTo(o)} <=> h \in ToldRows(o)
    BY <1>1, <1>2, <1>3
  <1> QED BY <1>4

\* The property follows from it.
LEMMA ErrorsInvAccounts == ErrorsInv => ErrorRowsAccounted
  <1> SUFFICES ASSUME ErrorsInv PROVE ErrorRowsAccounted
    OBVIOUS
  <1>0. PointerConstants
    BY PointerConstants
  <1>1. RowsAreCounted
    <2>1. log \in Seq(Entry)
      BY DEF ErrorsInv, ErrorTypeOK
    <2> QED BY <2>1, SumsAre DEF ErrorsInv, RowsInv, RowsAreCounted
  <1>2. OwnersAreTold
    <2> SUFFICES ASSUME NEW o \in alive
                 PROVE  LET told == UNION {n.rows : n \in ToldTo(o)}
                            counted == known[o].count + muted[o].count + Dropped(o)
                              + Tally([s \in {t \in Starts : StartOwner[t] = o} |-> picked[s].count])
                        IN /\ Waiting(o) \intersect told = {} /\ (Waiting(o) \union told) \intersect late = {}
                           /\ Cardinality(Written(o) \ (Waiting(o) \union told \union late)) = counted
      BY DEF OwnersAreTold, Waiting
    <2>1. /\ o \in Owners /\ Waiting(o) \subseteq Untold(o)
          /\ Cardinality(Untold(o) \ Waiting(o))
               = known[o].count + muted[o].count + Tally(PickedCounts(o)) + Dropped(o)
      BY <1>0, WaitingAreUntold
    <2>2. Waiting(o) \intersect ToldRows(o) = {} /\ (Waiting(o) \union ToldRows(o)) \intersect late = {}
      BY <2>1 DEF Untold, ErrorsInv, ToldInv
    <2>3. Written(o) \ (Waiting(o) \union ToldRows(o) \union late) = Untold(o) \ Waiting(o)
      BY DEF Untold
    <2>4. [s \in {t \in Starts : StartOwner[t] = o} |-> picked[s].count] = PickedCounts(o)
      BY DEF PickedCounts, RunsOf
    <2>5. /\ known[o].count \in Nat /\ muted[o].count \in Nat /\ Tally(PickedCounts(o)) \in Nat
          /\ Dropped(o) \in Nat
      BY <1>0, <2>1, CountsAreFinite, DroppedIs DEF ErrorsInv
    <2>6. Cardinality(Untold(o) \ Waiting(o))
            = known[o].count + muted[o].count + Dropped(o) + Tally(PickedCounts(o))
      BY <2>1, <2>5
    <2> QED BY <2>2, <2>3, <2>4, <2>6, ToldIs
  <1>3. EndedAreShownOnce
    <2> SUFFICES ASSUME NEW h \in Hooks
                 PROVE  /\ ended[h] <= 1
                        /\ ended[h] = 1 => hook[h].owner \notin alive
                        /\ \A i \in DOMAIN log : log[i].name = h /\ log[i].owner # NoOwner /\ ended[h] = 0 =>
                             h \in lateEnded \/ log[i].t > consumed[log[i].owner]
      BY DEF EndedAreShownOnce
    <2>1. EndedInv
      BY DEF ErrorsInv
    <2> QED BY <2>1 DEF EndedInv
  <1> QED BY <1>1, <1>2, <1>3 DEF ErrorsInv, ErrorRowsAccounted

\* The invariant holds of every state.
LEMMA ErrorsInvariant == ErrorSpec => []ErrorsInv
  <1>1. ErrorInit => ErrorsInv
    BY PointerConstants, InitErrorsInv
  <1> QED BY <1>1, NextErrorsInv, PTL DEF ErrorSpec

\* The types of the log and of what its readers have seen. (stm.py)
THEOREM ErrorTypeCorrect == ErrorSpec => []ErrorTypeOK
  <1>1. ErrorsInv => ErrorTypeOK
    BY DEF ErrorsInv
  <1> QED BY <1>1, ErrorsInvariant, PTL

\* Every recorded error is in the log or counted, an owner that runs is shown
\* each of its rows once or told how many were dropped, the root is shown the
\* rest once, and an old log is moved once. (stm.py:457-462, 717-796, 878-973)
THEOREM ErrorsAreAccounted == ErrorSpec => []ErrorRowsAccounted
  BY ErrorsInvariant, ErrorsInvAccounts, PTL

-----------------------------------------------------------------------------
(* THE PARTS SIDE BY SIDE *)

\* What the composition lets the bus do are steps of the bus.
LEMMA BusStepIsOne == BusNext => Next
  <1>1. (\E m \in Messages : Insert(m)) => Publish
    BY DEF Publish
  <1> QED BY <1>1 DEF BusNext, Next

\* A behaviour of one part is one of every part: the others rest.
LEMMA EachPartKeepsItsSpec ==
  MCSpec => Spec /\ RefineSpec /\ VectorSpec /\ ErrorSpec /\ RotationSpec /\ WorkersSpec
  <1>1. MCInit => /\ Init /\ RefineInit /\ VectorInit
                  /\ ErrorInit /\ RotationInit /\ WorkersInit
    BY DEF MCInit
  <1>2. ASSUME [MCNext]_<<vars, refineVars, vectorVars, errorVars, rotationVars, workerVars, side>>
        PROVE  /\ [Next]_vars /\ [RefineNext]_refineVars /\ [VectorNext]_vectorVars
               /\ [ErrorNext]_errorVars /\ [RotationNext]_rotationVars
               /\ [WorkersNext]_workerVars
    BY <1>2, BusStepIsOne DEF MCNext, ErrorsNext, SlotsNext, ClientsNext
  <1> QED BY <1>1, <1>2, PTL
          DEF MCSpec, Spec, RefineSpec, VectorSpec, ErrorSpec, RotationSpec, WorkersSpec

(***************************************************************************)
(* The type invariant of the model-checked composition, which says of each *)
(* behaviour what its own part says, for every instance and not only the   *)
(* one that is checked.                                                    *)
(***************************************************************************)
THEOREM PartsTypeCorrect == MCSpec => []TypesOK
  <1>1. TypeOK /\ RefineTypeOK /\ VectorTypeOK /\ ErrorTypeOK /\ RotationTypeOK /\ WorkerTypeOK
        => TypesOK
    BY DEF TypesOK
  <1> QED BY <1>1, EachPartKeepsItsSpec, BusTypeCorrect, RefineTypeCorrect, VectorTypeCorrect,
             ErrorTypeCorrect, SlotsTypeCorrect, WorkerTypeCorrect, PTL
=============================================================================
