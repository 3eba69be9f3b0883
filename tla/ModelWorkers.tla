---------------------------- MODULE ModelWorkers ----------------------------
(***************************************************************************)
(* The model processes of one role (modelsrv.py, subproc.py, daemon.py):   *)
(* the hub keeps one client for the fleet in a table, and a daemon that    *)
(* found no hub keeps a private one.  A call takes the client it finds and *)
(* uses it later, under the client's own lock; by then the idle tick, a    *)
(* call that lost its process, or the daemon's change to the hub's worker  *)
(* may have closed it.  A closed client starts a new process for whoever   *)
(* calls it, unless it is retired.                                         *)
(***************************************************************************)
EXTENDS Integers, SequencesExt

CONSTANTS
  Calls,
  NoCall,
  Shared,      \* what the daemon keeps once it uses the hub's worker
  MaxClients,  \* bound on clients made
  MaxDeaths    \* bound on processes that die or answer too late

ASSUME WorkerConstants ==
  /\ NoCall \notin Calls
  /\ MaxClients \in Nat /\ MaxDeaths \in Nat
  /\ Shared \notin 0..MaxClients

VARIABLES
  worker,    \* of a client: its process, pipe, header, lock
  made,      \* clients made; 0 stands for no client
  hubs,      \* the client in the hub's table
  private,   \* the daemon's
  adoption,  \* its change to the hub's worker: where it is, and the client it replaces
  down,      \* the daemon shuts down
  call,      \* of a call: where it is, its client, the requests it still makes
  tick,      \* the hub's idle tick: where it is, and its client
  deaths,
  \* History, for the properties only.
  strays,    \* clients that live when nobody knows them, and for which there is a cause
  crossed    \* a call read what answers another frame

workerVars == <<worker, made, hubs, private, adoption, down, call, tick, deaths, strays, crossed>>

Clients == 1..MaxClients
Requests == {"score", "ask", "info"}

\* No client, called by nobody.
NewWorker ==
  [home |-> "none", state |-> "none", pipe |-> <<>>, header |-> FALSE,
   lock |-> NoCall, retired |-> FALSE]
Resting == [at |-> "idle", client |-> 0, todo |-> <<>>]

WorkerTypeOK ==
  /\ worker \in [Clients -> [home : {"none", "hub", "daemon"}, state : {"none", "up", "dead"},
                             pipe : Seq(Calls \X Requests), header : BOOLEAN,
                             lock : Calls \union {NoCall}, retired : BOOLEAN]]
  /\ made \in 0..MaxClients
  /\ hubs \in 0..made /\ private \in 0..made \union {Shared}
  /\ adoption \in [at : {"idle", "probing", "swapped"}, client : 0..made] /\ down \in BOOLEAN
  /\ call \in [Calls -> [at : {"idle", "waiting", "first", "second", "refilling", "refill",
                               "dropping", "closing"},
                         client : 0..made, todo : Seq(Requests)]]
  /\ tick \in [at : {"idle", "seen", "forgetting"}, client : 0..made]
  /\ deaths \in 0..MaxDeaths
  /\ strays \subseteq Clients /\ crossed \in BOOLEAN

WorkersInit ==
  /\ worker = [w \in Clients |-> NewWorker]
  /\ made = 0 /\ hubs = 0 /\ private = 0
  /\ adoption = [at |-> "idle", client |-> 0] /\ down = FALSE
  /\ call = [c \in Calls |-> Resting]
  /\ tick = [at |-> "idle", client |-> 0]
  /\ deaths = 0 /\ strays = {} /\ crossed = FALSE

-----------------------------------------------------------------------------
(* The client (subproc.py) *)

IsFree(w) == worker[w].lock = NoCall
IsUp(w) == worker[w].state = "up"

\* close: the process and what is in its pipe go, and the header with them.
Closed(w) == [worker[w] EXCEPT !.state = "none", !.pipe = <<>>, !.header = FALSE]

\* A hub client that is out of the table, or about to be taken out by the tick
\* that closed it.
IsLeaving(w) ==
  /\ worker[w].home = "hub"
  /\ hubs # w \/ tick = [at |-> "forgetting", client |-> w]

\* _spawn for a client whose record is now v, then frame f.
SpawnAndSend(w, v, f) ==
  /\ worker' = [worker EXCEPT ![w] =
                  [v EXCEPT !.state = "up", !.pipe = <<f>>, !.header = FALSE]]
  /\ strays' = IF IsLeaving(w) THEN strays \union {w} ELSE strays

\* _ensure, then frame f; v is the client's record, with its lock taken.
EnsureAndSend(w, v, f) ==
  IF IsUp(w)
  THEN /\ worker' = [worker EXCEPT ![w] = [v EXCEPT !.pipe = Append(@, f)]]
       /\ UNCHANGED strays
  ELSE SpawnAndSend(w, v, f)

Client(c) == call[c].client
Request(c) == Head(call[c].todo)
To(c, where) == call' = [call EXCEPT ![c].at = where]

\* One request of c is over; the next waits for the lock again.
Over(c) ==
  LET k == call[c] IN
  call' = [call EXCEPT ![c] =
             IF Len(k.todo) = 1 THEN Resting ELSE [k EXCEPT !.at = "waiting", !.todo = Tail(@)]]

Unlocked(v) == [v EXCEPT !.lock = NoCall]
Released(w, v) == worker' = [worker EXCEPT ![w] = Unlocked(v)]

\* call, and info, which asks the process only when the header is not there.
Enter(c) ==
  LET w == Client(c) IN
  /\ call[c].at = "waiting" /\ IsFree(w)
  /\ IF (Request(c) = "info" /\ worker[w].header) \/ (worker[w].retired /\ ~IsUp(w))
     THEN Over(c) /\ UNCHANGED <<worker, strays>>
     ELSE /\ EnsureAndSend(w, [worker[w] EXCEPT !.lock = c], <<c, Request(c)>>)
          /\ To(c, "first")
  /\ UNCHANGED <<made, hubs, private, adoption, down, tick, deaths, crossed>>

\* The answer that is next in the pipe, or an error (ok is false).  info() keeps
\* it as the header; a score that finds no header goes on to ask for one.
ReadAnswer(c, ok) ==
  LET w == Client(c)
      asked == IF call[c].at = "refill" THEN "info" ELSE Request(c)
      rest == [worker[w] EXCEPT !.pipe = Tail(@)]
  IN
  /\ call[c].at \in {"first", "second", "refill"} /\ IsUp(w) /\ worker[w].pipe # <<>>
  /\ crossed' = (crossed \/ Head(worker[w].pipe) # <<c, asked>>)
  /\ IF ok /\ asked = "score" /\ ~worker[w].header
     THEN To(c, "refilling") /\ worker' = [worker EXCEPT ![w] = rest]
     ELSE Over(c) /\ Released(w, [rest EXCEPT !.header = @ \/ (ok /\ asked = "info")])
  /\ UNCHANGED <<made, hubs, private, adoption, down, tick, deaths, strays>>

\* The model is loaded, and the header costs one frame more.
Refill(c) ==
  /\ call[c].at = "refilling"
  /\ EnsureAndSend(Client(c), worker[Client(c)], <<c, "info">>)
  /\ To(c, "refill")
  /\ UNCHANGED <<made, hubs, private, adoption, down, tick, deaths, crossed>>

\* No answer in time: the process is killed.  TimeoutError is an OSError, so the
\* first try is followed by a second on a new process.
Retry(c, v) == SpawnAndSend(Client(c), v, <<c, Request(c)>>) /\ To(c, "second")

Expire(c) ==
  LET w == Client(c) IN
  /\ call[c].at \in {"first", "second", "refill"} /\ IsUp(w) /\ deaths < MaxDeaths
  /\ deaths' = deaths + 1
  /\ IF call[c].at = "first"
     THEN Retry(c, Closed(w))
     ELSE Over(c) /\ Released(w, Closed(w)) /\ UNCHANGED strays
  /\ UNCHANGED <<made, hubs, private, adoption, down, tick, crossed>>

\* The process is gone: one retry.  A second death ends the call and leaves the
\* dead process in place; the hub's handler then drops the client.
ReadEnd(c) ==
  LET w == Client(c) IN
  /\ call[c].at \in {"first", "second", "refill"} /\ worker[w].state = "dead"
  /\ IF call[c].at = "first"
     THEN Retry(c, Closed(w))
     ELSE /\ Released(w, worker[w]) /\ UNCHANGED strays
          /\ IF call[c].at = "second" /\ worker[w].home = "hub" /\ Request(c) # "info"
             THEN To(c, "dropping") ELSE Over(c)
  /\ UNCHANGED <<made, hubs, private, adoption, down, tick, deaths, crossed>>

\* A process dies by itself, as under memory pressure.
Die(w) ==
  /\ IsUp(w) /\ deaths < MaxDeaths
  /\ deaths' = deaths + 1
  /\ worker' = [worker EXCEPT ![w].state = "dead"]
  /\ UNCHANGED <<made, hubs, private, adoption, down, call, tick, strays, crossed>>

-----------------------------------------------------------------------------
(* The hub (modelsrv.py) *)

Make(home) ==
  /\ made < MaxClients /\ made' = made + 1
  /\ worker' = [worker EXCEPT ![made + 1].home = home]

TakeClient(c, w, todo) == call' = [call EXCEPT ![c] = [at |-> "waiting", client |-> w, todo |-> todo]]

\* A warm-up: a request that ends in info.
Warming ==
  \E c \in Calls : /\ call[c].at # "idle" /\ worker[Client(c)].home = "hub"
                   /\ Last(call[c].todo) = "info"

\* _worker: the client in the table, or a new one, which its maker first asks for
\* its version.  A request is a score, a probe, or the warm-up's info,
\* one warm-up at a time.
AskHub(c, request) ==
  /\ call[c].at = "idle" /\ (request = "info" => ~Warming)
  /\ IF hubs = 0
     THEN Make("hub") /\ hubs' = made' /\ TakeClient(c, made', <<"info", request>>)
     ELSE TakeClient(c, hubs, <<request>>) /\ UNCHANGED <<worker, made, hubs>>
  /\ UNCHANGED <<private, adoption, down, tick, deaths, strays, crossed>>

\* _drop_worker: out of the table, only if it is still the one there.
Drop(c) ==
  /\ call[c].at = "dropping"
  /\ IF hubs = Client(c) THEN hubs' = 0 /\ To(c, "closing") ELSE Over(c) /\ UNCHANGED hubs
  /\ UNCHANGED <<worker, made, private, adoption, down, tick, deaths, strays, crossed>>

CloseDropped(c) ==
  LET w == Client(c) IN
  /\ call[c].at = "closing" /\ IsFree(w)
  /\ worker' = [worker EXCEPT ![w] = Closed(w)]
  /\ Over(c)
  /\ UNCHANGED <<made, hubs, private, adoption, down, tick, deaths, strays, crossed>>

\* The tick lists the table, closes a client that is idle and alive, and then
\* takes it out of the table.
TickLists ==
  /\ tick.at = "idle" /\ hubs # 0
  /\ tick' = [at |-> "seen", client |-> hubs]
  /\ UNCHANGED <<worker, made, hubs, private, adoption, down, call, deaths, strays, crossed>>

TickIdle == tick' = [at |-> "idle", client |-> 0]

TickEvicts ==
  /\ tick.at = "seen" /\ IsFree(tick.client)
  /\ \/ /\ IsUp(tick.client)
        /\ worker' = [worker EXCEPT ![tick.client] = Closed(tick.client)]
        /\ tick' = [tick EXCEPT !.at = "forgetting"]
     \/ TickIdle /\ UNCHANGED worker
  /\ UNCHANGED <<made, hubs, private, adoption, down, call, deaths, strays, crossed>>

TickForgets ==
  /\ tick.at = "forgetting"
  /\ hubs' = IF hubs = tick.client THEN 0 ELSE hubs
  /\ TickIdle
  /\ UNCHANGED <<worker, made, private, adoption, down, call, deaths, strays, crossed>>

-----------------------------------------------------------------------------
(* The daemon (daemon.py) *)

\* _model_client found no hub, now or before.
AskPrivate(c, request) ==
  /\ call[c].at = "idle" /\ private # Shared
  /\ IF private = 0
     THEN Make("daemon") /\ private' = made' /\ TakeClient(c, made', <<request>>)
     ELSE TakeClient(c, private, <<request>>) /\ UNCHANGED <<worker, made, private>>
  /\ UNCHANGED <<hubs, adoption, down, tick, deaths, strays, crossed>>

\* _evict_idle_workers: the client stays the daemon's.
EvictPrivate ==
  /\ private \in Clients /\ IsFree(private) /\ IsUp(private)
  /\ worker' = [worker EXCEPT ![private] = Closed(private)]
  /\ UNCHANGED <<made, hubs, private, adoption, down, call, tick, deaths, strays, crossed>>

\* Mutated form: closed only, as before ch-bsd r12.
Retired_Closed(w) == Closed(w)

Retired(w) == [Closed(w) EXCEPT !.retired = TRUE]

\* _maybe_adopt_shared, in the daemon's own tick: it asks the hub, which takes
\* time, changes to the hub's worker if that answers, and retires the client that
\* it found at the start.
AdoptBegins ==
  /\ adoption.at = "idle" /\ private \in Clients
  /\ adoption' = [at |-> "probing", client |-> private]
  /\ UNCHANGED <<worker, made, hubs, private, down, call, tick, deaths, strays, crossed>>

AdoptOver == adoption' = [at |-> "idle", client |-> 0]

AdoptFails ==
  /\ adoption.at = "probing" /\ AdoptOver
  /\ UNCHANGED <<worker, made, hubs, private, down, call, tick, deaths, strays, crossed>>

\* After a shutdown an operation in flight may have made another client meanwhile.
Swap ==
  /\ adoption.at = "probing"
  /\ adoption' = [adoption EXCEPT !.at = "swapped"]
  /\ private' = Shared
  /\ strays' = IF down THEN strays \union ({private} \ {0, adoption.client}) ELSE strays
  /\ UNCHANGED <<worker, made, hubs, down, call, tick, deaths, crossed>>

RetireOld ==
  /\ adoption.at = "swapped" /\ IsFree(adoption.client)
  /\ worker' = [worker EXCEPT ![adoption.client] = Retired(adoption.client)]
  /\ AdoptOver
  /\ UNCHANGED <<made, hubs, private, down, call, tick, deaths, strays, crossed>>

\* _close_workers, the first step of a shutdown.  An operation still in flight
\* may make another client.
CloseWorkers ==
  /\ ~down /\ down' = TRUE
  /\ private \in Clients => IsFree(private)
  /\ worker' = [w \in Clients |-> IF w = private THEN Retired(w) ELSE worker[w]]
  /\ private' = 0
  /\ UNCHANGED <<made, hubs, adoption, call, tick, deaths, strays, crossed>>

WorkersNext ==
  \/ \E c \in Calls :
       \/ \E request \in Requests : AskHub(c, request)
       \/ \E request \in {"score", "info"} : AskPrivate(c, request)
       \/ Enter(c) \/ Refill(c) \/ Expire(c) \/ ReadEnd(c)
       \/ \E ok \in BOOLEAN : ReadAnswer(c, ok)
       \/ Drop(c) \/ CloseDropped(c)
  \/ \E w \in Clients : Die(w)
  \/ TickLists \/ TickEvicts \/ TickForgets
  \/ EvictPrivate \/ AdoptBegins \/ AdoptFails \/ Swap \/ RetireOld \/ CloseWorkers

WorkersSpec == WorkersInit /\ [][WorkersNext]_workerVars

-----------------------------------------------------------------------------
(* Properties *)

\* A kept header came from the process that the client has, or had until it died
\* by itself: a budgeted caller that sees one does not pay for a cold load.
\* (subproc.py:303-343, 419-434)
HeadersAreOfTheProcess ==
  \A w \in Clients : worker[w].header => worker[w].state # "none"

\* A process that is up belongs to a client that its owner still knows or is
\* about to close.  Of the hub's clients, only one that a call kept over an
\* eviction or a drop lives without that; of a daemon's, none that an adoption or
\* a shutdown replaced, and one that was made after the shutdown began only if an
\* adoption was under way.
\* (modelsrv.py:301-317, 393-407; subproc.py:294-356; daemon.py:1024-1072)
LiveAreKnown ==
  \A w \in Clients : IsUp(w) =>
    \/ w \in {hubs, private, adoption.client} \union strays
    \/ \E c \in Calls : call[c].at = "closing" /\ Client(c) = w

\* Whatever times out, dies, is evicted, dropped or replaced while calls hold it:
\* an answer goes to the request it answers (subproc.py:380-416), headers are of
\* the process that is there, and live processes have an owner.
WorkersAccounted == ~crossed /\ HeadersAreOfTheProcess /\ LiveAreKnown
=============================================================================
