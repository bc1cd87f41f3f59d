-------------------------------- MODULE Events --------------------------------
(***************************************************************************)
(* Server-sent events (backend/events/eventRouter.go, sseHandler of           *)
(* backend/http/httpEvents.go) and how they end with the server               *)
(* (httpRouter.go, StartHttp).                                               *)
(*                                                                          *)
(* A browser tab is a client with a channel of its own.  Two goroutines move  *)
(* events from two queues to the channels: the router those for users, the    *)
(* feeder those for the watchers of a source.  The router walks over a slice   *)
(* it fetched under the lock, but whose array is edited in place meanwhile;    *)
(* the feeder walks over the map itself, without the lock.                    *)
(***************************************************************************)
EXTENDS Integers, Sequences, FiniteSets

CONSTANTS
  Nil,
  Clients,  \* connections; each is opened once
  Owner,    \* the user of each client
  Sources,
  Watches,  \* the sources of each client
  Msgs,     \* events for users
  To,       \* the user each is for
  Updates,  \* <<source, n>>: events for the watchers of a source
  Casts,    \* bound: <<clients, events, updates>> that take part in one behaviour
  QueueCap, \* room of userEventChan and sourceUpdateChan
  ChanCap   \* room of a client's channel

Accounts == {Owner[c] : c \in Clients}

ASSUME EventsAssumption ==
  /\ QueueCap \in Nat \ {0} /\ ChanCap \in Nat \ {0}
  /\ Updates \subseteq Sources \X Nat /\ Msgs \cap Updates = {}
  /\ Watches \in [Clients -> SUBSET Sources]
  /\ Owner \in [Clients -> Accounts] /\ To \in [Msgs -> Accounts]
  /\ Nil \notin Msgs /\ Nil \notin Updates /\ Nil \notin Clients
  /\ \A cast \in Casts :
       cast[1] \subseteq Clients /\ cast[2] \subseteq Msgs /\ cast[3] \subseteq Updates

VARIABLES
  conns,   \* userClients: per user the cells of an array and how many are in use
  subs,    \* sourceClients
  place,   \* where each client's handler is
  unread,  \* how many events wait in each client's channel
  closed,  \* the channels that are closed
  sending, \* per event for users: new, waiting for room, sent
  userq,   \* userEventChan
  sourceq, \* sourceUpdateChan
  router,  \* handleUserEvents: its event, slice, position
  feeder,  \* handleSourceUpdates: its event, whom it has served
  stage,   \* StartHttp: up, closed, flushed
  fate,    \* the process: up, panicked (closed channel), raced (map)

  \* history
  told,    \* updates that were offered
  got,     \* per client, what was put into its channel
  shaken   \* events during whose round another connection of the user closed

evars == <<conns, subs, place, unread, closed, sending, userq, sourceq, router, feeder,
           stage, fate, told, got, shaken>>

Places == {"new", "half", "on", "leaving", "gone"}
Empty == [cells |-> <<>>, used |-> 0]
Idle == [msg |-> Nil, cells |-> <<>>, used |-> 0, i |-> 1, shared |-> FALSE, due |-> {}]
Resting == [upd |-> Nil, served |-> {}, owed |-> {}]

Init ==
  \E cast \in Casts :
  /\ conns = [u \in Accounts |-> Empty]
  /\ subs = [s \in Sources |-> {}]
  /\ place = [c \in Clients |-> IF c \in cast[1] THEN "new" ELSE "gone"]
  /\ unread = [c \in Clients |-> 0]
  /\ closed = {}
  /\ sending = [m \in Msgs |-> IF m \in cast[2] THEN "new" ELSE "sent"]
  /\ told = Updates \ cast[3]
  /\ userq = <<>> /\ sourceq = <<>>
  /\ router = Idle
  /\ feeder = Resting
  /\ stage = "up" /\ fate = "up"
  /\ got = [c \in Clients |-> <<>>]
  /\ shaken = {}

-------------------------------------------------------------------------------
(* The array of a slice.  What the router sees of it changes under its hands.  *)

\* The router holds a slice of the array of user u.
Shares(u) == router.msg # Nil /\ router.shared /\ To[router.msg] = u

\* The array of u is edited in place.
InPlace(u, cells, used) ==
  /\ conns' = [conns EXCEPT ![u] = [cells |-> cells, used |-> used]]
  /\ router' = IF Shares(u) THEN [router EXCEPT !.cells = cells] ELSE router

\* u gets another array, or none.
Anew(u, cells, used) ==
  /\ conns' = [conns EXCEPT ![u] = [cells |-> cells, used |-> used]]
  /\ router' = IF Shares(u) THEN [router EXCEPT !.shared = FALSE] ELSE router

\* Mutant: the newest connection comes first.
AppendInFront(u, c) ==
  LET a == conns[u] IN
    IF a.used < Len(a.cells)
    THEN InPlace(u, <<c>> \o SubSeq(a.cells, 1, Len(a.cells) - 1), a.used + 1)
    ELSE Anew(u, <<c>> \o a.cells \o [j \in 1 .. a.used - 1 |-> Nil], a.used + 1)

\* append(userClients[username], ch): in place while there is room, else the array doubles.
AppendTo(u, c) ==
  LET a == conns[u] IN
    IF a.used < Len(a.cells)
    THEN InPlace(u, [a.cells EXCEPT ![a.used + 1] = c], a.used + 1)
    ELSE Anew(u, a.cells \o <<c>> \o [j \in 1 .. a.used - 1 |-> Nil], a.used + 1)

\* append(conns[:i], conns[i+1:]...): what follows moves up, the last stays where it was.
Take(u, c) ==
  LET a == conns[u]
      i == CHOOSE i \in 1 .. a.used : a.cells[i] = c
      moved == [j \in 1 .. Len(a.cells) |->
                  IF i <= j /\ j < a.used THEN a.cells[j + 1] ELSE a.cells[j]]
  IN /\ IF a.used = 1 THEN Anew(u, <<>>, 0) ELSE InPlace(u, moved, a.used - 1)
     /\ shaken' = IF router.msg # Nil /\ To[router.msg] = u THEN shaken \cup {router.msg} ELSE shaken

\* The clients userClients knows.
Listed == {c \in Clients : \E i \in 1 .. conns[Owner[c]].used : conns[Owner[c]].cells[i] = c}

-------------------------------------------------------------------------------
(* Clients: sseHandler                                                         *)

\* The watchers become those of new.  If the feeder walks over a map that changes at
\* that very moment, Go may end the process; a map without watchers ends its walk.
Watchers(new) ==
  /\ subs' = new
  /\ IF feeder.upd = Nil \/ new[feeder.upd[1]] = subs[feeder.upd[1]]
     THEN UNCHANGED <<feeder, fate>>
     ELSE /\ feeder' = IF new[feeder.upd[1]] = {} THEN Resting ELSE feeder
          /\ fate' \in {"up", "raced"}

\* Register, first half.
Register(c) ==
  /\ place[c] = "new"
  /\ place' = [place EXCEPT ![c] = "half"]
  /\ AppendTo(Owner[c], c)
  /\ UNCHANGED <<subs, unread, closed, sending, userq, sourceq, feeder, stage, fate, told, got, shaken>>

\* Register, second half.
Subscribe(c) ==
  /\ place[c] = "half"
  /\ place' = [place EXCEPT ![c] = "on"]
  /\ Watchers([s \in Sources |-> IF s \in Watches[c] THEN subs[s] \cup {c} ELSE subs[s]])
  /\ UNCHANGED <<conns, unread, closed, sending, userq, sourceq, router, stage, told, got, shaken>>

\* The handler writes an event to the browser.
Receive(c) ==
  /\ place[c] = "on" /\ unread[c] > 0
  /\ unread' = [unread EXCEPT ![c] = @ - 1]
  /\ UNCHANGED <<conns, subs, place, closed, sending, userq, sourceq, router, feeder, stage, fate,
                 told, got, shaken>>

\* The tab is closed, a write fails, the server shuts down or the channel is closed.
Leave(c) ==
  /\ place[c] = "on"
  /\ place' = [place EXCEPT ![c] = "leaving"]
  /\ UNCHANGED <<conns, subs, unread, closed, sending, userq, sourceq, router, feeder, stage, fate,
                 told, got, shaken>>

\* Mutant: the sources of a client are forgotten.
UnregisterUser(c) ==
  /\ place[c] = "leaving"
  /\ place' = [place EXCEPT ![c] = "gone"]
  /\ IF c \in Listed THEN Take(Owner[c], c) ELSE UNCHANGED <<conns, router, shaken>>
  /\ UNCHANGED <<subs, unread, closed, sending, userq, sourceq, feeder, stage, fate, told, got>>

\* Mutant: whoever leaves closes the channel.
UnregisterClosing(c) ==
  /\ place[c] = "leaving" /\ c \in Listed
  /\ place' = [place EXCEPT ![c] = "gone"]
  /\ Take(Owner[c], c)
  /\ Watchers([s \in Sources |-> subs[s] \ {c}])
  /\ closed' = closed \cup {c}
  /\ UNCHANGED <<unread, sending, userq, sourceq, stage, told, got>>

\* Unregister, with both locks; nothing is left to do for a user Shutdown has removed.
Unregister(c) ==
  /\ place[c] = "leaving"
  /\ place' = [place EXCEPT ![c] = "gone"]
  /\ IF c \in Listed THEN Take(Owner[c], c) ELSE UNCHANGED <<conns, router, shaken>>
  /\ IF conns[Owner[c]].used = 0
     THEN UNCHANGED <<subs, feeder, fate>>
     ELSE Watchers([s \in Sources |-> subs[s] \ {c}])
  /\ UNCHANGED <<unread, closed, sending, userq, sourceq, stage, told, got>>

-------------------------------------------------------------------------------
(* Events for users                                                            *)

\* SendToUsers is called.
Send(m) ==
  /\ sending[m] = "new"
  /\ sending' = [sending EXCEPT ![m] = "waiting"]
  /\ UNCHANGED <<conns, subs, place, unread, closed, userq, sourceq, router, feeder, stage, fate,
                 told, got, shaken>>

\* Mutant: a queue without a bound.
QueueAlways(m) ==
  /\ sending[m] = "waiting"
  /\ sending' = [sending EXCEPT ![m] = "sent"]
  /\ userq' = Append(userq, m)
  /\ UNCHANGED <<conns, subs, place, unread, closed, sourceq, router, feeder, stage, fate,
                 told, got, shaken>>

\* There is room in userEventChan.
Queue(m) ==
  /\ sending[m] = "waiting" /\ Len(userq) < QueueCap
  /\ sending' = [sending EXCEPT ![m] = "sent"]
  /\ userq' = Append(userq, m)
  /\ UNCHANGED <<conns, subs, place, unread, closed, sourceq, router, feeder, stage, fate,
                 told, got, shaken>>

\* handleUserEvents fetches the next event and the slice of its user.
Route ==
  /\ router.msg = Nil /\ userq # <<>>
  /\ LET a == conns[To[Head(userq)]] IN
       router' = [msg |-> Head(userq), cells |-> a.cells, used |-> a.used, i |-> 1,
                  shared |-> a.used > 0,
                  due |-> {c \in Clients \ closed : Owner[c] = To[Head(userq)] /\ place[c] = "on"}]
  /\ userq' = Tail(userq)
  /\ UNCHANGED <<conns, subs, place, unread, closed, sending, sourceq, feeder, stage, fate,
                 told, got, shaken>>

\* Mutant: no default.
OfferAndWait(c, m) ==
  /\ c \notin closed /\ unread[c] < ChanCap
  /\ unread' = [unread EXCEPT ![c] = @ + 1]
  /\ got' = [got EXCEPT ![c] = Append(@, m)]
  /\ UNCHANGED fate

\* An attempt to put event m into the channel of c.
Offer(c, m) ==
  IF c \in closed
  THEN fate' = "panicked" /\ UNCHANGED <<unread, got>>
  ELSE /\ IF unread[c] < ChanCap
          THEN unread' = [unread EXCEPT ![c] = @ + 1] /\ got' = [got EXCEPT ![c] = Append(@, m)]
          ELSE UNCHANGED <<unread, got>>
       /\ UNCHANGED fate

\* The next connection of the slice; an event that finds the channel full is dropped.
Deliver ==
  /\ router.msg # Nil /\ router.i <= router.used
  /\ LET c == router.cells[router.i] IN
       /\ Offer(c, router.msg)
       /\ router' = [router EXCEPT !.i = @ + 1, !.due = @ \ {c}]
  /\ UNCHANGED <<conns, subs, place, closed, sending, userq, sourceq, feeder, stage, told, shaken>>

\* The slice is done.
Routed ==
  /\ router.msg # Nil /\ router.i > router.used
  /\ router' = Idle
  /\ UNCHANGED <<conns, subs, place, unread, closed, sending, userq, sourceq, feeder, stage, fate,
                 told, got, shaken>>

-------------------------------------------------------------------------------
(* Events for the watchers of a source                                         *)

\* SendSourceUpdate: dropped when the queue is full.
SendSourceUpdate(s) ==
  /\ s \notin told
  /\ told' = told \cup {s}
  /\ sourceq' = IF Len(sourceq) < QueueCap THEN Append(sourceq, s) ELSE sourceq
  /\ UNCHANGED <<conns, subs, place, unread, closed, sending, userq, router, feeder, stage, fate,
                 got, shaken>>

\* handleSourceUpdates fetches the next update; without watchers it is done.
Feed ==
  /\ feeder.upd = Nil /\ sourceq # <<>>
  /\ sourceq' = Tail(sourceq)
  /\ LET s == Head(sourceq)[1] IN
       feeder' = IF subs[s] = {} THEN Resting
                 ELSE [upd |-> Head(sourceq), served |-> {}, owed |-> subs[s]]
  /\ UNCHANGED <<conns, subs, place, unread, closed, sending, userq, router, stage, fate,
                 told, got, shaken>>

\* The next watcher, as the map is by now.
FeedOne(c) ==
  /\ feeder.upd # Nil /\ c \in subs[feeder.upd[1]] \ feeder.served
  /\ Offer(c, feeder.upd)
  /\ feeder' = [feeder EXCEPT !.served = @ \cup {c}]
  /\ UNCHANGED <<conns, subs, place, closed, sending, userq, sourceq, router, stage, told, shaken>>

\* The walk over the map ends; a watcher added meanwhile may be left out.
Fed ==
  /\ feeder.upd # Nil
  /\ feeder.owed \cap subs[feeder.upd[1]] \subseteq feeder.served
  /\ feeder' = Resting
  /\ UNCHANGED <<conns, subs, place, unread, closed, sending, userq, sourceq, router, stage, fate,
                 told, got, shaken>>

-------------------------------------------------------------------------------
(* The end: StartHttp after a signal                                           *)

\* events.Shutdown, with both locks.
Shutdown ==
  /\ stage = "up"
  /\ stage' = "closed"
  /\ closed' = closed \cup Listed
  /\ Watchers([s \in Sources |-> subs[s] \ Listed])
  /\ conns' = [u \in Accounts |-> Empty]
  /\ router' = [router EXCEPT !.shared = FALSE]
  /\ UNCHANGED <<place, unread, sending, userq, sourceq, told, got, shaken>>

\* Share.Flush and Access.Flush.
Flush ==
  /\ stage = "closed"
  /\ stage' = "flushed"
  /\ UNCHANGED <<conns, subs, place, unread, closed, sending, userq, sourceq, router, feeder, fate,
                 told, got, shaken>>

Client(c) == Register(c) \/ Subscribe(c) \/ Receive(c) \/ Leave(c) \/ Unregister(c)
Router == Route \/ Deliver \/ Routed
Feeder == Feed \/ (\E c \in Clients : FeedOne(c)) \/ Fed

Next ==
  /\ fate = "up"
  /\ \/ \E c \in Clients : Client(c)
     \/ \E m \in Msgs : Send(m) \/ Queue(m)
     \/ Router
     \/ \E s \in Updates : SendSourceUpdate(s)
     \/ Feeder
     \/ Shutdown
     \/ Flush

(* The router's goroutine runs whenever it can, and Go serves the senders that  *)
(* wait for a channel in turn.  Nothing is assumed of browsers.                *)
Fairness == WF_evars(fate = "up" /\ Router) /\ \A m \in Msgs : SF_evars(fate = "up" /\ Queue(m))

Spec == Init /\ [][Next]_evars
FairSpec == Spec /\ Fairness

-------------------------------------------------------------------------------
(* Properties                                                                 *)

(* The variables keep their types.                                            *)
EventsTyped ==
  /\ \A u \in Accounts : conns[u].used <= Len(conns[u].cells)
                        /\ \A i \in 1 .. conns[u].used : Owner[conns[u].cells[i]] = u
  /\ subs \in [Sources -> SUBSET Clients]
  /\ place \in [Clients -> Places]
  /\ unread \in [Clients -> 0 .. ChanCap]
  /\ Len(userq) <= QueueCap /\ Len(sourceq) <= QueueCap
  /\ stage \in {"up", "closed", "flushed"} /\ fate \in {"up", "panicked", "raced"}

(* An event is put into the channel of a client at most once, and offered to     *)
(* every tab its user has open when the router takes it up, although the array    *)
(* it walks over belongs to the map: new tabs do not disturb the round.  (Tabs of  *)
(* the same user that are closed during the round do: one tab may then be skipped  *)
(* and another served twice.)                                                  *)
EachOnce ==
  /\ router.msg # Nil /\ router.i > router.used /\ router.msg \notin shaken => router.due = {}
  /\ \A c \in Clients, m \in (Msgs \cup Updates) \ shaken :
       Cardinality({i \in 1 .. Len(got[c]) : got[c][i] = m}) <= 1

(* A client that has left while the server is up is in neither map: events never  *)
(* pile up for tabs that are closed.                                           *)
NothingLeft ==
  stage = "up" =>
    \A c \in Clients : place[c] = "gone" => c \notin Listed /\ \A s \in Sources : c \notin subs[s]

(* Both: what the maps of the router hold.                                      *)
TabsTyped == EventsTyped /\ NothingLeft

(* Only the end of the server can make a goroutine send on a closed channel,      *)
(* however tabs come and go under the slice and the map the goroutines walk over. *)
PanicsOnlyAtTheEnd == fate = "panicked" => stage # "up"

(* A request that sends an event is never stuck, whatever browsers do.  (Each is   *)
(* sent once: when none waits for ever, a time comes after which none waits.)    *)
SendersFinish == <>[](fate = "up" => \A m \in Msgs : sending[m] # "waiting")
===============================================================================
