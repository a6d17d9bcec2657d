----------------------------- MODULE Connections -----------------------------
(***************************************************************************)
(* The WebSocket connection manager (server/ws.py): endpoints that connect *)
(* under a client id, subscribe to rooms and disconnect, and notifiers     *)
(* that broadcast to a room and send to one worker.  Everything runs in    *)
(* one event loop, so a step is what happens between two awaits, and the   *)
(* await of a send has a beginning and, unless the other end stops         *)
(* reading, an end.  The manager's lock is held across an await in         *)
(* send_to_worker only; any other critical section is one step, taken when *)
(* the lock is free.                                                       *)
(*                                                                         *)
(* The manager knows a client by its id, and two endpoints may have the    *)
(* same one: /ws takes it from the query, /ws/worker/{n} derives it from   *)
(* the worker, and a client that reconnects uses its old one again.        *)
(*                                                                         *)
(* Abstractions.  Messages carry nothing but the room they go to.  Replies *)
(* to a client's own messages (welcome, subscribed, pong, stats) change    *)
(* nothing and are left out.  Nothing in the repository calls broadcast or *)
(* a notify function: the notifiers are their future callers.              *)
(***************************************************************************)
EXTENDS Naturals, FiniteSets

CONSTANTS
  Sockets,        \* bound: WebSockets; a client that reconnects has another one
  Ids,            \* client ids
  WorkerIds,      \* ids of the form worker-N (a subset of Ids)
  Rooms,          \* rooms besides "all", as "tasks"
  Asked,          \* bound: rooms a client asks for itself
  Notifiers,      \* calls of a notify function; each is made once
  Nobody          \* no socket, no notifier

ASSUME ConnectionAssumption ==
  /\ WorkerIds \subseteq Ids
  /\ "all" \notin Rooms
  /\ Asked \subseteq Rooms \cup {"all"}
  /\ Nobody \notin Sockets \cup Notifiers

VARIABLES
  socket,         \* handler of the endpoint: phase, client id, rooms still to join
  peer,           \* the other end: TRUE while it is there
  connections,    \* manager.connections: the socket known under an id
  subscribed,     \* ClientConnection.subscriptions, by socket
  rooms,          \* manager.rooms: ids by room
  notice,         \* the notifiers: phase, ids to send to, the send they wait for, dead ids,
                  \* and as history the sockets it has yet to reach
  holder,         \* who holds manager._lock across an await
  shared          \* history: ids used twice at a time, by endpoints or by an
                  \* endpoint and a broadcast that is not done with the id

connVars == <<socket, peer, connections, subscribed, rooms, notice, holder, shared>>

AllRooms == Rooms \cup {"all"}

LockFree == holder = Nobody

\* A socket without a handler.
Without(phase) == [phase |-> phase, id |-> Nobody, worker |-> Nobody, joins |-> {}, asks |-> FALSE]

Registered == {id \in Ids : connections[id] # Nobody}

-----------------------------------------------------------------------------
(* ConnectionManager *)

\* Phases of a handler that has connected and not yet disconnected; it is "failing" when a
\* message, and not the end of the connection, has ended its loop.
Serving == {"joining", "open", "closing", "failing"}

\* Ids that a broadcast waits for or will disconnect, whoever has them by then.
Condemned ==
  (UNION {notice[n].dead : n \in Notifiers})
    \cup {notice[n].at : n \in {m \in Notifiers : notice[m].phase = "awaiting"}}

\* connect, once accept() has returned; an earlier endpoint with the same id is forgotten.
Connect(e) ==
  LET id == socket[e].id IN
  /\ socket[e].phase = "accepted"
  /\ LockFree
  /\ connections' = [connections EXCEPT ![id] = e]
  /\ rooms' = [rooms EXCEPT !["all"] = @ \cup {id}]
  /\ socket' = [socket EXCEPT ![e].phase = IF socket[e].joins = {} THEN "open" ELSE "joining"]
  /\ shared' = IF id \in Condemned \/ \E f \in Sockets \ {e} :
                    socket[f].id = id /\ socket[f].phase \in Serving
               THEN shared \cup {id} ELSE shared
  /\ UNCHANGED <<peer, subscribed, notice, holder>>

\* Rooms without the client.
Forgotten(id) == [room \in AllRooms |-> rooms[room] \ {id}]

\* disconnect: whichever socket is registered under the id.
Disconnect(id) ==
  /\ LockFree
  /\ IF id \in Registered
     THEN /\ rooms' = Forgotten(id)
          /\ connections' = [connections EXCEPT ![id] = Nobody]
     ELSE UNCHANGED <<rooms, connections>>

\* Mutant: the rooms are changed without looking the client up.
SubscribeAnyone(id, room) ==
  /\ LockFree
  /\ rooms' = [rooms EXCEPT ![room] = @ \cup {id}]
  /\ UNCHANGED subscribed

\* subscribe: refused when the id is not connected.
Subscribe(id, room) ==
  /\ LockFree
  /\ IF id \in Registered
     THEN /\ rooms' = [rooms EXCEPT ![room] = @ \cup {id}]
          /\ subscribed' = [subscribed EXCEPT ![connections[id]] = @ \cup {room}]
     ELSE UNCHANGED <<rooms, subscribed>>

Unsubscribe(id, room) ==
  /\ LockFree
  /\ rooms' = [rooms EXCEPT ![room] = @ \ {id}]
  /\ subscribed' = IF id \in Registered
                   THEN [subscribed EXCEPT ![connections[id]] = @ \ {room}]
                   ELSE subscribed

-----------------------------------------------------------------------------
(* The endpoints *)

\* websocket_endpoint: the query has a client id (or none: a new one) and a worker id (or none);
\* nothing relates the two.
Accept(e, id, worker) ==
  /\ socket[e].phase = "new"
  /\ socket' = [socket EXCEPT ![e] =
                  [phase |-> "accepted", id |-> id, worker |-> worker, joins |-> {}, asks |-> TRUE]]
  /\ peer' = [peer EXCEPT ![e] = TRUE]
  /\ UNCHANGED <<connections, subscribed, rooms, notice, holder, shared>>

\* worker_websocket: the id of the worker, and the rooms it joins by itself.
AcceptWorker(e, id) ==
  /\ socket[e].phase = "new"
  /\ socket' = [socket EXCEPT ![e] =
                  [phase |-> "accepted", id |-> id, worker |-> id, joins |-> Rooms, asks |-> FALSE]]
  /\ peer' = [peer EXCEPT ![e] = TRUE]
  /\ UNCHANGED <<connections, subscribed, rooms, notice, holder, shared>>

Join(e) ==
  /\ socket[e].phase = "joining"
  /\ \E room \in socket[e].joins :
       /\ Subscribe(socket[e].id, room)
       /\ socket' = [socket EXCEPT ![e].joins = @ \ {room},
                                   ![e].phase = IF socket[e].joins = {room} THEN "open" ELSE @]
  /\ UNCHANGED <<peer, connections, notice, holder, shared>>

\* A message of the client; worker_websocket serves only pings.
ClientSubscribes(e, room) ==
  /\ socket[e].phase = "open" /\ socket[e].asks /\ peer[e]
  /\ Subscribe(socket[e].id, room)
  /\ UNCHANGED <<socket, peer, connections, notice, holder, shared>>

ClientUnsubscribes(e, room) ==
  /\ socket[e].phase = "open" /\ socket[e].asks /\ peer[e]
  /\ Unsubscribe(socket[e].id, room)
  /\ UNCHANGED <<socket, peer, connections, notice, holder, shared>>

PeerLeaves(e) ==
  /\ peer[e]
  /\ peer' = [peer EXCEPT ![e] = FALSE]
  /\ UNCHANGED <<socket, connections, subscribed, rooms, notice, holder, shared>>

\* receive_text raises: the handler leaves its loop.
NoticeGone(e) ==
  /\ socket[e].phase = "open" /\ ~peer[e]
  /\ socket' = [socket EXCEPT ![e].phase = "closing"]
  /\ UNCHANGED <<peer, connections, subscribed, rooms, notice, holder, shared>>

\* JSON that is not an object has no get: the exception ends the loop of a client that is there.
BadMessage(e) ==
  /\ socket[e].phase = "open" /\ peer[e]
  /\ socket' = [socket EXCEPT ![e].phase = "failing"]
  /\ UNCHANGED <<peer, connections, subscribed, rooms, notice, holder, shared>>

\* finally: await manager.disconnect(client_id); the handler and its ClientConnection are gone,
\* and the server closes what is left of the connection.
CloseSocket(e) ==
  /\ socket[e].phase \in {"closing", "failing"}
  /\ Disconnect(socket[e].id)
  /\ socket' = [socket EXCEPT ![e] = Without("closed")]
  /\ peer' = [peer EXCEPT ![e] = FALSE]
  /\ subscribed' = [subscribed EXCEPT ![e] = {}]
  /\ UNCHANGED <<notice, holder, shared>>

-----------------------------------------------------------------------------
(* The notifiers *)

\* The room of an event type (send_event), when the caller names none.
RoomOf(event) ==
  CASE event = "task" -> "tasks"
    [] event = "worker" -> "workers"
    [] event = "job" -> "jobs"
    [] event = "system" -> "system"
    [] OTHER -> "all"

NotStarted ==
  [phase |-> "new", target |-> Nobody, left |-> {}, at |-> Nobody, to |-> Nobody,
   dead |-> {}, owed |-> {}]

\* Sockets of the clients in a room.
Clients(room) == {connections[id] : id \in rooms[room] \cap Registered}

\* broadcast: the ids in the room are copied; the notice of an assignment has a target, too.
StartBroadcast(n, event, target) ==
  /\ notice[n].phase = "new"
  /\ LockFree
  /\ RoomOf(event) \in AllRooms
  /\ notice' = [notice EXCEPT ![n] =
                  [@ EXCEPT !.phase = "sending", !.target = target,
                            !.left = rooms[RoomOf(event)], !.owed = Clients(RoomOf(event))]]
  /\ UNCHANGED <<socket, peer, connections, subscribed, rooms, holder, shared>>

\* The client_state of a socket is not CONNECTED once receive has said that the other end left.
KnownGone(e) == socket[e].phase = "closing"

(***************************************************************************)
(* One client of the copy, looked up when its turn comes.  A client that   *)
(* is not connected is passed over, one known to be gone is dead at once,  *)
(* and the notifier waits while it sends to any other.                     *)
(***************************************************************************)
BeginSend(n) ==
  /\ notice[n].phase = "sending"
  /\ \E id \in notice[n].left :
       LET e == connections[id] IN
       \/ /\ e = Nobody
          /\ notice' = [notice EXCEPT ![n].left = @ \ {id}]
       \/ /\ e # Nobody /\ KnownGone(e)
          /\ notice' = [notice EXCEPT ![n].left = @ \ {id}, ![n].dead = @ \cup {id}]
       \/ /\ e # Nobody /\ ~KnownGone(e)
          /\ notice' = [notice EXCEPT ![n].phase = "awaiting", ![n].left = @ \ {id},
                                      ![n].at = id, ![n].to = e]
  /\ UNCHANGED <<socket, peer, connections, subscribed, rooms, holder, shared>>

\* The record of a notifier after its send, with what the send leads to.
Sent(n) == [notice[n] EXCEPT !.phase = "sending", !.at = Nobody, !.to = Nobody,
                             !.owed = @ \ {notice[n].to}]

Failed(n) == [notice[n] EXCEPT !.phase = "sending", !.at = Nobody, !.to = Nobody,
                               !.dead = @ \cup {notice[n].at}]

\* Mutant: the first client that cannot be reached ends the loop.
FinishOrStop(n) ==
  /\ notice[n].phase = "awaiting"
  /\ \/ notice' = [notice EXCEPT ![n] = Sent(n)]
     \/ ~peer[notice[n].to] /\ notice' = [notice EXCEPT ![n] = [Failed(n) EXCEPT !.left = {}]]
  /\ UNCHANGED <<socket, peer, connections, subscribed, rooms, holder, shared>>

\* The await is over.  When the other end has left, the send may still have gone well.
FinishSend(n) ==
  /\ notice[n].phase = "awaiting"
  /\ \/ notice' = [notice EXCEPT ![n] = Sent(n)]
     \/ ~peer[notice[n].to] /\ notice' = [notice EXCEPT ![n] = Failed(n)]
  /\ UNCHANGED <<socket, peer, connections, subscribed, rooms, holder, shared>>

\* One dead id, whoever is registered under it by now.
CleanNext(n) ==
  /\ notice[n].phase = "sending"
  /\ notice[n].left = {}
  /\ \E id \in notice[n].dead :
       /\ Disconnect(id)
       /\ notice' = [notice EXCEPT ![n].dead = @ \ {id}]
  /\ UNCHANGED <<socket, peer, subscribed, holder, shared>>

EndBroadcast(n) ==
  /\ notice[n].phase = "sending"
  /\ notice[n].left = {} /\ notice[n].dead = {}
  /\ notice' = [notice EXCEPT ![n].phase =
                  IF notice[n].target = Nobody THEN "ended" ELSE "targeting"]
  /\ UNCHANGED <<socket, peer, connections, subscribed, rooms, holder, shared>>

\* Connected sockets with the worker id the notice is for; the first one is sent to.
Targets(n) == {id \in Registered : socket[connections[id]].worker = notice[n].target}

\* send_to_worker: the lock is taken and kept while the message is sent, if there is a send.
HoldLock(n) ==
  /\ notice[n].phase = "targeting"
  /\ LockFree
  /\ \/ \E id \in Targets(n) : ~KnownGone(connections[id]) /\ holder' = n /\ UNCHANGED notice
     \/ /\ Targets(n) = {} \/ \E id \in Targets(n) : KnownGone(connections[id])
        /\ notice' = [notice EXCEPT ![n].phase = "ended", ![n].target = Nobody] /\ UNCHANGED holder
  /\ UNCHANGED <<socket, peer, connections, subscribed, rooms, shared>>

\* Mutant: the lock is taken by hand and kept when the message cannot be sent.
ReleaseIfSent(n) ==
  /\ holder = n
  /\ holder' = IF \E id \in Targets(n) : peer[connections[id]] THEN Nobody ELSE holder
  /\ notice' = [notice EXCEPT ![n].phase = "ended", ![n].target = Nobody]
  /\ UNCHANGED <<socket, peer, connections, subscribed, rooms, shared>>

\* The send is over, and with it the critical section.
ReleaseLock(n) ==
  /\ holder = n
  /\ holder' = Nobody
  /\ notice' = [notice EXCEPT ![n].phase = "ended", ![n].target = Nobody]
  /\ UNCHANGED <<socket, peer, connections, subscribed, rooms, shared>>

-----------------------------------------------------------------------------

ConnInit ==
  /\ socket = [e \in Sockets |-> Without("new")]
  /\ peer = [e \in Sockets |-> FALSE]
  /\ connections = [id \in Ids |-> Nobody]
  /\ subscribed = [e \in Sockets |-> {}]
  /\ rooms = [room \in AllRooms |-> {}]
  /\ notice = [n \in Notifiers |-> NotStarted]
  /\ holder = Nobody
  /\ shared = {}

\* Steps the event loop owes a handler or a notifier.
EndpointStep(e) == Connect(e) \/ Join(e) \/ CloseSocket(e)
NotifierStep(n) == BeginSend(n) \/ CleanNext(n) \/ EndBroadcast(n) \/ HoldLock(n)

\* Steps that depend on the other end: no send has a timeout.
PeerStep(e) == PeerLeaves(e) \/ NoticeGone(e) \/ BadMessage(e)
SendEnds(n) == FinishSend(n) \/ ReleaseLock(n)

ConnNext ==
  \/ \E e \in Sockets :
       \/ \E id \in Ids, worker \in WorkerIds \cup {Nobody} : Accept(e, id, worker)
       \/ \E id \in WorkerIds : AcceptWorker(e, id)
       \/ \E room \in Asked : ClientSubscribes(e, room) \/ ClientUnsubscribes(e, room)
       \/ EndpointStep(e) \/ PeerStep(e)
  \/ \E n \in Notifiers :
       \/ \E event \in {"task", "worker", "job", "system", "other"} : StartBroadcast(n, event, Nobody)
       \/ \E target \in WorkerIds : StartBroadcast(n, "task", target)
       \/ NotifierStep(n) \/ SendEnds(n)

\* The loop runs every task that can run.  Nothing makes a send end; a notifier holds the lock
\* once, so if its send ends, a task that waits for the lock can run for good some day.
ConnFairness ==
  /\ \A e \in Sockets : WF_connVars(EndpointStep(e))
  /\ \A n \in Notifiers : WF_connVars(NotifierStep(n))

ConnSpec == ConnInit /\ [][ConnNext]_connVars /\ ConnFairness

-----------------------------------------------------------------------------
(* What must hold *)

Phases == {"new", "accepted", "closed"} \cup Serving

Handlers ==
  [phase : Phases, id : Ids \cup {Nobody}, worker : WorkerIds \cup {Nobody},
   joins : SUBSET Rooms, asks : BOOLEAN]

Notices ==
  [phase : {"new", "sending", "awaiting", "targeting", "ended"}, target : WorkerIds \cup {Nobody},
   left : SUBSET Ids, at : Ids \cup {Nobody}, to : Sockets \cup {Nobody},
   dead : SUBSET Ids, owed : SUBSET Sockets]

ConnTypeOK ==
  /\ socket \in [Sockets -> Handlers]
  /\ peer \in [Sockets -> BOOLEAN]
  /\ connections \in [Ids -> Sockets \cup {Nobody}]
  /\ subscribed \in [Sockets -> SUBSET AllRooms]
  /\ rooms \in [AllRooms -> SUBSET Ids]
  /\ notice \in [Notifiers -> Notices]
  /\ \A n \in Notifiers : notice[n].phase = "awaiting" => notice[n].at \in Ids /\ notice[n].to \in Sockets
  /\ holder \in Notifiers \cup {Nobody}
  /\ shared \subseteq Ids

\* The rooms and the table of connections agree although three methods change them: no room
\* has an id that is not connected, a socket registered under an id once connected under it,
\* and is in every room of its own list of subscriptions.
RoomsAgree ==
  /\ \A room \in AllRooms : rooms[room] \subseteq Registered
  /\ \A id \in Registered :
       /\ socket[connections[id]].id = id
       /\ \A room \in subscribed[connections[id]] : id \in rooms[room]

(***************************************************************************)
(* A client that is there and whose handler waits for its messages is the  *)
(* one registered under its id, unless it connected while another endpoint *)
(* still had the id, or a broadcast was sending to the id or about to      *)
(* clean it up: a client that reconnects during the await of client.send   *)
(* is unregistered when that send fails.                                   *)
(***************************************************************************)
ReachableUnlessIdShared ==
  \A e \in Sockets :
    socket[e].phase \in {"joining", "open"} /\ peer[e] /\ socket[e].id \notin shared =>
      connections[socket[e].id] = e

\* The three tables of the manager name the same clients, and the clients that are
\* there are among them.
ConnInv == ConnTypeOK /\ RoomsAgree /\ ReachableUnlessIdShared

\* When a broadcast is over, it was sent to every client that was in the room when it began and
\* is still connected: one that failed or left on the way hides no other.
BroadcastReachesRoom ==
  \A n \in Notifiers :
    notice[n].phase = "ended" =>
      \A e \in notice[n].owed : ~(socket[e].phase = "open" /\ peer[e] /\ socket[e].id \notin shared)

\* send_to_worker is at its send.
HoldsLockToSend(n) == holder = n /\ notice[n].phase = "targeting"

(***************************************************************************)
(* Only a send that never ends can stop anything: where those under the    *)
(* lock end, handlers that left their loop disconnect, and a broadcast     *)
(* whose own sends end is over some day.  A send under the lock that does  *)
(* not end (there is no timeout) stops them all.                           *)
(***************************************************************************)
NotifiersFinish ==
  (\A n \in Notifiers : []<>~HoldsLockToSend(n)) =>
    /\ \A n \in Notifiers :
         []<>(notice[n].phase # "awaiting") => (notice[n].phase # "new" ~> notice[n].phase = "ended")
    /\ \A e \in Sockets : socket[e].phase \in {"closing", "failing"} ~> socket[e].phase = "closed"

=============================================================================
