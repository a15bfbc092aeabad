------------------------------- MODULE Rooms --------------------------------
(***************************************************************************)
(* The life of the rooms of one document: the hub's registry, requests     *)
(* that look a room up or load the document, the owner goroutine with its  *)
(* command queue and idle timer, and shutdown (internal/realtime/hub.go,   *)
(* room.go, client.go, cmd/gopad/main.go).  The document is the number of  *)
(* its operations; how they are stored is the matter of WriteBehind, how   *)
(* messages reach the clients that of Fanout.                              *)
(***************************************************************************)
EXTENDS Naturals, Sequences, FiniteSets

CONSTANTS Requests,    (* WebSocket requests, each with its connection     *)
          QueueSize,   (* of r.commands                                    *)
          MaxRooms,    (* bound: rooms made                                *)
          MaxOps       (* bound: operations sent                           *)

ASSUME RoomsAssumption == QueueSize \in Nat \ {0} /\ {MaxRooms, MaxOps} \subseteq Nat

Ids == 1..MaxRooms

VARIABLES
  (* the hub *)
  registry,    (* h.rooms: {} or {room}                                    *)
  made,        (* rooms made so far                                        *)
  hub,         (* how far the server is with its shutdown                  *)
  drained,     (* no handler was under way when CloseContext was called    *)
  listed,      (* the rooms CloseContext found                             *)
  (* the rooms *)
  loop,        (* "none", "run", "removed", "done"                         *)
  commands, clients,
  document,    (* operations the room knows                                *)
  unsaved,     (* rooms with operations since their last snapshot request  *)
  timer,       (* rooms whose idle timer runs                              *)
  awaits,      (* what was under way when the timer was started            *)
  (* the requests *)
  pc, loaded, roomOf, closed,
  synced,      (* clients that were sent the document                      *)
  (* the store *)
  accepted,    (* operations accepted by all rooms                         *)
  stored,      (* operations the writer has written                        *)
  sent         (* operations sent by clients                               *)

hubVars == <<registry, made, hub, drained, listed>>
ownerVars == <<clients, document, unsaved, timer, awaits>>
requestVars == <<pc, loaded, roomOf, closed, synced>>
storeVars == <<accepted, stored, sent>>
vars == <<hubVars, loop, commands, ownerVars, requestVars, storeVars>>

Init ==
  /\ registry = {} /\ made = 0 /\ hub = "open" /\ listed = {} /\ drained = FALSE
  /\ loop = [r \in Ids |-> "none"]
  /\ commands = [r \in Ids |-> <<>>]
  /\ clients = [r \in Ids |-> {}]
  /\ document = [r \in Ids |-> 0]
  /\ unsaved = {} /\ timer = {}
  /\ awaits = [r \in Ids |-> [requests |-> {}, stored |-> 0]]
  /\ pc = [q \in Requests |-> "new"]
  /\ loaded = [q \in Requests |-> 0]
  /\ roomOf = [q \in Requests |-> 0]
  /\ closed = {} /\ synced = {}
  /\ accepted = 0 /\ stored = 0 /\ sent = 0

At(q, label) == pc[q] = label
Goto(q, label) == pc' = [pc EXCEPT ![q] = label]
-----------------------------------------------------------------------------
(***************************************************************************)
(* The idle timer.  Timing assumption: when it fires, 45 s after it was    *)
(* started, the loads that were under way then have ended, the commands    *)
(* that were queued have been taken, the readers of connections that were  *)
(* closed have unregistered, and the writer has written the operations     *)
(* accepted by then.                                                       *)
(***************************************************************************)
Loading(q) == At(q, "load") \/ At(q, "store")

Queued(r, q) == \E i \in DOMAIN commands[r] : commands[r][i].request = q

UnderWay(r) ==
  {q \in Requests : \/ Loading(q)
                    \/ Queued(r, q)
                    \/ At(q, "read") /\ roomOf[q] = r /\ q \in closed}

(* Mutant: the timeout is zero. *)
StartTimer_NoGrace(r) ==
  /\ timer' = timer \cup {r}
  /\ awaits' = [awaits EXCEPT ![r] = [requests |-> {}, stored |-> 0]]

StartTimer(r) ==
  /\ timer' = timer \cup {r}
  /\ awaits' = [awaits EXCEPT ![r] = [requests |-> UnderWay(r), stored |-> accepted]]

TimerFires(r) ==
  /\ r \in timer
  /\ awaits[r].requests \cap UnderWay(r) = {}
  /\ stored >= awaits[r].stored
-----------------------------------------------------------------------------
(***************************************************************************)
(* A request: ServeHTTP with GetOrCreateRoom, then serve.                  *)
(***************************************************************************)
Join(q, r) == /\ roomOf' = [roomOf EXCEPT ![q] = r]
              /\ Goto(q, "hello")

(* A server whose listener has failed still serves its open connections. *)
Accepting == hub # "draining" /\ ~drained

LookUp(q) ==
  /\ At(q, "new") /\ Accepting
  /\ \/ \E r \in registry : Join(q, r)
     \/ registry = {} /\ Goto(q, "load") /\ UNCHANGED roomOf
  /\ UNCHANGED <<hubVars, loop, commands, ownerVars, loaded, closed, synced, storeVars>>

LoadDocument(q) ==
  /\ At(q, "load")
  /\ loaded' = [loaded EXCEPT ![q] = stored]
  /\ Goto(q, "store")
  /\ UNCHANGED <<hubVars, loop, commands, ownerVars, roomOf, closed, synced, storeVars>>

LoadFails(q) ==
  /\ At(q, "load")
  /\ Goto(q, "left")
  /\ UNCHANGED <<hubVars, loop, commands, ownerVars, loaded, roomOf, closed, synced,
                 storeVars>>

(* newRoom, AddActiveRooms and the start of run. *)
MakeRoom(q, r) ==
  /\ made' = r
  /\ registry' = {r}
  /\ loop' = [loop EXCEPT ![r] = "run"]
  /\ document' = [document EXCEPT ![r] = loaded[q]]
  /\ StartTimer(r)
  /\ Join(q, r)

(* Mutant: Store in place of LoadOrStore. *)
StoreRoom_Overwrites(q) ==
  /\ At(q, "store") /\ made < MaxRooms
  /\ MakeRoom(q, made + 1)
  /\ UNCHANGED <<hub, drained, listed, commands, clients, unsaved, loaded, closed,
                 synced, storeVars>>

(* LoadOrStore *)
StoreRoom(q) ==
  /\ At(q, "store")
  /\ \/ /\ registry = {} /\ made < MaxRooms
        /\ MakeRoom(q, made + 1)
     \/ /\ \E r \in registry : Join(q, r)
        /\ UNCHANGED <<registry, made, loop, document, timer, awaits>>
  /\ UNCHANGED <<hub, drained, listed, commands, clients, unsaved, loaded, closed,
                 synced, storeVars>>

(* Accept or readHello fails. *)
HelloFails(q) ==
  /\ At(q, "hello")
  /\ closed' = closed \cup {q}
  /\ Goto(q, "left")
  /\ UNCHANGED <<hubVars, loop, commands, ownerVars, loaded, roomOf, synced, storeVars>>

(* submit: of two channels that are ready, Go takes either. *)
Submit(r, kind, q) ==
  \/ /\ Len(commands[r]) < QueueSize
     /\ commands' = [commands EXCEPT ![r] = Append(@, [kind |-> kind, request |-> q])]
  \/ loop[r] = "done" /\ UNCHANGED commands

Register(q) ==
  /\ At(q, "hello")
  /\ Submit(roomOf[q], "register", q)
  /\ Goto(q, "read")
  /\ UNCHANGED <<hubVars, loop, ownerVars, loaded, roomOf, closed, synced, storeVars>>

(* Tabs type when they have the document. *)
SubmitOperation(q) ==
  /\ At(q, "read") /\ q \in synced \ closed
  /\ sent < MaxOps
  /\ sent' = sent + 1
  /\ Submit(roomOf[q], "operation", q)
  /\ UNCHANGED <<hubVars, loop, ownerVars, requestVars, accepted, stored>>

Break(q) ==
  /\ At(q, "read") /\ q \notin closed
  /\ closed' = closed \cup {q}
  /\ UNCHANGED <<hubVars, loop, commands, ownerVars, pc, loaded, roomOf, synced,
                 storeVars>>

Unregister(q) ==
  /\ At(q, "read") /\ q \in closed
  /\ Submit(roomOf[q], "unregister", q)
  /\ Goto(q, "left")
  /\ UNCHANGED <<hubVars, loop, ownerVars, loaded, roomOf, closed, synced, storeVars>>

(* onDrop of a fan-out worker: the send queue of a client is full. *)
DropClient(q) ==
  /\ \E r \in Ids : q \in clients[r] /\ Submit(r, "unregister", q)
  /\ UNCHANGED <<hubVars, loop, ownerVars, requestVars, storeVars>>
-----------------------------------------------------------------------------
(***************************************************************************)
(* The loop of the owner.                                                  *)
(***************************************************************************)
Take(r, kind, q) ==
  /\ loop[r] = "run"
  /\ commands[r] # <<>> /\ Head(commands[r]) = [kind |-> kind, request |-> q]
  /\ commands' = [commands EXCEPT ![r] = Tail(@)]

(***************************************************************************)
(* A broadcast to the clients in members removes and closes those whose    *)
(* messages do not fit into the fan-out pool, the leaving ones first.      *)
(***************************************************************************)
Broadcast(r, members, leaving) ==
  \E gone \in SUBSET members :
    /\ clients' = [clients EXCEPT ![r] = members \ gone]
    /\ closed' = closed \cup gone \cup leaving

(* Mutant: a room that is in use sends the document to nobody else. *)
ApplyRegister_FirstOnly(r, q) ==
  /\ Take(r, "register", q)
  /\ timer' = timer \ {r}
  /\ \/ /\ q \notin closed
        /\ synced' = IF clients[r] = {} THEN synced \cup {q} ELSE synced
        /\ Broadcast(r, clients[r] \cup {q}, {})
     \/ q \in closed /\ UNCHANGED <<synced, clients, closed>>
  /\ UNCHANGED <<hubVars, loop, document, unsaved, awaits, pc, loaded, roomOf, storeVars>>

(* A client that is already closed is not added. *)
ApplyRegister(r, q) ==
  /\ Take(r, "register", q)
  /\ timer' = timer \ {r}
  /\ \/ /\ q \notin closed
        /\ synced' = synced \cup {q}
        /\ Broadcast(r, clients[r] \cup {q}, {})
     \/ q \in closed /\ UNCHANGED <<synced, clients, closed>>
  /\ UNCHANGED <<hubVars, loop, document, unsaved, awaits, pc, loaded, roomOf, storeVars>>

RemoveClient(r, q) ==
  IF q \in clients[r] THEN Broadcast(r, clients[r] \ {q}, {q})
  ELSE UNCHANGED <<clients, closed>>

(* Mutant: only a client that was in the room starts the timer. *)
ApplyUnregister_OnlyMember(r, q) ==
  /\ Take(r, "unregister", q)
  /\ RemoveClient(r, q)
  /\ IF clients'[r] = {} /\ q \in clients[r]
     THEN StartTimer(r) ELSE UNCHANGED <<timer, awaits>>
  /\ UNCHANGED <<hubVars, loop, document, unsaved, pc, loaded, roomOf, synced, storeVars>>

ApplyUnregister(r, q) ==
  /\ Take(r, "unregister", q)
  /\ RemoveClient(r, q)
  /\ IF clients'[r] = {} THEN StartTimer(r) ELSE UNCHANGED <<timer, awaits>>
  /\ UNCHANGED <<hubVars, loop, document, unsaved, pc, loaded, roomOf, synced, storeVars>>

(* An operation that the document accepts: the others change nothing here. *)
ApplyOperation(r, q) ==
  /\ Take(r, "operation", q)
  /\ document' = [document EXCEPT ![r] = @ + 1]
  /\ accepted' = accepted + 1
  /\ unsaved' = unsaved \cup {r}
  /\ Broadcast(r, clients[r], {})
  /\ UNCHANGED <<hubVars, loop, timer, awaits, pc, loaded, roomOf, synced, stored, sent>>

(* The snapshot threshold, or the ticker, which changes nothing when there *)
(* are no new operations.                                                  *)
RequestSnapshot(r) ==
  /\ loop[r] = "run"
  /\ unsaved' = unsaved \ {r}
  /\ UNCHANGED <<hubVars, loop, commands, clients, document, timer, awaits, requestVars,
                 storeVars>>

(* Mutant: the room stays in the registry. *)
Evict_StaysRegistered(r) ==
  /\ loop[r] = "run" /\ TimerFires(r) /\ clients[r] = {}
  /\ unsaved' = unsaved \ {r}
  /\ loop' = [loop EXCEPT ![r] = "removed"]
  /\ UNCHANGED <<hubVars, commands, clients, document, timer, awaits, requestVars,
                 storeVars>>

(* The idle timer fires: requestSnapshot and removeRoom ... *)
Evict(r) ==
  /\ loop[r] = "run" /\ TimerFires(r) /\ clients[r] = {}
  /\ unsaved' = unsaved \ {r}
  /\ registry' = registry \ {r}
  /\ loop' = [loop EXCEPT ![r] = "removed"]
  /\ UNCHANGED <<made, hub, drained, listed, commands, clients, document, timer, awaits,
                 requestVars, storeVars>>

(* ... and then done is closed. *)
End(r) ==
  /\ loop[r] = "removed"
  /\ loop' = [loop EXCEPT ![r] = "done"]
  /\ UNCHANGED <<hubVars, commands, ownerVars, requestVars, storeVars>>

(* Mutant: the loop is not left. *)
ApplyShutdown_StaysOn(r) ==
  /\ Take(r, "shutdown", "hub")
  /\ unsaved' = unsaved \ {r}
  /\ closed' = closed \cup clients[r]
  /\ clients' = [clients EXCEPT ![r] = {}]
  /\ UNCHANGED <<hubVars, loop, document, timer, awaits, pc, loaded, roomOf, synced,
                 storeVars>>

ApplyShutdown(r) ==
  /\ Take(r, "shutdown", "hub")
  /\ unsaved' = unsaved \ {r}
  /\ closed' = closed \cup clients[r]
  /\ clients' = [clients EXCEPT ![r] = {}]
  /\ loop' = [loop EXCEPT ![r] = "done"]
  /\ UNCHANGED <<hubVars, document, timer, awaits, pc, loaded, roomOf, synced, storeVars>>
-----------------------------------------------------------------------------
(***************************************************************************)
(* The writer, and the end of the server.                                  *)
(***************************************************************************)
(* Mutant: a retry writes what was written. *)
Write_Again ==
  /\ stored' = stored + 1
  /\ UNCHANGED <<hubVars, loop, commands, ownerVars, requestVars, accepted, sent>>

Write ==
  /\ stored < accepted
  /\ stored' = stored + 1
  /\ UNCHANGED <<hubVars, loop, commands, ownerVars, requestVars, accepted, sent>>

Move(from, to) ==
  /\ hub = from /\ hub' = to
  /\ UNCHANGED <<registry, made, loop, ownerVars, requestVars, storeVars>>

(* A signal: httpServer.Shutdown takes no new request, ... *)
StopListening == Move("open", "draining") /\ UNCHANGED <<drained, listed, commands>>

(* Handlers whose connection has not become a WebSocket yet. *)
Handlers == {q \in Requests : Loading(q)}

(* Mutant: CloseContext is called while handlers are under way. *)
ListRooms_Early ==
  /\ Move("draining", "telling")
  /\ drained' = TRUE /\ listed' = registry
  /\ UNCHANGED commands

(* ... and waits for the handlers; CloseContext then takes the rooms, ... *)
ListRooms ==
  /\ Move("draining", "telling")
  /\ Handlers = {}
  /\ drained' = TRUE /\ listed' = registry
  /\ UNCHANGED commands

(* ... unless a handler took too long: then main returns. *)
GiveUp ==
  /\ Move("draining", "exited")
  /\ Handlers # {}
  /\ UNCHANGED <<drained, listed, commands>>

(* ListenAndServe has failed: CloseContext is called at once. *)
ListenerFails ==
  /\ Move("open", "telling")
  /\ listed' = registry
  /\ UNCHANGED <<drained, commands>>

TellRooms ==
  /\ Move("telling", "waiting")
  /\ \/ \E r \in listed : Submit(r, "shutdown", "hub")
     \/ listed = {} /\ UNCHANGED commands
  /\ UNCHANGED <<drained, listed>>

AwaitRooms ==
  /\ Move("waiting", "closing")
  /\ \A r \in listed : loop[r] = "done"
  /\ UNCHANGED <<drained, listed, commands>>

(* The writer is closed, then the pool, and main returns. *)
CloseWriterAndPool ==
  Move("closing", "exited") /\ UNCHANGED <<drained, listed, commands>>
-----------------------------------------------------------------------------
Serve(q) == LoadDocument(q) \/ StoreRoom(q) \/ Unregister(q)

Owner(r) ==
  \/ \E q \in Requests : \/ ApplyRegister(r, q) \/ ApplyUnregister(r, q)
                         \/ ApplyOperation(r, q)
  \/ Evict(r) \/ End(r) \/ ApplyShutdown(r)

Closing == ListRooms \/ TellRooms \/ AwaitRooms \/ CloseWriterAndPool

Running ==
  \/ \E q \in Requests : \/ LookUp(q) \/ HelloFails(q) \/ Register(q)
                         \/ SubmitOperation(q) \/ Break(q) \/ DropClient(q)
                         \/ LoadFails(q) \/ Serve(q)
  \/ \E r \in Ids : Owner(r) \/ RequestSnapshot(r)
  \/ Write
  \/ StopListening \/ ListenerFails
  \/ Closing
  \/ GiveUp

Next == \/ hub # "exited" /\ Running
        \/ hub = "exited" /\ UNCHANGED vars

(***************************************************************************)
(* Fairness: goroutines are scheduled, timers fire, the writer writes.     *)
(* Nothing is assumed of what users and the network do, nor that a client  *)
(* says hello.                                                             *)
(***************************************************************************)
Fairness ==
  /\ \A q \in Requests : WF_vars(Serve(q) /\ hub # "exited")
  /\ \A r \in Ids : WF_vars(Owner(r) /\ hub # "exited")
  /\ WF_vars(Write /\ hub # "exited")
  /\ WF_vars(Closing)

Spec == Init /\ [][Next]_vars /\ Fairness
-----------------------------------------------------------------------------
(* Type invariant of the hub, the rooms and the requests. *)
TypeOK ==
  /\ registry \subseteq 1..made /\ Cardinality(registry) <= 1
  /\ made \in 0..MaxRooms
  /\ hub \in {"open", "draining", "telling", "waiting", "closing", "exited"}
  /\ drained \in BOOLEAN
  /\ listed \subseteq Ids /\ unsaved \subseteq Ids /\ timer \subseteq Ids
  /\ loop \in [Ids -> {"none", "run", "removed", "done"}]
  /\ \A r \in Ids : /\ loop[r] = "none" <=> r > made
                    /\ Len(commands[r]) <= QueueSize
                    /\ clients[r] \subseteq Requests
                    /\ document[r] \in 0..MaxOps
                    /\ awaits[r].requests \subseteq Requests
  /\ pc \in [Requests -> {"new", "load", "store", "hello", "read", "left"}]
  /\ \A q \in Requests : roomOf[q] \in 0..made
  /\ closed \cup synced \subseteq Requests
  /\ stored <= accepted /\ accepted <= sent /\ sent <= MaxOps

(* A document has one owner: also when two requests load it at once or a   *)
(* room is being evicted, no two loops take commands.                      *)
OneOwner == \A r, s \in Ids : loop[r] = "run" /\ loop[s] = "run" => r = s

(* While the server takes requests, a room that a lookup returns has not   *)
(* ended: the idle room leaves the registry first.                         *)
RegisteredRuns == hub = "open" => \A r \in registry : loop[r] = "run"

(***************************************************************************)
(* The running room has every operation that any room of the document has  *)
(* accepted: no request puts an older load into the registry after the     *)
(* room that was there has been evicted.                                   *)
(***************************************************************************)
NoStaleRoom == \A r \in Ids : loop[r] = "run" => document[r] = accepted

(***************************************************************************)
(* CloseContext: "The writer is closed only after every room has requested *)
(* its final snapshot and all room goroutines have stopped"; the pool is   *)
(* closed after it, so that no room sends on a closed channel.  It rests   *)
(* on main, which waits for the handlers first: after a failure of the     *)
(* listener it does not, and a late request may still make a room.         *)
(***************************************************************************)
RoomsEndFirst ==
  hub = "closing" /\ drained => unsaved = {} /\ \A r \in Ids : loop[r] # "run"

Deserted(r) ==
  /\ loop[r] = "run" /\ hub = "open"
  /\ \A q \in Requests : ~(At(q, "read") /\ roomOf[q] = r)

(* A room does not stay without connections: whatever became of its last   *)
(* clients, and whoever removed them, its timer runs and it ends.          *)
EmptyRoomsEnd == \A r \in Ids : Deserted(r) ~> ~Deserted(r)

(* A shutdown that has begun comes to an end: the hub, the rooms and the   *)
(* readers do not wait for each other forever.                             *)
ShutdownEnds == hub # "open" ~> hub = "exited"

(* A connection that registers is sent the document or closed, unless its  *)
(* room ends first.                                                        *)
RegistrationAnswered ==
  \A q \in Requests :
    At(q, "read") ~> \/ q \in synced \cup closed
                     \/ \E r \in Ids : roomOf[q] = r /\ loop[r] # "run"
                     \/ hub = "exited"
=============================================================================
