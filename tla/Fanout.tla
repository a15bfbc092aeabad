------------------------------- MODULE Fanout -------------------------------
(***************************************************************************)
(* How the messages of a room reach its connections: the owner goroutine   *)
(* with its bounded command queue, the one worker of the shared fan-out    *)
(* pool, and per connection a bounded send queue, a read loop and a write  *)
(* loop (internal/realtime/room.go, client.go).  Nothing here waits for a  *)
(* slow connection: it is dropped.  The room does not end in this module;  *)
(* see Rooms for that.                                                     *)
(***************************************************************************)
EXTENDS Naturals, Sequences

CONSTANTS Clients,
          QueueSize,         (* of r.commands and of each Client.send      *)
          FanoutQueueSize,   (* of the pool                                *)
          MaxReads           (* bound: messages read from connections      *)

ASSUME SizesAssumption ==
  /\ {QueueSize, FanoutQueueSize} \subseteq Nat \ {0}
  /\ MaxReads \in Nat

VARIABLES
  (* the connections *)
  pc,              (* per client: where its read loop is                   *)
  closed,          (* clients whose done channel is closed                 *)
  send,            (* per client: its send queue                           *)
  (* the room *)
  commands,
  clients,         (* r.clients                                            *)
  sequence,
  frames,          (* the broadcasts the owner is in, the innermost first  *)
  pendingCursors,  (* clients with a pending cursor                        *)
  cursorQueued,    (* clients whose flag is raised                         *)
  (* the pool *)
  jobs,
  worker,          (* <<>> or the job of the worker                        *)
  dropping,        (* the worker is in the onDrop of its job               *)
  (* the browsers *)
  latest,          (* per client: number of its last sync or operation     *)
  users,           (* per client: the users its tab shows                  *)
  (* bookkeeping of the model *)
  missed,          (* open clients that did not get a message              *)
  refused,         (* some submit to the pool was refused                  *)
  reads            (* messages read from connections                       *)

connections == <<pc, closed, send>>
pool == <<jobs, worker, dropping>>
cursorState == <<pendingCursors, cursorQueued>>
room == <<commands, clients, sequence, frames, cursorState>>
browsers == <<latest, users>>
counts == <<missed, refused, reads>>
vars == <<connections, room, pool, browsers, counts>>

Sync(n, active) == [kind |-> "sync", seq |-> n, active |-> active]
Op(n) == [kind |-> "op", seq |-> n]
Presence(active) == [kind |-> "presence", active |-> active]
Cursor(c) == [kind |-> "cursor", user |-> c]
Error == [kind |-> "error"]

Command(kind, c) == [kind |-> kind, client |-> c]

Init ==
  /\ pc = [c \in Clients |-> "new"]
  /\ closed = {}
  /\ send = [c \in Clients |-> <<>>]
  /\ commands = <<>>
  /\ clients = {}
  /\ sequence = 0
  /\ frames = <<>>
  /\ pendingCursors = {}
  /\ cursorQueued = {}
  /\ jobs = <<>>
  /\ worker = <<>>
  /\ dropping = FALSE
  /\ latest = [c \in Clients |-> 0]
  /\ users = [c \in Clients |-> {}]
  /\ missed = {}
  /\ refused = FALSE
  /\ reads = 0

(* Client.close.  What is in the queues of a closed client, and in its     *)
(* tab, does not matter any more.                                          *)
Close(c) ==
  /\ closed' = closed \cup {c}
  /\ send' = [send EXCEPT ![c] = <<>>]
  /\ users' = [users EXCEPT ![c] = {}]
  /\ missed' = missed \ {c}
-----------------------------------------------------------------------------
(***************************************************************************)
(* The read loop of a client.  A step that submits waits for a place in    *)
(* the command queue, except for a cursor.                                 *)
(***************************************************************************)
(* Mutant: the command queue has no limit. *)
Submit_Unbounded(command) == commands' = Append(commands, command)

(* submit *)
Submit(command) ==
  /\ Len(commands) < QueueSize
  /\ commands' = Append(commands, command)

At(c, label) == pc[c] = label
Goto(c, label) == pc' = [pc EXCEPT ![c] = label]

(* serve, after the hello. *)
Register(c) ==
  /\ At(c, "new")
  /\ Submit(Command("register", c))
  /\ Goto(c, "read")
  /\ UNCHANGED <<closed, send, clients, sequence, frames, cursorState, pool, browsers,
                 counts>>

ReadOperation(c) ==
  /\ At(c, "read") /\ c \notin closed
  /\ reads < MaxReads
  /\ reads' = reads + 1
  /\ Goto(c, "operation")
  /\ UNCHANGED <<closed, send, room, pool, browsers, missed, refused>>

SubmitOperation(c) ==
  /\ At(c, "operation")
  /\ Submit(Command("operation", c))
  /\ Goto(c, "read")
  /\ UNCHANGED <<closed, send, clients, sequence, frames, cursorState, pool, browsers,
                 counts>>

ReadCursor(c) ==
  /\ At(c, "read") /\ c \notin closed
  /\ reads < MaxReads
  /\ reads' = reads + 1
  /\ Goto(c, "cursor")
  /\ UNCHANGED <<closed, send, room, pool, browsers, missed, refused>>

(* Mutant: every cursor queues a command. *)
StoreCursor_Always(c) ==
  /\ At(c, "cursor")
  /\ pendingCursors' = pendingCursors \cup {c}
  /\ cursorQueued' = cursorQueued \cup {c}
  /\ Goto(c, "signal")
  /\ UNCHANGED <<closed, send, commands, clients, sequence, frames, pool, browsers,
                 counts>>

(* SubmitCursor, what it does under the lock. *)
StoreCursor(c) ==
  /\ At(c, "cursor")
  /\ pendingCursors' = pendingCursors \cup {c}
  /\ cursorQueued' = cursorQueued \cup {c}
  /\ Goto(c, IF c \in cursorQueued THEN "read" ELSE "signal")
  /\ UNCHANGED <<closed, send, commands, clients, sequence, frames, pool, browsers,
                 counts>>

(* Mutant: the flag stays raised when there was no place for the command. *)
ClearCursor_KeepsFlag(c) ==
  /\ pendingCursors' = pendingCursors \ {c}
  /\ cursorQueued' = IF At(c, "signal") THEN cursorQueued ELSE cursorQueued \ {c}

ClearCursor(c) ==
  /\ pendingCursors' = pendingCursors \ {c}
  /\ cursorQueued' = cursorQueued \ {c}

(* SubmitCursor, its select. *)
SignalCursor(c) ==
  /\ At(c, "signal")
  /\ \/ Submit(Command("cursor", c)) /\ UNCHANGED cursorState
     \/ Len(commands) = QueueSize /\ ClearCursor(c) /\ UNCHANGED commands
  /\ Goto(c, "read")
  /\ UNCHANGED <<closed, send, clients, sequence, frames, pool, browsers, counts>>

(* The peer is gone: a read, a write or a ping fails and closes the        *)
(* client.                                                                 *)
Break(c) ==
  /\ c \notin closed /\ ~At(c, "new")
  /\ Close(c)
  /\ UNCHANGED <<pc, room, pool, latest, refused, reads>>

(* Mutant: the read loop ends without telling the room. *)
Unregister_Silent(c) ==
  /\ At(c, "read") /\ c \in closed
  /\ Goto(c, "gone")
  /\ UNCHANGED <<closed, send, room, pool, browsers, counts>>

(* The read loop of a closed client ends. *)
Unregister(c) ==
  /\ At(c, "read") /\ c \in closed
  /\ Submit(Command("unregister", c))
  /\ Goto(c, "gone")
  /\ UNCHANGED <<closed, send, clients, sequence, frames, cursorState, pool, browsers,
                 counts>>
-----------------------------------------------------------------------------
(***************************************************************************)
(* The send queue and the write loop.                                      *)
(***************************************************************************)
HasPlace(c) == c \notin closed /\ Len(send[c]) < QueueSize

(* enqueue: without a place the message is gone. *)
Enqueue(c, message) ==
  send' = IF HasPlace(c) THEN [send EXCEPT ![c] = Append(@, message)] ELSE send

(* The read loop gets a message that it cannot decode: sendError. *)
ReadInvalid(c) ==
  /\ At(c, "read") /\ c \notin closed
  /\ reads < MaxReads
  /\ reads' = reads + 1
  /\ Enqueue(c, Error)
  /\ UNCHANGED <<pc, closed, room, pool, browsers, missed, refused>>

(* applySnapshot, applyPresence and setCursor of the tab. *)
Shown(shown, message) ==
  CASE message.kind \in {"sync", "presence"} -> message.active
    [] message.kind = "cursor" -> shown \cup {message.user}
    [] OTHER -> shown

WriteLoop(c) ==
  /\ c \notin closed
  /\ send[c] # <<>>
  /\ LET message == Head(send[c])
     IN  /\ latest' = IF message.kind \in {"sync", "op"}
                      THEN [latest EXCEPT ![c] = message.seq] ELSE latest
         /\ users' = [users EXCEPT ![c] = Shown(@, message)]
  /\ send' = [send EXCEPT ![c] = Tail(@)]
  /\ UNCHANGED <<pc, closed, room, pool, counts>>
-----------------------------------------------------------------------------
(***************************************************************************)
(* The worker.                                                             *)
(***************************************************************************)
TakeJob ==
  /\ worker = <<>> /\ jobs # <<>>
  /\ worker' = <<Head(jobs)>>
  /\ jobs' = Tail(jobs)
  /\ UNCHANGED <<connections, room, dropping, browsers, counts>>

(* Mutant: a message without a place is skipped, as an error message is. *)
EnqueueJob_NoDrop ==
  /\ worker # <<>> /\ ~dropping
  /\ LET c == worker[1].client
     IN  /\ Enqueue(c, worker[1].data)
         /\ worker' = <<>>
         /\ missed' = IF HasPlace(c) \/ c \in closed THEN missed ELSE missed \cup {c}
  /\ UNCHANGED <<pc, closed, room, jobs, dropping, browsers, refused, reads>>

EnqueueJob ==
  /\ worker # <<>> /\ ~dropping
  /\ LET c == worker[1].client
     IN  /\ Enqueue(c, worker[1].data)
         /\ worker' = IF HasPlace(c) THEN <<>> ELSE worker
         /\ dropping' = ~HasPlace(c)
         /\ missed' = IF HasPlace(c) \/ c \in closed THEN missed ELSE missed \cup {c}
  /\ UNCHANGED <<pc, closed, room, jobs, browsers, refused, reads>>

(* onDrop *)
DropClient ==
  /\ dropping
  /\ Submit(Command("unregister", worker[1].client))
  /\ worker' = <<>>
  /\ dropping' = FALSE
  /\ UNCHANGED <<connections, clients, sequence, frames, cursorState, jobs, browsers,
                 counts>>
-----------------------------------------------------------------------------
(***************************************************************************)
(* The room owner.  It takes a command when it is in no broadcast.         *)
(***************************************************************************)
Take(kind, c) ==
  /\ frames = <<>>
  /\ commands # <<>> /\ Head(commands) = Command(kind, c)
  /\ commands' = Tail(commands)

Frame(message, todo) == [data |-> message, todo |-> todo]

(* register: the snapshot goes to the new client directly. *)
ApplyRegister(c) ==
  /\ Take("register", c)
  /\ IF HasPlace(c)
     THEN /\ clients' = clients \cup {c}
          /\ Enqueue(c, Sync(sequence, clients'))
          /\ frames' = <<Frame(Presence(clients'), clients)>>
          /\ UNCHANGED <<closed, users, missed>>
     ELSE Close(c) /\ UNCHANGED <<clients, frames>>
  /\ UNCHANGED <<pc, sequence, cursorState, pool, latest, refused, reads>>

(* Mutant: the list of users is made before the client is removed. *)
RemoveClient_StaleList(c, outer) ==
  /\ clients' = clients \ {c}
  /\ ClearCursor(c)
  /\ Close(c)
  /\ frames' = <<Frame(Presence(clients), clients')>> \o outer

(* unregister of a client that is in the room: the others are told. *)
RemoveClient(c, outer) ==
  /\ clients' = clients \ {c}
  /\ ClearCursor(c)
  /\ Close(c)
  /\ frames' = <<Frame(Presence(clients'), clients')>> \o outer

ApplyUnregister(c) ==
  /\ Take("unregister", c)
  /\ IF c \in clients
     THEN RemoveClient(c, <<>>)
     ELSE UNCHANGED <<clients, closed, send, users, missed, cursorState, frames>>
  /\ UNCHANGED <<pc, sequence, pool, latest, refused, reads>>

(* Mutant: the operation is sent back to its sender. *)
AcceptOperation_Echo(c) ==
  /\ Take("operation", c)
  /\ sequence' = sequence + 1
  /\ frames' = <<Frame(Op(sequence'), clients)>>
  /\ UNCHANGED <<connections, clients, cursorState, pool, browsers, counts>>

(* applyOperation *)
AcceptOperation(c) ==
  /\ Take("operation", c)
  /\ sequence' = sequence + 1
  /\ frames' = <<Frame(Op(sequence'), clients \ {c})>>
  /\ UNCHANGED <<connections, clients, cursorState, pool, browsers, counts>>

(* Apply failed. *)
RejectOperation(c) ==
  /\ Take("operation", c)
  /\ Enqueue(c, Error)
  /\ UNCHANGED <<pc, closed, clients, sequence, frames, cursorState, pool, browsers,
                 counts>>

(* applyCursor *)
ApplyCursor(c) ==
  /\ Take("cursor", c)
  /\ pendingCursors' = pendingCursors \ {c}
  /\ cursorQueued' = cursorQueued \ {c}
  /\ frames' = IF c \in pendingCursors \cap clients
               THEN <<Frame(Cursor(c), clients \ {c})>> ELSE <<>>
  /\ UNCHANGED <<connections, clients, sequence, pool, browsers, counts>>

(* One turn of the loop of broadcast.  Without a place in the pool the     *)
(* client is removed on the spot, which begins another broadcast.          *)
Broadcast(c) ==
  /\ frames # <<>> /\ c \in frames[1].todo \cap clients
  /\ LET rest == <<[frames[1] EXCEPT !.todo = @ \ {c}]>> \o Tail(frames)
     IN  \/ /\ Len(jobs) < FanoutQueueSize
            /\ jobs' = Append(jobs, [client |-> c, data |-> frames[1].data])
            /\ frames' = rest
            /\ UNCHANGED <<clients, closed, send, users, missed, cursorState, refused>>
         \/ /\ Len(jobs) = FanoutQueueSize
            /\ RemoveClient(c, rest)
            /\ refused' = TRUE
            /\ UNCHANGED jobs
  /\ UNCHANGED <<pc, commands, sequence, worker, dropping, latest, reads>>

EndBroadcast ==
  /\ frames # <<>> /\ frames[1].todo \cap clients = {}
  /\ frames' = Tail(frames)
  /\ UNCHANGED <<connections, commands, clients, sequence, cursorState, pool, browsers,
                 counts>>
-----------------------------------------------------------------------------
ReadLoop(c) == \/ SubmitOperation(c) \/ StoreCursor(c) \/ SignalCursor(c)
               \/ Unregister(c)

Owner == \/ EndBroadcast
         \/ \E c \in Clients : \/ ApplyRegister(c) \/ ApplyUnregister(c)
                               \/ AcceptOperation(c) \/ RejectOperation(c)
                               \/ ApplyCursor(c) \/ Broadcast(c)

Worker == TakeJob \/ EnqueueJob \/ DropClient

(* Nobody is left. *)
Finished ==
  /\ \A c \in Clients : At(c, "gone")
  /\ commands = <<>> /\ frames = <<>> /\ jobs = <<>> /\ worker = <<>>
  /\ UNCHANGED vars

Next ==
  \/ \E c \in Clients : \/ Register(c) \/ ReadOperation(c) \/ ReadCursor(c)
                        \/ ReadInvalid(c) \/ Break(c) \/ ReadLoop(c) \/ WriteLoop(c)
  \/ Owner
  \/ Worker
  \/ Finished

(***************************************************************************)
(* Fairness: the goroutines are scheduled.  A submit that waits for a      *)
(* place gets one, since blocked senders of a Go channel are served in     *)
(* turn and the number of commands is bounded; a write takes 5 s at most.  *)
(* Nothing is assumed of users and of the network.                         *)
(***************************************************************************)
Fairness ==
  /\ WF_vars(Owner)
  /\ WF_vars(Worker)
  /\ \A c \in Clients : WF_vars(ReadLoop(c)) /\ WF_vars(WriteLoop(c))

Spec == Init /\ [][Next]_vars /\ Fairness
-----------------------------------------------------------------------------
Message == {"sync", "op", "presence", "cursor", "error"}

(* Type invariant of the connections, the room and the pool. *)
TypeOK ==
  /\ pc \in [Clients -> {"new", "read", "operation", "cursor", "signal", "gone"}]
  /\ {closed, clients, pendingCursors, cursorQueued, missed} \subseteq SUBSET Clients
  /\ \A c \in Clients : /\ Len(send[c]) <= QueueSize
                        /\ \A i \in DOMAIN send[c] : send[c][i].kind \in Message
                        /\ users[c] \subseteq Clients
                        /\ latest[c] \in 0..sequence
  /\ Len(commands) <= QueueSize
  /\ \A i \in DOMAIN commands :
       /\ commands[i].kind \in {"register", "unregister", "operation", "cursor"}
       /\ commands[i].client \in Clients
  /\ sequence \in 0..reads /\ reads \in 0..MaxReads
  /\ \A i \in DOMAIN frames : /\ frames[i].data.kind \in {"op", "presence", "cursor"}
                              /\ frames[i].todo \subseteq Clients
  /\ Len(jobs) <= FanoutQueueSize /\ Len(worker) <= 1
  /\ \A i \in DOMAIN (worker \o jobs) : (worker \o jobs)[i].client \in Clients
  /\ {dropping, refused} \subseteq BOOLEAN
  /\ dropping => worker # <<>>

Queued(kind, c) == \E i \in DOMAIN commands : commands[i] = Command(kind, c)

(***************************************************************************)
(* A connection that missed a message is closed, or the worker is about to *)
(* ask for its removal, or the room is about to read that request: what    *)
(* the connection may still get in between is never its last word.         *)
(***************************************************************************)
DropIsFinal ==
  \A c \in missed \ closed : \/ dropping /\ worker[1].client = c
                             \/ Queued("unregister", c)

(***************************************************************************)
(* SubmitCursor and applyCursor share the pending cursors and the flags.   *)
(* A raised flag, which keeps later cursors of the client from being       *)
(* queued, stands for a command that is queued or about to be; so no       *)
(* pending cursor is left behind.                                          *)
(***************************************************************************)
CursorSignalled ==
  /\ pendingCursors \subseteq cursorQueued
  /\ \A c \in cursorQueued : Queued("cursor", c) \/ At(c, "signal")

(* However fast a client in the room moves its cursor, it has one cursor   *)
(* command in the queue at most.                                           *)
CursorsCoalesced ==
  \A c \in clients : \A i, j \in DOMAIN commands :
    commands[i] = Command("cursor", c) /\ commands[j] = Command("cursor", c) => i = j

(* Nothing is on its way to client c. *)
Settled(c) ==
  /\ send[c] = <<>> /\ frames = <<>>
  /\ \A i \in DOMAIN (worker \o jobs) : (worker \o jobs)[i].client # c

(***************************************************************************)
(* When nothing is on its way to a connection, its tab shows the users who *)
(* are in the room, if the pool never refused a message.  (A refused one   *)
(* removes its client inside a broadcast, and the outer broadcast goes on  *)
(* with the list of users from before.)                                    *)
(***************************************************************************)
PresenceSettles ==
  ~refused =>
    \A c \in clients \ (closed \cup missed) : Settled(c) => users[c] = clients

(* A closed connection leaves the room: it neither stays in the map of     *)
(* clients nor in the lists of users.                                      *)
ClosedLeaves == \A c \in Clients : c \in closed /\ c \in clients ~> c \notin clients
-----------------------------------------------------------------------------
(***************************************************************************)
(* The room keeps the promise of Delivery.  On its way to a client is what *)
(* is in its send queue, with the worker, in the pool, and what the        *)
(* broadcast in progress has yet to submit; a closed client gets nothing.  *)
(***************************************************************************)
Numbers(messages) ==
  LET upTo[n \in 0..Len(messages)] ==
        IF n = 0 THEN <<>>
        ELSE IF messages[n].kind \in {"sync", "op"}
             THEN Append(upTo[n - 1], messages[n].seq) ELSE upTo[n - 1]
  IN  upTo[Len(messages)]

(* An error has no number: it stands for what is not for c. *)
JobsFor(c, queue) ==
  [i \in DOMAIN queue |-> IF queue[i].client = c THEN queue[i].data ELSE Error]

FramesFor(c, stack) ==
  [i \in DOMAIN stack |-> IF c \in stack[i].todo THEN stack[i].data ELSE Error]

OnTheWay(c) ==
  send[c] \o JobsFor(c, (IF dropping THEN <<>> ELSE worker) \o jobs)
          \o FramesFor(c, frames)

Outbox == [c \in Clients |-> IF c \in clients \ closed
                             THEN Numbers(OnTheWay(c)) ELSE <<>>]

Promise ==
  INSTANCE Delivery
    WITH published <- sequence, open <- clients \ closed, outbox <- Outbox

(* Room, pool and connections together implement Delivery: in order, once, *)
(* nothing left out without the connection being closed for it.            *)
DeliversInOrder == Promise!Spec
=============================================================================
