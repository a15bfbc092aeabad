---------------------------- MODULE Rooms_proofs ----------------------------
(***************************************************************************)
(* Theorems about Rooms for any requests, queue size, number of rooms and  *)
(* operations.  The inductive invariant comes first, with the steps that   *)
(* add no command to a queue and take none; then the handlers that store   *)
(* or join a room and put commands in its queue, and the loop of a room,   *)
(* which takes them.                                                       *)
(***************************************************************************)
EXTENDS Rooms, FiniteSetTheorems, TLAPS

CommandSet == [kind : {"register", "unregister", "operation", "shutdown"},
               request : Requests \cup {"hub"}]

Types ==
  /\ registry \in SUBSET Ids /\ listed \in SUBSET Ids
  /\ made \in 0..MaxRooms
  /\ hub \in {"open", "draining", "telling", "waiting", "closing", "exited"}
  /\ drained \in BOOLEAN
  /\ loop \in [Ids -> {"none", "run", "removed", "done"}]
  /\ commands \in [Ids -> Seq(CommandSet)]
  /\ clients \in [Ids -> SUBSET Requests]
  /\ document \in [Ids -> Nat]
  /\ unsaved \in SUBSET Ids /\ timer \in SUBSET Ids
  /\ awaits \in [Ids -> [requests : SUBSET Requests, stored : Nat]]
  /\ pc \in [Requests -> {"new", "load", "store", "hello", "read", "left"}]
  /\ loaded \in [Requests -> Nat]
  /\ roomOf \in [Requests -> Nat]
  /\ closed \in SUBSET Requests /\ synced \in SUBSET Requests
  /\ accepted \in Nat /\ stored \in Nat /\ sent \in Nat
  /\ stored <= accepted

Positions(r) == 1..Len(commands[r])
Holds(r, i, kind, q) == commands[r][i] = [kind |-> kind, request |-> q]
Runs(r) == loop[r] = "run"

(* The rooms that were made, the one that is registered and the one that   *)
(* runs.                                                                   *)
Registry ==
  /\ registry \cup listed \subseteq 1..made
  /\ \A r \in Ids : r > made => clients[r] = {} /\ commands[r] = <<>>
  /\ \A r \in Ids : Runs(r) => r \in registry
  /\ \A r, s \in registry : r = s
  /\ hub \in {"open", "draining"} =>
       /\ \A r \in registry : Runs(r)
       /\ \A r \in Ids : \A i \in Positions(r) : commands[r][i].kind # "shutdown"

(* Shutdown. *)
Ending ==
  /\ unsaved \subseteq {r \in Ids : Runs(r)}
  /\ drained => /\ \A q \in Requests : ~Loading(q)
                /\ \A r \in Ids : Runs(r) => r \in listed
  /\ hub = "closing" => \A r \in listed : loop[r] = "done"

(* Requests know their room, and the commands in its queue are theirs. *)
Membership ==
  /\ \A q \in Requests : At(q, "hello") \/ At(q, "read") => roomOf[q] \in 1..made
  /\ \A r \in Ids : \A q \in clients[r] : roomOf[q] = r /\ pc[q] \in {"read", "left"}
  /\ \A r \in Ids : \A i \in Positions(r) :
       commands[r][i].kind # "shutdown" =>
         \E q \in Requests : /\ commands[r][i].request = q
                             /\ roomOf[q] = r /\ pc[q] \in {"read", "left"}
  /\ \A q \in synced :
       /\ roomOf[q] \in 1..made /\ pc[q] \in {"read", "left"}
       /\ q \in closed \/ q \in clients[roomOf[q]] \/ ~Runs(roomOf[q])

(* An operation of a client is followed by its unregister, once it left. *)
Followed(r, i, q) ==
  At(q, "read") \/ \E j \in Positions(r) : j > i /\ Holds(r, j, "unregister", q)

Operations ==
  \A r \in Ids : Runs(r) =>
    \A i \in Positions(r) : \A q \in Requests :
      Holds(r, i, "operation", q) =>
        /\ q \in synced
        /\ Followed(r, i, q)
        /\ r \in timer => q \in awaits[r].requests

(* The client will start the timer again. *)
Leaving(r, q) ==
  \/ At(q, "read") /\ roomOf[q] = r /\ q \in closed
  \/ \E i \in Positions(r) : Holds(r, i, "unregister", q)

Timers ==
  \A r \in Ids : Runs(r) /\ r \in timer =>
    /\ clients[r] = {}
    /\ \A q \in Requests : Loading(q) => q \in awaits[r].requests
    /\ \/ accepted = awaits[r].stored
       \/ \E q \in awaits[r].requests : Leaving(r, q)

Contents ==
  /\ registry = {} => stored = accepted
  /\ \A q \in Requests : At(q, "store") /\ registry = {} => loaded[q] = accepted
  /\ NoStaleRoom

Inv == /\ Types /\ Registry /\ Ending /\ Membership /\ Operations /\ Timers
       /\ Contents
-----------------------------------------------------------------------------
LEMMA IdsAreNumbers == MaxRooms \in Nat /\ Ids \subseteq Nat /\ 0..MaxRooms \subseteq Nat
  BY RoomsAssumption DEF Ids

LEMMA InvInit == Init => Inv
<1> SUFFICES ASSUME Init PROVE Inv
  BY Zenon
<1> USE RoomsAssumption
<1>1. \A r \in Ids : Positions(r) = {}
  BY DEF Init, Positions
<1>2. Types
  <2>1. <<>> \in Seq(CommandSet) /\ 0 \in Nat /\ 0 \in 0..MaxRooms
    BY IdsAreNumbers
  <2>2. /\ loop \in [Ids -> {"none", "run", "removed", "done"}]
        /\ commands \in [Ids -> Seq(CommandSet)]
        /\ clients \in [Ids -> SUBSET Requests]
        /\ document \in [Ids -> Nat]
    BY <2>1, Zenon DEF Init
  <2>3. awaits \in [Ids -> [requests : SUBSET Requests, stored : Nat]]
    BY <2>1, Zenon DEF Init
  <2>4. /\ pc \in [Requests -> {"new", "load", "store", "hello", "read", "left"}]
        /\ loaded \in [Requests -> Nat]
        /\ roomOf \in [Requests -> Nat]
    BY <2>1, Zenon DEF Init
  <2>5. drained \in BOOLEAN
    BY Zenon DEF Init
  <2>6. QED
    BY <2>1, <2>2, <2>3, <2>4, <2>5 DEF Init, Types
<1>3. Registry /\ Ending /\ Membership
  BY <1>1, Zenon DEF Init, Registry, Ending, Membership, Runs, Loading, At
<1>4. Operations /\ Timers /\ Contents
  BY <1>1, Zenon DEF Init, Operations, Timers, Contents, NoStaleRoom, Runs, At
<1>5. QED
  BY <1>2, <1>3, <1>4, Zenon DEF Inv

(* The queue of a room only grows at its end. *)
Grows(r) == \A i \in Positions(r) : i \in Positions(r)' /\ commands'[r][i] = commands[r][i]

LEMMA SubmitEffect ==
  ASSUME Types, NEW r \in Ids, NEW q \in Requests \cup {"hub"},
         NEW kind \in {"register", "unregister", "operation", "shutdown"},
         Submit(r, kind, q)
  PROVE  /\ commands' \in [Ids -> Seq(CommandSet)]
         /\ \A s \in Ids \ {r} : commands'[s] = commands[s]
         /\ \A s \in Ids : Grows(s)
         /\ \A s \in Ids : \A i \in Positions(s)' :
              i \in Positions(s) \/ (s = r /\ Holds(r, i, kind, q)')
         /\ loop[r] # "done" =>
              \E i \in Positions(r)' : i > Len(commands[r]) /\ Holds(r, i, kind, q)'
<1> DEFINE command == [kind |-> kind, request |-> q]
<1>1. command \in CommandSet
  BY Zenon DEF CommandSet
<1>2. commands \in [Ids -> Seq(CommandSet)]
  BY Zenon DEF Types
<1>3. CASE commands' = [commands EXCEPT ![r] = Append(@, command)]
  <2>1. /\ commands' \in [Ids -> Seq(CommandSet)]
        /\ \A s \in Ids \ {r} : commands'[s] = commands[s]
        /\ commands'[r] = Append(commands[r], command)
    BY <1>1, <1>2, <1>3
  <2>2. /\ Len(commands'[r]) = Len(commands[r]) + 1
        /\ \A i \in 1..Len(commands[r]) : commands'[r][i] = commands[r][i]
        /\ commands'[r][Len(commands[r]) + 1] = command
        /\ Len(commands[r]) \in Nat
    BY <1>1, <1>2, <2>1
  <2>3. /\ Positions(r)' = Positions(r) \cup {Len(commands[r]) + 1}
        /\ Len(commands[r]) + 1 > Len(commands[r])
    BY <2>2 DEF Positions
  <2>4. \A s \in Ids : Grows(s)
    <3>1. Grows(r)
      BY <2>2, <2>3, Zenon DEF Positions, Grows
    <3>2. ASSUME NEW s \in Ids, s # r PROVE Grows(s)
      BY <2>1, <3>2, Zenon DEF Positions, Grows
    <3>3. QED
      BY <3>1, <3>2, Zenon
  <2>5. commands'[r][Len(commands[r]) + 1] = [kind |-> kind, request |-> q]
    BY <2>2, Zenon
  <2>6. ASSUME NEW i \in Positions(r)' PROVE i \in Positions(r) \/ Holds(r, i, kind, q)'
    <3>1. i \in Positions(r) \/ i = Len(commands[r]) + 1
      BY <2>3, Zenon
    <3>2. QED
      BY <2>5, <3>1, Zenon DEF Holds
  <2>7. \E i \in Positions(r)' : i > Len(commands[r]) /\ Holds(r, i, kind, q)'
    BY <2>3, <2>5, Zenon DEF Holds
  <2>8. ASSUME NEW s \in Ids, NEW i \in Positions(s)'
        PROVE  i \in Positions(s) \/ (s = r /\ Holds(r, i, kind, q)')
    <3>1. CASE s = r
      BY <2>6, <3>1, Zenon
    <3>2. CASE s # r
      BY <2>1, <3>2, Zenon DEF Positions
    <3>3. QED
      BY <3>1, <3>2, Zenon
  <2>9. QED
    BY <2>1, <2>4, <2>6, <2>7, <2>8, Zenon
<1>4. CASE commands' = commands /\ loop[r] = "done"
  <2>1. \A s \in Ids : Positions(s)' = Positions(s)
    BY <1>4, Zenon DEF Positions
  <2>2. \A s \in Ids : Grows(s)
    BY <1>4, <2>1, Zenon DEF Grows
  <2>3. QED
    BY <1>2, <1>4, <2>1, <2>2, Zenon
<1>5. QED
  BY <1>3, <1>4, Zenon DEF Submit

LEMMA TakeEffect ==
  ASSUME Types, NEW r \in Ids, NEW kind, NEW q, Take(r, kind, q)
  PROVE  /\ Runs(r)
         /\ commands' \in [Ids -> Seq(CommandSet)]
         /\ \A s \in Ids \ {r} : commands'[s] = commands[s]
         /\ 1 \in Positions(r) /\ Holds(r, 1, kind, q)
         /\ \A i \in Positions(r)' :
              i + 1 \in Positions(r) /\ commands'[r][i] = commands[r][i + 1]
         /\ \A i \in Positions(r) : i > 1 =>
              i - 1 \in Positions(r)' /\ commands'[r][i - 1] = commands[r][i]
<1>1. commands \in [Ids -> Seq(CommandSet)]
  BY Zenon DEF Types
<1>2. /\ commands' \in [Ids -> Seq(CommandSet)]
      /\ \A s \in Ids \ {r} : commands'[s] = commands[s]
      /\ commands'[r] = Tail(commands[r])
      /\ commands[r] # <<>>
  BY <1>1 DEF Take
<1>3. /\ Len(commands[r]) \in Nat \ {0}
      /\ Len(commands'[r]) = Len(commands[r]) - 1
      /\ \A i \in 1..Len(commands'[r]) : commands'[r][i] = commands[r][i + 1]
      /\ Head(commands[r]) = commands[r][1]
  BY <1>1, <1>2
<1>4. QED
  BY <1>2, <1>3 DEF Take, Runs, Positions, Holds

(* What steps that leave the queues alone keep. *)
LEMMA MembershipKept ==
  ASSUME Types, Membership, UNCHANGED <<commands, clients, synced>>,
         made' \in Nat, made <= made', closed \subseteq closed',
         \A r \in 1..made : Runs(r)' => Runs(r),
         \A q \in Requests :
           /\ pc[q] \in {"read", "left"} =>
                pc'[q] \in {"read", "left"} /\ roomOf'[q] = roomOf[q]
           /\ pc'[q] \in {"hello", "read"} =>
                \/ roomOf'[q] \in 1..made'
                \/ pc[q] \in {"hello", "read"} /\ roomOf'[q] = roomOf[q]
  PROVE  Membership'
<1>1. \A r \in Ids : Positions(r)' = Positions(r)
  BY Zenon DEF Positions
<1>2. made \in Nat /\ 1..made \subseteq 1..made'
  BY IdsAreNumbers DEF Types
<1>3. \A q \in Requests : At(q, "hello")' \/ At(q, "read")' => roomOf'[q] \in 1..made'
  BY <1>2, Zenon DEF Membership, At, Types
<1>4. \A r \in Ids : \A q \in clients'[r] : roomOf'[q] = r /\ pc'[q] \in {"read", "left"}
  BY Zenon DEF Membership, Types
<1>5. ASSUME NEW r \in Ids, NEW i \in Positions(r)', commands'[r][i].kind # "shutdown"
      PROVE  \E q \in Requests : /\ commands'[r][i].request = q
                                 /\ roomOf'[q] = r /\ pc'[q] \in {"read", "left"}
  BY <1>1, <1>5 DEF Membership, Types
<1>6. ASSUME NEW q \in synced'
      PROVE  /\ roomOf'[q] \in 1..made' /\ pc'[q] \in {"read", "left"}
             /\ q \in closed' \/ q \in clients'[roomOf'[q]] \/ ~Runs(roomOf[q])'
  BY <1>2, Zenon DEF Membership, Types
<1>7. QED
  BY <1>3, <1>4, <1>5, <1>6, Zenon DEF Membership

LEMMA OperationsKept ==
  ASSUME Operations, synced \subseteq synced',
         \A r \in Ids : Runs(r)' =>
           /\ Runs(r) /\ commands'[r] = commands[r]
           /\ r \in timer' => r \in timer /\ awaits'[r] = awaits[r],
         \A q \in Requests : At(q, "read") => At(q, "read")'
  PROVE  Operations'
<1> SUFFICES ASSUME NEW r \in Ids, Runs(r)', NEW i \in Positions(r)',
                    NEW q \in Requests, Holds(r, i, "operation", q)'
             PROVE  /\ q \in synced' /\ Followed(r, i, q)'
                    /\ r \in timer' => q \in awaits'[r].requests
  BY Zenon DEF Operations
<1>1. Runs(r) /\ i \in Positions(r) /\ Holds(r, i, "operation", q)
  BY Zenon DEF Positions, Holds
<1>2. q \in synced /\ Followed(r, i, q) /\ (r \in timer => q \in awaits[r].requests)
  BY <1>1, Zenon DEF Operations
<1>3. Followed(r, i, q)'
  BY <1>2, Zenon DEF Followed, Positions, Holds
<1>4. QED
  BY <1>2, <1>3, Zenon

LEMMA LeavingKept ==
  ASSUME NEW r, NEW q \in Requests, Leaving(r, q), Grows(r), closed \subseteq closed',
         At(q, "read") => At(q, "read")' /\ roomOf'[q] = roomOf[q]
  PROVE  Leaving(r, q)'
  BY Zenon DEF Leaving, Grows, Holds

LEMMA TimersFollow ==
  ASSUME Types, Timers, accepted' = accepted,
         \A r \in Ids : Runs(r)' /\ r \in timer' =>
           /\ Runs(r) /\ r \in timer /\ awaits'[r] = awaits[r]
           /\ clients'[r] = clients[r]
           /\ \A q \in Requests : /\ Loading(q)' => Loading(q)
                                  /\ Leaving(r, q) => Leaving(r, q)'
  PROVE  Timers'
<1> SUFFICES ASSUME NEW r \in Ids, Runs(r)', r \in timer'
             PROVE  /\ clients'[r] = {}
                    /\ \A q \in Requests : Loading(q)' => q \in awaits'[r].requests
                    /\ \/ accepted' = awaits'[r].stored
                       \/ \E q \in awaits'[r].requests : Leaving(r, q)'
  BY Zenon DEF Timers
<1>1. /\ clients[r] = {}
      /\ \A q \in Requests : Loading(q) => q \in awaits[r].requests
      /\ \/ accepted = awaits[r].stored
         \/ \E q \in awaits[r].requests : Leaving(r, q)
  BY Zenon DEF Timers
<1>2. awaits[r].requests \subseteq Requests
  BY Zenon DEF Types
<1>3. QED
  BY <1>1, <1>2, Zenon

LEMMA TimersKept ==
  ASSUME Types, Timers, accepted' = accepted, closed \subseteq closed',
         \A r \in Ids : Runs(r)' /\ r \in timer' =>
           /\ Runs(r) /\ r \in timer /\ awaits'[r] = awaits[r]
           /\ clients'[r] = clients[r] /\ Grows(r)
           /\ \A q \in Requests : Loading(q)' => Loading(q),
         \A q \in Requests : At(q, "read") => At(q, "read")' /\ roomOf'[q] = roomOf[q]
  PROVE  Timers'
<1>1. ASSUME NEW r \in Ids, Grows(r), NEW q \in Requests, Leaving(r, q)
      PROVE  Leaving(r, q)'
  BY <1>1, LeavingKept, Zenon
<1>2. QED
  BY <1>1, TimersFollow, Zenon

(***************************************************************************)
(* The steps of the owner: the room that takes a command is the only one   *)
(* that runs.                                                              *)
(***************************************************************************)
LEMMA OnlyRunner ==
  ASSUME Inv, NEW r \in Ids, Runs(r)
  PROVE  /\ r \in registry /\ r \in 1..made
         /\ \A s \in Ids : Runs(s) <=> s = r
         /\ \A s \in Ids : s > made => s # r
<1>1. r \in registry /\ r \in 1..made
  BY Zenon DEF Inv, Registry
<1>2. \A s \in Ids : Runs(s) <=> s = r
  BY <1>1, Zenon DEF Inv, Registry
<1>3. QED
  BY <1>1, <1>2, IdsAreNumbers DEF Inv, Types

LEMMA RegistryTakes ==
  ASSUME Inv, NEW r \in Ids, NEW kind, NEW q, Take(r, kind, q), UNCHANGED hubVars,
         \A s \in Ids : /\ Runs(s)' => Runs(s)
                        /\ s # r => clients'[s] = clients[s],
         hub \in {"open", "draining"} => loop' = loop
  PROVE  Registry'
<1>1. Runs(r) /\ \A s \in Ids \ {r} : commands'[s] = commands[s]
  BY TakeEffect, Zenon DEF Inv
<1>2. ASSUME hub \in {"open", "draining"}, NEW s \in Ids, NEW i \in Positions(s)'
      PROVE  commands'[s][i].kind # "shutdown"
  <2>1. CASE s = r
    BY <1>2, <2>1, TakeEffect DEF Inv, Registry
  <2>2. CASE s # r
    BY <1>1, <1>2, <2>2 DEF Inv, Registry, Positions
  <2>3. QED
    BY <2>1, <2>2, Zenon
<1>3. QED
  BY <1>1, <1>2, OnlyRunner, Zenon DEF Inv, Registry, Runs, hubVars

LEMMA MembershipTakes ==
  ASSUME Inv, NEW r \in Ids, NEW kind, NEW q, Take(r, kind, q),
         UNCHANGED <<pc, roomOf, made>>, closed \subseteq closed',
         \A s \in Ids : /\ Runs(s)' => s = r
                        /\ s # r => clients'[s] = clients[s],
         \A p \in clients'[r] : roomOf[p] = r /\ pc[p] \in {"read", "left"},
         clients[r] \subseteq clients'[r] \cup closed',
         \A p \in synced' :
           \/ p \in synced
           \/ roomOf[p] = r /\ pc[p] \in {"read", "left"} /\ p \in clients'[r] \cup closed'
  PROVE  Membership'
<1>1. ASSUME NEW s \in Ids, NEW i \in Positions(s)', commands'[s][i].kind # "shutdown"
      PROVE  \E p \in Requests : /\ commands'[s][i].request = p
                                 /\ roomOf'[p] = s /\ pc'[p] \in {"read", "left"}
  <2>1. CASE s = r
    BY <1>1, <2>1, TakeEffect DEF Inv, Membership
  <2>2. CASE s # r
    <3>1. commands'[s] = commands[s] /\ i \in Positions(s)
      BY <1>1, <2>2, TakeEffect DEF Inv, Positions
    <3>2. QED
      BY <1>1, <3>1 DEF Inv, Membership
  <2>3. QED
    BY <2>1, <2>2, Zenon
<1>2. \A p \in Requests : At(p, "hello")' \/ At(p, "read")' => roomOf'[p] \in 1..made'
  BY Zenon DEF Inv, Membership, At
<1>3. \A s \in Ids : \A p \in clients'[s] : roomOf'[p] = s /\ pc'[p] \in {"read", "left"}
  BY Zenon DEF Inv, Membership
<1>4. ASSUME NEW p \in synced'
      PROVE  /\ roomOf'[p] \in 1..made' /\ pc'[p] \in {"read", "left"}
             /\ p \in closed' \/ p \in clients'[roomOf'[p]] \/ ~Runs(roomOf[p])'
  <2>1. Runs(r) /\ r \in 1..made
    BY TakeEffect, OnlyRunner, Zenon DEF Inv
  <2>2. CASE p \in synced
    <3>1. roomOf[p] \in Ids
      BY <2>2, IdsAreNumbers DEF Inv, Membership, Types, Ids
    <3>2. QED
      BY <2>1, <2>2, <3>1 DEF Inv, Membership
  <2>3. CASE p \notin synced
    BY <2>1, <2>3, Zenon
  <2>4. QED
    BY <2>2, <2>3, Zenon
<1>5. QED
  BY <1>1, <1>2, <1>3, <1>4, Zenon DEF Membership

LEMMA OperationsTake ==
  ASSUME Inv, NEW r \in Ids, NEW kind, NEW q, Take(r, kind, q), pc' = pc,
         synced \subseteq synced', \A s \in Ids : Runs(s)' => s = r,
         r \in timer' => \A p \in Requests : \A i \in Positions(r) :
                           Holds(r, i, "operation", p) => p \in awaits'[r].requests
  PROVE  Operations'
<1> SUFFICES ASSUME Runs(r)', NEW i \in Positions(r)',
                    NEW p \in Requests, Holds(r, i, "operation", p)'
             PROVE  /\ p \in synced' /\ Followed(r, i, p)'
                    /\ r \in timer' => p \in awaits'[r].requests
  BY Zenon DEF Operations
<1>1. Runs(r) /\ i + 1 \in Positions(r) /\ Holds(r, i + 1, "operation", p) /\ i \in Nat
  <2>1. Runs(r) /\ i + 1 \in Positions(r) /\ commands'[r][i] = commands[r][i + 1]
    BY TakeEffect, Zenon DEF Inv
  <2>2. i \in Nat
    BY DEF Positions
  <2>3. QED
    BY <2>1, <2>2, Zenon DEF Holds
<1>2. p \in synced /\ Followed(r, i + 1, p)
  BY <1>1, Zenon DEF Inv, Operations
<1>3. Followed(r, i, p)'
  <2>1. CASE At(p, "read")
    BY <2>1, Zenon DEF Followed, At
  <2>2. CASE \E j \in Positions(r) : j > i + 1 /\ Holds(r, j, "unregister", p)
    <3>1. PICK j \in Positions(r) : j > i + 1 /\ Holds(r, j, "unregister", p)
      BY <2>2, Zenon
    <3>2. j \in Nat /\ j > 1 /\ j - 1 > i
      BY <1>1, <3>1 DEF Positions
    <3>3. j - 1 \in Positions(r)' /\ Holds(r, j - 1, "unregister", p)'
      BY <3>1, <3>2, TakeEffect, Zenon DEF Inv, Holds
    <3>4. QED
      BY <3>2, <3>3, Zenon DEF Followed
  <2>3. QED
    BY <1>2, <2>1, <2>2, Zenon DEF Followed
<1>4. QED
  BY <1>1, <1>2, <1>3, Zenon

(* A request whose command is taken belongs to the room. *)
LEMMA TakenRequest ==
  ASSUME Inv, NEW r \in Ids, NEW kind \in {"register", "unregister", "operation"},
         NEW q \in Requests, Take(r, kind, q)
  PROVE  Runs(r) /\ roomOf[q] = r /\ pc[q] \in {"read", "left"}
<1>1. Runs(r) /\ 1 \in Positions(r) /\ Holds(r, 1, kind, q)
  BY TakeEffect, Zenon DEF Inv
<1>2. commands[r][1].kind # "shutdown" /\ commands[r][1].request = q
  BY <1>1 DEF Holds
<1>3. QED
  BY <1>1, <1>2 DEF Inv, Membership
-----------------------------------------------------------------------------
(***************************************************************************)
(* Steps that leave the queues alone.                                      *)
(***************************************************************************)
LEMMA StutterStep == ASSUME Inv, UNCHANGED vars PROVE Inv'
<1> USE DEF vars, hubVars, ownerVars, requestVars, storeVars
<1>1. Types' /\ Registry' /\ Ending'
  BY DEF Inv, Types, Registry, Ending, Runs, Positions, Loading, At
<1>2. Membership'
  BY DEF Inv, Membership, Runs, Positions, At
<1>3. Operations'
  BY OperationsKept, Zenon DEF Inv, Runs, At
<1>4. Timers'
  BY TimersKept, Zenon DEF Inv, Runs, Loading, Grows, Positions, At
<1>5. Contents'
  BY Zenon DEF Inv, Contents, NoStaleRoom, At
<1>6. QED
  BY <1>1, <1>2, <1>3, <1>4, <1>5, Zenon DEF Inv

LEMMA LoadDocumentStep == ASSUME Inv, NEW q \in Requests, LoadDocument(q) PROVE Inv'
<1> USE DEF LoadDocument, Goto, At, hubVars, ownerVars, storeVars
<1>1. Types'
  BY Zenon DEF Inv, Types
<1>2. Registry' /\ Ending'
  BY Zenon DEF Inv, Types, Registry, Ending, Runs, Loading, Positions
<1>3. Membership'
  BY MembershipKept, IdsAreNumbers, SMTT(30) DEF Inv, Types, Runs
<1>4. Operations'
  BY OperationsKept, Zenon DEF Inv, Types, Runs
<1>5. Timers'
  BY TimersKept, Zenon DEF Inv, Types, Runs, Loading, Grows, Positions
<1>6. Contents'
  BY Zenon DEF Inv, Types, Contents, NoStaleRoom
<1>7. QED
  BY <1>1, <1>2, <1>3, <1>4, <1>5, <1>6, Zenon DEF Inv

LEMMA LookUpStep == ASSUME Inv, NEW q \in Requests, LookUp(q) PROVE Inv'
<1> USE DEF LookUp, Join, Accepting, Goto, At, hubVars, ownerVars, storeVars
<1>1. Types'
  BY IdsAreNumbers, ZenonT(30) DEF Inv, Types
<1>2. Registry' /\ Ending'
  BY DEF Inv, Types, Registry, Ending, Runs, Loading, Positions
<1>3. Membership'
  <2>1. \A p \in Requests : p # q => pc'[p] = pc[p] /\ roomOf'[p] = roomOf[p]
    BY Zenon DEF Inv, Types
  <2>2. \/ pc'[q] = "hello" /\ roomOf'[q] \in 1..made
        \/ pc'[q] = "load"
    BY ZenonT(60) DEF Inv, Types, Registry
  <2>3. ASSUME NEW p \in Requests
        PROVE  /\ pc[p] \in {"read", "left"} =>
                    pc'[p] \in {"read", "left"} /\ roomOf'[p] = roomOf[p]
               /\ pc'[p] \in {"hello", "read"} =>
                    \/ roomOf'[p] \in 1..made'
                    \/ pc[p] \in {"hello", "read"} /\ roomOf'[p] = roomOf[p]
    BY <2>1, <2>2, Zenon
  <2>4. made' \in Nat /\ made <= made'
    BY IdsAreNumbers DEF Inv, Types
  <2>5. QED
    BY <2>3, <2>4, MembershipKept, Zenon DEF Inv, Runs
<1>4. Operations'
  BY OperationsKept, Zenon DEF Inv, Types, Runs
<1>5. Timers'
  BY TimersKept DEF Inv, Types, Registry, Runs, Loading, Grows, Positions
<1>6. Contents'
  BY Zenon DEF Inv, Types, Contents, NoStaleRoom
<1>7. QED
  BY <1>1, <1>2, <1>3, <1>4, <1>5, <1>6, Zenon DEF Inv

LEMMA LoadFailsStep == ASSUME Inv, NEW q \in Requests, LoadFails(q) PROVE Inv'
<1> USE DEF LoadFails, Goto, At, hubVars, ownerVars, storeVars
<1>1. Types'
  BY Zenon DEF Inv, Types
<1>2. Registry' /\ Ending'
  BY Zenon DEF Inv, Types, Registry, Ending, Runs, Loading, Positions
<1>3. Membership'
  BY MembershipKept, IdsAreNumbers DEF Inv, Types, Runs
<1>4. Operations'
  BY OperationsKept, Zenon DEF Inv, Types, Runs
<1>5. Timers'
  BY TimersKept, Zenon DEF Inv, Types, Runs, Loading, Grows, Positions
<1>6. Contents'
  BY Zenon DEF Inv, Types, Contents, NoStaleRoom
<1>7. QED
  BY <1>1, <1>2, <1>3, <1>4, <1>5, <1>6, Zenon DEF Inv

LEMMA HelloFailsStep == ASSUME Inv, NEW q \in Requests, HelloFails(q) PROVE Inv'
<1> USE DEF HelloFails, Goto, At, hubVars, ownerVars, storeVars
<1>1. Types'
  BY Zenon DEF Inv, Types
<1>2. Registry' /\ Ending'
  BY Zenon DEF Inv, Types, Registry, Ending, Runs, Loading, Positions
<1>3. Membership'
  BY MembershipKept, IdsAreNumbers, SMTT(30) DEF Inv, Types, Runs
<1>4. Operations'
  BY OperationsKept, Zenon DEF Inv, Types, Runs
<1>5. Timers'
  BY TimersKept, Zenon DEF Inv, Types, Runs, Loading, Grows, Positions
<1>6. Contents'
  BY Zenon DEF Inv, Types, Contents, NoStaleRoom
<1>7. QED
  BY <1>1, <1>2, <1>3, <1>4, <1>5, <1>6, Zenon DEF Inv

LEMMA BreakStep == ASSUME Inv, NEW q \in Requests, Break(q) PROVE Inv'
<1> USE DEF Break, At, hubVars, ownerVars, storeVars
<1>1. Types'
  BY Zenon DEF Inv, Types
<1>2. Registry' /\ Ending'
  BY DEF Inv, Types, Registry, Ending, Runs, Loading, Positions
<1>3. Membership'
  BY MembershipKept, IdsAreNumbers DEF Inv, Types, Runs
<1>4. Operations'
  BY OperationsKept, Zenon DEF Inv, Types, Runs
<1>5. Timers'
  BY TimersKept, Zenon DEF Inv, Types, Runs, Loading, Grows, Positions
<1>6. Contents'
  BY Zenon DEF Inv, Types, Contents, NoStaleRoom
<1>7. QED
  BY <1>1, <1>2, <1>3, <1>4, <1>5, <1>6, Zenon DEF Inv

LEMMA RequestSnapshotStep == ASSUME Inv, NEW r \in Ids, RequestSnapshot(r) PROVE Inv'
<1> USE DEF RequestSnapshot, At, hubVars, requestVars, storeVars
<1>1. Types'
  BY Zenon DEF Inv, Types
<1>2. Registry' /\ Ending'
  BY DEF Inv, Types, Registry, Ending, Runs, Loading, Positions
<1>3. Membership'
  BY MembershipKept, IdsAreNumbers, SMTT(30) DEF Inv, Types, Runs
<1>4. Operations'
  BY OperationsKept, Zenon DEF Inv, Types, Runs
<1>5. Timers'
  BY TimersKept, Zenon DEF Inv, Types, Runs, Loading, Grows, Positions
<1>6. Contents'
  BY Zenon DEF Inv, Types, Contents, NoStaleRoom
<1>7. QED
  BY <1>1, <1>2, <1>3, <1>4, <1>5, <1>6, Zenon DEF Inv

LEMMA EndStep == ASSUME Inv, NEW r \in Ids, End(r) PROVE Inv'
<1> USE DEF End, At, hubVars, ownerVars, requestVars, storeVars
<1>1. Types'
  BY Zenon DEF Inv, Types
<1>2. Registry' /\ Ending'
  BY DEF Inv, Types, Registry, Ending, Runs, Loading, Positions
<1>3. Membership'
  <2>1. made \in Nat /\ made <= made' /\ 1..made \subseteq Ids
    BY IdsAreNumbers DEF Inv, Types, Ids
  <2>2. \A s \in 1..made : Runs(s)' => Runs(s)
    BY <2>1, Zenon DEF Inv, Types, Runs
  <2>3. QED
    BY <2>1, <2>2, MembershipKept, Zenon DEF Inv
<1>4. Operations'
  BY OperationsKept, Zenon DEF Inv, Types, Runs
<1>5. Timers'
  BY TimersKept, Zenon DEF Inv, Types, Runs, Loading, Grows, Positions
<1>6. Contents'
  BY Zenon DEF Inv, Types, Registry, Runs, Contents, NoStaleRoom
<1>7. QED
  BY <1>1, <1>2, <1>3, <1>4, <1>5, <1>6, Zenon DEF Inv

LEMMA WriteStep == ASSUME Inv, Write PROVE Inv'
<1> USE DEF Write, At, hubVars, ownerVars, requestVars
<1>1. Types'
  BY DEF Inv, Types
<1>2. Registry' /\ Ending'
  BY DEF Inv, Types, Registry, Ending, Runs, Loading, Positions
<1>3. Membership'
  BY MembershipKept, IdsAreNumbers DEF Inv, Types, Runs
<1>4. Operations'
  BY OperationsKept, Zenon DEF Inv, Types, Runs
<1>5. Timers'
  BY TimersKept, Zenon DEF Inv, Types, Runs, Loading, Grows, Positions
<1>6. Contents'
  BY DEF Inv, Types, Contents, NoStaleRoom
<1>7. QED
  BY <1>1, <1>2, <1>3, <1>4, <1>5, <1>6, Zenon DEF Inv

LEMMA StopListeningStep == ASSUME Inv, StopListening PROVE Inv'
<1> USE DEF StopListening, Move, At, ownerVars, requestVars, storeVars
<1>1. Types'
  BY Zenon DEF Inv, Types
<1>2. Registry' /\ Ending'
  BY DEF Inv, Types, Registry, Ending, Runs, Loading, Positions
<1>3. Membership'
  BY MembershipKept, IdsAreNumbers DEF Inv, Types, Runs
<1>4. Operations'
  BY OperationsKept, Zenon DEF Inv, Types, Runs
<1>5. Timers'
  BY TimersKept, Zenon DEF Inv, Types, Runs, Loading, Grows, Positions
<1>6. Contents'
  BY Zenon DEF Inv, Types, Contents, NoStaleRoom
<1>7. QED
  BY <1>1, <1>2, <1>3, <1>4, <1>5, <1>6, Zenon DEF Inv

LEMMA GiveUpStep == ASSUME Inv, GiveUp PROVE Inv'
<1> USE DEF GiveUp, Handlers, Move, At, ownerVars, requestVars, storeVars
<1>1. Types'
  BY Zenon DEF Inv, Types
<1>2. Registry' /\ Ending'
  BY Zenon DEF Inv, Types, Registry, Ending, Runs, Loading, Positions
<1>3. Membership'
  BY MembershipKept, IdsAreNumbers, SMTT(30) DEF Inv, Types, Runs
<1>4. Operations'
  BY OperationsKept, Zenon DEF Inv, Types, Runs
<1>5. Timers'
  BY TimersKept, Zenon DEF Inv, Types, Runs, Loading, Grows, Positions
<1>6. Contents'
  BY Zenon DEF Inv, Types, Contents, NoStaleRoom
<1>7. QED
  BY <1>1, <1>2, <1>3, <1>4, <1>5, <1>6, Zenon DEF Inv

LEMMA ListenerFailsStep == ASSUME Inv, ListenerFails PROVE Inv'
<1> USE DEF ListenerFails, Move, At, ownerVars, requestVars, storeVars
<1>1. Types'
  BY Zenon DEF Inv, Types
<1>2. Registry' /\ Ending'
  BY Zenon DEF Inv, Types, Registry, Ending, Runs, Loading, Positions
<1>3. Membership'
  BY MembershipKept, IdsAreNumbers DEF Inv, Types, Runs
<1>4. Operations'
  BY OperationsKept, Zenon DEF Inv, Types, Runs
<1>5. Timers'
  BY TimersKept, Zenon DEF Inv, Types, Runs, Loading, Grows, Positions
<1>6. Contents'
  BY Zenon DEF Inv, Types, Contents, NoStaleRoom
<1>7. QED
  BY <1>1, <1>2, <1>3, <1>4, <1>5, <1>6, Zenon DEF Inv

LEMMA ListRoomsStep == ASSUME Inv, ListRooms PROVE Inv'
<1> USE DEF ListRooms, Handlers, Move, At, ownerVars, requestVars, storeVars
<1>1. Types'
  BY Zenon DEF Inv, Types
<1>2. Registry' /\ Ending'
  BY Zenon DEF Inv, Types, Registry, Ending, Runs, Loading, Positions
<1>3. Membership'
  BY MembershipKept, IdsAreNumbers DEF Inv, Types, Runs
<1>4. Operations'
  BY OperationsKept, Zenon DEF Inv, Types, Runs
<1>5. Timers'
  BY TimersKept, Zenon DEF Inv, Types, Runs, Loading, Grows, Positions
<1>6. Contents'
  BY Zenon DEF Inv, Types, Contents, NoStaleRoom
<1>7. QED
  BY <1>1, <1>2, <1>3, <1>4, <1>5, <1>6, Zenon DEF Inv

LEMMA AwaitRoomsStep == ASSUME Inv, AwaitRooms PROVE Inv'
<1> USE DEF AwaitRooms, Move, At, ownerVars, requestVars, storeVars
<1>1. Types'
  BY Zenon DEF Inv, Types
<1>2. Registry' /\ Ending'
  BY Zenon DEF Inv, Types, Registry, Ending, Runs, Loading, Positions
<1>3. Membership'
  BY MembershipKept, IdsAreNumbers, SMTT(30) DEF Inv, Types, Runs
<1>4. Operations'
  BY OperationsKept, Zenon DEF Inv, Types, Runs
<1>5. Timers'
  BY TimersKept, Zenon DEF Inv, Types, Runs, Loading, Grows, Positions
<1>6. Contents'
  BY Zenon DEF Inv, Types, Contents, NoStaleRoom
<1>7. QED
  BY <1>1, <1>2, <1>3, <1>4, <1>5, <1>6, Zenon DEF Inv

LEMMA CloseWriterAndPoolStep == ASSUME Inv, CloseWriterAndPool PROVE Inv'
<1> USE DEF CloseWriterAndPool, Move, At, ownerVars, requestVars, storeVars
<1>1. Types'
  BY Zenon DEF Inv, Types
<1>2. Registry' /\ Ending'
  BY Zenon DEF Inv, Types, Registry, Ending, Runs, Loading, Positions
<1>3. Membership'
  BY MembershipKept, IdsAreNumbers DEF Inv, Types, Runs
<1>4. Operations'
  BY OperationsKept, Zenon DEF Inv, Types, Runs
<1>5. Timers'
  BY TimersKept, Zenon DEF Inv, Types, Runs, Loading, Grows, Positions
<1>6. Contents'
  BY Zenon DEF Inv, Types, Contents, NoStaleRoom
<1>7. QED
  BY <1>1, <1>2, <1>3, <1>4, <1>5, <1>6, Zenon DEF Inv
-----------------------------------------------------------------------------
LEMMA JoinRoomStep ==
  ASSUME Inv, NEW q \in Requests, At(q, "store"), NEW r \in registry, Join(q, r),
         UNCHANGED <<hubVars, loop, commands, ownerVars, loaded, closed, synced, storeVars>>
  PROVE  Inv'
<1> USE DEF Join, Goto, At, hubVars, ownerVars, storeVars
<1>1. Types'
  BY IdsAreNumbers, Zenon DEF Inv, Types
<1>2. Registry' /\ Ending'
  BY Zenon DEF Inv, Types, Registry, Ending, Runs, Loading, Positions
<1>3. Membership'
  <2>1. \A p \in Requests : p # q => pc'[p] = pc[p] /\ roomOf'[p] = roomOf[p]
    BY Zenon DEF Inv, Types
  <2>2. pc'[q] = "hello" /\ roomOf'[q] \in 1..made
    BY Zenon DEF Inv, Types, Registry
  <2>3. ASSUME NEW p \in Requests
        PROVE  /\ pc[p] \in {"read", "left"} =>
                    pc'[p] \in {"read", "left"} /\ roomOf'[p] = roomOf[p]
               /\ pc'[p] \in {"hello", "read"} =>
                    \/ roomOf'[p] \in 1..made'
                    \/ pc[p] \in {"hello", "read"} /\ roomOf'[p] = roomOf[p]
    BY <2>1, <2>2, Zenon
  <2>4. made' \in Nat /\ made <= made'
    BY IdsAreNumbers DEF Inv, Types
  <2>5. QED
    BY <2>3, <2>4, MembershipKept, Zenon DEF Inv, Runs
<1>4. Operations'
  BY OperationsKept, Zenon DEF Inv, Types, Runs
<1>5. Timers'
  BY TimersKept, Zenon DEF Inv, Types, Runs, Loading, Grows, Positions
<1>6. Contents'
  BY Zenon DEF Inv, Types, Contents, NoStaleRoom
<1>7. QED
  BY <1>1, <1>2, <1>3, <1>4, <1>5, <1>6, Zenon DEF Inv

(* A new room takes the document as it was loaded: as the registry is      *)
(* empty, no room runs, and what was loaded is complete.                   *)
LEMMA MakeRoomStep ==
  ASSUME Inv, NEW q \in Requests, At(q, "store"), registry = {}, made < MaxRooms,
         NEW r, r = made + 1, MakeRoom(q, r),
         UNCHANGED <<hub, drained, listed, commands, clients, unsaved, loaded, closed,
                     synced, storeVars>>
  PROVE  Inv'
<1> USE DEF MakeRoom, StartTimer, Join, Goto, At, storeVars
<1>1. /\ made \in Nat /\ made' = r /\ r \in Ids /\ r \in Nat /\ r > made
      /\ r \in 0..MaxRooms /\ \A s \in Ids : s # r => s <= made \/ s > r
  BY RoomsAssumption DEF Inv, Types, Ids
<1>2. \A s \in Ids : ~Runs(s)
  BY Zenon DEF Inv, Registry
<1>3. \A s \in Ids : Runs(s)' <=> s = r
  BY <1>1, <1>2, Zenon DEF Inv, Types, Runs
<1>4. clients[r] = {} /\ commands[r] = <<>>
  BY <1>1, Zenon DEF Inv, Registry
<1>5. UnderWay(r) \in SUBSET Requests
  BY Zenon DEF UnderWay
<1>6. /\ awaits'[r] = [requests |-> UnderWay(r), stored |-> accepted]
      /\ document'[r] = loaded[q]
  BY <1>1, Zenon DEF Inv, Types
<1>7. Types'
  <2>1. awaits' \in [Ids -> [requests : SUBSET Requests, stored : Nat]]
    BY <1>1, <1>5, Zenon DEF Inv, Types
  <2>2. QED
    BY <1>1, <2>1, Zenon DEF Inv, Types
<1>8. Registry'
  <2>1. 1..made \subseteq 1..r /\ r \in 1..r
    BY <1>1
  <2>2. registry' = {r}
    BY Zenon
  <2>3. ASSUME NEW s \in Ids, s > r PROVE s > made
    <3>1. s \in Nat
      BY IdsAreNumbers, Zenon
    <3>2. QED
      BY <1>1, <2>3, <3>1
  <2>4. registry' \cup listed' \subseteq 1..made'
    <3>1. listed' = listed /\ listed \subseteq 1..made
      BY Zenon DEF Inv, Registry
    <3>2. QED
      BY <1>1, <2>1, <2>2, <3>1, Zenon
  <2>5. \A s \in Ids : s > made' => clients'[s] = {} /\ commands'[s] = <<>>
    BY <1>1, <2>3, Zenon DEF Inv, Registry
  <2>6. /\ \A s \in Ids : Runs(s)' => s \in registry'
        /\ \A s \in registry' : Runs(s)'
    BY <1>1, <1>3, <2>2, Zenon
  <2>7. hub' \in {"open", "draining"} =>
          \A s \in Ids : \A i \in Positions(s)' : commands'[s][i].kind # "shutdown"
    BY Zenon DEF Inv, Registry, Positions
  <2>8. QED
    BY <2>2, <2>4, <2>5, <2>6, <2>7, Zenon DEF Registry
<1>9. Ending'
  <2>1. ~drained /\ unsaved = {}
    BY <1>2, Zenon DEF Inv, Ending, Loading
  <2>2. r \notin listed
    BY <1>1 DEF Inv, Registry
  <2>3. \A s \in listed : loop'[s] = loop[s]
    BY <2>2, Zenon DEF Inv, Types
  <2>4. QED
    BY <2>1, <2>3, Zenon DEF Inv, Ending
<1>10. Membership'
  <2>1. \A p \in Requests : p # q => pc'[p] = pc[p] /\ roomOf'[p] = roomOf[p]
    BY Zenon DEF Inv, Types
  <2>2. pc'[q] = "hello" /\ roomOf'[q] \in 1..made'
    BY <1>1 DEF Inv, Types
  <2>3. ASSUME NEW p \in Requests
        PROVE  /\ pc[p] \in {"read", "left"} =>
                    pc'[p] \in {"read", "left"} /\ roomOf'[p] = roomOf[p]
               /\ pc'[p] \in {"hello", "read"} =>
                    \/ roomOf'[p] \in 1..made'
                    \/ pc[p] \in {"hello", "read"} /\ roomOf'[p] = roomOf[p]
    BY <2>1, <2>2, Zenon
  <2>4. made' \in Nat /\ made <= made'
    BY <1>1, SMTT(30)
  <2>5. \A s \in 1..made : Runs(s)' => Runs(s)
    BY <1>1 DEF Inv, Types, Runs, Ids
  <2>6. QED
    BY <2>3, <2>4, <2>5, MembershipKept, Zenon DEF Inv
<1>11. Operations'
  <2>1. Positions(r)' = {}
    BY <1>4 DEF Positions
  <2>2. QED
    BY <1>3, <2>1, Zenon DEF Operations
<1>12. Timers'
  <2>1. \A p \in Requests : Loading(p)' => p \in UnderWay(r)
    BY Zenon DEF Inv, Types, Loading, UnderWay
  <2>2. QED
    BY <1>3, <1>4, <1>6, <2>1 DEF Timers
<1>13. Contents'
  <2>1. registry' # {} /\ loaded[q] = accepted
    BY Zenon DEF Inv, Contents
  <2>2. QED
    BY <1>3, <1>6, <2>1, Zenon DEF Contents, NoStaleRoom, Runs
<1>14. QED
  BY <1>7, <1>8, <1>9, <1>10, <1>11, <1>12, <1>13, ZenonT(60) DEF Inv

LEMMA StoreRoomStep == ASSUME Inv, NEW q \in Requests, StoreRoom(q) PROVE Inv'
<1>1. CASE registry = {} /\ made < MaxRooms /\ MakeRoom(q, made + 1)
  <2>1. PICK r : r = made + 1
    BY Zenon
  <2>2. MakeRoom(q, r)
    BY <1>1, <2>1, Zenon
  <2>3. QED
    BY <1>1, <2>1, <2>2, MakeRoomStep, Zenon DEF StoreRoom
<1>2. CASE /\ \E r \in registry : Join(q, r)
           /\ UNCHANGED <<registry, made, loop, document, timer, awaits>>
  BY <1>2, JoinRoomStep, Zenon DEF StoreRoom, hubVars, ownerVars
<1>3. QED
  BY <1>1, <1>2, Zenon DEF StoreRoom

(***************************************************************************)
(* A request puts a command of its own into the queue of its room.         *)
(***************************************************************************)
Submits(q, kind) ==
  /\ Submit(roomOf[q], kind, q)
  /\ UNCHANGED <<hubVars, loop, ownerVars, loaded, roomOf, closed, synced, accepted, stored>>

LEMMA SubmitKeeps ==
  ASSUME Inv, NEW q \in Requests, NEW kind \in {"register", "unregister", "operation"},
         Submits(q, kind), roomOf[q] \in 1..made, pc'[q] \in {"read", "left"},
         pc' \in [Requests -> {"new", "load", "store", "hello", "read", "left"}],
         \A p \in Requests : p # q => pc'[p] = pc[p],
         pc[q] \in {"hello", "read", "left"}, sent' \in Nat
  PROVE  Types' /\ Registry' /\ Ending' /\ Membership' /\ Contents'
<1> USE DEF Submits, hubVars, ownerVars
<1>1. PICK r \in Ids : r = roomOf[q]
  BY IdsAreNumbers DEF Inv, Types, Ids
<1>2. Submit(r, kind, q)
  BY <1>1, Zenon
<1>3. /\ commands' \in [Ids -> Seq(CommandSet)]
      /\ \A s \in Ids \ {r} : commands'[s] = commands[s]
      /\ \A s \in Ids : Grows(s)
      /\ \A s \in Ids : \A i \in Positions(s)' :
           i \in Positions(s) \/ (s = r /\ Holds(r, i, kind, q)')
  BY <1>2, SubmitEffect DEF Inv
<1>4. Types'
  BY <1>3, Zenon DEF Inv, Types
<1>5. ASSUME NEW s \in Ids, NEW i \in Positions(s)'
      PROVE  \/ i \in Positions(s) /\ commands'[s][i] = commands[s][i]
             \/ s = r /\ commands'[s][i] = [kind |-> kind, request |-> q]
  BY <1>3, ZenonT(60) DEF Grows, Holds
<1>6. Registry'
  <2>1. \A s \in Ids : s > made => s # r
    BY <1>1, IdsAreNumbers DEF Inv, Types
  <2>2. ASSUME hub \in {"open", "draining"}, NEW s \in Ids, NEW i \in Positions(s)'
        PROVE  commands'[s][i].kind # "shutdown"
    BY <1>5, <2>2 DEF Inv, Registry
  <2>3. QED
    BY <1>3, <2>1, <2>2, Zenon DEF Inv, Registry, Runs
<1>7. Ending'
  BY Zenon DEF Inv, Ending, Runs, Loading, At
<1>8. Membership'
  <2>1. \A p \in Requests : pc[p] \in {"read", "left"} => pc'[p] \in {"read", "left"}
    BY Zenon
  <2>2. ASSUME NEW s \in Ids, NEW i \in Positions(s)', commands'[s][i].kind # "shutdown"
        PROVE  \E p \in Requests : /\ commands'[s][i].request = p
                                   /\ roomOf'[p] = s /\ pc'[p] \in {"read", "left"}
    <3>1. CASE i \in Positions(s) /\ commands'[s][i] = commands[s][i]
      BY <2>1, <2>2, <3>1, SMTT(30) DEF Inv, Membership
    <3>2. CASE s = r /\ commands'[s][i] = [kind |-> kind, request |-> q]
      BY <1>1, <3>2
    <3>3. QED
      BY <1>5, <3>1, <3>2, ZenonT(60)
  <2>3. \A p \in Requests : At(p, "hello")' \/ At(p, "read")' => roomOf'[p] \in 1..made'
    BY Zenon DEF Inv, Membership, At
  <2>4. \A s \in Ids : \A p \in clients'[s] : roomOf'[p] = s /\ pc'[p] \in {"read", "left"}
    BY <2>1 DEF Inv, Membership, Types
  <2>5. ASSUME NEW p \in synced'
        PROVE  /\ roomOf'[p] \in 1..made' /\ pc'[p] \in {"read", "left"}
               /\ p \in closed' \/ p \in clients'[roomOf'[p]] \/ ~Runs(roomOf[p])'
    BY <2>1, Zenon DEF Inv, Membership, Types, Runs
  <2>6. QED
    BY <2>2, <2>3, <2>4, <2>5, Zenon DEF Membership
<1>9. Contents'
  BY Zenon DEF Inv, Contents, NoStaleRoom, At
<1>10. QED
  BY <1>4, <1>6, <1>7, <1>8, <1>9, Zenon

LEMMA OperationsGrow ==
  ASSUME Inv, UNCHANGED <<loop, timer, awaits, synced>>, \A s \in Ids : Grows(s),
         \A s \in Ids : \A i \in Positions(s)' :
           i \in Positions(s) \/ commands'[s][i].kind # "operation",
         \A s \in Ids : \A p \in Requests :
           Runs(s) /\ At(p, "read") /\ roomOf[p] = s =>
             \/ At(p, "read")'
             \/ \E j \in Positions(s)' : j > Len(commands[s]) /\ Holds(s, j, "unregister", p)'
  PROVE  Operations'
<1> SUFFICES ASSUME NEW r \in Ids, Runs(r)', NEW i \in Positions(r)',
                    NEW q \in Requests, Holds(r, i, "operation", q)'
             PROVE  /\ q \in synced' /\ Followed(r, i, q)'
                    /\ r \in timer' => q \in awaits'[r].requests
  BY Zenon DEF Operations
<1>1. Runs(r) /\ i \in Positions(r) /\ Holds(r, i, "operation", q)
  BY DEF Runs, Grows, Holds
<1>2. q \in synced /\ Followed(r, i, q) /\ (r \in timer => q \in awaits[r].requests)
  BY <1>1, Zenon DEF Inv, Operations
<1>3. roomOf[q] = r
  BY <1>1 DEF Inv, Membership, Holds
<1>4. Followed(r, i, q)'
  <2>1. CASE At(q, "read")
    <3>1. i \in Nat /\ i <= Len(commands[r]) /\ Len(commands[r]) \in Nat
      BY <1>1, SMTT(30) DEF Positions, Inv, Types
    <3>2. \A j \in Positions(r)' : j \in Nat
      BY DEF Positions
    <3>3. QED
      BY <1>1, <1>3, <2>1, <3>1, <3>2, SMTT(30) DEF Followed
  <2>2. CASE \E j \in Positions(r) : j > i /\ Holds(r, j, "unregister", q)
    BY <2>2, ZenonT(60) DEF Followed, Grows, Holds
  <2>3. QED
    BY <1>2, <2>1, <2>2, Zenon DEF Followed
<1>5. QED
  BY <1>2, <1>4, Zenon

LEMMA RegisterStep == ASSUME Inv, NEW q \in Requests, Register(q) PROVE Inv'
<1> USE DEF Register, Goto, At, storeVars
<1>1. PICK r \in Ids : r = roomOf[q] /\ r \in 1..made
  BY IdsAreNumbers DEF Inv, Membership, Types, Ids
<1>2. Submits(q, "register")
  BY Zenon DEF Submits
<1>3. /\ pc' \in [Requests -> {"new", "load", "store", "hello", "read", "left"}]
      /\ pc'[q] = "read"
      /\ \A p \in Requests : p # q => pc'[p] = pc[p]
  BY Zenon DEF Inv, Types
<1>4. Types' /\ Registry' /\ Ending' /\ Membership' /\ Contents'
  BY <1>1, <1>2, <1>3, SubmitKeeps, Zenon DEF Inv, Types
<1>5. /\ \A s \in Ids \ {r} : commands'[s] = commands[s]
      /\ \A s \in Ids : Grows(s)
      /\ \A s \in Ids : \A i \in Positions(s)' :
           i \in Positions(s) \/ (s = r /\ Holds(r, i, "register", q)')
  BY <1>1, <1>2, SubmitEffect, Zenon DEF Inv, Submits
<1>6. Operations'
  <2>1. UNCHANGED <<loop, timer, awaits, synced>>
    BY Zenon DEF hubVars, ownerVars
  <2>2. \A s \in Ids : \A i \in Positions(s)' :
          i \in Positions(s) \/ commands'[s][i].kind # "operation"
    BY <1>5 DEF Holds
  <2>3. \A p \in Requests : pc[p] = "read" => pc'[p] = "read"
    BY <1>3, Zenon
  <2> HIDE DEF Register, Goto, storeVars
  <2>4. QED
    BY <1>5, <2>1, <2>2, <2>3, OperationsGrow, Zenon
<1>7. Timers'
  BY <1>3, <1>5, TimersKept, Zenon DEF Inv, Types, Runs, Loading, hubVars, ownerVars
<1>8. QED
  BY <1>4, <1>6, <1>7, Zenon DEF Inv

(* While the timer runs, no client of the room can type: it would be in    *)
(* the room.                                                               *)
LEMMA SubmitOperationStep == ASSUME Inv, NEW q \in Requests, SubmitOperation(q) PROVE Inv'
<1> USE DEF SubmitOperation, At, requestVars
<1>1. PICK r \in Ids : r = roomOf[q] /\ r \in 1..made
  BY IdsAreNumbers DEF Inv, Membership, Types, Ids
<1>2. Submits(q, "operation")
  BY Zenon DEF Submits
<1>3. Types' /\ Registry' /\ Ending' /\ Membership' /\ Contents'
  <2>1. sent' \in Nat /\ pc' = pc /\ pc[q] = "read"
    BY DEF Inv, Types
  <2>2. QED
    BY <1>1, <1>2, <2>1, SubmitKeeps, Zenon DEF Inv, Types
<1>4. /\ \A s \in Ids : Grows(s)
      /\ \A s \in Ids : \A i \in Positions(s)' :
           i \in Positions(s) \/ (s = r /\ Holds(r, i, "operation", q)')
  BY <1>1, <1>2, SubmitEffect, Zenon DEF Inv, Submits
<1>5. ASSUME NEW s \in Ids, Runs(s)', NEW i \in Positions(s)',
             NEW p \in Requests, Holds(s, i, "operation", p)'
      PROVE  /\ p \in synced' /\ Followed(s, i, p)'
             /\ s \in timer' => p \in awaits'[s].requests
  <2>1. Runs(s)
    BY <1>5, Zenon DEF Runs
  <2>2. CASE i \in Positions(s)
    <3>1. Holds(s, i, "operation", p)
      BY <1>4, <1>5, <2>2, Zenon DEF Grows, Holds
    <3>2. p \in synced /\ Followed(s, i, p) /\ (s \in timer => p \in awaits[s].requests)
      BY <2>1, <2>2, <3>1, Zenon DEF Inv, Operations
    <3>3. Followed(s, i, p)'
      BY <1>4, <3>2, Zenon DEF Followed, Grows, Holds
    <3>4. QED
      BY <3>2, <3>3, Zenon DEF ownerVars
  <2>3. CASE s = r /\ Holds(r, i, "operation", q)'
    <3>1. p = q
      BY <1>5, <2>3 DEF Holds
    <3>2. clients[r] # {}
      BY <1>1, <2>1, <2>3, Zenon DEF Inv, Membership
    <3>3. s \notin timer
      BY <2>1, <2>3, <3>2, Zenon DEF Inv, Timers
    <3>4. QED
      BY <3>1, <3>3, Zenon DEF Followed, ownerVars
  <2>4. QED
    BY <1>4, <2>2, <2>3, Zenon
<1>6. Operations'
  BY <1>5, Zenon DEF Operations
<1>7. Timers'
  BY <1>4, TimersKept, Zenon DEF Inv, Types, Runs, Loading, hubVars, ownerVars
<1>8. QED
  BY <1>3, <1>6, <1>7, ZenonT(60) DEF Inv

(* A connection that was leaving by its reader is now so by its command. *)
LEMMA UnregisterStep == ASSUME Inv, NEW q \in Requests, Unregister(q) PROVE Inv'
<1> USE DEF Unregister, Goto, At, storeVars
<1>1. PICK r \in Ids : r = roomOf[q] /\ r \in 1..made
  BY IdsAreNumbers DEF Inv, Membership, Types, Ids
<1>2. Submits(q, "unregister")
  BY Zenon DEF Submits
<1>3. /\ pc' \in [Requests -> {"new", "load", "store", "hello", "read", "left"}]
      /\ pc'[q] = "left"
      /\ \A p \in Requests : p # q => pc'[p] = pc[p]
  BY Zenon DEF Inv, Types
<1>4. Types' /\ Registry' /\ Ending' /\ Membership' /\ Contents'
  BY <1>1, <1>2, <1>3, SubmitKeeps, Zenon DEF Inv, Types
<1>5. /\ \A s \in Ids : Grows(s)
      /\ \A s \in Ids : \A i \in Positions(s)' :
           i \in Positions(s) \/ (s = r /\ Holds(r, i, "unregister", q)')
      /\ Runs(r) => \E j \in Positions(r)' :
                      j > Len(commands[r]) /\ Holds(r, j, "unregister", q)'
  BY <1>1, <1>2, SubmitEffect, ZenonT(60) DEF Inv, Submits, Runs
<1>6. Operations'
  BY <1>1, <1>3, <1>5, OperationsGrow DEF Holds, hubVars, ownerVars
<1>7. ASSUME NEW s \in Ids, Runs(s), NEW p \in Requests, Leaving(s, p)
      PROVE  Leaving(s, p)'
  <2>1. CASE p = q /\ s = r
    BY <1>5, <1>7, <2>1, Zenon DEF Leaving
  <2>2. CASE \E i \in Positions(s) : Holds(s, i, "unregister", p)
    BY <1>5, <2>2, Zenon DEF Leaving, Grows, Holds
  <2>3. CASE p # q /\ pc[p] = "read" /\ roomOf[p] = s /\ p \in closed
    BY <1>3, <2>3, Zenon DEF Leaving
  <2>4. QED
    BY <1>1, <1>7, <2>1, <2>2, <2>3, Zenon DEF Leaving
<1>8. Timers'
  BY <1>3, <1>7, TimersFollow, Zenon DEF Inv, Types, Runs, Loading, hubVars, ownerVars
<1>9. QED
  BY <1>4, <1>6, <1>8, Zenon DEF Inv

LEMMA DropClientStep == ASSUME Inv, NEW q \in Requests, DropClient(q) PROVE Inv'
<1> USE DEF DropClient, At, requestVars, storeVars
<1>1. PICK r \in Ids : q \in clients[r] /\ Submit(r, "unregister", q)
  BY Zenon
<1>2. r = roomOf[q] /\ r \in 1..made
  BY <1>1, IdsAreNumbers DEF Inv, Membership, Registry, Types, Ids
<1>3. Submits(q, "unregister") /\ pc[q] \in {"read", "left"}
  BY <1>1, <1>2, Zenon DEF Submits, Inv, Membership
<1>4. Types' /\ Registry' /\ Ending' /\ Membership' /\ Contents'
  BY <1>2, <1>3, SubmitKeeps, Zenon DEF Inv, Types
<1>5. /\ \A s \in Ids : Grows(s)
      /\ \A s \in Ids : \A i \in Positions(s)' :
           i \in Positions(s) \/ (s = r /\ Holds(r, i, "unregister", q)')
  BY <1>1, SubmitEffect, ZenonT(60) DEF Inv
<1>6. Operations'
  BY <1>5, OperationsGrow DEF Holds, hubVars, ownerVars
<1>7. Timers'
  BY <1>5, TimersKept, Zenon DEF Inv, Types, Runs, Loading, hubVars, ownerVars
<1>8. QED
  BY <1>4, <1>6, <1>7, Zenon DEF Inv

LEMMA TellRoomsStep == ASSUME Inv, TellRooms PROVE Inv'
<1> USE DEF TellRooms, Move, At, ownerVars, requestVars, storeVars
<1>1. /\ commands' \in [Ids -> Seq(CommandSet)]
      /\ \A s \in Ids : Grows(s)
      /\ \A s \in Ids : \A i \in Positions(s)' :
           i \in Positions(s) \/ Holds(s, i, "shutdown", "hub")'
      /\ \A s \in Ids \ listed : commands'[s] = commands[s]
  <2>1. CASE commands' = commands
    <3>1. \A s \in Ids : Positions(s)' = Positions(s)
      BY <2>1, Zenon DEF Positions
    <3>2. \A s \in Ids : Grows(s)
      BY <2>1, <3>1, Zenon DEF Grows
    <3>3. QED
      BY <2>1, <3>1, <3>2, Zenon DEF Inv, Types
  <2>2. CASE \E r \in listed : Submit(r, "shutdown", "hub")
    <3>1. PICK r \in listed : Submit(r, "shutdown", "hub")
      BY <2>2, Zenon
    <3>2. r \in Ids
      BY Zenon DEF Inv, Types
    <3>3. QED
      BY <3>1, <3>2, SubmitEffect DEF Inv
  <2>3. QED
    BY <2>1, <2>2, Zenon
<1>2. Types'
  BY <1>1, Zenon DEF Inv, Types
<1>3. Registry'
  <2>1. \A s \in Ids : s > made => s \notin listed
    BY IdsAreNumbers DEF Inv, Types, Registry
  <2>2. QED
    BY <1>1, <2>1, Zenon DEF Inv, Registry, Runs
<1>4. Ending'
  BY Zenon DEF Inv, Ending, Runs, Loading
<1>5. Membership'
  <2>1. ASSUME NEW s \in Ids, NEW i \in Positions(s)', commands'[s][i].kind # "shutdown"
        PROVE  \E p \in Requests : /\ commands'[s][i].request = p
                                   /\ roomOf'[p] = s /\ pc'[p] \in {"read", "left"}
    <3>1. i \in Positions(s) /\ commands'[s][i] = commands[s][i]
      BY <1>1, <2>1, SMTT(30) DEF Holds, Grows
    <3>2. QED
      BY <2>1, <3>1, SMTT(30) DEF Inv, Membership
  <2>2. QED
    BY <2>1, SMTT(30) DEF Inv, Membership, Runs
<1>6. Operations'
  BY <1>1, OperationsGrow DEF Holds
<1>7. Timers'
  BY <1>1, TimersKept, Zenon DEF Inv, Types, Runs, Loading
<1>8. Contents'
  BY Zenon DEF Inv, Contents, NoStaleRoom
<1>9. QED
  BY <1>2, <1>3, <1>4, <1>5, <1>6, <1>7, <1>8, Zenon DEF Inv

-----------------------------------------------------------------------------
LEMMA BroadcastEffect ==
  ASSUME Types, NEW r \in Ids, NEW members \in SUBSET Requests,
         NEW leaving \in SUBSET Requests, Broadcast(r, members, leaving)
  PROVE  /\ clients' \in [Ids -> SUBSET Requests] /\ closed' \in SUBSET Requests
         /\ \A s \in Ids : s # r => clients'[s] = clients[s]
         /\ clients'[r] \subseteq members
         /\ members \subseteq clients'[r] \cup closed'
         /\ closed \cup leaving \subseteq closed'
<1>1. PICK gone \in SUBSET members :
        /\ clients' = [clients EXCEPT ![r] = members \ gone]
        /\ closed' = closed \cup gone \cup leaving
  BY Zenon DEF Broadcast
<1>2. clients'[r] = members \ gone
  BY <1>1, Zenon DEF Types
<1>3. QED
  BY <1>1, <1>2, Zenon DEF Types

LEMMA ApplyRegisterStep ==
  ASSUME Inv, NEW r \in Ids, NEW q \in Requests, ApplyRegister(r, q) PROVE Inv'
<1> USE DEF ApplyRegister
<1>1. Take(r, "register", q) /\ Types
  BY Zenon DEF Inv
<1>2. /\ Runs(r) /\ roomOf[q] = r /\ pc[q] \in {"read", "left"}
      /\ commands' \in [Ids -> Seq(CommandSet)]
  BY <1>1, TakenRequest, TakeEffect, Zenon
<1>3. /\ clients' \in [Ids -> SUBSET Requests] /\ closed' \in SUBSET Requests
      /\ \A s \in Ids : s # r => clients'[s] = clients[s]
      /\ clients'[r] \subseteq clients[r] \cup {q}
      /\ clients[r] \subseteq clients'[r] \cup closed'
      /\ q \in synced' => q \in synced \/ q \in clients'[r] \cup closed'
      /\ closed \subseteq closed'
      /\ synced \subseteq synced' /\ synced' \subseteq synced \cup {q}
  <2>1. CASE q \notin closed /\ synced' = synced \cup {q} /\ Broadcast(r, clients[r] \cup {q}, {})
    <3>1. clients[r] \cup {q} \in SUBSET Requests /\ {} \in SUBSET Requests
      BY Zenon DEF Inv, Types
    <3>2. /\ clients' \in [Ids -> SUBSET Requests] /\ closed' \in SUBSET Requests
          /\ \A s \in Ids : s # r => clients'[s] = clients[s]
          /\ clients'[r] \subseteq clients[r] \cup {q}
          /\ clients[r] \cup {q} \subseteq clients'[r] \cup closed'
          /\ closed \cup {} \subseteq closed'
      BY <1>1, <2>1, <3>1, BroadcastEffect, Zenon
    <3>3. QED
      BY <2>1, <3>2, Zenon
  <2>2. CASE q \in closed /\ UNCHANGED <<synced, clients, closed>>
    BY <1>1, <2>2, Zenon DEF Types
  <2>3. QED
    BY <2>1, <2>2, Zenon
<1>4. \A s \in Ids : /\ Runs(s)' <=> Runs(s)
                     /\ Runs(s) <=> s = r
  BY <1>2, OnlyRunner, Zenon DEF Runs
<1>5. Types'
  BY <1>2, <1>3, Zenon DEF Inv, Types, hubVars, storeVars
<1>6. Registry'
  BY <1>1, <1>3, <1>4, RegistryTakes, Zenon
<1>7. Ending'
  BY <1>4, Zenon DEF Inv, Ending, hubVars, Loading, At
<1>8. Membership'
  <2>1. \A p \in clients'[r] : roomOf[p] = r /\ pc[p] \in {"read", "left"}
    BY <1>2, <1>3, Zenon DEF Inv, Membership
  <2>2. \A p \in synced' :
          \/ p \in synced
          \/ roomOf[p] = r /\ pc[p] \in {"read", "left"} /\ p \in clients'[r] \cup closed'
    BY <1>2, <1>3, Zenon
  <2>3. QED
    BY <1>1, <1>3, <1>4, <2>1, <2>2, MembershipTakes, Zenon DEF hubVars
<1>9. Operations'
  BY <1>1, <1>3, <1>4, OperationsTake, Zenon
<1>10. Timers'
  BY <1>4, Zenon DEF Timers
<1>11. Contents'
  BY <1>4, Zenon DEF Inv, Contents, NoStaleRoom, At, Runs, hubVars, storeVars
<1>12. QED
  BY <1>5, <1>6, <1>7, <1>8, <1>9, <1>10, <1>11, Zenon DEF Inv

(* The room is empty, and the timer starts anew. *)
LEMMA ApplyUnregisterStep ==
  ASSUME Inv, NEW r \in Ids, NEW q \in Requests, ApplyUnregister(r, q) PROVE Inv'
<1> USE DEF ApplyUnregister
<1>1. Take(r, "unregister", q) /\ Types
  BY Zenon DEF Inv
<1>2. /\ Runs(r) /\ roomOf[q] = r /\ pc[q] \in {"read", "left"}
      /\ commands' \in [Ids -> Seq(CommandSet)]
  BY <1>1, TakenRequest, TakeEffect, Zenon
<1>3. /\ clients' \in [Ids -> SUBSET Requests] /\ closed' \in SUBSET Requests
      /\ \A s \in Ids : s # r => clients'[s] = clients[s]
      /\ clients'[r] \subseteq clients[r]
      /\ clients[r] \subseteq clients'[r] \cup closed'
      /\ closed \subseteq closed'
  <2>1. CASE q \in clients[r] /\ Broadcast(r, clients[r] \ {q}, {q})
    <3>1. PICK members \in SUBSET Requests, leaving \in SUBSET Requests :
            members = clients[r] \ {q} /\ leaving = {q}
      <4>1. clients[r] \ {q} \in SUBSET Requests /\ {q} \in SUBSET Requests
        BY Zenon DEF Inv, Types
      <4>2. QED
        BY <4>1, Zenon
    <3>2. Broadcast(r, members, leaving)
      BY <2>1, <3>1, Zenon
    <3>3. /\ clients' \in [Ids -> SUBSET Requests] /\ closed' \in SUBSET Requests
          /\ \A s \in Ids : s # r => clients'[s] = clients[s]
          /\ clients'[r] \subseteq members
          /\ members \subseteq clients'[r] \cup closed'
          /\ closed \cup leaving \subseteq closed'
      BY <1>1, <3>2, BroadcastEffect, Zenon
    <3>4. QED
      BY <3>1, <3>3, Zenon
  <2>2. CASE UNCHANGED <<clients, closed>>
    BY <1>1, <2>2, Zenon DEF Types
  <2>3. QED
    BY <2>1, <2>2, Zenon DEF RemoveClient
<1>4. \A s \in Ids : /\ Runs(s)' <=> Runs(s)
                     /\ Runs(s) <=> s = r
  BY <1>2, OnlyRunner, Zenon DEF Runs
<1>5. /\ UnderWay(r) \in SUBSET Requests
      /\ \A p \in Requests : Loading(p) => p \in UnderWay(r)
      /\ \A p \in Requests : \A i \in Positions(r) :
           Holds(r, i, "operation", p) => p \in UnderWay(r)
  <2>1. Positions(r) = DOMAIN commands[r]
    BY <1>1 DEF Positions, Types
  <2>2. QED
    BY <2>1, SMTT(30) DEF UnderWay, Queued, Holds
<1>6. \/ /\ clients'[r] = {}
         /\ timer' = timer \cup {r}
         /\ awaits' = [awaits EXCEPT ![r] = [requests |-> UnderWay(r), stored |-> accepted]]
      \/ clients'[r] # {} /\ UNCHANGED <<timer, awaits>>
  BY Zenon DEF StartTimer
<1>7. r \in timer' => awaits'[r] = [requests |-> UnderWay(r), stored |-> accepted]
                      /\ clients'[r] = {}
  <2>1. CASE clients'[r] = {}
    BY <1>1, <1>6, <2>1, Zenon DEF Types
  <2>2. CASE clients'[r] # {}
    <3>1. r \notin timer
      BY <1>2, <1>3, <2>2, Zenon DEF Inv, Timers
    <3>2. QED
      BY <1>6, <2>2, <3>1, Zenon
  <2>3. QED
    BY <2>1, <2>2, Zenon
<1>8. Types'
  <2>1. /\ awaits' \in [Ids -> [requests : SUBSET Requests, stored : Nat]]
        /\ timer' \in SUBSET Ids
    <3>1. [requests |-> UnderWay(r), stored |-> accepted]
             \in [requests : SUBSET Requests, stored : Nat]
      BY <1>1, <1>5, Zenon DEF Types
    <3>2. awaits \in [Ids -> [requests : SUBSET Requests, stored : Nat]] /\ timer \in SUBSET Ids
      BY <1>1, Zenon DEF Types
    <3>3. QED
      BY <1>6, <3>1, <3>2, Zenon
  <2>2. QED
    BY <1>2, <1>3, <2>1, Zenon DEF Inv, Types, hubVars, storeVars
<1>9. Registry'
  BY <1>1, <1>3, <1>4, RegistryTakes, Zenon
<1>10. Ending'
  BY <1>4, Zenon DEF Inv, Ending, hubVars, Loading, At
<1>11. Membership'
  <2>1. \A p \in clients'[r] : roomOf[p] = r /\ pc[p] \in {"read", "left"}
    BY <1>2, <1>3, ZenonT(60) DEF Inv, Membership
  <2>2. QED
    BY <1>1, <1>3, <1>4, <2>1, MembershipTakes, Zenon DEF hubVars
<1>12. Operations'
  BY <1>1, <1>4, <1>5, <1>7, OperationsTake, SMTT(30)
<1>13. Timers'
  BY <1>4, <1>5, <1>7 DEF Timers, Loading, At, storeVars
<1>14. Contents'
  BY <1>4, Zenon DEF Inv, Contents, NoStaleRoom, At, Runs, hubVars, storeVars
<1>15. QED
  BY <1>8, <1>9, <1>10, <1>11, <1>12, <1>13, <1>14, Zenon DEF Inv

(* The sender of an operation that is taken while the timer runs is        *)
(* leaving, and the timer has waited for it.                               *)
LEMMA ApplyOperationStep ==
  ASSUME Inv, NEW r \in Ids, NEW q \in Requests, ApplyOperation(r, q) PROVE Inv'
<1> USE DEF ApplyOperation
<1>1. Take(r, "operation", q) /\ Types
  BY Zenon DEF Inv
<1>2. /\ Runs(r) /\ roomOf[q] = r /\ pc[q] \in {"read", "left"}
      /\ commands' \in [Ids -> Seq(CommandSet)]
      /\ 1 \in Positions(r) /\ Holds(r, 1, "operation", q)
      /\ \A i \in Positions(r) : i > 1 =>
           i - 1 \in Positions(r)' /\ commands'[r][i - 1] = commands[r][i]
  BY <1>1, TakenRequest, TakeEffect, Zenon
<1>3. /\ clients' \in [Ids -> SUBSET Requests] /\ closed' \in SUBSET Requests
      /\ \A s \in Ids : s # r => clients'[s] = clients[s]
      /\ clients'[r] \subseteq clients[r]
      /\ clients[r] \subseteq clients'[r] \cup closed'
      /\ closed \subseteq closed'
  <2>1. clients[r] \in SUBSET Requests /\ {} \in SUBSET Requests
    BY <1>1, Zenon DEF Types
  <2>2. QED
    BY <1>1, <2>1, BroadcastEffect, Zenon
<1>4. \A s \in Ids : /\ Runs(s)' <=> Runs(s)
                     /\ Runs(s) <=> s = r
  BY <1>2, OnlyRunner, Zenon DEF Runs
<1>5. accepted' = accepted + 1 /\ accepted \in Nat /\ stored \in Nat /\ stored <= accepted
  BY <1>1, Zenon DEF Types
<1>6. Types'
  <2>1. document' \in [Ids -> Nat]
    BY <1>1 DEF Types
  <2>2. accepted' \in Nat /\ stored' \in Nat /\ stored' <= accepted'
    BY <1>5
  <2>3. QED
    BY <1>2, <1>3, <2>1, <2>2, Zenon DEF Inv, Types, hubVars
<1>7. Registry'
  BY <1>1, <1>3, <1>4, RegistryTakes, Zenon
<1>8. Ending'
  BY <1>2, <1>4, Zenon DEF Inv, Ending, hubVars, Loading, At
<1>9. Membership'
  <2>1. \A p \in clients'[r] : roomOf[p] = r /\ pc[p] \in {"read", "left"}
    BY <1>3, Zenon DEF Inv, Membership
  <2>2. QED
    BY <1>1, <1>3, <1>4, <2>1, MembershipTakes, Zenon DEF hubVars
<1>10. Operations'
  <2>1. r \in timer' => \A p \in Requests : \A i \in Positions(r) :
                          Holds(r, i, "operation", p) => p \in awaits'[r].requests
    BY <1>2, Zenon DEF Inv, Operations
  <2>2. QED
    BY <1>1, <1>4, <2>1, OperationsTake, Zenon
<1>11. Timers'
  <2>1. SUFFICES ASSUME r \in timer
                 PROVE  /\ clients'[r] = {}
                        /\ \A p \in Requests : Loading(p)' => p \in awaits'[r].requests
                        /\ \E p \in awaits'[r].requests : Leaving(r, p)'
    BY <1>4, Zenon DEF Timers
  <2>2. clients[r] = {} /\ \A p \in Requests : Loading(p) => p \in awaits[r].requests
    BY <1>2, <2>1, Zenon DEF Inv, Timers
  <2>3. q \in synced /\ Followed(r, 1, q) /\ q \in awaits[r].requests
    BY <1>2, <2>1, Zenon DEF Inv, Operations
  <2>4. q \in closed
    BY <1>2, <2>2, <2>3, Zenon DEF Inv, Membership
  <2>5. Leaving(r, q)'
    <3>1. CASE At(q, "read")
      BY <1>2, <1>3, <2>4, <3>1, Zenon DEF Leaving, At
    <3>2. CASE \E j \in Positions(r) : j > 1 /\ Holds(r, j, "unregister", q)
      BY <1>2, <3>2, Zenon DEF Leaving, Holds
    <3>3. QED
      BY <2>3, <3>1, <3>2, Zenon DEF Followed
  <2>6. QED
    BY <1>3, <2>2, <2>3, <2>5, Zenon DEF Loading, At
<1>12. Contents'
  <2>1. registry' # {}
    BY <1>2, OnlyRunner, Zenon DEF hubVars
  <2>2. document'[r] = accepted'
    BY <1>1, <1>2, Zenon DEF Inv, Types, Contents, NoStaleRoom, Runs
  <2>3. QED
    BY <1>4, <2>1, <2>2, Zenon DEF Contents, NoStaleRoom, Runs
<1>13. QED
  BY <1>6, <1>7, <1>8, <1>9, <1>10, <1>11, <1>12, Zenon DEF Inv

(* When the timer fires, the writer has everything and nobody is loading. *)
(* When the idle timer fires, nothing is on its way to the room or from    *)
(* the store: what is stored is all that was accepted.                     *)
LEMMA TimerFiresLate ==
  ASSUME Inv, NEW r \in Ids, Runs(r), TimerFires(r)
  PROVE  (\A p \in Requests : ~Loading(p)) /\ stored = accepted
<1>1. /\ awaits[r].requests \cap UnderWay(r) = {} /\ stored >= awaits[r].stored
      /\ awaits[r].requests \subseteq Requests
      /\ stored \in Nat /\ accepted \in Nat /\ stored <= accepted
  BY Zenon DEF TimerFires, Inv, Types
<1>2. \A p \in Requests : ~Loading(p)
  BY <1>1, Zenon DEF TimerFires, Inv, Timers, UnderWay
<1>3. \A p \in awaits[r].requests : ~Leaving(r, p)
  <2>1. Positions(r) = DOMAIN commands[r]
    BY DEF Positions, Inv, Types
  <2>2. QED
    BY <1>1, <2>1, SMTT(30) DEF Leaving, UnderWay, Queued, Holds
<1>4. accepted = awaits[r].stored
  BY <1>3, Zenon DEF TimerFires, Inv, Timers
<1>5. QED
  BY <1>1, <1>2, <1>4

LEMMA EvictStep == ASSUME Inv, NEW r \in Ids, Evict(r) PROVE Inv'
<1> USE DEF Evict, At, requestVars, storeVars
<1>1. Runs(r)
  BY Zenon DEF Runs
<1>2. \A s \in Ids : ~Runs(s)' /\ (Runs(s) <=> s = r)
  BY <1>1, OnlyRunner, SMTT(30) DEF Inv, Types, Runs
<1>3. registry' = {}
  BY <1>1, OnlyRunner, Zenon DEF Inv, Registry
<1>4. Types'
  BY Zenon DEF Inv, Types
<1>5. Registry'
  BY <1>2, <1>3, Zenon DEF Inv, Registry, Positions
<1>6. Ending'
  <2>1. hub = "closing" => r \notin listed
    BY <1>1, Zenon DEF Inv, Ending, Runs
  <2>2. unsaved' = {}
    BY <1>2, Zenon DEF Inv, Ending
  <2>3. QED
    BY <1>2, <2>1, <2>2, Zenon DEF Inv, Types, Ending, Loading
<1>7. Membership'
  <2>1. made' \in Nat /\ made <= made' /\ 1..made \subseteq Ids
    BY IdsAreNumbers DEF Inv, Types, Ids
  <2>2. QED
    BY <1>2, <2>1, MembershipKept, Zenon DEF Inv
<1>8. Operations' /\ Timers'
  BY <1>2, Zenon DEF Operations, Timers
<1>9. Contents'
  <2>1. (\A p \in Requests : ~Loading(p)) /\ stored = accepted
    BY <1>1, TimerFiresLate, Zenon
  <2>2. QED
    BY <1>2, <2>1, Zenon DEF Contents, NoStaleRoom, Loading, Runs
<1>10. QED
  BY <1>4, <1>5, <1>6, <1>7, <1>8, <1>9, Zenon DEF Inv

LEMMA ApplyShutdownStep == ASSUME Inv, NEW r \in Ids, ApplyShutdown(r) PROVE Inv'
<1> USE DEF ApplyShutdown, At, hubVars, storeVars
<1>1. Take(r, "shutdown", "hub") /\ Types
  BY Zenon DEF Inv
<1>2. /\ Runs(r) /\ commands' \in [Ids -> Seq(CommandSet)]
      /\ 1 \in Positions(r) /\ Holds(r, 1, "shutdown", "hub")
  BY <1>1, TakeEffect, Zenon
<1>3. \A s \in Ids : ~Runs(s)' /\ (Runs(s) <=> s = r)
  BY <1>1, <1>2, OnlyRunner, ZenonT(60) DEF Types, Runs
<1>4. hub \notin {"open", "draining"}
  BY <1>2 DEF Inv, Registry, Holds
<1>5. /\ clients' \in [Ids -> SUBSET Requests] /\ clients'[r] = {}
      /\ \A s \in Ids : s # r => clients'[s] = clients[s]
      /\ closed' \in SUBSET Requests /\ closed \cup clients[r] \subseteq closed'
  BY <1>1, Zenon DEF Types
<1>6. Types'
  BY <1>2, <1>5, Zenon DEF Inv, Types
<1>7. Registry'
  BY <1>1, <1>3, <1>4, <1>5, RegistryTakes, Zenon
<1>8. Ending'
  <2>1. unsaved' = {}
    BY <1>3, Zenon DEF Inv, Ending
  <2>2. hub = "closing" => r \notin listed
    BY <1>2, Zenon DEF Inv, Ending, Runs
  <2>3. QED
    BY <1>3, <2>1, <2>2, Zenon DEF Inv, Types, Ending, Loading
<1>9. Membership'
  BY <1>1, <1>3, <1>5, MembershipTakes, Zenon
<1>10. Operations' /\ Timers'
  BY <1>3, Zenon DEF Operations, Timers
<1>11. Contents'
  BY <1>3, Zenon DEF Inv, Contents, NoStaleRoom, Runs
<1>12. QED
  BY <1>6, <1>7, <1>8, <1>9, <1>10, <1>11, Zenon DEF Inv
-----------------------------------------------------------------------------
LEMMA InvStep == Inv /\ [Next]_vars => Inv'
<1> SUFFICES ASSUME Inv, [Next]_vars PROVE Inv'
  BY Zenon
<1>1. CASE UNCHANGED vars
  BY <1>1, StutterStep, Zenon
<1>2. CASE Running
  BY <1>2, LookUpStep, HelloFailsStep, RegisterStep, SubmitOperationStep, BreakStep,
     DropClientStep, LoadFailsStep, LoadDocumentStep, StoreRoomStep, UnregisterStep,
     ApplyRegisterStep, ApplyUnregisterStep, ApplyOperationStep, EvictStep, EndStep,
     ApplyShutdownStep, RequestSnapshotStep, WriteStep, StopListeningStep,
     ListenerFailsStep, ListRoomsStep, TellRoomsStep, AwaitRoomsStep,
     CloseWriterAndPoolStep, GiveUpStep, ZenonT(60) DEF Running, Serve, Owner, Closing
<1>3. QED
  BY <1>1, <1>2 DEF Next

LEMMA Invariance == Spec => []Inv
  BY InvInit, InvStep, PTL DEF Spec

(***************************************************************************)
(* However many requests load a document at once, and however often its    *)
(* room is evicted, at most one loop owns it.                              *)
(***************************************************************************)
THEOREM OneOwnerTheorem == Spec => []OneOwner
<1>1. Inv => OneOwner
  BY DEF Inv, Registry, OneOwner, Runs
<1>2. QED
  BY <1>1, Invariance, PTL

(* While the server takes requests, the room that a lookup returns runs. *)
THEOREM RegisteredRunsTheorem == Spec => []RegisteredRuns
<1>1. Inv => RegisteredRuns
  BY DEF Inv, Registry, RegisteredRuns, Runs
<1>2. QED
  BY <1>1, Invariance, PTL

(***************************************************************************)
(* A room that is loaded after an eviction has every operation accepted    *)
(* before it, under the timing assumption of the idle timer.               *)
(***************************************************************************)
THEOREM NoStaleRoomTheorem == Spec => []NoStaleRoom
<1>1. Inv => NoStaleRoom
  BY DEF Inv, Contents
<1>2. QED
  BY <1>1, Invariance, PTL

(* A shutdown that waited for the handlers closes the writer and the pool  *)
(* when no room runs and the last snapshots were requested.                *)
THEOREM RoomsEndFirstTheorem == Spec => []RoomsEndFirst
<1>1. Inv => RoomsEndFirst
  BY DEF Inv, Ending, RoomsEndFirst, Runs
<1>2. QED
  BY <1>1, Invariance, PTL
-----------------------------------------------------------------------------
(***************************************************************************)
(* The bounds.  A room accepts an operation that a client has sent: the    *)
(* operations in the queues have numbers of their own among those that     *)
(* were sent and not accepted yet.                                         *)
(***************************************************************************)
Carries(r, i) == i \in Positions(r) /\ commands[r][i].kind = "operation"

Numbering(f) ==
  /\ \A r \in Ids : \A i \in Nat : Carries(r, i) => f[r][i] \in (accepted + 1)..sent
  /\ \A r, s \in Ids : \A i, j \in Nat :
       Carries(r, i) /\ Carries(s, j) /\ f[r][i] = f[s][j] => r = s /\ i = j

Numbered == \E f : Numbering(f)

Counts == accepted <= sent /\ sent <= MaxOps

Lengths == \A r \in Ids : Len(commands[r]) <= QueueSize

Made ==
  /\ \A r \in Ids : loop[r] = "none" <=> r > made
  /\ \A q \in Requests : roomOf[q] \in 0..made

Known ==
  /\ \A r \in Ids : document[r] <= accepted
  /\ \A q \in Requests : loaded[q] <= stored

Bounds == Numbered /\ Counts /\ Lengths /\ Made /\ Known

LEMMA BoundsInit == Init => Bounds
<1> SUFFICES ASSUME Init PROVE Bounds
  BY Zenon
<1>1. /\ \A r \in Ids : Len(commands[r]) = 0 /\ loop[r] = "none" /\ document[r] = 0
      /\ \A q \in Requests : roomOf[q] = 0 /\ loaded[q] = 0
  BY DEF Init
<1>2. \A r \in Ids : \A i \in Nat : ~Carries(r, i)
  BY <1>1 DEF Carries, Positions
<1>3. Numbered
  BY <1>2, Zenon DEF Numbered, Numbering
<1>4. \A r \in Ids : r > 0
  BY RoomsAssumption DEF Ids
<1>5. Counts /\ Lengths /\ Known
  BY <1>1, RoomsAssumption DEF Init, Counts, Lengths, Known
<1>6. Made
  BY <1>1, <1>4 DEF Init, Made
<1>7. QED
  BY <1>3, <1>5, <1>6, Zenon DEF Bounds

LEMMA CountTypes == ASSUME Types PROVE accepted \in Nat /\ stored \in Nat /\ sent \in Nat
  BY Zenon DEF Types

(* No operation enters a queue. *)
LEMMA NumberedStays ==
  ASSUME Types, Numbered, accepted' = accepted, sent' \in Nat, sent <= sent',
         \A r \in Ids : \A i \in Nat : Carries(r, i)' => Carries(r, i)
  PROVE  Numbered'
<1>1. PICK f : Numbering(f)
  BY Zenon DEF Numbered
<1>2. (accepted + 1)..sent \subseteq (accepted' + 1)..sent'
  BY CountTypes
<1>3. \A r \in Ids : \A i \in Nat : Carries(r, i)' => f[r][i] \in (accepted' + 1)..sent'
  BY <1>1, <1>2, Zenon DEF Numbering
<1>4. \A r, s \in Ids : \A i, j \in Nat :
        Carries(r, i)' /\ Carries(s, j)' /\ f[r][i] = f[s][j] => r = s /\ i = j
  BY <1>1, Zenon DEF Numbering
<1>5. Numbering(f)'
  BY <1>3, <1>4, Zenon DEF Numbering
<1>6. QED
  BY <1>5, Zenon DEF Numbered

(* A room takes a command that is no operation. *)
LEMMA NumberedTakes ==
  ASSUME Types, Numbered, NEW r \in Ids, NEW kind, kind # "operation", NEW q, Take(r, kind, q),
         accepted' = accepted, sent' = sent
  PROVE  Numbered'
<1>1. PICK f : Numbering(f)
  BY Zenon DEF Numbered
<1>2. /\ \A s \in Ids \ {r} : commands'[s] = commands[s]
      /\ \A i \in Positions(r)' :
           i + 1 \in Positions(r) /\ commands'[r][i] = commands[r][i + 1]
  BY TakeEffect, Zenon
<1> DEFINE at(s, i) == IF s = r THEN i + 1 ELSE i
<1> DEFINE g == [s \in Ids |-> [i \in Nat |-> f[s][at(s, i)]]]
<1>3. \A s \in Ids : \A i \in Nat : at(s, i) \in Nat
  OBVIOUS
<1>4. \A i, j \in Nat : i + 1 = j + 1 => i = j
  OBVIOUS
<1>5. \A s \in Ids : \A i \in Nat : Carries(s, i)' => Carries(s, at(s, i))
  BY <1>2, Zenon DEF Carries, Positions
<1>6. \A s \in Ids : \A i \in Nat : g[s][i] = f[s][at(s, i)]
  BY Zenon
<1>7. \A s \in Ids : \A i, j \in Nat : at(s, i) = at(s, j) => i = j
  BY <1>4, Zenon
<1>8. /\ \A s \in Ids : \A i \in Nat : Carries(s, i) => f[s][i] \in (accepted' + 1)..sent'
      /\ \A s, u \in Ids : \A i, j \in Nat :
           Carries(s, i) /\ Carries(u, j) /\ f[s][i] = f[u][j] => s = u /\ i = j
  BY <1>1, Zenon DEF Numbering
<1> HIDE DEF g, at
<1>9. ASSUME NEW s \in Ids, NEW i \in Nat, Carries(s, i)'
      PROVE  g[s][i] \in (accepted' + 1)..sent'
  <2>1. at(s, i) \in Nat /\ Carries(s, at(s, i)) /\ g[s][i] = f[s][at(s, i)]
    BY <1>3, <1>5, <1>6, <1>9, Zenon
  <2>2. QED
    BY <1>8, <2>1, Zenon
<1>10. ASSUME NEW s \in Ids, NEW u \in Ids, NEW i \in Nat, NEW j \in Nat,
              Carries(s, i)', Carries(u, j)', g[s][i] = g[u][j]
       PROVE  s = u /\ i = j
  <2>1. /\ at(s, i) \in Nat /\ Carries(s, at(s, i)) /\ g[s][i] = f[s][at(s, i)]
        /\ at(u, j) \in Nat /\ Carries(u, at(u, j)) /\ g[u][j] = f[u][at(u, j)]
    BY <1>3, <1>5, <1>6, <1>10, Zenon
  <2>2. f[s][at(s, i)] = f[u][at(u, j)]
    BY <1>10, <2>1, Zenon
  <2>3. s = u /\ at(s, i) = at(u, j)
    BY <1>8, <2>1, <2>2, Zenon
  <2>4. QED
    BY <1>7, <2>3, Zenon
<1>11. Numbering(g)'
  BY <1>9, <1>10, Zenon DEF Numbering
<1>12. QED
  BY <1>11, Zenon DEF Numbered

(* An operation is put at the end of a queue: it has the next number. *)
LEMMA NumberedSends ==
  ASSUME Types, Numbered, NEW r \in Ids, NEW k \in Nat, accepted' = accepted,
         accepted <= sent, sent' = sent + 1,
         \A i \in Nat : Carries(r, i) => i # k,
         \A s \in Ids : \A i \in Nat : Carries(s, i)' => Carries(s, i) \/ (s = r /\ i = k)
  PROVE  Numbered'
<1>1. PICK f : Numbering(f)
  BY Zenon DEF Numbered
<1> DEFINE old(s, i) == Carries(s, i) /\ ~(s = r /\ i = k)
<1>0. PICK g : \A s \in Ids : \A i \in Nat :
                 g[s][i] = IF s = r /\ i = k THEN sent + 1 ELSE f[s][i]
  <2> DEFINE h == [s \in Ids |-> [i \in Nat |-> IF s = r /\ i = k THEN sent + 1 ELSE f[s][i]]]
  <2>1. \A s \in Ids : \A i \in Nat : h[s][i] = IF s = r /\ i = k THEN sent + 1 ELSE f[s][i]
    BY Zenon
  <2> HIDE DEF h
  <2>2. QED
    BY <2>1
<1>2. /\ \A n : n \in (accepted + 1)..sent => n \in (accepted' + 1)..sent' /\ n # sent + 1
      /\ sent + 1 \in (accepted' + 1)..sent'
  BY CountTypes
<1>3. \A s \in Ids : \A i \in Nat :
        Carries(s, i)' => (s = r /\ i = k /\ g[s][i] = sent + 1) \/ (old(s, i) /\ g[s][i] = f[s][i])
  BY <1>0, Zenon
<1>4. /\ \A s \in Ids : \A i \in Nat : old(s, i) => f[s][i] \in (accepted + 1)..sent
      /\ \A s, u \in Ids : \A i, j \in Nat :
           old(s, i) /\ old(u, j) /\ f[s][i] = f[u][j] => s = u /\ i = j
  BY <1>1, Zenon DEF Numbering
<1> HIDE DEF old
<1>5. ASSUME NEW s \in Ids, NEW i \in Nat, Carries(s, i)'
      PROVE  g[s][i] \in (accepted' + 1)..sent'
  BY <1>2, <1>3, <1>4, <1>5, Zenon
<1>6. ASSUME NEW s \in Ids, NEW u \in Ids, NEW i \in Nat, NEW j \in Nat,
             Carries(s, i)', Carries(u, j)', g[s][i] = g[u][j]
      PROVE  s = u /\ i = j
  <2>1. CASE s = r /\ i = k /\ g[s][i] = sent + 1
    <3>1. ~(old(u, j) /\ g[u][j] = f[u][j])
      BY <1>2, <1>4, <1>6, <2>1, Zenon
    <3>2. u = r /\ j = k
      BY <1>3, <1>6, <3>1, Zenon
    <3>3. QED
      BY <2>1, <3>2, Zenon
  <2>2. CASE old(s, i) /\ g[s][i] = f[s][i]
    <3>1. g[s][i] # sent + 1
      BY <1>2, <1>4, <2>2, Zenon
    <3>2. old(u, j) /\ g[u][j] = f[u][j]
      BY <1>3, <1>6, <3>1, Zenon
    <3>3. QED
      BY <1>4, <1>6, <2>2, <3>2, Zenon
  <2>3. QED
    BY <1>3, <1>6, <2>1, <2>2, Zenon
<1>7. Numbering(g)'
  BY <1>5, <1>6, Zenon DEF Numbering
<1>8. QED
  BY <1>7, Zenon DEF Numbered

(***************************************************************************)
(* A room accepts the operation at the head of its queue: the operation    *)
(* that had the first number gets the number of the one that was taken.    *)
(***************************************************************************)
LEMMA NumberedAccepts ==
  ASSUME Types, Numbered, NEW r \in Ids, NEW q, Take(r, "operation", q),
         accepted' = accepted + 1, sent' = sent
  PROVE  Numbered' /\ accepted + 1 <= sent
<1>1. PICK f : Numbering(f)
  BY Zenon DEF Numbered
<1>2. /\ \A s \in Ids \ {r} : commands'[s] = commands[s]
      /\ 1 \in Positions(r) /\ Holds(r, 1, "operation", q)
      /\ \A i \in Positions(r)' :
           i + 1 \in Positions(r) /\ commands'[r][i] = commands[r][i + 1]
  BY TakeEffect, Zenon
<1> DEFINE at(s, i) == IF s = r THEN i + 1 ELSE i
<1> DEFINE first == f[r][1]
<1> DEFINE v(s, i) == f[s][at(s, i)]
<1>0. PICK g : \A s \in Ids : \A i \in Nat :
                 g[s][i] = IF v(s, i) = accepted + 1 THEN first ELSE v(s, i)
  <2> DEFINE h == [s \in Ids |-> [i \in Nat |-> IF v(s, i) = accepted + 1 THEN first ELSE v(s, i)]]
  <2>1. \A s \in Ids : \A i \in Nat : h[s][i] = IF v(s, i) = accepted + 1 THEN first ELSE v(s, i)
    BY Zenon
  <2> HIDE DEF h, v, first
  <2>2. QED
    BY <2>1, Zenon
<1>3. \A s \in Ids : \A i \in Nat : at(s, i) \in Nat /\ (Carries(s, i)' /\ s = r => at(s, i) # 1)
  <2>1. \A i \in Nat : i + 1 \in Nat
    OBVIOUS
  <2>2. \A i \in Positions(r)' : i + 1 # 1
    BY DEF Positions
  <2>3. QED
    BY <2>1, <2>2, Zenon DEF Carries
<1>4. \A i, j \in Nat : i + 1 = j + 1 => i = j
  OBVIOUS
<1>5. \A s \in Ids : \A i \in Nat : Carries(s, i)' => Carries(s, at(s, i))
  BY <1>2, Zenon DEF Carries, Positions
<1>6. \A s \in Ids : \A i, j \in Nat : at(s, i) = at(s, j) => i = j
  BY <1>4, Zenon
<1>7. Carries(r, 1) /\ 1 \in Nat
  BY <1>2 DEF Carries, Holds
<1>8. /\ \A s \in Ids : \A i \in Nat : Carries(s, i) => f[s][i] \in (accepted + 1)..sent
      /\ \A s, u \in Ids : \A i, j \in Nat :
           Carries(s, i) /\ Carries(u, j) /\ f[s][i] = f[u][j] => s = u /\ i = j
  BY <1>1, Zenon DEF Numbering
<1>9. first \in (accepted + 1)..sent
  BY <1>7, <1>8, Zenon
<1>10. accepted + 1 <= sent
  BY <1>9, CountTypes
<1>11. \A s \in Ids : \A i \in Nat :
         Carries(s, i)' => v(s, i) \in (accepted + 1)..sent /\ v(s, i) # first
  <2> SUFFICES ASSUME NEW s \in Ids, NEW i \in Nat, Carries(s, i)'
               PROVE  v(s, i) \in (accepted + 1)..sent /\ v(s, i) # first
    BY Zenon
  <2>1. PICK n \in Nat : n = at(s, i) /\ Carries(s, n) /\ (s = r => n # 1)
    BY <1>3, <1>5, Zenon
  <2>2. v(s, i) = f[s][n]
    BY <2>1, Zenon
  <2> HIDE DEF v, at
  <2>3. f[s][n] \in (accepted + 1)..sent /\ f[s][n] # f[r][1]
    BY <1>7, <1>8, <2>1, Zenon
  <2>4. QED
    BY <2>2, <2>3, Zenon
<1>12. \A s, u \in Ids : \A i, j \in Nat :
         Carries(s, i)' /\ Carries(u, j)' /\ v(s, i) = v(u, j) => s = u /\ i = j
  <2> SUFFICES ASSUME NEW s \in Ids, NEW u \in Ids, NEW i \in Nat, NEW j \in Nat,
                      Carries(s, i)', Carries(u, j)', v(s, i) = v(u, j)
               PROVE  s = u /\ i = j
    BY Zenon
  <2>1. PICK n \in Nat : n = at(s, i) /\ Carries(s, n)
    BY <1>3, <1>5, Zenon
  <2>2. PICK m \in Nat : m = at(u, j) /\ Carries(u, m)
    BY <1>3, <1>5, Zenon
  <2>3. f[s][n] = f[u][m]
    BY <2>1, <2>2, Zenon
  <2> HIDE DEF v, at
  <2>4. s = u /\ n = m
    BY <1>8, <2>1, <2>2, <2>3, Zenon
  <2>5. QED
    BY <1>6, <2>1, <2>2, <2>4, Zenon
<1>13. \A n \in (accepted + 1)..sent : n = accepted + 1 \/ n \in (accepted' + 1)..sent'
  BY CountTypes
<1>14. \A s \in Ids : \A i \in Nat :
         \/ v(s, i) = accepted + 1 /\ g[s][i] = first
         \/ v(s, i) # accepted + 1 /\ g[s][i] = v(s, i)
  BY <1>0, Zenon
<1> HIDE DEF v, first, at
<1>15. ASSUME NEW s \in Ids, NEW i \in Nat, Carries(s, i)'
       PROVE  g[s][i] \in (accepted' + 1)..sent'
  <2>1. v(s, i) \in (accepted + 1)..sent /\ v(s, i) # first
    BY <1>11, <1>15, Zenon
  <2>2. CASE v(s, i) = accepted + 1 /\ g[s][i] = first
    BY <1>9, <1>13, <2>1, <2>2, Zenon
  <2>3. CASE v(s, i) # accepted + 1 /\ g[s][i] = v(s, i)
    BY <1>13, <2>1, <2>3, Zenon
  <2>4. QED
    BY <1>14, <2>2, <2>3, Zenon
<1>16. ASSUME NEW s \in Ids, NEW u \in Ids, NEW i \in Nat, NEW j \in Nat,
              Carries(s, i)', Carries(u, j)', g[s][i] = g[u][j]
       PROVE  s = u /\ i = j
  <2>1. v(s, i) # first /\ v(u, j) # first
    BY <1>11, <1>16, Zenon
  <2>2. v(s, i) = v(u, j)
    BY <1>14, <1>16, <2>1, Zenon
  <2>3. QED
    BY <1>12, <1>16, <2>2, Zenon
<1>17. Numbering(g)'
  BY <1>15, <1>16, Zenon DEF Numbering
<1>18. QED
  BY <1>10, <1>17, Zenon DEF Numbered

LEMMA SubmitCarries ==
  ASSUME Types, Lengths, NEW r \in Ids, NEW q \in Requests \cup {"hub"},
         NEW kind \in {"register", "unregister", "operation", "shutdown"},
         Submit(r, kind, q)
  PROVE  /\ \A s \in Ids : \A i \in Nat :
              Carries(s, i)' =>
                Carries(s, i) \/ (kind = "operation" /\ s = r /\ i = Len(commands[r]) + 1)
         /\ \A i \in Nat : Carries(r, i) => i # Len(commands[r]) + 1
         /\ Len(commands[r]) + 1 \in Nat
         /\ Lengths'
<1>1. commands \in [Ids -> Seq(CommandSet)] /\ QueueSize \in Nat
  BY RoomsAssumption DEF Types
<1>2. PICK c \in CommandSet : c = [kind |-> kind, request |-> q] /\ c.kind = kind
  <2>1. [kind |-> kind, request |-> q] \in CommandSet
    BY Zenon DEF CommandSet
  <2>2. [kind |-> kind, request |-> q].kind = kind
    OBVIOUS
  <2>3. QED
    BY <2>1, <2>2, Zenon
<1>3. /\ Len(commands[r]) \in Nat /\ Len(commands[r]) + 1 \in Nat
      /\ \A i \in 1..Len(commands[r]) : i # Len(commands[r]) + 1
  BY <1>1
<1>4. \A i \in Nat : Carries(r, i) => i # Len(commands[r]) + 1
  BY <1>3, Zenon DEF Carries, Positions
<1>5. CASE commands' = commands
  BY <1>3, <1>4, <1>5, Zenon DEF Carries, Positions, Lengths
<1>6. CASE /\ Len(commands[r]) < QueueSize
           /\ commands' = [commands EXCEPT ![r] = Append(@, c)]
  <2>1. commands'[r] = Append(commands[r], c) /\ \A s \in Ids \ {r} : commands'[s] = commands[s]
    BY <1>1, <1>6, SMTT(30)
  <2>2. /\ Len(commands'[r]) = Len(commands[r]) + 1
        /\ \A i \in 1..Len(commands[r]) : commands'[r][i] = commands[r][i]
        /\ commands'[r][Len(commands[r]) + 1] = c
    BY <1>1, <1>3, <2>1
  <2>3. \A i \in 1..(Len(commands[r]) + 1) : i \in 1..Len(commands[r]) \/ i = Len(commands[r]) + 1
    BY <1>3
  <2>4. ASSUME NEW i \in Nat, Carries(r, i)'
        PROVE  Carries(r, i) \/ (kind = "operation" /\ i = Len(commands[r]) + 1)
    <3>1. i \in 1..Len(commands'[r]) /\ commands'[r][i].kind = "operation"
      BY <2>4, Zenon DEF Carries, Positions
    <3>2. CASE i \in 1..Len(commands[r])
      BY <2>2, <3>1, <3>2, Zenon DEF Carries, Positions
    <3>3. CASE i = Len(commands[r]) + 1
      BY <1>2, <2>2, <3>1, <3>3, Zenon
    <3>4. QED
      BY <2>2, <2>3, <3>1, <3>2, <3>3, Zenon
  <2>5. \A s \in Ids \ {r} : \A i \in Nat : Carries(s, i)' => Carries(s, i)
    BY <2>1, Zenon DEF Carries, Positions
  <2>6. Len(commands'[r]) <= QueueSize
    BY <1>1, <1>3, <1>6, <2>2
  <2>7. Lengths'
    BY <2>1, <2>6, Zenon DEF Lengths
  <2>8. QED
    BY <1>3, <1>4, <2>4, <2>5, <2>7, Zenon
<1>7. QED
  BY <1>2, <1>5, <1>6, Zenon DEF Submit

LEMMA TakeLengths ==
  ASSUME Types, Lengths, NEW r \in Ids, NEW kind, NEW q, Take(r, kind, q)
  PROVE  Lengths'
<1>1. commands \in [Ids -> Seq(CommandSet)] /\ QueueSize \in Nat
  BY RoomsAssumption DEF Types
<1>2. /\ \A s \in Ids \ {r} : commands'[s] = commands[s]
      /\ commands'[r] = Tail(commands[r]) /\ commands[r] # <<>>
  BY <1>1 DEF Take
<1>3. Len(commands'[r]) <= Len(commands[r]) /\ Len(commands[r]) \in Nat /\ Len(commands'[r]) \in Nat
  BY <1>1, <1>2
<1>4. Len(commands'[r]) <= QueueSize
  BY <1>1, <1>3 DEF Lengths
<1>5. QED
  BY <1>2, <1>4, Zenon DEF Lengths

(* What the steps do to the queues and to the count of operations. *)
LEMMA QueueKinds ==
  ASSUME Inv, Next
  PROVE  \/ UNCHANGED <<commands, accepted, sent>>
         \/ /\ UNCHANGED <<accepted, sent>>
            /\ \E r \in Ids, q \in Requests \cup {"hub"}, kind \in {"register", "unregister", "shutdown"} :
                 Submit(r, kind, q)
         \/ /\ UNCHANGED <<accepted, sent>>
            /\ \E r \in Ids, q \in Requests \cup {"hub"}, kind \in {"register", "unregister", "shutdown"} :
                 Take(r, kind, q)
         \/ \E q \in Requests : SubmitOperation(q) /\ roomOf[q] \in Ids
         \/ \E r \in Ids, q \in Requests : ApplyOperation(r, q)
<1>1. \A q \in Requests : At(q, "hello") \/ At(q, "read") => roomOf[q] \in Ids
  <2>1. made \in 0..MaxRooms /\ \A q \in Requests : At(q, "hello") \/ At(q, "read") => roomOf[q] \in 1..made
    BY Zenon DEF Inv, Types, Membership
  <2>2. 1..made \subseteq Ids
    BY <2>1, RoomsAssumption DEF Ids
  <2>3. QED
    BY <2>1, <2>2, Zenon
<1>2. ASSUME NEW q \in Requests,
             LookUp(q) \/ HelloFails(q) \/ Break(q) \/ LoadFails(q) \/ LoadDocument(q) \/ StoreRoom(q)
      PROVE  UNCHANGED <<commands, accepted, sent>>
  BY <1>2, Zenon DEF LookUp, HelloFails, Break, LoadFails, LoadDocument, StoreRoom, storeVars
<1>3. ASSUME NEW r \in Ids, Evict(r) \/ End(r) \/ RequestSnapshot(r)
      PROVE  UNCHANGED <<commands, accepted, sent>>
  BY <1>3, Zenon DEF Evict, End, RequestSnapshot, storeVars
<1>4. ASSUME \/ Write \/ StopListening \/ ListenerFails \/ ListRooms \/ AwaitRooms
             \/ CloseWriterAndPool \/ GiveUp
      PROVE  UNCHANGED <<commands, accepted, sent>>
  BY <1>4, Zenon DEF Write, StopListening, ListenerFails, ListRooms, AwaitRooms,
     CloseWriterAndPool, GiveUp, Move, storeVars
<1>5. ASSUME NEW q \in Requests, Register(q) \/ Unregister(q) \/ DropClient(q)
      PROVE  /\ UNCHANGED <<accepted, sent>>
             /\ \E r \in Ids : Submit(r, "register", q) \/ Submit(r, "unregister", q)
  BY <1>1, <1>5, Zenon DEF Register, Unregister, DropClient, storeVars
<1>6. ASSUME TellRooms
      PROVE  /\ UNCHANGED <<accepted, sent>>
             /\ commands' = commands \/ \E r \in Ids : Submit(r, "shutdown", "hub")
  BY <1>6, Zenon DEF TellRooms, Move, storeVars, Inv, Types
<1>7. ASSUME NEW r \in Ids, NEW q \in Requests, ApplyRegister(r, q) \/ ApplyUnregister(r, q)
      PROVE  /\ UNCHANGED <<accepted, sent>>
             /\ Take(r, "register", q) \/ Take(r, "unregister", q)
  BY <1>7, Zenon DEF ApplyRegister, ApplyUnregister, storeVars
<1>8. ASSUME NEW r \in Ids, ApplyShutdown(r)
      PROVE  UNCHANGED <<accepted, sent>> /\ Take(r, "shutdown", "hub")
  BY <1>8, Zenon DEF ApplyShutdown, storeVars
<1>9. \A q \in Requests : SubmitOperation(q) => roomOf[q] \in Ids
  BY <1>1, Zenon DEF SubmitOperation
<1>10. CASE UNCHANGED vars
  BY <1>10, Zenon DEF vars, storeVars
<1>11. CASE \E q \in Requests : \/ LookUp(q) \/ HelloFails(q) \/ Register(q)
                                \/ SubmitOperation(q) \/ Break(q) \/ DropClient(q)
                                \/ LoadFails(q) \/ Serve(q)
  BY <1>2, <1>5, <1>9, <1>11, Zenon DEF Serve
<1>12. CASE \E r \in Ids : Owner(r) \/ RequestSnapshot(r)
  BY <1>3, <1>7, <1>8, <1>12, Zenon DEF Owner
<1>13. CASE Write \/ StopListening \/ ListenerFails \/ Closing \/ GiveUp
  BY <1>4, <1>6, <1>13, Zenon DEF Closing
<1>14. QED
  BY <1>10, <1>11, <1>12, <1>13, Zenon DEF Next, Running

LEMMA QueuesStep == ASSUME Inv, Bounds, [Next]_vars PROVE Numbered' /\ Counts' /\ Lengths'
<1>1. /\ Types /\ Numbered /\ Counts /\ Lengths
      /\ accepted \in Nat /\ sent \in Nat /\ MaxOps \in Nat
  BY CountTypes, RoomsAssumption DEF Inv, Bounds
<1>2. CASE UNCHANGED <<commands, accepted, sent>>
  <2>1. \A r \in Ids : \A i \in Nat : Carries(r, i)' => Carries(r, i)
    BY <1>2, Zenon DEF Carries, Positions
  <2>2. sent' \in Nat /\ sent <= sent'
    BY <1>1, <1>2
  <2>3. Numbered'
    BY <1>1, <1>2, <2>1, <2>2, NumberedStays, Zenon
  <2>4. QED
    BY <1>1, <1>2, <2>3, Zenon DEF Counts, Lengths
<1>3. ASSUME UNCHANGED <<accepted, sent>>, NEW r \in Ids, NEW q \in Requests \cup {"hub"},
             NEW kind \in {"register", "unregister", "shutdown"}, Submit(r, kind, q)
      PROVE  Numbered' /\ Counts' /\ Lengths'
  <2>1. kind \in {"register", "unregister", "operation", "shutdown"} /\ kind # "operation"
    OBVIOUS
  <2>2. Lengths' /\ \A s \in Ids : \A i \in Nat : Carries(s, i)' => Carries(s, i)
    BY <1>1, <1>3, <2>1, SubmitCarries, ZenonT(60)
  <2>3. sent' \in Nat /\ sent <= sent'
    BY <1>1, <1>3
  <2>4. Numbered'
    BY <1>1, <1>3, <2>2, <2>3, NumberedStays, Zenon
  <2>5. QED
    BY <1>1, <1>3, <2>2, <2>4, Zenon DEF Counts
<1>4. ASSUME UNCHANGED <<accepted, sent>>, NEW r \in Ids, NEW q \in Requests \cup {"hub"},
             NEW kind \in {"register", "unregister", "shutdown"}, Take(r, kind, q)
      PROVE  Numbered' /\ Counts' /\ Lengths'
  <2>1. kind # "operation"
    OBVIOUS
  <2>2. Numbered' /\ Lengths'
    BY <1>1, <1>4, <2>1, NumberedTakes, TakeLengths, Zenon
  <2>3. QED
    BY <1>1, <1>4, <2>2, Zenon DEF Counts
<1>5. ASSUME NEW q \in Requests, SubmitOperation(q), roomOf[q] \in Ids
      PROVE  Numbered' /\ Counts' /\ Lengths'
  <2>1. /\ Submit(roomOf[q], "operation", q) /\ accepted' = accepted
        /\ sent < MaxOps /\ sent' = sent + 1
    BY <1>5, Zenon DEF SubmitOperation
  <2>2. PICK k \in Nat :
          /\ \A s \in Ids : \A i \in Nat :
               Carries(s, i)' => Carries(s, i) \/ (s = roomOf[q] /\ i = k)
          /\ \A i \in Nat : Carries(roomOf[q], i) => i # k
          /\ Lengths'
    <3>1. "operation" \in {"register", "unregister", "operation", "shutdown"}
          /\ q \in Requests \cup {"hub"}
      OBVIOUS
    <3>2. /\ \A s \in Ids : \A i \in Nat :
               Carries(s, i)' =>
                 Carries(s, i) \/ (s = roomOf[q] /\ i = Len(commands[roomOf[q]]) + 1)
          /\ \A i \in Nat : Carries(roomOf[q], i) => i # Len(commands[roomOf[q]]) + 1
          /\ Len(commands[roomOf[q]]) + 1 \in Nat
          /\ Lengths'
      BY <1>1, <1>5, <2>1, <3>1, SubmitCarries, Zenon
    <3>3. QED
      BY <3>2, Zenon
  <2>3. accepted <= sent
    BY <1>1, Zenon DEF Counts
  <2>4. Numbered'
    BY <1>1, <1>5, <2>1, <2>2, <2>3, NumberedSends, Zenon
  <2>5. Counts'
    BY <1>1, <2>1, <2>3 DEF Counts
  <2>6. QED
    BY <2>2, <2>4, <2>5, Zenon
<1>6. ASSUME NEW r \in Ids, NEW q \in Requests, ApplyOperation(r, q)
      PROVE  Numbered' /\ Counts' /\ Lengths'
  <2>1. Take(r, "operation", q) /\ accepted' = accepted + 1 /\ sent' = sent
    BY <1>6, Zenon DEF ApplyOperation
  <2>2. Numbered' /\ accepted + 1 <= sent /\ Lengths'
    BY <1>1, <2>1, NumberedAccepts, TakeLengths, Zenon
  <2>3. Counts'
    BY <1>1, <2>1, <2>2, Zenon DEF Counts
  <2>4. QED
    BY <2>2, <2>3, Zenon
<1>7. CASE UNCHANGED vars
  BY <1>2, <1>7, Zenon DEF vars, storeVars
<1>8. CASE Next
  BY <1>2, <1>3, <1>4, <1>5, <1>6, <1>8, QueueKinds, Zenon
<1>9. QED
  BY <1>7, <1>8, Zenon

LEMMA MadeStep == ASSUME Inv, Made, [Next]_vars PROVE Made'
<1>1. /\ made \in Nat /\ Ids \subseteq Nat /\ registry \subseteq 1..made
      /\ loop \in [Ids -> {"none", "run", "removed", "done"}] /\ roomOf \in [Requests -> Nat]
      /\ pc \in [Requests -> {"new", "load", "store", "hello", "read", "left"}]
  BY IdsAreNumbers DEF Inv, Types, Registry
<1>2. 1..made \subseteq 0..made
  BY <1>1
<1>3. ASSUME made' = made, \A r \in Ids : loop'[r] = "none" <=> loop[r] = "none",
             \A q \in Requests : roomOf'[q] = roomOf[q] \/ roomOf'[q] \in registry
      PROVE  Made'
  BY <1>1, <1>2, <1>3, Zenon DEF Made
<1>4. ASSUME NEW q \in Requests, NEW r \in registry, Join(q, r), UNCHANGED <<made, loop>>
      PROVE  Made'
  BY <1>1, <1>3, <1>4, Zenon DEF Join
<1>5. ASSUME NEW q \in Requests, MakeRoom(q, made + 1), made < MaxRooms
      PROVE  Made'
  <2>1. /\ made' = made + 1 /\ made + 1 \in Ids /\ made \in 0..made'
        /\ 0..made \subseteq 0..made' /\ made + 1 \in 0..made'
        /\ \A r \in Ids : r # made + 1 => (r > made <=> r > made')
        /\ ~(made + 1 > made')
    BY <1>1, <1>5, RoomsAssumption DEF MakeRoom, Ids
  <2>2. /\ loop'[made + 1] = "run" /\ \A r \in Ids : r # made + 1 => loop'[r] = loop[r]
        /\ \A p \in Requests : roomOf'[p] = roomOf[p] \/ roomOf'[p] = made + 1
    BY <1>1, <1>5, <2>1, Zenon DEF MakeRoom, Join
  <2>3. \A r \in Ids : loop'[r] = "none" <=> r > made'
    BY <2>1, <2>2 DEF Made
  <2>4. QED
    BY <2>1, <2>2, <2>3, Zenon DEF Made
<1>6. ASSUME NEW q \in Requests, LookUp(q) \/ StoreRoom(q) PROVE Made'
  <2>1. CASE LookUp(q)
    BY <1>3, <1>4, <2>1, Zenon DEF LookUp, hubVars
  <2>2. CASE StoreRoom(q)
    BY <1>4, <1>5, <2>2, Zenon DEF StoreRoom
  <2>3. QED
    BY <1>6, <2>1, <2>2, Zenon
<1>7. ASSUME NEW q \in Requests,
             \/ HelloFails(q) \/ Break(q) \/ LoadFails(q) \/ LoadDocument(q)
             \/ Register(q) \/ SubmitOperation(q) \/ DropClient(q) \/ Unregister(q)
      PROVE  Made'
  <2>1. UNCHANGED <<made, loop, roomOf>>
    BY <1>7, Zenon DEF HelloFails, Break, LoadFails, LoadDocument, Register, SubmitOperation,
       DropClient, Unregister, hubVars, requestVars
  <2>2. QED
    BY <1>3, <2>1, Zenon
<1>8. ASSUME NEW r \in Ids, NEW q \in Requests,
             ApplyRegister(r, q) \/ ApplyUnregister(r, q) \/ ApplyOperation(r, q)
      PROVE  Made'
  <2>1. UNCHANGED <<made, loop, roomOf>>
    BY <1>8, Zenon DEF ApplyRegister, ApplyUnregister, ApplyOperation, hubVars
  <2>2. QED
    BY <1>3, <2>1, Zenon
<1>9. ASSUME NEW r \in Ids, Evict(r) \/ End(r) \/ ApplyShutdown(r) \/ RequestSnapshot(r) PROVE Made'
  <2>1. UNCHANGED <<made, roomOf>>
    BY <1>9, Zenon DEF Evict, End, ApplyShutdown, RequestSnapshot, hubVars, requestVars
  <2>2. \/ loop' = loop
        \/ /\ loop[r] \in {"run", "removed"}
           /\ \E w \in {"removed", "done"} : loop' = [loop EXCEPT ![r] = w]
    BY <1>9, Zenon DEF Evict, End, ApplyShutdown, RequestSnapshot, Take
  <2>3. \A s \in Ids : loop'[s] = "none" <=> loop[s] = "none"
    BY <1>1, <2>2
  <2>4. QED
    BY <1>3, <2>1, <2>3, Zenon
<1>10. ASSUME \/ Write \/ StopListening \/ ListenerFails \/ ListRooms \/ AwaitRooms
              \/ CloseWriterAndPool \/ GiveUp \/ TellRooms \/ UNCHANGED vars
       PROVE  Made'
  <2>1. UNCHANGED <<made, loop, roomOf>>
    BY <1>10, Zenon DEF Write, StopListening, ListenerFails, ListRooms, AwaitRooms, TellRooms,
       CloseWriterAndPool, GiveUp, Move, vars, hubVars, requestVars
  <2>2. QED
    BY <1>3, <2>1, Zenon
<1>11. CASE Running
  BY <1>6, <1>7, <1>8, <1>9, <1>10, <1>11, Zenon DEF Running, Serve, Owner, Closing
<1>12. QED
  BY <1>10, <1>11, Zenon DEF Next

LEMMA KnownStep == ASSUME Inv, Known, [Next]_vars PROVE Known'
<1>1. /\ accepted \in Nat /\ stored \in Nat /\ stored <= accepted
      /\ document \in [Ids -> Nat] /\ loaded \in [Requests -> Nat]
  BY Zenon DEF Inv, Types
<1>2. ASSUME accepted' \in Nat, stored' \in Nat, accepted <= accepted', stored <= stored',
             \A r \in Ids : document'[r] = document[r] \/ document'[r] <= accepted',
             \A q \in Requests : loaded'[q] = loaded[q] \/ loaded'[q] <= stored'
      PROVE  Known'
  <2>1. ASSUME NEW r \in Ids PROVE document'[r] <= accepted'
    <3>1. document[r] \in Nat /\ document[r] <= accepted
      BY <1>1, Zenon DEF Known
    <3>2. document[r] <= accepted'
      BY <1>1, <1>2, <3>1
    <3>3. QED
      BY <1>2, <3>2, Zenon
  <2>2. ASSUME NEW q \in Requests PROVE loaded'[q] <= stored'
    <3>1. loaded[q] \in Nat /\ loaded[q] <= stored
      BY <1>1, Zenon DEF Known
    <3>2. loaded[q] <= stored'
      BY <1>1, <1>2, <3>1
    <3>3. QED
      BY <1>2, <3>2, Zenon
  <2>3. QED
    BY <2>1, <2>2, Zenon DEF Known
<1>3. accepted <= accepted /\ stored <= stored
  BY <1>1
<1>4. ASSUME UNCHANGED <<document, loaded, accepted, stored>> PROVE Known'
  BY <1>4, Zenon DEF Known
<1>5. ASSUME NEW q \in Requests, MakeRoom(q, made + 1), made < MaxRooms,
             UNCHANGED <<loaded, accepted, stored>>
      PROVE  Known'
  <2>1. loaded[q] <= accepted
    BY <1>1 DEF Known
  <2>2. \A r \in Ids : document'[r] = document[r] \/ document'[r] = loaded[q]
    BY <1>1, <1>5, Zenon DEF MakeRoom
  <2>3. QED
    BY <1>1, <1>2, <1>3, <1>5, <2>1, <2>2, Zenon
<1>6. ASSUME NEW q \in Requests, StoreRoom(q) PROVE Known'
  BY <1>4, <1>5, <1>6, Zenon DEF StoreRoom, storeVars
<1>7. ASSUME NEW q \in Requests, LoadDocument(q) PROVE Known'
  <2>1. /\ \A p \in Requests : loaded'[p] = loaded[p] \/ loaded'[p] = stored
        /\ UNCHANGED <<document, accepted, stored>>
    BY <1>1, <1>7, Zenon DEF LoadDocument, ownerVars, storeVars
  <2>2. QED
    BY <1>1, <1>2, <1>3, <2>1, Zenon
<1>8. ASSUME Write PROVE Known'
  <2>1. stored' = stored + 1 /\ UNCHANGED <<document, loaded, accepted>>
    BY <1>8, Zenon DEF Write, ownerVars, requestVars
  <2>2. stored' \in Nat /\ stored <= stored'
    BY <1>1, <2>1
  <2>3. QED
    BY <1>1, <1>2, <1>3, <2>1, <2>2, Zenon
<1>9. ASSUME NEW r \in Ids, NEW q \in Requests, ApplyOperation(r, q) PROVE Known'
  <2>1. /\ document' = [document EXCEPT ![r] = @ + 1] /\ accepted' = accepted + 1
        /\ UNCHANGED <<loaded, stored>>
    BY <1>9, Zenon DEF ApplyOperation
  <2>2. /\ accepted' \in Nat /\ accepted <= accepted' /\ document[r] + 1 <= accepted'
    BY <1>1, <2>1 DEF Known
  <2>3. \A s \in Ids : document'[s] = document[s] \/ document'[s] = document[r] + 1
    BY <1>1, <2>1, Zenon
  <2>4. QED
    BY <1>1, <1>2, <1>3, <2>1, <2>2, <2>3, Zenon
<1>10. ASSUME NEW q \in Requests,
              \/ HelloFails(q) \/ Break(q) \/ LoadFails(q) \/ LookUp(q)
              \/ Register(q) \/ SubmitOperation(q) \/ DropClient(q) \/ Unregister(q)
       PROVE  Known'
  <2>1. UNCHANGED <<document, loaded, accepted, stored>>
    BY <1>10, Zenon DEF HelloFails, Break, LoadFails, LookUp, Register, SubmitOperation,
       DropClient, Unregister, ownerVars, requestVars, storeVars
  <2>2. QED
    BY <1>4, <2>1, Zenon
<1>11. ASSUME NEW r \in Ids, NEW q \in Requests, ApplyRegister(r, q) \/ ApplyUnregister(r, q)
       PROVE  Known'
  <2>1. UNCHANGED <<document, loaded, accepted, stored>>
    BY <1>11, Zenon DEF ApplyRegister, ApplyUnregister, storeVars
  <2>2. QED
    BY <1>4, <2>1, Zenon
<1>12. ASSUME NEW r \in Ids, Evict(r) \/ End(r) \/ ApplyShutdown(r) \/ RequestSnapshot(r)
       PROVE  Known'
  <2>1. UNCHANGED <<document, loaded, accepted, stored>>
    BY <1>12, Zenon DEF Evict, End, ApplyShutdown, RequestSnapshot, ownerVars, requestVars,
       storeVars
  <2>2. QED
    BY <1>4, <2>1, Zenon
<1>13. ASSUME \/ StopListening \/ ListenerFails \/ ListRooms \/ AwaitRooms
              \/ CloseWriterAndPool \/ GiveUp \/ TellRooms \/ UNCHANGED vars
       PROVE  Known'
  <2>1. UNCHANGED <<document, loaded, accepted, stored>>
    BY <1>13, Zenon DEF StopListening, ListenerFails, ListRooms, AwaitRooms, TellRooms,
       CloseWriterAndPool, GiveUp, Move, vars, ownerVars, requestVars, storeVars
  <2>2. QED
    BY <1>4, <2>1, Zenon
<1>14. CASE Running
  BY <1>6, <1>7, <1>8, <1>9, <1>10, <1>11, <1>12, <1>13, <1>14, ZenonT(60)
     DEF Running, Serve, Owner, Closing
<1>15. QED
  BY <1>13, <1>14, Zenon DEF Next

(***************************************************************************)
(* Whatever the requests, the queues keep their capacity, a room knows no  *)
(* operation that was not accepted, and no operation is accepted that no   *)
(* client has sent, nor stored before it is accepted.                      *)
(***************************************************************************)
THEOREM TypeOKTheorem == Spec => []TypeOK
<1>1. Inv /\ Bounds /\ [Next]_vars => Bounds'
  BY QueuesStep, MadeStep, KnownStep, Zenon DEF Bounds
<1>2. Spec => []Bounds
  BY <1>1, BoundsInit, Invariance, PTL DEF Spec
<1>3. ASSUME Inv, Bounds PROVE TypeOK
  <2>1. /\ Types /\ made \in 0..MaxRooms /\ accepted \in Nat /\ sent \in Nat /\ stored \in Nat
        /\ MaxOps \in Nat /\ document \in [Ids -> Nat] /\ stored <= accepted
    BY <1>3, RoomsAssumption, SMTT(30) DEF Inv, Types
  <2>2. registry \subseteq 1..made /\ \A r, s \in registry : r = s
    BY <1>3, Zenon DEF Inv, Registry
  <2>3. Cardinality(registry) <= 1
    <3>1. CASE registry = {}
      BY <3>1, FS_EmptySet
    <3>2. CASE registry # {}
      <4>1. PICK r \in registry : TRUE
        BY <3>2, Zenon
      <4>2. registry = {r}
        BY <2>2, <4>1, Zenon
      <4>3. Cardinality({r}) = 1
        BY FS_Singleton, Zenon
      <4>4. QED
        BY <4>2, <4>3
    <3>3. QED
      BY <3>1, <3>2, Zenon
  <2>4. \A r \in Ids : document[r] \in 0..MaxOps
    BY <1>3, <2>1, SMTT(30) DEF Bounds, Known, Counts
  <2>5. \A r \in Ids : clients[r] \subseteq Requests /\ awaits[r].requests \subseteq Requests
    BY <2>1 DEF Types
  <2>6. stored <= accepted /\ accepted <= sent /\ sent <= MaxOps
    BY <1>3, <2>1, Zenon DEF Bounds, Counts
  <2>7. QED
    BY <1>3, <2>1, <2>2, <2>3, <2>4, <2>5, <2>6, ZenonT(60) DEF TypeOK, Types, Bounds, Lengths, Made
<1>4. QED
  BY <1>2, <1>3, Invariance, PTL
=============================================================================
