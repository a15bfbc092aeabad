--------------------------- MODULE Fanout_proofs ----------------------------
(***************************************************************************)
(* Proofs about Fanout for any clients, queue sizes and number of          *)
(* messages.                                                               *)
(***************************************************************************)
EXTENDS Fanout, WellFoundedInduction, TLAPS

CommandSet == [kind : {"register", "unregister", "operation", "cursor"}, client : Clients]

Messages == [kind : {"sync"}, seq : Nat, active : SUBSET Clients]
            \cup [kind : {"op"}, seq : Nat]
            \cup [kind : {"presence"}, active : SUBSET Clients]
            \cup [kind : {"cursor"}, user : Clients]

JobSet == [client : Clients, data : Messages]
FrameSet == [data : Messages, todo : SUBSET Clients]

Types ==
  /\ pc \in [Clients -> {"new", "read", "operation", "cursor", "signal", "gone"}]
  /\ closed \in SUBSET Clients /\ clients \in SUBSET Clients /\ missed \in SUBSET Clients
  /\ pendingCursors \in SUBSET Clients /\ cursorQueued \in SUBSET Clients
  /\ commands \in Seq(CommandSet)
  /\ jobs \in Seq(JobSet) /\ worker \in Seq(JobSet)
  /\ frames \in Seq(FrameSet)
  /\ sequence \in Nat

(* Messages are for clients that are in the room or closed. *)
Known == clients \cup closed

JobsKnown ==
  /\ \A i \in 1..Len(jobs) : jobs[i].client \in Known
  /\ worker # <<>> => worker[1].client \in Known
  /\ missed \subseteq Known
  /\ dropping => worker # <<>>

(* A command is queued twice. *)
Twice(kind, c) ==
  \E i, j \in DOMAIN commands : /\ i # j
                                /\ commands[i] = Command(kind, c)
                                /\ commands[j] = Command(kind, c)

(* A client registers once, and while it is in the room, or about to be,   *)
(* its flag stands for its one cursor command.                             *)
Coming(c) == c \in clients \/ Queued("register", c)

Coalescing ==
  \A c \in Clients :
    /\ At(c, "new") => /\ c \notin Known
                       /\ ~Queued("register", c) /\ ~Queued("cursor", c)
    /\ ~Twice("register", c)
    /\ Queued("register", c) => c \notin clients
    /\ Coming(c) => /\ ~Twice("cursor", c)
                    /\ Queued("cursor", c) => c \in cursorQueued /\ ~At(c, "signal")
                    /\ At(c, "signal") => c \in cursorQueued

Inv == Types /\ JobsKnown /\ DropIsFinal /\ CursorSignalled /\ Coalescing
-----------------------------------------------------------------------------
LEMMA SubmitEffect ==
  ASSUME Types, NEW k \in {"register", "unregister", "operation", "cursor"},
         NEW d \in Clients, Submit(Command(k, d))
  PROVE  /\ commands' \in Seq(CommandSet)
         /\ \A kind, c : /\ Queued(kind, c)' <=> Queued(kind, c) \/ (kind = k /\ c = d)
                         /\ Twice(kind, c)' =>
                              Twice(kind, c) \/ (kind = k /\ c = d /\ Queued(kind, c))
<1>1. /\ commands \in Seq(CommandSet) /\ Command(k, d) \in CommandSet
      /\ commands' = Append(commands, Command(k, d))
  BY Zenon DEF Types, CommandSet, Command, Submit
<1>2. /\ commands' \in Seq(CommandSet)
      /\ DOMAIN commands = 1..Len(commands) /\ Len(commands) \in Nat
      /\ DOMAIN commands' = 1..(Len(commands) + 1)
      /\ \A i \in 1..Len(commands) : commands'[i] = commands[i]
      /\ commands'[Len(commands) + 1] = Command(k, d)
  BY <1>1
<1>3. DOMAIN commands' = DOMAIN commands \cup {Len(commands) + 1}
  BY <1>2
<1>4. \A kind, c : Command(kind, c) = Command(k, d) <=> kind = k /\ c = d
  BY Zenon DEF Command
<1>5. ASSUME NEW kind, NEW c
      PROVE  Queued(kind, c)' <=> Queued(kind, c) \/ (kind = k /\ c = d)
  BY <1>2, <1>3, <1>4, Zenon DEF Queued
<1>6. ASSUME NEW kind, NEW c, Twice(kind, c)'
      PROVE  Twice(kind, c) \/ (kind = k /\ c = d /\ Queued(kind, c))
  BY <1>2, <1>3, <1>4, <1>6 DEF Twice, Queued
<1>7. QED
  BY <1>2, <1>5, <1>6, Zenon

LEMMA TakeEffect ==
  ASSUME Types, NEW k, NEW d, Take(k, d)
  PROVE  /\ commands' \in Seq(CommandSet)
         /\ Queued(k, d)
         /\ \A kind, c : /\ Queued(kind, c)' => Queued(kind, c)
                         /\ Queued(kind, c) => Queued(kind, c)' \/ (kind = k /\ c = d)
                         /\ Twice(kind, c)' => Twice(kind, c)
         /\ Queued(k, d)' => Twice(k, d)
<1>1. /\ commands \in Seq(CommandSet) /\ commands # <<>>
      /\ Head(commands) = Command(k, d) /\ commands' = Tail(commands)
  BY Zenon DEF Types, Take
<1>2. /\ commands' \in Seq(CommandSet)
      /\ DOMAIN commands = 1..Len(commands) /\ Len(commands) \in Nat \ {0}
      /\ DOMAIN commands' = 1..(Len(commands) - 1)
      /\ \A i \in 1..(Len(commands) - 1) : commands'[i] = commands[i + 1]
      /\ commands[1] = Command(k, d)
  BY <1>1
<1>3. /\ 1 \in DOMAIN commands
      /\ \A i \in DOMAIN commands' : /\ i + 1 \in DOMAIN commands /\ i + 1 # 1
                                     /\ commands'[i] = commands[i + 1]
      /\ \A i \in DOMAIN commands : i # 1 =>
           i - 1 \in DOMAIN commands' /\ commands'[i - 1] = commands[i]
      /\ \A i, j \in DOMAIN commands' : i # j => i + 1 # j + 1
  BY <1>2
<1>4. \A kind, c : Command(kind, c) = Command(k, d) => kind = k /\ c = d
  BY Zenon DEF Command
<1>5. ASSUME NEW kind, NEW c
      PROVE  /\ Queued(kind, c)' => Queued(kind, c)
             /\ Queued(kind, c) => Queued(kind, c)' \/ (kind = k /\ c = d)
  BY <1>2, <1>3, <1>4, ZenonT(60) DEF Queued
<1>6. ASSUME NEW kind, NEW c, Twice(kind, c)' PROVE Twice(kind, c)
  <2>1. PICK i, j \in DOMAIN commands' : /\ i # j
                                         /\ commands'[i] = Command(kind, c)
                                         /\ commands'[j] = Command(kind, c)
    BY <1>6, Zenon DEF Twice
  <2>2. QED
    BY <1>3, <2>1 DEF Twice
<1>7. Queued(k, d) /\ (Queued(k, d)' => Twice(k, d))
  BY <1>2, <1>3, ZenonT(60) DEF Queued, Twice
<1>8. QED
  BY <1>2, <1>5, <1>6, <1>7, Zenon

LEMMA MessageTypes ==
  /\ \A n \in Nat : Op(n) \in Messages
  /\ \A active \in SUBSET Clients : Presence(active) \in Messages
  /\ \A c \in Clients : Cursor(c) \in Messages
  BY Zenon DEF Op, Presence, Cursor, Messages

LEMMA FrameTypes ==
  ASSUME NEW data \in Messages, NEW todo \in SUBSET Clients
  PROVE  Frame(data, todo) \in FrameSet /\ <<Frame(data, todo)>> \in Seq(FrameSet)
  BY DEF Frame, FrameSet
-----------------------------------------------------------------------------
(***************************************************************************)
(* The steps of the read and write loops.                                  *)
(***************************************************************************)
LEMMA RegisterStep == ASSUME Inv, NEW c \in Clients, Register(c) PROVE Inv'
<1> USE DEF Register, At, Goto, pool, counts, cursorState
<1>1. /\ commands' \in Seq(CommandSet)
      /\ \A kind, d : /\ Queued(kind, d)' <=> Queued(kind, d) \/ (kind = "register" /\ d = c)
                      /\ Twice(kind, d)' =>
                           Twice(kind, d) \/ (kind = "register" /\ d = c /\ Queued(kind, d))
  BY SubmitEffect, Zenon DEF Inv
<1>2. Types'
  BY <1>1, Zenon DEF Inv, Types
<1>3. JobsKnown'
  BY Zenon DEF Inv, Types, JobsKnown, Known
<1>4. DropIsFinal'
  BY <1>1, Zenon DEF Inv, Types, JobsKnown, Known, DropIsFinal
<1>5. CursorSignalled'
  BY <1>1, Zenon DEF Inv, Types, CursorSignalled
<1>6. Coalescing'
  <2>1. \A d : Twice("cursor", d) => Queued("cursor", d)
    BY Zenon DEF Twice, Queued
  <2>2. QED
    BY <1>1, <2>1, Zenon DEF Inv, Types, JobsKnown, Coalescing, Coming, Known
<1>7. QED
  BY <1>2, <1>3, <1>4, <1>5, <1>6, Zenon DEF Inv

LEMMA ReadOperationStep == ASSUME Inv, NEW c \in Clients, ReadOperation(c) PROVE Inv'
<1> USE DEF ReadOperation, At, Goto, room, pool, cursorState
<1>1. \A kind, d : /\ Queued(kind, d)' <=> Queued(kind, d)
                   /\ Twice(kind, d)' <=> Twice(kind, d)
  BY Zenon DEF Queued, Twice
<1>2. Types'
  BY Zenon DEF Inv, Types
<1>3. JobsKnown'
  BY Zenon DEF Inv, Types, JobsKnown, Known
<1>4. DropIsFinal'
  BY <1>1, Zenon DEF Inv, Types, JobsKnown, Known, DropIsFinal
<1>5. CursorSignalled'
  BY <1>1, Zenon DEF Inv, Types, CursorSignalled
<1>6. Coalescing'
  BY <1>1, Zenon DEF Inv, Types, JobsKnown, Coalescing, Coming, Known
<1>7. QED
  BY <1>2, <1>3, <1>4, <1>5, <1>6, Zenon DEF Inv

LEMMA SubmitOperationStep == ASSUME Inv, NEW c \in Clients, SubmitOperation(c) PROVE Inv'
<1> USE DEF SubmitOperation, At, Goto, pool, counts, cursorState
<1>1. /\ commands' \in Seq(CommandSet)
      /\ \A kind, d : /\ Queued(kind, d)' <=> Queued(kind, d) \/ (kind = "operation" /\ d = c)
                      /\ Twice(kind, d)' =>
                           Twice(kind, d) \/ (kind = "operation" /\ d = c /\ Queued(kind, d))
  BY SubmitEffect, Zenon DEF Inv
<1>2. Types'
  BY <1>1, Zenon DEF Inv, Types
<1>3. JobsKnown'
  BY Zenon DEF Inv, Types, JobsKnown, Known
<1>4. DropIsFinal'
  BY <1>1, Zenon DEF Inv, Types, JobsKnown, Known, DropIsFinal
<1>5. CursorSignalled'
  BY <1>1, Zenon DEF Inv, Types, CursorSignalled
<1>6. Coalescing'
  BY <1>1 DEF Inv, Types, JobsKnown, Coalescing, Coming, Known
<1>7. QED
  BY <1>2, <1>3, <1>4, <1>5, <1>6, Zenon DEF Inv

LEMMA ReadCursorStep == ASSUME Inv, NEW c \in Clients, ReadCursor(c) PROVE Inv'
<1> USE DEF ReadCursor, At, Goto, room, pool, cursorState
<1>1. \A kind, d : /\ Queued(kind, d)' <=> Queued(kind, d)
                   /\ Twice(kind, d)' <=> Twice(kind, d)
  BY Zenon DEF Queued, Twice
<1>2. Types'
  BY Zenon DEF Inv, Types
<1>3. JobsKnown'
  BY Zenon DEF Inv, Types, JobsKnown, Known
<1>4. DropIsFinal'
  BY <1>1, Zenon DEF Inv, Types, JobsKnown, Known, DropIsFinal
<1>5. CursorSignalled'
  BY <1>1, Zenon DEF Inv, Types, CursorSignalled
<1>6. Coalescing'
  BY <1>1, Zenon DEF Inv, Types, JobsKnown, Coalescing, Coming, Known
<1>7. QED
  BY <1>2, <1>3, <1>4, <1>5, <1>6, Zenon DEF Inv

LEMMA StoreCursorStep == ASSUME Inv, NEW c \in Clients, StoreCursor(c) PROVE Inv'
<1> USE DEF StoreCursor, At, Goto, pool, counts
<1>1. \A kind, d : /\ Queued(kind, d)' <=> Queued(kind, d)
                   /\ Twice(kind, d)' <=> Twice(kind, d)
  BY Zenon DEF Queued, Twice
<1>2. Types'
  BY Zenon DEF Inv, Types
<1>3. JobsKnown'
  BY Zenon DEF Inv, Types, JobsKnown, Known
<1>4. DropIsFinal'
  BY <1>1, Zenon DEF Inv, Types, JobsKnown, Known, DropIsFinal
<1>5. CursorSignalled'
  BY <1>1, Zenon DEF Inv, Types, CursorSignalled
<1>6. Coalescing'
  BY <1>1, Zenon DEF Inv, Types, JobsKnown, Coalescing, Coming, Known
<1>7. QED
  BY <1>2, <1>3, <1>4, <1>5, <1>6, Zenon DEF Inv

LEMMA SignalCursorStep == ASSUME Inv, NEW c \in Clients, SignalCursor(c) PROVE Inv'
<1> USE DEF SignalCursor, ClearCursor, At, Goto, pool, counts, cursorState
<1>1. CASE Submit(Command("cursor", c)) /\ UNCHANGED cursorState
  <2>1. /\ commands' \in Seq(CommandSet)
        /\ \A kind, d : /\ Queued(kind, d)' <=> Queued(kind, d) \/ (kind = "cursor" /\ d = c)
                        /\ Twice(kind, d)' =>
                             Twice(kind, d) \/ (kind = "cursor" /\ d = c /\ Queued(kind, d))
    BY <1>1, SubmitEffect, Zenon DEF Inv
  <2>2. Types' /\ JobsKnown'
    BY <1>1, <2>1, Zenon DEF Inv, Types, JobsKnown, Known
  <2>3. DropIsFinal' /\ CursorSignalled'
    BY <1>1, <2>1, Zenon DEF Inv, Types, DropIsFinal, CursorSignalled
  <2>4. Coalescing'
    BY <1>1, <2>1, Zenon DEF Inv, Types, Coalescing, Coming, Known
  <2>5. QED
    BY <2>2, <2>3, <2>4, Zenon DEF Inv
<1>2. CASE ClearCursor(c) /\ UNCHANGED commands
  <2>1. \A kind, d : /\ Queued(kind, d)' <=> Queued(kind, d)
                     /\ Twice(kind, d)' <=> Twice(kind, d)
    BY <1>2, Zenon DEF Queued, Twice
  <2>2. Types' /\ JobsKnown'
    BY <1>2, Zenon DEF Inv, Types, JobsKnown, Known
  <2>3. DropIsFinal' /\ CursorSignalled'
    BY <1>2, <2>1, Zenon DEF Inv, Types, DropIsFinal, CursorSignalled
  <2>4. Coalescing'
    BY <1>2, <2>1, Zenon DEF Inv, Types, Coalescing, Coming, Known
  <2>5. QED
    BY <2>2, <2>3, <2>4, Zenon DEF Inv
<1>3. QED
  BY <1>1, <1>2, Zenon

LEMMA BreakStep == ASSUME Inv, NEW c \in Clients, Break(c) PROVE Inv'
<1> USE DEF Break, At, Close, room, pool, cursorState
<1>1. \A kind, d : /\ Queued(kind, d)' <=> Queued(kind, d)
                   /\ Twice(kind, d)' <=> Twice(kind, d)
  BY Zenon DEF Queued, Twice
<1>2. Types'
  BY Zenon DEF Inv, Types
<1>3. JobsKnown'
  BY Zenon DEF Inv, Types, JobsKnown, Known
<1>4. DropIsFinal'
  BY <1>1, Zenon DEF Inv, Types, JobsKnown, Known, DropIsFinal
<1>5. CursorSignalled'
  BY <1>1, Zenon DEF Inv, Types, CursorSignalled
<1>6. Coalescing'
  BY <1>1, Zenon DEF Inv, Types, JobsKnown, Coalescing, Coming, Known
<1>7. QED
  BY <1>2, <1>3, <1>4, <1>5, <1>6, Zenon DEF Inv

LEMMA UnregisterStep == ASSUME Inv, NEW c \in Clients, Unregister(c) PROVE Inv'
<1> USE DEF Unregister, At, Goto, pool, counts, cursorState
<1>1. /\ commands' \in Seq(CommandSet)
      /\ \A kind, d : /\ Queued(kind, d)' <=> Queued(kind, d) \/ (kind = "unregister" /\ d = c)
                      /\ Twice(kind, d)' =>
                           Twice(kind, d) \/ (kind = "unregister" /\ d = c /\ Queued(kind, d))
  BY SubmitEffect, Zenon DEF Inv
<1>2. Types'
  BY <1>1, Zenon DEF Inv, Types
<1>3. JobsKnown'
  BY Zenon DEF Inv, Types, JobsKnown, Known
<1>4. DropIsFinal'
  BY <1>1, Zenon DEF Inv, Types, JobsKnown, Known, DropIsFinal
<1>5. CursorSignalled'
  BY <1>1, Zenon DEF Inv, Types, CursorSignalled
<1>6. Coalescing'
  BY <1>1, ZenonT(60) DEF Inv, Types, JobsKnown, Coalescing, Coming, Known
<1>7. QED
  BY <1>2, <1>3, <1>4, <1>5, <1>6, Zenon DEF Inv

LEMMA ReadInvalidStep == ASSUME Inv, NEW c \in Clients, ReadInvalid(c) PROVE Inv'
<1> USE DEF ReadInvalid, At, room, pool, cursorState
<1>1. \A kind, d : /\ Queued(kind, d)' <=> Queued(kind, d)
                   /\ Twice(kind, d)' <=> Twice(kind, d)
  BY Zenon DEF Queued, Twice
<1>2. Types'
  BY Zenon DEF Inv, Types
<1>3. JobsKnown'
  BY Zenon DEF Inv, Types, JobsKnown, Known
<1>4. DropIsFinal'
  BY <1>1, Zenon DEF Inv, Types, JobsKnown, Known, DropIsFinal
<1>5. CursorSignalled'
  BY <1>1, Zenon DEF Inv, Types, CursorSignalled
<1>6. Coalescing'
  BY <1>1, Zenon DEF Inv, Types, JobsKnown, Coalescing, Coming, Known
<1>7. QED
  BY <1>2, <1>3, <1>4, <1>5, <1>6, Zenon DEF Inv

LEMMA WriteLoopStep == ASSUME Inv, NEW c \in Clients, WriteLoop(c) PROVE Inv'
<1> USE DEF WriteLoop, At, room, pool, counts, cursorState
<1>1. \A kind, d : /\ Queued(kind, d)' <=> Queued(kind, d)
                   /\ Twice(kind, d)' <=> Twice(kind, d)
  BY Zenon DEF Queued, Twice
<1>2. Types'
  BY Zenon DEF Inv, Types
<1>3. JobsKnown'
  BY Zenon DEF Inv, Types, JobsKnown, Known
<1>4. DropIsFinal'
  BY <1>1, Zenon DEF Inv, Types, JobsKnown, Known, DropIsFinal
<1>5. CursorSignalled'
  BY <1>1, Zenon DEF Inv, Types, CursorSignalled
<1>6. Coalescing'
  BY <1>1, Zenon DEF Inv, Types, JobsKnown, Coalescing, Coming, Known
<1>7. QED
  BY <1>2, <1>3, <1>4, <1>5, <1>6, Zenon DEF Inv
-----------------------------------------------------------------------------
(***************************************************************************)
(* The steps of the worker.                                                *)
(***************************************************************************)
LEMMA TakeJobStep == ASSUME Inv, TakeJob PROVE Inv'
<1> USE DEF TakeJob, At, connections, room, counts, cursorState
<1>1. \A kind, d : /\ Queued(kind, d)' <=> Queued(kind, d)
                   /\ Twice(kind, d)' <=> Twice(kind, d)
  BY Zenon DEF Queued, Twice
<1>2. Types'
  <2>1. jobs \in Seq(JobSet) /\ jobs # <<>>
    BY Zenon DEF Inv, Types
  <2>2. Head(jobs) \in JobSet /\ Tail(jobs) \in Seq(JobSet)
    BY <2>1
  <2>3. worker' \in Seq(JobSet) /\ jobs' \in Seq(JobSet)
    BY <2>2
  <2>4. QED
    BY <2>3, Zenon DEF Inv, Types
<1>3. JobsKnown'
  BY DEF Inv, Types, JobsKnown, Known
<1>4. DropIsFinal'
  BY <1>1, Zenon DEF Inv, Types, JobsKnown, Known, DropIsFinal
<1>5. CursorSignalled'
  BY <1>1, Zenon DEF Inv, Types, CursorSignalled
<1>6. Coalescing'
  BY <1>1, Zenon DEF Inv, Types, JobsKnown, Coalescing, Coming, Known
<1>7. QED
  BY <1>2, <1>3, <1>4, <1>5, <1>6, Zenon DEF Inv

LEMMA EnqueueJobStep == ASSUME Inv, EnqueueJob PROVE Inv'
<1> USE DEF EnqueueJob, At, room, cursorState
<1>1. \A kind, d : /\ Queued(kind, d)' <=> Queued(kind, d)
                   /\ Twice(kind, d)' <=> Twice(kind, d)
  BY Zenon DEF Queued, Twice
<1>2. Types'
  <2>1. worker' \in Seq(JobSet)
    BY DEF Inv, Types
  <2>2. worker[1].client \in Clients
    BY Zenon DEF Inv, Types, JobsKnown, Known
  <2>3. missed' \in SUBSET Clients
    BY <2>2, Zenon DEF Inv, Types
  <2>4. QED
    BY <2>1, <2>3, Zenon DEF Inv, Types
<1>3. JobsKnown'
  BY Zenon DEF Inv, Types, JobsKnown, Known
<1>4. DropIsFinal'
  BY <1>1, Zenon DEF Inv, Types, JobsKnown, Known, DropIsFinal
<1>5. CursorSignalled'
  BY <1>1, Zenon DEF Inv, Types, CursorSignalled
<1>6. Coalescing'
  BY <1>1, Zenon DEF Inv, Types, JobsKnown, Coalescing, Coming, Known
<1>7. QED
  BY <1>2, <1>3, <1>4, <1>5, <1>6, Zenon DEF Inv

LEMMA DropClientStep == ASSUME Inv, DropClient PROVE Inv'
<1> USE DEF DropClient, At, connections, counts, cursorState
<1>1. PICK c \in Clients : c = worker[1].client
  BY Zenon DEF Inv, Types, JobsKnown, Known
<1>2. /\ commands' \in Seq(CommandSet)
      /\ \A kind, d : /\ Queued(kind, d)' <=> Queued(kind, d) \/ (kind = "unregister" /\ d = c)
                      /\ Twice(kind, d)' =>
                           Twice(kind, d) \/ (kind = "unregister" /\ d = c /\ Queued(kind, d))
  BY <1>1, SubmitEffect, Zenon DEF Inv
<1>3. Types'
  BY <1>2 DEF Inv, Types
<1>4. JobsKnown'
  BY Zenon DEF Inv, JobsKnown, Known
<1>5. DropIsFinal'
  BY <1>1, <1>2, Zenon DEF Inv, DropIsFinal
<1>6. CursorSignalled'
  BY <1>2, Zenon DEF Inv, CursorSignalled
<1>7. Coalescing'
  BY <1>2 DEF Inv, Coalescing, Coming, Known
<1>8. QED
  BY <1>3, <1>4, <1>5, <1>6, <1>7, Zenon DEF Inv
-----------------------------------------------------------------------------
(***************************************************************************)
(* The steps of the owner.                                                 *)
(***************************************************************************)
LEMMA AcceptOperationStep == ASSUME Inv, NEW c \in Clients, AcceptOperation(c) PROVE Inv'
<1> USE DEF AcceptOperation, At, connections, pool, counts, cursorState
<1>1. /\ commands' \in Seq(CommandSet)
      /\ Queued("operation", c)
      /\ \A kind, d : /\ Queued(kind, d)' => Queued(kind, d)
                      /\ Queued(kind, d) => Queued(kind, d)' \/ (kind = "operation" /\ d = c)
                      /\ Twice(kind, d)' => Twice(kind, d)
      /\ Queued("operation", c)' => Twice("operation", c)
  BY TakeEffect, Zenon DEF Inv
<1>2. Types'
  <2>1. sequence' \in Nat /\ clients \ {c} \in SUBSET Clients
    BY DEF Inv, Types
  <2>2. frames' \in Seq(FrameSet)
    BY <2>1, MessageTypes, FrameTypes, Zenon
  <2>3. QED
    BY <1>1, <2>1, <2>2, Zenon DEF Inv, Types
<1>3. JobsKnown'
  BY Zenon DEF Inv, Types, JobsKnown, Known
<1>4. DropIsFinal'
  BY <1>1, Zenon DEF Inv, Types, JobsKnown, Known, DropIsFinal
<1>5. CursorSignalled'
  BY <1>1 DEF Inv, Types, CursorSignalled
<1>6. Coalescing'
  BY <1>1, Zenon DEF Inv, Types, JobsKnown, Coalescing, Coming, Known
<1>7. QED
  BY <1>2, <1>3, <1>4, <1>5, <1>6, Zenon DEF Inv

LEMMA RejectOperationStep == ASSUME Inv, NEW c \in Clients, RejectOperation(c) PROVE Inv'
<1> USE DEF RejectOperation, At, pool, counts, cursorState
<1>1. /\ commands' \in Seq(CommandSet)
      /\ Queued("operation", c)
      /\ \A kind, d : /\ Queued(kind, d)' => Queued(kind, d)
                      /\ Queued(kind, d) => Queued(kind, d)' \/ (kind = "operation" /\ d = c)
                      /\ Twice(kind, d)' => Twice(kind, d)
      /\ Queued("operation", c)' => Twice("operation", c)
  BY TakeEffect, Zenon DEF Inv
<1>2. Types'
  BY <1>1, Zenon DEF Inv, Types
<1>3. JobsKnown'
  BY Zenon DEF Inv, Types, JobsKnown, Known
<1>4. DropIsFinal'
  BY <1>1, Zenon DEF Inv, Types, JobsKnown, Known, DropIsFinal
<1>5. CursorSignalled'
  BY <1>1 DEF Inv, Types, CursorSignalled
<1>6. Coalescing'
  BY <1>1, Zenon DEF Inv, Types, JobsKnown, Coalescing, Coming, Known
<1>7. QED
  BY <1>2, <1>3, <1>4, <1>5, <1>6, Zenon DEF Inv

LEMMA ApplyCursorStep == ASSUME Inv, NEW c \in Clients, ApplyCursor(c) PROVE Inv'
<1> USE DEF ApplyCursor, At, connections, pool, counts
<1>1. /\ commands' \in Seq(CommandSet)
      /\ Queued("cursor", c)
      /\ \A kind, d : /\ Queued(kind, d)' => Queued(kind, d)
                      /\ Queued(kind, d) => Queued(kind, d)' \/ (kind = "cursor" /\ d = c)
                      /\ Twice(kind, d)' => Twice(kind, d)
      /\ Queued("cursor", c)' => Twice("cursor", c)
  BY TakeEffect, Zenon DEF Inv
<1>2. Types'
  <2>1. clients \ {c} \in SUBSET Clients /\ Cursor(c) \in Messages
    BY MessageTypes, Zenon DEF Inv, Types
  <2>2. frames' \in Seq(FrameSet)
    <3>1. <<>> \in Seq(FrameSet)
      OBVIOUS
    <3>2. QED
      BY <2>1, <3>1, FrameTypes, Zenon
  <2>3. QED
    BY <1>1, <2>2, Zenon DEF Inv, Types
<1>3. JobsKnown'
  BY Zenon DEF Inv, Types, JobsKnown, Known
<1>4. DropIsFinal'
  BY <1>1, Zenon DEF Inv, Types, JobsKnown, Known, DropIsFinal
<1>5. CursorSignalled'
  BY <1>1, Zenon DEF Inv, Types, CursorSignalled
<1>6. Coalescing'
  BY <1>1, Zenon DEF Inv, Types, JobsKnown, Coalescing, Coming, Known
<1>7. QED
  BY <1>2, <1>3, <1>4, <1>5, <1>6, Zenon DEF Inv

LEMMA EndBroadcastStep == ASSUME Inv, EndBroadcast PROVE Inv'
<1> USE DEF EndBroadcast, At, connections, pool, counts, cursorState
<1>1. \A kind, d : /\ Queued(kind, d)' <=> Queued(kind, d)
                   /\ Twice(kind, d)' <=> Twice(kind, d)
  BY Zenon DEF Queued, Twice
<1>2. Types'
  BY DEF Inv, Types
<1>3. JobsKnown'
  BY Zenon DEF Inv, Types, JobsKnown, Known
<1>4. DropIsFinal'
  BY <1>1, Zenon DEF Inv, Types, JobsKnown, Known, DropIsFinal
<1>5. CursorSignalled'
  BY <1>1, Zenon DEF Inv, Types, CursorSignalled
<1>6. Coalescing'
  BY <1>1, Zenon DEF Inv, Types, JobsKnown, Coalescing, Coming, Known
<1>7. QED
  BY <1>2, <1>3, <1>4, <1>5, <1>6, Zenon DEF Inv

LEMMA ApplyRegisterStep == ASSUME Inv, NEW c \in Clients, ApplyRegister(c) PROVE Inv'
<1> USE DEF ApplyRegister, Close, At, pool, cursorState
<1>1. /\ commands' \in Seq(CommandSet)
      /\ Queued("register", c)
      /\ \A kind, d : /\ Queued(kind, d)' => Queued(kind, d)
                      /\ Queued(kind, d) => Queued(kind, d)' \/ (kind = "register" /\ d = c)
                      /\ Twice(kind, d)' => Twice(kind, d)
      /\ Queued("register", c)' => Twice("register", c)
  BY TakeEffect, Zenon DEF Inv
<1>2. \/ /\ clients' = clients \cup {c} /\ closed' = closed /\ missed' = missed
         /\ frames' = <<Frame(Presence(clients'), clients)>>
      \/ /\ clients' = clients /\ closed' = closed \cup {c} /\ missed' = missed \ {c}
         /\ frames' = frames
  BY Zenon
<1>3. Types'
  <2>1. clients' \in SUBSET Clients /\ clients \in SUBSET Clients
    BY <1>2, Zenon DEF Inv, Types
  <2>2. frames' \in Seq(FrameSet)
    BY <1>2, <2>1, MessageTypes, FrameTypes, Zenon DEF Inv, Types
  <2>3. QED
    BY <1>1, <1>2, <2>1, <2>2, Zenon DEF Inv, Types
<1>4. JobsKnown'
  BY <1>2, Zenon DEF Inv, JobsKnown, Known
<1>5. DropIsFinal'
  BY <1>1, <1>2, Zenon DEF Inv, DropIsFinal
<1>6. CursorSignalled'
  BY <1>1 DEF Inv, CursorSignalled
<1>7. Coalescing'
  BY <1>1, <1>2, Zenon DEF Inv, Types, Coalescing, Coming, Known
<1>8. QED
  BY <1>3, <1>4, <1>5, <1>6, <1>7, Zenon DEF Inv

(* A client that is removed is closed, and its cursor is forgotten. *)
LEMMA RemoveEffect ==
  ASSUME Inv, NEW c \in clients, NEW outer \in Seq(FrameSet), RemoveClient(c, outer)
  PROVE  /\ clients' = clients \ {c} /\ closed' = closed \cup {c} /\ missed' = missed \ {c}
         /\ Known' = Known
         /\ pendingCursors' = pendingCursors \ {c} /\ cursorQueued' = cursorQueued \ {c}
         /\ frames' \in Seq(FrameSet)
<1>1. clients' \in SUBSET Clients
  BY Zenon DEF Inv, Types, RemoveClient
<1>2. <<Frame(Presence(clients'), clients')>> \in Seq(FrameSet)
  BY <1>1, MessageTypes, FrameTypes, Zenon
<1>3. frames' \in Seq(FrameSet)
  BY <1>2 DEF RemoveClient
<1>4. QED
  BY <1>3, Zenon DEF RemoveClient, ClearCursor, Close, Known

LEMMA ApplyUnregisterStep == ASSUME Inv, NEW c \in Clients, ApplyUnregister(c) PROVE Inv'
<1> USE DEF ApplyUnregister, At, pool, cursorState
<1>1. /\ commands' \in Seq(CommandSet)
      /\ \A kind, d : /\ Queued(kind, d)' => Queued(kind, d)
                      /\ Queued(kind, d) => Queued(kind, d)' \/ (kind = "unregister" /\ d = c)
                      /\ Twice(kind, d)' => Twice(kind, d)
  BY TakeEffect, Zenon DEF Inv
<1>2. CASE c \in clients
  <2>1. <<>> \in Seq(FrameSet)
    OBVIOUS
  <2>2. /\ clients' = clients \ {c} /\ closed' = closed \cup {c} /\ missed' = missed \ {c}
        /\ Known' = Known
        /\ pendingCursors' = pendingCursors \ {c} /\ cursorQueued' = cursorQueued \ {c}
        /\ frames' \in Seq(FrameSet)
    BY <1>2, <2>1, RemoveEffect, Zenon
  <2>3. Types'
    BY <1>1, <2>2, Zenon DEF Inv, Types
  <2>4. JobsKnown'
    BY <2>2, Zenon DEF Inv, JobsKnown
  <2>5. DropIsFinal' /\ CursorSignalled'
    BY <1>1, <2>2, Zenon DEF Inv, DropIsFinal, CursorSignalled
  <2>6. Coalescing'
    BY <1>1, <1>2, <2>2, Zenon DEF Inv, Types, Coalescing, Coming
  <2>7. QED
    BY <2>3, <2>4, <2>5, <2>6, Zenon DEF Inv
<1>3. CASE c \notin clients
  <2>1. c \notin missed \ closed
    BY <1>3, Zenon DEF Inv, JobsKnown, Known
  <2>2. Types' /\ JobsKnown'
    BY <1>1, <1>3, Zenon DEF Inv, Types, JobsKnown, Known
  <2>3. DropIsFinal'
    BY <1>1, <1>3, <2>1, Zenon DEF Inv, DropIsFinal
  <2>4. CursorSignalled'
    BY <1>1, <1>3 DEF Inv, CursorSignalled
  <2>5. Coalescing'
    BY <1>1, <1>3, Zenon DEF Inv, Types, Coalescing, Coming, Known
  <2>6. QED
    BY <2>2, <2>3, <2>4, <2>5, Zenon DEF Inv
<1>4. QED
  BY <1>2, <1>3, Zenon

LEMMA BroadcastStep == ASSUME Inv, NEW c \in Clients, Broadcast(c) PROVE Inv'
<1> USE DEF At
<1> DEFINE rest == <<[frames[1] EXCEPT !.todo = @ \ {c}]>> \o Tail(frames)
<1>1. /\ c \in clients /\ frames \in Seq(FrameSet) /\ frames # <<>>
      /\ UNCHANGED <<pc, commands, sequence, worker, dropping>>
  BY Zenon DEF Broadcast, Inv, Types
<1>2. frames[1] \in FrameSet /\ rest \in Seq(FrameSet)
  <2>1. frames[1] \in FrameSet /\ Tail(frames) \in Seq(FrameSet)
    BY <1>1
  <2>2. [frames[1] EXCEPT !.todo = @ \ {c}] \in FrameSet
    BY <2>1, Zenon DEF FrameSet
  <2>3. QED
    BY <2>1, <2>2
<1>3. \A kind, d : /\ Queued(kind, d)' <=> Queued(kind, d)
                   /\ Twice(kind, d)' <=> Twice(kind, d)
  BY <1>1, Zenon DEF Queued, Twice
<1>4. CASE /\ jobs' = Append(jobs, [client |-> c, data |-> frames[1].data])
           /\ frames' = rest
           /\ UNCHANGED <<clients, closed, missed, cursorState>>
  <2>1. [client |-> c, data |-> frames[1].data] \in JobSet
    BY <1>2, Zenon DEF FrameSet, JobSet
  <2>2. jobs' \in Seq(JobSet) /\ \A i \in 1..Len(jobs') : jobs'[i].client \in Known
    BY <1>1, <1>4, <2>1, SMTT(30) DEF Inv, Types, JobsKnown, Known
  <2>3. Types' /\ JobsKnown'
    BY <1>1, <1>2, <1>4, <2>2, Zenon DEF Inv, Types, JobsKnown, Known, cursorState
  <2>4. DropIsFinal' /\ CursorSignalled'
    BY <1>1, <1>3, <1>4, Zenon DEF Inv, DropIsFinal, CursorSignalled, cursorState
  <2>5. Coalescing'
    BY <1>1, <1>3, <1>4, Zenon DEF Inv, Coalescing, Coming, Known, cursorState
  <2>6. QED
    BY <2>3, <2>4, <2>5, Zenon DEF Inv
<1>5. CASE RemoveClient(c, rest) /\ UNCHANGED jobs
  <2>1. /\ clients' = clients \ {c} /\ closed' = closed \cup {c} /\ missed' = missed \ {c}
        /\ Known' = Known
        /\ pendingCursors' = pendingCursors \ {c} /\ cursorQueued' = cursorQueued \ {c}
        /\ frames' \in Seq(FrameSet)
    BY <1>1, <1>2, <1>5, RemoveEffect, Zenon
  <2>2. Types'
    BY <1>1, <1>5, <2>1, Zenon DEF Inv, Types
  <2>3. JobsKnown'
    BY <1>1, <1>5, <2>1, Zenon DEF Inv, JobsKnown
  <2>4. DropIsFinal' /\ CursorSignalled'
    BY <1>1, <1>3, <2>1, Zenon DEF Inv, DropIsFinal, CursorSignalled
  <2>5. Coalescing'
    BY <1>1, <1>3, <2>1, Zenon DEF Inv, Types, Coalescing, Coming
  <2>6. QED
    BY <2>2, <2>3, <2>4, <2>5, Zenon DEF Inv
<1>6. QED
  BY <1>4, <1>5, Zenon DEF Broadcast
-----------------------------------------------------------------------------
LEMMA InvInit == Init => Inv
<1> SUFFICES ASSUME Init PROVE Inv
  BY Zenon
<1>1. commands = <<>> /\ \A kind, c : ~Queued(kind, c) /\ ~Twice(kind, c)
  BY DEF Init, Queued, Twice
<1>2. Types
  <2>1. <<>> \in Seq(CommandSet) /\ <<>> \in Seq(JobSet) /\ <<>> \in Seq(FrameSet)
    OBVIOUS
  <2>2. QED
    BY <2>1, Zenon DEF Init, Types
<1>3. JobsKnown /\ DropIsFinal /\ CursorSignalled
  BY <1>1 DEF Init, JobsKnown, DropIsFinal, CursorSignalled
<1>4. Coalescing
  BY <1>1, Zenon DEF Init, Coalescing, Coming, Known, At
<1>5. QED
  BY <1>2, <1>3, <1>4, Zenon DEF Inv

LEMMA InvStep == Inv /\ [Next]_vars => Inv'
<1> SUFFICES ASSUME Inv, [Next]_vars PROVE Inv'
  BY Zenon
<1>1. CASE UNCHANGED vars
  <2> USE <1>1 DEF vars, connections, room, pool, counts, cursorState, At
  <2>1. \A kind, d : /\ Queued(kind, d)' <=> Queued(kind, d)
                     /\ Twice(kind, d)' <=> Twice(kind, d)
    BY Zenon DEF Queued, Twice
  <2>2. Types' /\ JobsKnown'
    BY Zenon DEF Inv, Types, JobsKnown, Known
  <2>3. DropIsFinal' /\ CursorSignalled'
    BY <2>1, Zenon DEF Inv, DropIsFinal, CursorSignalled
  <2>4. Coalescing'
    BY <2>1, Zenon DEF Inv, Coalescing, Coming, Known
  <2>5. QED
    BY <2>2, <2>3, <2>4, Zenon DEF Inv
<1>2. CASE \E c \in Clients : \/ Register(c) \/ ReadOperation(c) \/ ReadCursor(c)
                              \/ ReadInvalid(c) \/ Break(c) \/ ReadLoop(c) \/ WriteLoop(c)
  BY <1>2, RegisterStep, ReadOperationStep, ReadCursorStep, ReadInvalidStep,
     BreakStep, SubmitOperationStep, StoreCursorStep, SignalCursorStep, UnregisterStep,
     WriteLoopStep, Zenon DEF ReadLoop
<1>3. CASE Owner
  BY <1>3, EndBroadcastStep, ApplyRegisterStep, ApplyUnregisterStep,
     AcceptOperationStep, RejectOperationStep, ApplyCursorStep, BroadcastStep, Zenon DEF Owner
<1>4. CASE Worker
  BY <1>4, TakeJobStep, EnqueueJobStep, DropClientStep, Zenon DEF Worker
<1>5. QED
  BY <1>1, <1>2, <1>3, <1>4, Zenon DEF Next, Finished

LEMMA Invariance == Spec => []Inv
  BY InvInit, InvStep, PTL DEF Spec

(***************************************************************************)
(* A connection that missed a message is on its way out, whatever the      *)
(* sizes of the queues and however full they are: enqueue of the worker,   *)
(* onDrop and unregister leave no gap.                                     *)
(***************************************************************************)
THEOREM DropIsFinalTheorem == Spec => []DropIsFinal
  BY Invariance, PTL DEF Inv

(* No pending cursor is left behind by SubmitCursor and applyCursor.       *)
THEOREM CursorSignalledTheorem == Spec => []CursorSignalled
  BY Invariance, PTL DEF Inv

(* A client in the room has at most one cursor command in the queue.       *)
THEOREM CursorsCoalescedTheorem == Spec => []CursorsCoalesced
<1>1. ASSUME Inv, NEW c \in clients, NEW i \in DOMAIN commands, NEW j \in DOMAIN commands,
             commands[i] = Command("cursor", c), commands[j] = Command("cursor", c)
      PROVE  i = j
  <2>1. ~Twice("cursor", c)
    BY <1>1, Zenon DEF Inv, Types, Coalescing, Coming
  <2>2. QED
    BY <1>1, <2>1, Zenon DEF Twice
<1>2. Inv => CursorsCoalesced
  BY <1>1, Zenon DEF CursorsCoalesced
<1>3. QED
  BY <1>2, Invariance, PTL

-----------------------------------------------------------------------------
(***************************************************************************)
(* What a sequence of messages comes to: the fold of the steps G, which    *)
(* takes the value v to G[m][v] with the message m.                        *)
(***************************************************************************)
LEMMA LeastNumber ==
  ASSUME NEW S, S \subseteq Nat, S # {}
  PROVE  \E n \in S : \A m \in S : n <= m
<1>1. PICK less : less = OpToRel(<, Nat)
  BY Zenon
<1>2. IsWellFoundedOn(less, Nat)
  BY <1>1, NatLessThanWellFounded, Zenon
<1>3. PICK n \in S : \A m \in S : ~(<<m, n>> \in less)
  BY <1>2, WFMin, Zenon
<1>4. \A m \in S : m < n => <<m, n>> \in less
  BY <1>1 DEF OpToRel
<1>5. \A a, b \in Nat : ~(a < b) => b <= a
  OBVIOUS
<1>6. QED
  BY <1>3, <1>4, <1>5, Zenon

(* Induction up to n; S are the numbers of which the claim holds. *)
LEMMA Induction ==
  ASSUME NEW n \in Nat, NEW S, 0 \in S, \A i \in 0..(n - 1) : i \in S => i + 1 \in S
  PROVE  \A i \in 0..n : i \in S
<1>1. SUFFICES ASSUME NEW k \in 0..n, k \notin S PROVE FALSE
  BY Zenon
<1>2. PICK T : T = {i \in 0..n : i \notin S}
  BY Zenon
<1>3. T \subseteq Nat /\ T # {}
  BY <1>1, <1>2
<1>4. PICK i \in T : \A m \in T : i <= m
  BY <1>3, LeastNumber, Zenon
<1>5. i # 0 /\ i - 1 \in 0..(n - 1) /\ i - 1 \in 0..n /\ ~(i <= i - 1) /\ (i - 1) + 1 = i
  BY <1>2, <1>4
<1>6. i - 1 \in S
  BY <1>2, <1>4, <1>5, Zenon
<1>7. QED
  BY <1>2, <1>4, <1>5, <1>6

IsFold(f, V, G, a, s) ==
  f \in [0..Len(s) -> V] /\ f[0] = a /\ \A i \in 1..Len(s) : f[i] = G[s[i]][f[i - 1]]

Fold(V, G, a, s) == (CHOOSE f : IsFold(f, V, G, a, s))[Len(s)]

(* The steps keep to the values V, for every message of X. *)
Keeps(X, V, G) == \A x \in X : \A v \in V : G[x][v] \in V

LEMMA FoldExists ==
  ASSUME NEW X, NEW V, NEW G, Keeps(X, V, G), NEW a \in V, NEW s \in Seq(X)
  PROVE  \E f : IsFold(f, V, G, a, s)
<1>0. PICK n \in Nat : n = Len(s) /\ \A i \in 1..n : s[i] \in X
  OBVIOUS
<1>1. PICK D : D = {m \in 0..n : \E f \in [0..m -> V] :
                      f[0] = a /\ \A i \in 1..m : f[i] = G[s[i]][f[i - 1]]}
  BY Zenon
<1>2. 0 \in D
  <2>1. PICK f : f = [i \in 0..0 |-> a]
    BY Zenon
  <2>2. f \in [0..0 -> V] /\ f[0] = a /\ \A i \in 1..0 : f[i] = G[s[i]][f[i - 1]]
    BY <2>1
  <2>3. 0 \in 0..n
    OBVIOUS
  <2>4. QED
    BY <1>1, <2>2, <2>3, Zenon
<1>3. ASSUME NEW m \in 0..(n - 1), m \in D PROVE m + 1 \in D
  <2>1. PICK f \in [0..m -> V] : f[0] = a /\ \A i \in 1..m : f[i] = G[s[i]][f[i - 1]]
    BY <1>1, <1>3, Zenon
  <2>2. m \in 0..m /\ m + 1 \in 1..n /\ m + 1 \in 0..n
    OBVIOUS
  <2>3. PICK e \in V : e = G[s[m + 1]][f[m]]
    BY <1>0, <2>2, Zenon DEF Keeps
  <2>4. PICK g : g = [i \in 0..(m + 1) |-> IF i = m + 1 THEN e ELSE f[i]]
    BY Zenon
  <2>5. g \in [0..(m + 1) -> V] /\ g[0] = a
    BY <2>1, <2>4
  <2>6. /\ g[m + 1] = e /\ g[(m + 1) - 1] = f[m]
        /\ \A i \in 1..m : g[i] = f[i] /\ g[i - 1] = f[i - 1]
        /\ \A i \in 1..(m + 1) : i \in 1..m \/ i = m + 1
    BY <2>4
  <2>7. \A i \in 1..(m + 1) : g[i] = G[s[i]][g[i - 1]]
    BY <2>1, <2>3, <2>6, Zenon
  <2>8. QED
    BY <1>1, <2>2, <2>5, <2>7, Zenon
<1>4. \A i \in 0..n : i \in D
  BY <1>2, <1>3, Induction, Zenon
<1>5. n \in 0..n
  OBVIOUS
<1>6. PICK f \in [0..n -> V] : f[0] = a /\ \A i \in 1..n : f[i] = G[s[i]][f[i - 1]]
  BY <1>1, <1>4, <1>5, Zenon
<1>7. IsFold(f, V, G, a, s)
  BY <1>0, <1>6 DEF IsFold
<1>8. QED
  BY <1>7, Zenon

(* Whatever starts with a and takes the steps is the fold. *)
LEMMA FoldIs ==
  ASSUME NEW V, NEW G, NEW a, NEW s, Len(s) \in Nat, NEW f, IsFold(f, V, G, a, s)
  PROVE  Fold(V, G, a, s) = f[Len(s)] /\ Fold(V, G, a, s) \in V
<1>1. PICK g : IsFold(g, V, G, a, s) /\ Fold(V, G, a, s) = g[Len(s)]
  BY Zenon DEF Fold
<1>2. PICK n \in Nat : n = Len(s)
  BY Zenon
<1>3. PICK D : D = {i \in 0..n : f[i] = g[i]}
  BY Zenon
<1>4. 0 \in D
  <2>1. 0 \in 0..n
    OBVIOUS
  <2>2. QED
    BY <1>1, <1>3, <2>1, Zenon DEF IsFold
<1>5. ASSUME NEW i \in 0..(n - 1), i \in D PROVE i + 1 \in D
  <2>1. i + 1 \in 1..n /\ i + 1 \in 0..n /\ (i + 1) - 1 = i
    OBVIOUS
  <2>2. /\ f[i + 1] = G[s[i + 1]][f[(i + 1) - 1]]
        /\ g[i + 1] = G[s[i + 1]][g[(i + 1) - 1]]
    BY <1>1, <1>2, <2>1, Zenon DEF IsFold
  <2>3. QED
    BY <1>3, <1>5, <2>1, <2>2, Zenon
<1>6. n \in 0..n
  OBVIOUS
<1>7. n \in D
  BY <1>4, <1>5, <1>6, Induction, Zenon
<1>8. QED
  BY <1>1, <1>2, <1>3, <1>6, <1>7, ZenonT(60) DEF IsFold

LEMMA FoldConcat ==
  ASSUME NEW X, NEW V, NEW G, Keeps(X, V, G), NEW a \in V, NEW s \in Seq(X), NEW t \in Seq(X)
  PROVE  /\ Fold(V, G, a, s) \in V
         /\ Fold(V, G, a, s \o t) = Fold(V, G, Fold(V, G, a, s), t)
<1>1. /\ Len(s) \in Nat /\ Len(t) \in Nat /\ Len(s \o t) = Len(s) + Len(t)
      /\ \A i \in 1..Len(s) : (s \o t)[i] = s[i]
      /\ \A i \in 1..Len(t) : (s \o t)[Len(s) + i] = t[i]
  OBVIOUS
<1>2. PICK f : IsFold(f, V, G, a, s)
  BY FoldExists, Zenon
<1>3. PICK b \in V : b = Fold(V, G, a, s) /\ b = f[Len(s)]
  BY <1>1, <1>2, FoldIs
<1>4. PICK h : IsFold(h, V, G, b, t)
  BY FoldExists, Zenon
<1>5. Fold(V, G, b, t) = h[Len(t)]
  BY <1>1, <1>4, FoldIs
<1>6. PICK m \in Nat, n \in Nat : m = Len(s) /\ n = Len(t)
  BY <1>1, Zenon
<1>7. PICK r : r = s \o t
  BY Zenon
<1>8. PICK g : g = [i \in 0..(m + n) |-> IF i <= m THEN f[i] ELSE h[i - m]]
  BY Zenon
<1>9. /\ f \in [0..m -> V] /\ f[0] = a /\ f[m] = b
      /\ \A i \in 1..m : f[i] = G[s[i]][f[i - 1]]
  BY <1>2, <1>3, <1>6, Zenon DEF IsFold
<1>10. /\ h \in [0..n -> V] /\ h[0] = b
       /\ \A i \in 1..n : h[i] = G[t[i]][h[i - 1]]
  BY <1>4, <1>6, Zenon DEF IsFold
<1>11. g \in [0..(m + n) -> V] /\ g[0] = a /\ g[m + n] = h[n]
  BY <1>8, <1>9, <1>10
<1>12. \A i \in 1..(m + n) : g[i] = G[r[i]][g[i - 1]]
  <2>1. ASSUME NEW i \in 1..(m + n), i <= m PROVE g[i] = G[r[i]][g[i - 1]]
    <3>1. i \in 1..m /\ g[i] = f[i] /\ g[i - 1] = f[i - 1]
      BY <1>8, <2>1
    <3>2. r[i] = s[i]
      BY <1>1, <1>6, <1>7, <3>1, Zenon
    <3>3. QED
      BY <1>9, <3>1, <3>2, Zenon
  <2>2. ASSUME NEW i \in 1..(m + n), ~(i <= m) PROVE g[i] = G[r[i]][g[i - 1]]
    <3>1. i - m \in 1..n /\ m + (i - m) = i /\ g[i] = h[i - m]
      BY <1>8, <2>2
    <3>2. g[i - 1] = h[(i - m) - 1]
      BY <1>8, <1>9, <1>10, <2>2
    <3>3. r[i] = t[i - m]
      <4>1. (s \o t)[m + (i - m)] = t[i - m]
        BY <1>1, <1>6, <3>1, Zenon
      <4>2. QED
        BY <1>7, <3>1, <4>1, Zenon
    <3>4. QED
      BY <1>10, <3>1, <3>2, <3>3, Zenon
  <2>3. QED
    BY <2>1, <2>2, Zenon
<1>13. Len(r) = m + n /\ m + n \in Nat
  BY <1>1, <1>6, <1>7
<1>14. IsFold(g, V, G, a, r)
  BY <1>11, <1>12, <1>13 DEF IsFold
<1>15. Fold(V, G, a, r) = h[n]
  BY <1>11, <1>13, <1>14, FoldIs, SMTT(30)
<1>16. QED
  BY <1>3, <1>5, <1>6, <1>7, <1>15, Zenon

LEMMA FoldShort ==
  ASSUME NEW X, NEW V, NEW G, Keeps(X, V, G), NEW a \in V
  PROVE  /\ Fold(V, G, a, <<>>) = a
         /\ \A x \in X : Fold(V, G, a, <<x>>) = G[x][a]
<1>1. Fold(V, G, a, <<>>) = a
  <2>1. <<>> \in Seq(X) /\ Len(<<>>) = 0 /\ 0 \in Nat
    OBVIOUS
  <2>2. PICK f : IsFold(f, V, G, a, <<>>)
    BY <2>1, FoldExists, Zenon
  <2>3. f[0] = a
    BY <2>2, Zenon DEF IsFold
  <2>4. Fold(V, G, a, <<>>) = f[Len(<<>>)]
    BY <2>1, <2>2, FoldIs
  <2>5. QED
    BY <2>1, <2>3, <2>4, Zenon
<1>2. ASSUME NEW x \in X PROVE Fold(V, G, a, <<x>>) = G[x][a]
  <2>1. <<x>> \in Seq(X) /\ Len(<<x>>) = 1 /\ 1 \in Nat /\ 1 \in 1..1 /\ 1 - 1 = 0 /\ <<x>>[1] = x
    OBVIOUS
  <2>2. PICK f : IsFold(f, V, G, a, <<x>>)
    BY <2>1, FoldExists, Zenon
  <2>3. f[0] = a /\ f[1] = G[x][f[1 - 1]]
    BY <2>1, <2>2 DEF IsFold
  <2>4. Fold(V, G, a, <<x>>) = f[Len(<<x>>)]
    BY <2>1, <2>2, FoldIs
  <2>5. QED
    BY <2>1, <2>3, <2>4, Zenon
<1>3. QED
  BY <1>1, <1>2, Zenon

Sendable == Messages \cup {Error}

Numbering == [m \in Sendable |-> [v \in Seq(Nat) |->
               IF m.kind \in {"sync", "op"} THEN Append(v, m.seq) ELSE v]]

Showing == [m \in Sendable |-> [v \in SUBSET Clients |-> Shown(v, m)]]

(* The users a tab shows once it got the messages s. *)
Final(shown, s) == Fold(SUBSET Clients, Showing, shown, s)

LEMMA Kinds ==
  ASSUME NEW m \in Sendable
  PROVE  /\ m.kind \in {"sync", "op"} => m.seq \in Nat
         /\ m.kind \in {"sync", "presence"} => m.active \in SUBSET Clients
         /\ m.kind = "cursor" => m.user \in Clients
  BY DEF Sendable, Messages, Error

LEMMA Steps == Keeps(Sendable, Seq(Nat), Numbering) /\ Keeps(Sendable, SUBSET Clients, Showing)
<1>1. ASSUME NEW m \in Sendable, NEW v \in Seq(Nat) PROVE Numbering[m][v] \in Seq(Nat)
  <2>1. CASE m.kind \in {"sync", "op"}
    <3>1. m.seq \in Nat
      BY <2>1, Kinds, Zenon
    <3>2. Append(v, m.seq) \in Seq(Nat)
      BY <3>1
    <3>3. QED
      BY <2>1, <3>2, Zenon DEF Numbering
  <2>2. CASE ~(m.kind \in {"sync", "op"})
    BY <2>2, Zenon DEF Numbering
  <2>3. QED
    BY <2>1, <2>2, Zenon
<1>2. ASSUME NEW m \in Sendable, NEW v \in SUBSET Clients
      PROVE  Showing[m][v] \in SUBSET Clients
  <2>1. Showing[m][v] = Shown(v, m)
    BY Zenon DEF Showing
  <2>2. Shown(v, m) \in SUBSET Clients
    BY Kinds DEF Shown
  <2>3. QED
    BY <2>1, <2>2, Zenon
<1>3. QED
  BY <1>1, <1>2, Zenon DEF Keeps

LEMMA NumbersFold ==
  ASSUME NEW s \in Seq(Sendable)
  PROVE  Numbers(s) = Fold(Seq(Nat), Numbering, <<>>, s)
<1>0. PICK n \in Nat : n = Len(s) /\ \A i \in 1..n : s[i] \in Sendable
  OBVIOUS
<1>1. <<>> \in Seq(Nat)
  OBVIOUS
<1>2. PICK f : IsFold(f, Seq(Nat), Numbering, <<>>, s)
  BY <1>1, Steps, FoldExists, Zenon
<1>3. f \in [0..n -> Seq(Nat)] /\ f[0] = <<>>
  BY <1>0, <1>2, Zenon DEF IsFold
<1>4. \A i \in 1..n : f[i] = IF s[i].kind \in {"sync", "op"}
                             THEN Append(f[i - 1], s[i].seq) ELSE f[i - 1]
  <2>1. SUFFICES ASSUME NEW i \in 1..n
                 PROVE  f[i] = IF s[i].kind \in {"sync", "op"}
                               THEN Append(f[i - 1], s[i].seq) ELSE f[i - 1]
    BY Zenon
  <2>2. f[i - 1] \in Seq(Nat)
    BY <1>3
  <2>3. s[i] \in Sendable /\ f[i] = Numbering[s[i]][f[i - 1]]
    BY <1>0, <1>2, Zenon DEF IsFold
  <2>4. QED
    BY <2>2, <2>3, Zenon DEF Numbering
<1>5. f = [i \in 0..n |-> IF i = 0 THEN <<>>
                          ELSE IF s[i].kind \in {"sync", "op"}
                               THEN Append(f[i - 1], s[i].seq) ELSE f[i - 1]]
  <2>1. \A i \in 0..n : (i = 0 \/ i \in 1..n) /\ ~(i = 0 /\ i \in 1..n)
    OBVIOUS
  <2>2. QED
    BY <1>3, <1>4, <2>1, Zenon
<1>6. PICK g : /\ g = [i \in 0..n |-> IF i = 0 THEN <<>>
                                      ELSE IF s[i].kind \in {"sync", "op"}
                                           THEN Append(g[i - 1], s[i].seq) ELSE g[i - 1]]
               /\ Numbers(s) = g[n]
  BY <1>0, <1>5, Zenon DEF Numbers
<1>7. PICK D : D = {i \in 0..n : f[i] = g[i]}
  BY Zenon
<1>8. 0 \in D
  BY <1>3, <1>6, <1>7
<1>9. ASSUME NEW i \in 0..(n - 1), i \in D PROVE i + 1 \in D
  <2>1. i + 1 \in 1..n /\ i + 1 \in 0..n /\ (i + 1) - 1 = i /\ i + 1 # 0
    OBVIOUS
  <2>2. g[i + 1] = IF s[i + 1].kind \in {"sync", "op"}
                   THEN Append(g[(i + 1) - 1], s[i + 1].seq) ELSE g[(i + 1) - 1]
    BY <1>6, <2>1, Zenon
  <2>3. f[i + 1] = IF s[i + 1].kind \in {"sync", "op"}
                   THEN Append(f[(i + 1) - 1], s[i + 1].seq) ELSE f[(i + 1) - 1]
    BY <1>4, <2>1, Zenon
  <2>4. QED
    BY <1>7, <1>9, <2>1, <2>2, <2>3, Zenon
<1>10. n \in 0..n
  OBVIOUS
<1>11. n \in D
  BY <1>8, <1>9, <1>10, Induction, Zenon
<1>12. Fold(Seq(Nat), Numbering, <<>>, s) = f[n]
  BY <1>0, <1>2, FoldIs
<1>13. QED
  BY <1>6, <1>7, <1>11, <1>12, Zenon

LEMMA NumbersConcat ==
  ASSUME NEW s \in Seq(Sendable), NEW t \in Seq(Sendable)
  PROVE  Numbers(s) \in Seq(Nat) /\ Numbers(s \o t) = Numbers(s) \o Numbers(t)
<1>1. <<>> \in Seq(Nat) /\ s \o t \in Seq(Sendable) /\ Len(t) \in Nat
  OBVIOUS
<1>2. PICK b \in Seq(Nat) : b = Numbers(s)
  BY <1>1, NumbersFold, Steps, FoldConcat, Zenon
<1>3. Numbers(s \o t) = Fold(Seq(Nat), Numbering, b, t)
  <2>1. b = Fold(Seq(Nat), Numbering, <<>>, s)
    BY <1>2, NumbersFold, Zenon
  <2>2. Fold(Seq(Nat), Numbering, <<>>, s \o t)
        = Fold(Seq(Nat), Numbering, Fold(Seq(Nat), Numbering, <<>>, s), t)
    <3>1. PICK V, G, e : V = Seq(Nat) /\ G = Numbering /\ e = <<>>
      BY Zenon
    <3>2. Keeps(Sendable, V, G) /\ e \in V
      BY <1>1, <3>1, Steps, Zenon
    <3>3. Fold(V, G, e, s \o t) = Fold(V, G, Fold(V, G, e, s), t)
      BY <3>2, FoldConcat
    <3>4. QED
      BY <3>1, <3>3, Zenon
  <2>3. Numbers(s \o t) = Fold(Seq(Nat), Numbering, <<>>, s \o t)
    BY <1>1, NumbersFold, Zenon
  <2>4. QED
    BY <2>1, <2>2, <2>3, Zenon
<1>4. PICK f : IsFold(f, Seq(Nat), Numbering, <<>>, t)
  BY <1>1, Steps, FoldExists, Zenon
<1>5. PICK n \in Nat : n = Len(t) /\ \A i \in 1..n : t[i] \in Sendable
  OBVIOUS
<1>6. /\ f \in [0..n -> Seq(Nat)] /\ f[0] = <<>>
      /\ \A i \in 1..n : f[i] = Numbering[t[i]][f[i - 1]]
  BY <1>4, <1>5, Zenon DEF IsFold
<1>7. Numbers(t) = f[n]
  <2>1. Fold(Seq(Nat), Numbering, <<>>, t) = f[n]
    BY <1>4, <1>5, FoldIs
  <2>2. QED
    BY <2>1, NumbersFold, Zenon
<1>8. PICK g : g = [i \in 0..n |-> b \o f[i]]
  BY Zenon
<1>9. g \in [0..n -> Seq(Nat)] /\ g[0] = b
  <2>1. \A u \in Seq(Nat) : b \o u \in Seq(Nat)
    OBVIOUS
  <2>2. \A i \in 0..n : b \o f[i] \in Seq(Nat)
    BY <1>6, <2>1, Zenon
  <2>3. b \o <<>> = b /\ 0 \in 0..n
    OBVIOUS
  <2>4. QED
    BY <1>6, <1>8, <2>2, <2>3, Zenon
<1>10. \A i \in 1..n : g[i] = Numbering[t[i]][g[i - 1]]
  <2>1. SUFFICES ASSUME NEW i \in 1..n PROVE g[i] = Numbering[t[i]][g[i - 1]]
    BY Zenon
  <2>0. i - 1 \in 0..n /\ i \in 0..n
    OBVIOUS
  <2>2. PICK u \in Seq(Nat) : u = f[i - 1] /\ g[i - 1] = b \o u /\ g[i] = b \o f[i]
    BY <1>6, <1>8, <2>0, Zenon
  <2>3. PICK m \in Sendable : m = t[i]
    BY <1>5, Zenon
  <2>4. b \o u \in Seq(Nat)
    OBVIOUS
  <2>5. f[i] = Numbering[m][u]
    BY <1>6, <2>2, <2>3, Zenon
  <2>6. b \o Numbering[m][u] = Numbering[m][b \o u]
    <3>1. CASE m.kind \in {"sync", "op"}
      <4>1. m.seq \in Nat
        BY <3>1, Kinds, Zenon
      <4>2. b \o Append(u, m.seq) = Append(b \o u, m.seq)
        BY <4>1, SMTT(30)
      <4>3. QED
        BY <2>4, <3>1, <4>2, Zenon DEF Numbering
    <3>2. CASE ~(m.kind \in {"sync", "op"})
      BY <2>4, <3>2, Zenon DEF Numbering
    <3>3. QED
      BY <3>1, <3>2, Zenon
  <2>7. QED
    BY <2>2, <2>3, <2>5, <2>6, Zenon
<1>11. IsFold(g, Seq(Nat), Numbering, b, t)
  BY <1>5, <1>9, <1>10, Zenon DEF IsFold
<1>12. Fold(Seq(Nat), Numbering, b, t) = g[n]
  BY <1>5, <1>11, FoldIs
<1>13. g[n] = b \o f[n]
  <2>1. n \in 0..n
    OBVIOUS
  <2>2. QED
    BY <1>8, <2>1, Zenon
<1>14. QED
  BY <1>2, <1>3, <1>7, <1>12, <1>13, Zenon

LEMMA FinalConcat ==
  ASSUME NEW s \in Seq(Sendable), NEW t \in Seq(Sendable), NEW x \in SUBSET Clients
  PROVE  /\ Final(x, s) \in SUBSET Clients
         /\ Final(x, s \o t) = Final(Final(x, s), t)
<1>1. PICK V, G : V = SUBSET Clients /\ G = Showing
  BY Zenon
<1>2. Keeps(Sendable, V, G) /\ x \in V
  BY <1>1, Steps, Zenon
<1>3. Fold(V, G, x, s) \in V /\ Fold(V, G, x, s \o t) = Fold(V, G, Fold(V, G, x, s), t)
  BY <1>2, FoldConcat
<1>4. QED
  BY <1>1, <1>3, Zenon DEF Final

LEMMA Short ==
  /\ Numbers(<<>>) = <<>>
  /\ \A m \in Sendable : Numbers(<<m>>) = IF m.kind \in {"sync", "op"} THEN <<m.seq>> ELSE <<>>
  /\ \A x \in SUBSET Clients : /\ Final(x, <<>>) = x
                               /\ \A m \in Sendable : Final(x, <<m>>) = Shown(x, m)
<1>1. <<>> \in Seq(Nat) /\ <<>> \in Seq(Sendable) /\ \A m \in Sendable : <<m>> \in Seq(Sendable)
  OBVIOUS
<1>2. PICK V, G, e : V = Seq(Nat) /\ G = Numbering /\ e = <<>>
  BY Zenon
<1>3. Keeps(Sendable, V, G) /\ e \in V
  BY <1>1, <1>2, Steps, Zenon
<1>4. Fold(V, G, e, <<>>) = e /\ \A m \in Sendable : Fold(V, G, e, <<m>>) = G[m][e]
  BY <1>3, FoldShort
<1>5. Numbers(<<>>) = <<>>
  BY <1>1, <1>2, <1>4, NumbersFold, Zenon
<1>6. ASSUME NEW m \in Sendable
      PROVE  Numbers(<<m>>) = IF m.kind \in {"sync", "op"} THEN <<m.seq>> ELSE <<>>
  <2>1. Numbers(<<m>>) = Numbering[m][<<>>]
    BY <1>1, <1>2, <1>4, NumbersFold, Zenon
  <2>2. Numbering[m][<<>>] = IF m.kind \in {"sync", "op"} THEN Append(<<>>, m.seq) ELSE <<>>
    BY <1>1, Zenon DEF Numbering
  <2>3. Append(<<>>, m.seq) = <<m.seq>>
    OBVIOUS
  <2>4. QED
    BY <2>1, <2>2, <2>3, Zenon
<1>7. ASSUME NEW x \in SUBSET Clients
      PROVE  Final(x, <<>>) = x /\ \A m \in Sendable : Final(x, <<m>>) = Shown(x, m)
  <2>1. PICK U, H : U = SUBSET Clients /\ H = Showing
    BY Zenon
  <2>2. Keeps(Sendable, U, H) /\ x \in U
    BY <2>1, Steps, Zenon
  <2>3. Fold(U, H, x, <<>>) = x /\ \A m \in Sendable : Fold(U, H, x, <<m>>) = H[m][x]
    BY <2>2, FoldShort
  <2>4. QED
    BY <2>1, <2>3, Zenon DEF Final, Showing
<1>8. QED
  BY <1>5, <1>6, <1>7, Zenon

(***************************************************************************)
(* Two sequences of messages with the same numbers and the same effect on  *)
(* the users that are shown.                                               *)
(***************************************************************************)
Same(s, t) ==
  /\ s \in Seq(Sendable) /\ t \in Seq(Sendable)
  /\ Numbers(s) = Numbers(t)
  /\ \A x \in SUBSET Clients : Final(x, s) = Final(x, t)

LEMMA Joined == ASSUME NEW X, NEW a \in Seq(X), NEW b \in Seq(X) PROVE a \o b \in Seq(X)
  OBVIOUS

LEMMA SameConcat ==
  ASSUME NEW a, NEW b, NEW c, NEW d, Same(a, b), Same(c, d)
  PROVE  Same(a \o c, b \o d)
<1>1. a \in Seq(Sendable) /\ b \in Seq(Sendable) /\ c \in Seq(Sendable) /\ d \in Seq(Sendable)
  BY Zenon DEF Same
<1>2. a \o c \in Seq(Sendable) /\ b \o d \in Seq(Sendable)
  BY <1>1, Joined, Zenon
<1>3. Numbers(a \o c) = Numbers(b \o d)
  <2>1. Numbers(a) = Numbers(b) /\ Numbers(c) = Numbers(d)
    BY Zenon DEF Same
  <2>2. Numbers(a \o c) = Numbers(a) \o Numbers(c)
    BY <1>1, NumbersConcat, Zenon
  <2>3. Numbers(b \o d) = Numbers(b) \o Numbers(d)
    BY <1>1, NumbersConcat, Zenon
  <2>4. QED
    BY <2>1, <2>2, <2>3, Zenon
<1>4. ASSUME NEW x \in SUBSET Clients PROVE Final(x, a \o c) = Final(x, b \o d)
  <2>1. Final(x, a) = Final(x, b) /\ Final(x, a) \in SUBSET Clients
    BY <1>1, FinalConcat, Zenon DEF Same
  <2>2. Final(x, a \o c) = Final(Final(x, a), c)
    BY <1>1, FinalConcat, Zenon
  <2>3. Final(x, b \o d) = Final(Final(x, b), d)
    BY <1>1, FinalConcat, Zenon
  <2>4. QED
    BY <2>1, <2>2, <2>3, Zenon DEF Same
<1>5. QED
  BY <1>2, <1>3, <1>4, Zenon DEF Same

(* An error is neutral. *)
LEMMA SameError == Error \in Sendable /\ Same(<<Error>>, <<>>)
<1>1. Error \in Sendable /\ Error.kind = "error"
  BY Zenon DEF Sendable, Error
<1>2. <<>> \in Seq(Sendable) /\ <<Error>> \in Seq(Sendable)
  BY <1>1
<1>3. Numbers(<<Error>>) = Numbers(<<>>)
  <2>1. ~(Error.kind \in {"sync", "op"})
    BY <1>1
  <2>2. QED
    BY <1>1, <2>1, Short, Zenon
<1>4. \A x : Shown(x, Error) = x
  BY <1>1 DEF Shown
<1>5. \A x \in SUBSET Clients : Final(x, <<Error>>) = Final(x, <<>>)
  BY <1>1, <1>4, Short, Zenon
<1>6. QED
  BY <1>1, <1>2, <1>3, <1>5, Zenon DEF Same

LEMMA OnlyErrors ==
  ASSUME NEW s \in Seq(Sendable), \A i \in 1..Len(s) : s[i] = Error
  PROVE  Same(s, <<>>)
<1>1. Error \in Sendable /\ Error.kind = "error" /\ <<>> \in Seq(Nat) /\ <<>> \in Seq(Sendable)
  BY SameError DEF Error
<1>2. PICK n \in Nat : n = Len(s)
  OBVIOUS
<1>3. ASSUME NEW V, NEW G, NEW a \in V, G[Error][a] = a PROVE Fold(V, G, a, s) = a
  <2>1. PICK f : f = [i \in 0..n |-> a]
    BY Zenon
  <2>2. /\ f \in [0..n -> V] /\ f[0] = a /\ f[n] = a
        /\ \A i \in 1..n : f[i] = a /\ f[i - 1] = a
    BY <2>1
  <2>3. \A i \in 1..n : f[i] = G[s[i]][f[i - 1]]
    BY <1>2, <1>3, <2>2, Zenon
  <2>4. IsFold(f, V, G, a, s)
    BY <1>2, <2>2, <2>3, Zenon DEF IsFold
  <2>5. QED
    BY <1>2, <2>2, <2>4, FoldIs
<1>4. Numbers(s) = Numbers(<<>>)
  <2>1. Numbering[Error][<<>>] = <<>>
    BY <1>1 DEF Numbering
  <2>2. QED
    BY <1>1, <1>3, <2>1, NumbersFold, Short, Zenon
<1>5. ASSUME NEW x \in SUBSET Clients PROVE Final(x, s) = Final(x, <<>>)
  <2>1. Showing[Error][x] = Shown(x, Error)
    BY <1>1, Zenon DEF Showing
  <2>2. Shown(x, Error) = x
    BY <1>1 DEF Shown
  <2>3. Fold(SUBSET Clients, Showing, x, s) = x
    BY <1>3, <2>1, <2>2
  <2>4. QED
    BY <2>3, Short, Zenon DEF Final
<1>6. QED
  BY <1>1, <1>4, <1>5, Zenon DEF Same

-----------------------------------------------------------------------------
(***************************************************************************)
(* The way to a client: its send queue q, the jobs Q of the pool and the   *)
(* broadcasts F.                                                           *)
(***************************************************************************)
Way(d, q, Q, F) == q \o JobsFor(d, Q) \o FramesFor(d, F)

ForClient(d, j) == IF j.client = d THEN j.data ELSE Error
ToClient(d, f) == IF d \in f.todo THEN f.data ELSE Error

LEMMA Assoc ==
  ASSUME NEW X, NEW a \in Seq(X), NEW b \in Seq(X), NEW c \in Seq(X)
  PROVE  (a \o b) \o c = a \o (b \o c) /\ a \o b \in Seq(X) /\ <<>> \o a = a /\ a \o <<>> = a
<1>1. a \o b \in Seq(X) /\ b \o c \in Seq(X)
  OBVIOUS
<1>2. PICK l, r : l = (a \o b) \o c /\ r = a \o (b \o c)
  BY Zenon
<1>3. l \in Seq(X) /\ r \in Seq(X)
  BY <1>1, <1>2
<1>4. Len(l) = Len(r) /\ \A i \in 1..Len(l) : l[i] = r[i]
  BY <1>2
<1>5. l = [i \in 1..Len(l) |-> l[i]] /\ r = [i \in 1..Len(r) |-> r[i]]
  BY <1>3
<1>6. l = r
  BY <1>4, <1>5, Zenon
<1>7. <<>> \o a = a /\ a \o <<>> = a
  OBVIOUS
<1>8. QED
  BY <1>1, <1>2, <1>6, <1>7, Zenon

LEMMA Regroup ==
  ASSUME NEW a \in Seq(Sendable), NEW b \in Seq(Sendable), NEW c \in Seq(Sendable)
  PROVE  (a \o b) \o c = a \o (b \o c)
  BY Assoc, SMTT(30)

LEMMA JobsForTypes ==
  ASSUME NEW d \in Clients, NEW Q \in Seq(JobSet), NEW j \in JobSet
  PROVE  /\ ForClient(d, j) \in Sendable
         /\ JobsFor(d, Q) \in Seq(Sendable)
         /\ JobsFor(d, <<>>) = <<>>
         /\ JobsFor(d, <<j>> \o Q) = <<ForClient(d, j)>> \o JobsFor(d, Q)
         /\ JobsFor(d, Append(Q, j)) = JobsFor(d, Q) \o <<ForClient(d, j)>>
<1>1. \A k \in JobSet : k.data \in Sendable
  BY Zenon DEF JobSet, Sendable
<1>2. Error \in Sendable
  BY SameError, Zenon
<1>3. PICK g : g = [k \in JobSet |-> ForClient(d, k)]
  BY Zenon
<1>4. \A k \in JobSet : g[k] \in Sendable /\ g[k] = ForClient(d, k)
  BY <1>1, <1>2, <1>3, Zenon DEF ForClient
<1>5. \A R \in Seq(JobSet) : JobsFor(d, R) = [i \in DOMAIN R |-> g[R[i]]]
  <2>1. SUFFICES ASSUME NEW R \in Seq(JobSet)
                 PROVE  JobsFor(d, R) = [i \in DOMAIN R |-> g[R[i]]]
    BY Zenon
  <2>2. \A i \in DOMAIN R : R[i] \in JobSet
    OBVIOUS
  <2>3. QED
    BY <1>4, <2>2, Zenon DEF JobsFor, ForClient
<1>6. \A R \in Seq(JobSet) : [i \in DOMAIN R |-> g[R[i]]] \in Seq(Sendable)
  BY <1>4
<1>7. <<>> \in Seq(JobSet) /\ <<j>> \o Q \in Seq(JobSet) /\ Append(Q, j) \in Seq(JobSet)
  OBVIOUS
<1>8. JobsFor(d, <<>>) = <<>>
  BY DEF JobsFor
<1>9. PICK e \in Sendable : e = g[j]
  BY <1>4, Zenon
<1>10. [i \in DOMAIN (<<j>> \o Q) |-> g[(<<j>> \o Q)[i]]] = <<e>> \o [i \in DOMAIN Q |-> g[Q[i]]]
  BY <1>9
<1>11. [i \in DOMAIN Append(Q, j) |-> g[Append(Q, j)[i]]] = [i \in DOMAIN Q |-> g[Q[i]]] \o <<e>>
  BY <1>9
<1>12. QED
  BY <1>4, <1>5, <1>6, <1>7, <1>8, <1>9, <1>10, <1>11, Zenon

LEMMA FramesForTypes ==
  ASSUME NEW d \in Clients, NEW F \in Seq(FrameSet), NEW f \in FrameSet
  PROVE  /\ ToClient(d, f) \in Sendable
         /\ FramesFor(d, F) \in Seq(Sendable)
         /\ FramesFor(d, <<>>) = <<>>
         /\ FramesFor(d, <<f>>) = <<ToClient(d, f)>>
         /\ FramesFor(d, <<f>> \o F) = <<ToClient(d, f)>> \o FramesFor(d, F)
<1>1. \A k \in FrameSet : k.data \in Sendable
  BY Zenon DEF FrameSet, Sendable
<1>2. Error \in Sendable
  BY SameError, Zenon
<1>3. PICK g : g = [k \in FrameSet |-> ToClient(d, k)]
  BY Zenon
<1>4. \A k \in FrameSet : g[k] \in Sendable /\ g[k] = ToClient(d, k)
  BY <1>1, <1>2, <1>3, Zenon DEF ToClient
<1>5. \A R \in Seq(FrameSet) : FramesFor(d, R) = [i \in DOMAIN R |-> g[R[i]]]
  <2>1. SUFFICES ASSUME NEW R \in Seq(FrameSet)
                 PROVE  FramesFor(d, R) = [i \in DOMAIN R |-> g[R[i]]]
    BY Zenon
  <2>2. \A i \in DOMAIN R : R[i] \in FrameSet
    OBVIOUS
  <2>3. QED
    BY <1>4, <2>2, Zenon DEF FramesFor, ToClient
<1>6. \A R \in Seq(FrameSet) : [i \in DOMAIN R |-> g[R[i]]] \in Seq(Sendable)
  BY <1>4
<1>7. <<f>> \in Seq(FrameSet) /\ <<f>> \o F \in Seq(FrameSet)
  OBVIOUS
<1>8. FramesFor(d, <<>>) = <<>>
  BY DEF FramesFor
<1>9. PICK e \in Sendable : e = g[f]
  BY <1>4, Zenon
<1>10. [i \in DOMAIN (<<f>> \o F) |-> g[(<<f>> \o F)[i]]] = <<e>> \o [i \in DOMAIN F |-> g[F[i]]]
  BY <1>9
<1>11. [i \in DOMAIN <<f>> |-> g[<<f>>[i]]] = <<e>>
  BY <1>9
<1>12. QED
  BY <1>4, <1>5, <1>6, <1>7, <1>8, <1>9, <1>10, <1>11, Zenon

LEMMA ForTypes ==
  ASSUME NEW d \in Clients, NEW Q \in Seq(JobSet), NEW F \in Seq(FrameSet)
  PROVE  JobsFor(d, Q) \in Seq(Sendable) /\ FramesFor(d, F) \in Seq(Sendable)
<1>1. \A i \in 1..Len(Q) : ForClient(d, Q[i]) \in Sendable
  <2>1. \A i \in 1..Len(Q) : Q[i] \in JobSet
    OBVIOUS
  <2>2. QED
    BY <2>1, JobsForTypes, Zenon
<1>2. \A i \in 1..Len(F) : ToClient(d, F[i]) \in Sendable
  <2>1. \A i \in 1..Len(F) : F[i] \in FrameSet
    OBVIOUS
  <2>2. QED
    BY <2>1, FramesForTypes, Zenon
<1>3. DOMAIN Q = 1..Len(Q) /\ DOMAIN F = 1..Len(F) /\ Len(Q) \in Nat /\ Len(F) \in Nat
  OBVIOUS
<1>4. PICK g, h : /\ g = [i \in 1..Len(Q) |-> ForClient(d, Q[i])]
                  /\ h = [i \in 1..Len(F) |-> ToClient(d, F[i])]
  BY Zenon
<1>5. g \in Seq(Sendable) /\ h \in Seq(Sendable)
  BY <1>1, <1>2, <1>3, <1>4
<1>6. QED
  BY <1>3, <1>4, <1>5, Zenon DEF JobsFor, FramesFor, ForClient, ToClient

LEMMA WayType ==
  ASSUME NEW d \in Clients, NEW q \in Seq(Sendable), NEW Q \in Seq(JobSet),
         NEW F \in Seq(FrameSet)
  PROVE  /\ Way(d, q, Q, F) \in Seq(Sendable)
         /\ \E J, K \in Seq(Sendable) : /\ J = JobsFor(d, Q) /\ K = FramesFor(d, F)
                                        /\ Way(d, q, Q, F) = q \o (J \o K)
<1>1. PICK J, K \in Seq(Sendable) : J = JobsFor(d, Q) /\ K = FramesFor(d, F)
  BY ForTypes, Zenon
<1>2. Way(d, q, Q, F) = (q \o J) \o K
  BY <1>1, Zenon DEF Way
<1>3. J \o K \in Seq(Sendable)
  BY Joined, Zenon
<1>4. q \o (J \o K) \in Seq(Sendable)
  BY <1>3, Joined, Zenon
<1>5. (q \o J) \o K = q \o (J \o K)
  BY Regroup, SMTT(30)
<1>6. QED
  BY <1>1, <1>2, <1>4, <1>5, Zenon

LEMMA WayHead ==
  ASSUME NEW d \in Clients, NEW q \in Seq(Sendable), NEW m \in Sendable,
         NEW Q \in Seq(JobSet), NEW F \in Seq(FrameSet)
  PROVE  Way(d, <<m>> \o q, Q, F) = <<m>> \o Way(d, q, Q, F)
<1>1. <<m>> \in Seq(Sendable) /\ <<m>> \o q \in Seq(Sendable)
  OBVIOUS
<1>2. PICK J, K \in Seq(Sendable) : /\ J = JobsFor(d, Q) /\ K = FramesFor(d, F)
                                    /\ Way(d, q, Q, F) = q \o (J \o K)
  BY WayType, Zenon
<1>3. Way(d, <<m>> \o q, Q, F) = (<<m>> \o q) \o (J \o K)
  <2>1. Way(d, <<m>> \o q, Q, F) = ((<<m>> \o q) \o J) \o K
    BY <1>2, Zenon DEF Way
  <2>2. ((<<m>> \o q) \o J) \o K = (<<m>> \o q) \o (J \o K)
    <3>1. PICK h \in Seq(Sendable) : h = <<m>> \o q
      BY <1>1, Zenon
    <3>2. (h \o J) \o K = h \o (J \o K)
      BY Regroup, SMTT(30)
    <3>3. QED
      BY <3>1, <3>2, Zenon
  <2>3. QED
    BY <2>1, <2>2, Zenon
<1>4. J \o K \in Seq(Sendable)
  BY Joined, Zenon
<1>5. (<<m>> \o q) \o (J \o K) = <<m>> \o (q \o (J \o K))
  <2>1. PICK h \in Seq(Sendable), w \in Seq(Sendable) : h = <<m>> /\ w = J \o K
    BY <1>1, <1>4, Zenon
  <2>2. (h \o q) \o w = h \o (q \o w)
    BY Regroup, SMTT(30)
  <2>3. QED
    BY <2>1, <2>2, Zenon
<1>6. QED
  BY <1>2, <1>3, <1>5, Zenon

(* A job at the head of the pool is as good as its message in the queue. *)
LEMMA WayJob ==
  ASSUME NEW d \in Clients, NEW q \in Seq(Sendable), NEW j \in JobSet,
         NEW Q \in Seq(JobSet), NEW F \in Seq(FrameSet)
  PROVE  Way(d, q, <<j>> \o Q, F) = Way(d, Append(q, ForClient(d, j)), Q, F)
<1>1. PICK m \in Sendable : m = ForClient(d, j)
  BY JobsForTypes, Zenon
<1>2. PICK J, K \in Seq(Sendable) : J = JobsFor(d, Q) /\ K = FramesFor(d, F)
  BY ForTypes, Zenon
<1>3. <<j>> \o Q \in Seq(JobSet) /\ Append(q, m) \in Seq(Sendable) /\ <<m>> \in Seq(Sendable)
      /\ Append(q, m) = q \o <<m>>
  OBVIOUS
<1>4. JobsFor(d, <<j>> \o Q) = <<m>> \o J
  BY <1>1, <1>2, JobsForTypes, Zenon
<1>5. Way(d, q, <<j>> \o Q, F) = (q \o (<<m>> \o J)) \o K
  BY <1>2, <1>4, Zenon DEF Way
<1>6. Way(d, Append(q, m), Q, F) = ((q \o <<m>>) \o J) \o K
  BY <1>2, <1>3, Zenon DEF Way
<1>7. q \o (<<m>> \o J) = (q \o <<m>>) \o J
  <2>1. PICK h \in Seq(Sendable) : h = <<m>>
    BY <1>3, Zenon
  <2>2. (q \o h) \o J = q \o (h \o J)
    BY Regroup, SMTT(30)
  <2>3. QED
    BY <2>1, <2>2, Zenon
<1>8. QED
  BY <1>1, <1>5, <1>6, <1>7, Zenon

LEMMA WayError ==
  ASSUME NEW d \in Clients, NEW q \in Seq(Sendable), NEW Q \in Seq(JobSet),
         NEW F \in Seq(FrameSet)
  PROVE  Same(Way(d, Append(q, Error), Q, F), Way(d, q, Q, F))
<1>1. Error \in Sendable /\ Same(<<Error>>, <<>>)
  BY SameError, Zenon
<1>2. /\ Append(q, Error) = q \o <<Error>> /\ q \o <<>> = q
      /\ Append(q, Error) \in Seq(Sendable)
  BY <1>1
<1>3. \A s \in Seq(Sendable) : Same(s, s)
  BY Zenon DEF Same
<1>4. Same(Append(q, Error), q)
  <2>1. Same(q \o <<Error>>, q \o <<>>)
    BY <1>1, <1>3, SameConcat, Zenon
  <2>2. QED
    BY <1>2, <2>1, Zenon
<1>5. PICK J, K \in Seq(Sendable) : /\ J = JobsFor(d, Q) /\ K = FramesFor(d, F)
                                    /\ Way(d, q, Q, F) = q \o (J \o K)
  BY WayType, Zenon
<1>6. Way(d, Append(q, Error), Q, F) = Append(q, Error) \o (J \o K)
  <2>1. Way(d, Append(q, Error), Q, F) = (Append(q, Error) \o J) \o K
    BY <1>5, Zenon DEF Way
  <2>2. (Append(q, Error) \o J) \o K = Append(q, Error) \o (J \o K)
    <3>1. PICK r \in Seq(Sendable) : r = Append(q, Error)
      BY <1>2, Zenon
    <3>2. (r \o J) \o K = r \o (J \o K)
      BY Regroup, SMTT(30)
    <3>3. QED
      BY <3>1, <3>2, Zenon
  <2>3. QED
    BY <2>1, <2>2, Zenon
<1>7. J \o K \in Seq(Sendable)
  BY Joined, Zenon
<1>8. Same(Append(q, Error) \o (J \o K), q \o (J \o K))
  <2>1. Same(J \o K, J \o K)
    BY <1>3, <1>7, Zenon
  <2>2. QED
    BY <1>4, <2>1, SameConcat, Zenon
<1>9. QED
  BY <1>5, <1>6, <1>8, Zenon

(* A broadcast begins. *)
LEMMA WayFrame ==
  ASSUME NEW d \in Clients, NEW q \in Seq(Sendable), NEW Q \in Seq(JobSet),
         NEW f \in FrameSet
  PROVE  Way(d, q, Q, <<f>>) = Way(d, q, Q, <<>>) \o <<ToClient(d, f)>>
<1>2. <<>> \in Seq(FrameSet)
  OBVIOUS
<1>1. PICK m \in Sendable, J \in Seq(Sendable) : m = ToClient(d, f) /\ J = JobsFor(d, Q)
  BY <1>2, ForTypes, FramesForTypes, Zenon
<1>3. FramesFor(d, <<f>>) = <<m>> /\ FramesFor(d, <<>>) = <<>>
  BY <1>1, <1>2, FramesForTypes, Zenon
<1>4. Way(d, q, Q, <<f>>) = (q \o J) \o <<m>> /\ Way(d, q, Q, <<>>) = (q \o J) \o <<>>
  BY <1>1, <1>3, Zenon DEF Way
<1>5. q \o J \in Seq(Sendable)
  OBVIOUS
<1>6. (q \o J) \o <<>> = q \o J
  BY <1>5
<1>7. QED
  BY <1>1, <1>4, <1>6, Zenon

(* A broadcast ends for a client that is not among those to come. *)
LEMMA WayEnd ==
  ASSUME NEW d \in Clients, NEW q \in Seq(Sendable), NEW Q \in Seq(JobSet),
         NEW f \in FrameSet, NEW F \in Seq(FrameSet), d \notin f.todo
  PROVE  Same(Way(d, q, Q, <<f>> \o F), Way(d, q, Q, F))
<1>1. Same(<<Error>>, <<>>) /\ ToClient(d, f) = Error /\ \A s \in Seq(Sendable) : Same(s, s)
  BY SameError, Zenon DEF ToClient, Same
<1>2. PICK J, K \in Seq(Sendable) : J = JobsFor(d, Q) /\ K = FramesFor(d, F)
  BY ForTypes, Zenon
<1>3. FramesFor(d, <<f>> \o F) = <<Error>> \o K
  BY <1>1, <1>2, FramesForTypes, Zenon
<1>4. q \o J \in Seq(Sendable) /\ <<>> \o K = K
  OBVIOUS
<1>5. Same(<<Error>> \o K, K)
  <2>1. Same(<<Error>> \o K, <<>> \o K)
    BY <1>1, SameConcat, Zenon
  <2>2. QED
    BY <1>4, <2>1, Zenon
<1>6. Same((q \o J) \o (<<Error>> \o K), (q \o J) \o K)
  BY <1>1, <1>4, <1>5, SameConcat
<1>7. QED
  BY <1>2, <1>3, <1>6, Zenon DEF Way

(* The owner submits a message for c to the pool. *)
LEMMA WaySubmit ==
  ASSUME NEW d \in Clients, NEW q \in Seq(Sendable), NEW Q \in Seq(JobSet),
         NEW f \in FrameSet, NEW F \in Seq(FrameSet), NEW j \in JobSet, NEW g \in FrameSet,
         j.data = f.data, g.data = f.data, j.client \in f.todo, g.todo = f.todo \ {j.client}
  PROVE  Same(Way(d, q, Append(Q, j), <<g>> \o F), Way(d, q, Q, <<f>> \o F))
<1>1. Error \in Sendable /\ Same(<<Error>>, <<>>) /\ \A s \in Seq(Sendable) : Same(s, s)
  BY SameError, Zenon DEF Same
<1>2. PICK J, K \in Seq(Sendable) : J = JobsFor(d, Q) /\ K = FramesFor(d, F)
  BY ForTypes, Zenon
<1>3. PICK m \in Sendable : m = ToClient(d, f)
  BY FramesForTypes, Zenon
<1>4. \/ ForClient(d, j) = m /\ ToClient(d, g) = Error
      \/ ForClient(d, j) = Error /\ ToClient(d, g) = m
  BY <1>3, Zenon DEF ForClient, ToClient
<1>5. JobsFor(d, Append(Q, j)) = J \o <<ForClient(d, j)>>
  BY <1>2, JobsForTypes, Zenon
<1>6. FramesFor(d, <<g>> \o F) = <<ToClient(d, g)>> \o K
  BY <1>2, FramesForTypes, Zenon
<1>7. FramesFor(d, <<f>> \o F) = <<m>> \o K
  BY <1>2, <1>3, FramesForTypes, Zenon
<1>8. PICK s, e \in Seq(Sendable) : s = <<m>> /\ e = <<Error>>
  <2>1. <<m>> \in Seq(Sendable) /\ <<Error>> \in Seq(Sendable)
    BY <1>1, SMTT(30)
  <2>2. QED
    BY <2>1, Zenon
<1>9. e \o K \in Seq(Sendable) /\ s \o K \in Seq(Sendable) /\ q \o J \in Seq(Sendable)
      /\ <<>> \o K = K /\ J \o <<>> = J /\ J \o e \in Seq(Sendable)
  OBVIOUS
<1>10. Way(d, q, Q, <<f>> \o F) = (q \o J) \o (s \o K)
  BY <1>2, <1>7, <1>8, Zenon DEF Way
<1>11. CASE ForClient(d, j) = m /\ ToClient(d, g) = Error
  <2>1. Way(d, q, Append(Q, j), <<g>> \o F) = (q \o (J \o s)) \o (e \o K)
    BY <1>5, <1>6, <1>8, <1>11, Zenon DEF Way
  <2>2. (q \o J) \o s = q \o (J \o s)
    BY Regroup, SMTT(30)
  <2>3. ((q \o J) \o s) \o (e \o K) = (q \o J) \o (s \o (e \o K))
    <3>1. PICK u, w \in Seq(Sendable) : u = q \o J /\ w = e \o K
      BY <1>9, Zenon
    <3>2. (u \o s) \o w = u \o (s \o w)
      BY Regroup, SMTT(30)
    <3>3. QED
      BY <3>1, <3>2, Zenon
  <2>4. Same(e \o K, <<>> \o K)
    BY <1>1, <1>8, SameConcat, Zenon
  <2>5. Same(s \o (e \o K), s \o K)
    BY <1>1, <1>9, <2>4, SameConcat, ZenonT(60)
  <2>6. Same((q \o J) \o (s \o (e \o K)), (q \o J) \o (s \o K))
    BY <1>1, <1>9, <2>5, SameConcat, Zenon
  <2>7. QED
    BY <1>10, <2>1, <2>2, <2>3, <2>6, Zenon
<1>12. CASE ForClient(d, j) = Error /\ ToClient(d, g) = m
  <2>1. Way(d, q, Append(Q, j), <<g>> \o F) = (q \o (J \o e)) \o (s \o K)
    BY <1>5, <1>6, <1>8, <1>12, Zenon DEF Way
  <2>2. Same(J \o e, J \o <<>>)
    BY <1>1, <1>8, SameConcat, Zenon
  <2>3. Same(q \o (J \o e), q \o J)
    BY <1>1, <1>9, <2>2, SameConcat, Zenon
  <2>4. Same((q \o (J \o e)) \o (s \o K), (q \o J) \o (s \o K))
    BY <1>1, <1>9, <2>3, SameConcat, Zenon
  <2>5. QED
    BY <1>10, <2>1, <2>4, Zenon
<1>13. QED
  BY <1>4, <1>11, <1>12, Zenon

(* The broadcast f is interrupted, for another one without a number. *)
LEMMA WayNested ==
  ASSUME NEW d \in Clients, NEW q \in Seq(Sendable), NEW Q \in Seq(JobSet),
         NEW f \in FrameSet, NEW F \in Seq(FrameSet), NEW g \in FrameSet, NEW p \in FrameSet,
         ToClient(d, g) = ToClient(d, f), p.data.kind = "presence"
  PROVE  Numbers(Way(d, q, Q, <<p>> \o (<<g>> \o F))) = Numbers(Way(d, q, Q, <<f>> \o F))
<1>1. PICK J, K \in Seq(Sendable) : J = JobsFor(d, Q) /\ K = FramesFor(d, F)
  BY ForTypes, Zenon
<1>2. PICK m, v \in Sendable : m = ToClient(d, f) /\ v = ToClient(d, p)
  BY FramesForTypes, Zenon
<1>3. ~(v.kind \in {"sync", "op"})
  BY <1>2 DEF ToClient, Error
<1>4. <<g>> \o F \in Seq(FrameSet)
  OBVIOUS
<1>5. FramesFor(d, <<g>> \o F) = <<m>> \o K /\ FramesFor(d, <<f>> \o F) = <<m>> \o K
  BY <1>1, <1>2, FramesForTypes, Zenon
<1>6. FramesFor(d, <<p>> \o (<<g>> \o F)) = <<v>> \o (<<m>> \o K)
  BY <1>2, <1>4, <1>5, FramesForTypes, Zenon
<1>7. PICK s, e \in Seq(Sendable) : s = <<m>> /\ e = <<v>>
  <2>1. <<m>> \in Seq(Sendable) /\ <<v>> \in Seq(Sendable)
    OBVIOUS
  <2>2. QED
    BY <2>1, Zenon
<1>8. s \o K \in Seq(Sendable) /\ q \o J \in Seq(Sendable) /\ e \o (s \o K) \in Seq(Sendable)
  <2>1. s \o K \in Seq(Sendable) /\ q \o J \in Seq(Sendable)
    BY Joined, Zenon
  <2>2. QED
    BY <2>1, Joined, Zenon
<1>9. Numbers(e) = <<>>
  BY <1>3, <1>7, Short, Zenon
<1>10. Numbers(e \o (s \o K)) = <<>> \o Numbers(s \o K) /\ Numbers(s \o K) \in Seq(Nat)
  BY <1>8, <1>9, NumbersConcat, Zenon
<1>11. Numbers(e \o (s \o K)) = Numbers(s \o K)
  BY <1>10
<1>12. Numbers((q \o J) \o (e \o (s \o K))) = Numbers((q \o J) \o (s \o K))
  <2>1. Numbers((q \o J) \o (e \o (s \o K))) = Numbers(q \o J) \o Numbers(e \o (s \o K))
    BY <1>8, NumbersConcat, Zenon
  <2>2. Numbers((q \o J) \o (s \o K)) = Numbers(q \o J) \o Numbers(s \o K)
    BY <1>8, NumbersConcat, Zenon
  <2>3. QED
    BY <1>11, <2>1, <2>2, Zenon
<1>13. QED
  BY <1>1, <1>5, <1>6, <1>7, <1>12, Zenon DEF Way

(* A client registers: before the snapshot there are errors at most. *)
LEMMA WayRegister ==
  ASSUME NEW d \in Clients, NEW q \in Seq(Sendable), NEW Q \in Seq(JobSet),
         NEW m \in Sendable, NEW f \in FrameSet, d \notin f.todo,
         \A i \in 1..Len(q) : q[i] = Error, \A i \in 1..Len(Q) : Q[i].client # d
  PROVE  Same(Way(d, Append(q, m), Q, <<f>>), <<m>>)
<1>1. Error \in Sendable /\ Same(<<Error>>, <<>>) /\ \A s \in Seq(Sendable) : Same(s, s)
  BY SameError, Zenon DEF Same
<1>2. Same(q, <<>>)
  BY OnlyErrors, Zenon
<1>3. <<>> \in Seq(FrameSet) /\ <<m>> \in Seq(Sendable) /\ <<>> \in Seq(Sendable)
  OBVIOUS
<1>4. PICK J \in Seq(Sendable) : J = JobsFor(d, Q)
  BY <1>3, ForTypes, Zenon
<1>5. Same(J, <<>>)
  <2>1. \A i \in 1..Len(J) : J[i] = Error
    BY <1>4 DEF JobsFor
  <2>2. QED
    BY <2>1, OnlyErrors, Zenon
<1>6. FramesFor(d, <<f>>) = <<Error>>
  BY <1>3, FramesForTypes, Zenon DEF ToClient
<1>7. PICK s, e \in Seq(Sendable) : s = <<m>> /\ e = <<Error>>
  <2>1. <<m>> \in Seq(Sendable) /\ <<Error>> \in Seq(Sendable)
    BY <1>1
  <2>2. QED
    BY <2>1, Zenon
<1>8. Append(q, m) = q \o s /\ <<>> \o s = s /\ s \o <<>> = s
  BY <1>7
<1>9. Way(d, Append(q, m), Q, <<f>>) = ((q \o s) \o J) \o e
  BY <1>4, <1>6, <1>7, <1>8, Zenon DEF Way
<1>10. Same(q \o s, s)
  BY <1>1, <1>2, <1>8, SameConcat, Zenon
<1>11. Same((q \o s) \o J, s)
  BY <1>5, <1>8, <1>10, SameConcat, Zenon
<1>12. Same(((q \o s) \o J) \o e, s)
  BY <1>1, <1>7, <1>8, <1>11, SameConcat, Zenon
<1>13. QED
  BY <1>7, <1>9, <1>12, Zenon

-----------------------------------------------------------------------------
(***************************************************************************)
(* The ways to the clients in every state.                                 *)
(***************************************************************************)
Pooled == (IF dropping THEN <<>> ELSE worker) \o jobs

(* The worker has one job at most, a client that missed a message is open, *)
(* and a client that did not join yet gets errors at most.                 *)
Wires ==
  /\ send \in [Clients -> Seq(Sendable)]
  /\ users \in [Clients -> SUBSET Clients]
  /\ worker = <<>> \/ \E j \in JobSet : worker = <<j>>
  /\ missed \cap closed = {}
  /\ \A c \in Clients \ Known : \A i \in 1..Len(send[c]) : send[c][i] = Error

(* What is on its way to a client ends with the list of users. *)
Listed ==
  ~refused =>
    \A c \in clients \ (closed \cup missed) : Final(users[c], OnTheWay(c)) = clients

LEMMA WayOf ==
  ASSUME Types, Wires, NEW d \in Clients
  PROVE  /\ Pooled \in Seq(JobSet) /\ frames \in Seq(FrameSet) /\ send[d] \in Seq(Sendable)
         /\ OnTheWay(d) = Way(d, send[d], Pooled, frames)
         /\ OnTheWay(d) \in Seq(Sendable)
<1>1. jobs \in Seq(JobSet) /\ worker \in Seq(JobSet) /\ frames \in Seq(FrameSet)
  BY Zenon DEF Types
<1>2. Pooled \in Seq(JobSet)
  BY <1>1 DEF Pooled
<1>3. send[d] \in Seq(Sendable)
  BY Zenon DEF Wires
<1>4. OnTheWay(d) = Way(d, send[d], Pooled, frames)
  BY Zenon DEF OnTheWay, Way, Pooled
<1>5. Way(d, send[d], Pooled, frames) \in Seq(Sendable)
  BY <1>1, <1>2, <1>3, WayType, Zenon
<1>6. QED
  BY <1>1, <1>2, <1>3, <1>4, <1>5, Zenon

(* The numbers on the ways stay: nothing happens as far as Delivery goes. *)
LEMMA NumbersStay ==
  ASSUME sequence' = sequence, latest' = latest, missed' = missed, closed' = closed,
         (clients \ closed)' = clients \ closed,
         \A d \in clients \ closed : Numbers(OnTheWay(d)') = Numbers(OnTheWay(d))
  PROVE  UNCHANGED Promise!vars
<1>1. \A d : Numbers(OnTheWay(d))' = Numbers(OnTheWay(d)')
  BY Zenon DEF Numbers
<1>2. Outbox' = Outbox
  BY <1>1, Zenon DEF Outbox
<1>3. QED
  BY <1>2, Zenon DEF Promise!vars

LEMMA SameWays ==
  ASSUME Types, Wires, UNCHANGED <<closed, clients, sequence, users, latest, missed, refused>>,
         \A d \in clients \ closed : Same(OnTheWay(d)', OnTheWay(d))
  PROVE  UNCHANGED Promise!vars /\ (Listed => Listed')
<1>1. \A d \in clients \ closed : Numbers(OnTheWay(d)') = Numbers(OnTheWay(d))
  BY Zenon DEF Same
<1>2. UNCHANGED Promise!vars
  BY <1>1, NumbersStay, Zenon
<1>3. ASSUME Listed, ~refused', NEW c \in clients' \ (closed' \cup missed')
      PROVE  Final(users[c], OnTheWay(c))' = clients'
  <2>1. c \in clients \ closed /\ c \in clients \ (closed \cup missed) /\ c \in Clients
    BY <1>3, Zenon DEF Types
  <2>2. users[c] \in SUBSET Clients
    BY <2>1, Zenon DEF Wires
  <2>3. Final(users[c], OnTheWay(c)') = Final(users[c], OnTheWay(c))
    BY <2>1, <2>2, Zenon DEF Same
  <2>4. Final(users[c], OnTheWay(c)) = clients
    BY <1>3, <2>1, Zenon DEF Listed
  <2>5. QED
    BY <2>3, <2>4, Zenon DEF Final, Fold, Showing
<1>4. QED
  BY <1>2, <1>3, Zenon DEF Listed

LEMMA WayNext == ASSUME NEW d PROVE OnTheWay(d)' = Way(d, send'[d], Pooled', frames')
  BY Zenon DEF OnTheWay, Way, Pooled, JobsFor, FramesFor

(* What a step has to show. *)
Kept ==
  /\ Wires' /\ (Listed => Listed')
  /\ Promise!Next \/ UNCHANGED Promise!vars

LEMMA Quiet ==
  ASSUME Inv, Wires, Pooled' = Pooled,
         UNCHANGED <<closed, send, clients, sequence, frames, users, latest, missed, refused>>,
         worker' = <<>> \/ \E j \in JobSet : worker' = <<j>>
  PROVE  Kept
<1>1. Types
  BY Zenon DEF Inv
<1>2. ASSUME NEW d \in clients \ closed PROVE Same(OnTheWay(d)', OnTheWay(d))
  <2>1. d \in Clients
    BY <1>1, Zenon DEF Types
  <2>2. OnTheWay(d)' = OnTheWay(d)
    BY <1>1, <2>1, WayNext, WayOf, Zenon
  <2>3. QED
    BY <1>1, <2>1, <2>2, WayOf, Zenon DEF Same
<1>3. UNCHANGED Promise!vars /\ (Listed => Listed')
  BY <1>1, <1>2, SameWays, Zenon
<1>4. Wires'
  BY Zenon DEF Wires, Known
<1>5. QED
  BY <1>3, <1>4, Zenon DEF Kept

LEMMA SubmitKept ==
  ASSUME Inv, Wires, NEW c \in Clients,
         Register(c) \/ ReadOperation(c) \/ ReadCursor(c) \/ ReadLoop(c)
  PROVE  Kept
<1>1. UNCHANGED <<closed, send, clients, sequence, frames, users, latest, missed, refused>>
  BY Zenon DEF Register, ReadOperation, ReadCursor, ReadLoop, SubmitOperation, StoreCursor,
               SignalCursor, Unregister, room, pool, browsers, counts
<1>2. UNCHANGED <<jobs, worker, dropping>>
  BY Zenon DEF Register, ReadOperation, ReadCursor, ReadLoop, SubmitOperation, StoreCursor,
               SignalCursor, Unregister, room, pool, browsers, counts
<1>3. Pooled' = Pooled /\ (worker' = <<>> \/ \E j \in JobSet : worker' = <<j>>)
  BY <1>2, Zenon DEF Pooled, Wires
<1>4. QED
  BY <1>1, <1>3, Quiet, Zenon

LEMMA StutterKept == ASSUME Inv, Wires, UNCHANGED vars PROVE Kept
<1>1. UNCHANGED <<closed, send, clients, sequence, frames, users, latest, missed, refused>>
  BY Zenon DEF vars, connections, room, browsers, counts
<1>2. UNCHANGED <<jobs, worker, dropping>>
  BY Zenon DEF vars, pool
<1>3. Pooled' = Pooled /\ (worker' = <<>> \/ \E j \in JobSet : worker' = <<j>>)
  BY <1>2, Zenon DEF Pooled, Wires
<1>4. QED
  BY <1>1, <1>3, Quiet, Zenon

LEMMA TakeJobKept == ASSUME Inv, Wires, TakeJob PROVE Kept
<1>1. UNCHANGED <<closed, send, clients, sequence, frames, users, latest, missed, refused>>
  BY Zenon DEF TakeJob, connections, room, browsers, counts
<1>2. /\ jobs \in Seq(JobSet) /\ jobs # <<>> /\ worker = <<>>
      /\ worker' = <<Head(jobs)>> /\ jobs' = Tail(jobs)
  BY Zenon DEF TakeJob, Inv, Types
<1>3. ~dropping /\ ~dropping'
  BY <1>2, Zenon DEF TakeJob, Inv, JobsKnown
<1>4. Head(jobs) \in JobSet /\ <<Head(jobs)>> \o Tail(jobs) = jobs /\ <<>> \o jobs = jobs
  BY <1>2
<1>5. Pooled' = Pooled
  BY <1>2, <1>3, <1>4, Zenon DEF Pooled
<1>6. QED
  BY <1>1, <1>2, <1>4, <1>5, Quiet, Zenon

LEMMA DropClientKept == ASSUME Inv, Wires, DropClient PROVE Kept
<1>1. UNCHANGED <<closed, send, clients, sequence, frames, users, latest, missed, refused>>
  BY Zenon DEF DropClient, connections, browsers, counts
<1>2. dropping /\ ~dropping' /\ worker' = <<>> /\ jobs' = jobs
  BY Zenon DEF DropClient
<1>3. Pooled' = Pooled
  BY <1>2, Zenon DEF Pooled
<1>4. QED
  BY <1>1, <1>2, <1>3, Quiet, Zenon

LEMMA SameSwap == ASSUME NEW s, NEW t, Same(s, t) PROVE Same(t, s)
  BY Zenon DEF Same

(* sendError *)
LEMMA ErrorKept ==
  ASSUME Inv, Wires, NEW c \in Clients, Enqueue(c, Error),
         UNCHANGED <<closed, clients, sequence, frames, users, latest, missed, refused>>,
         UNCHANGED <<jobs, worker, dropping>>
  PROVE  Kept
<1>1. Types /\ Pooled' = Pooled /\ (worker' = <<>> \/ \E j \in JobSet : worker' = <<j>>)
  BY Zenon DEF Inv, Pooled, Wires
<1>2. CASE send' = send
  BY <1>1, <1>2, Quiet, Zenon
<1>3. CASE send' = [send EXCEPT ![c] = Append(@, Error)]
  <2>1. /\ \A d \in Clients : send[d] \in Seq(Sendable)
        /\ send'[c] = Append(send[c], Error)
        /\ \A d \in Clients : d # c => send'[d] = send[d]
    BY <1>3, Zenon DEF Wires
  <2>2. ASSUME NEW d \in clients \ closed PROVE Same(OnTheWay(d)', OnTheWay(d))
    <3>1. d \in Clients
      BY <1>1, Zenon DEF Types
    <3>2. /\ Pooled \in Seq(JobSet) /\ frames \in Seq(FrameSet)
          /\ OnTheWay(d) = Way(d, send[d], Pooled, frames)
          /\ OnTheWay(d) \in Seq(Sendable)
      BY <1>1, <3>1, WayOf, Zenon
    <3>3. OnTheWay(d)' = Way(d, send'[d], Pooled, frames)
      BY <1>1, WayNext, Zenon
    <3>4. CASE d = c
      <4>1. Same(Way(d, Append(send[d], Error), Pooled, frames), Way(d, send[d], Pooled, frames))
        BY <2>1, <3>1, <3>2, WayError, Zenon
      <4>2. QED
        BY <2>1, <3>2, <3>3, <3>4, <4>1, Zenon
    <3>5. CASE d # c
      BY <2>1, <3>1, <3>2, <3>3, <3>5, Zenon DEF Same
    <3>6. QED
      BY <3>4, <3>5, Zenon
  <2>3. UNCHANGED Promise!vars /\ (Listed => Listed')
    BY <1>1, <2>2, SameWays, Zenon
  <2>4. /\ send[c] \in Seq(Sendable) /\ Append(send[c], Error) \in Seq(Sendable)
        /\ \A i \in 1..Len(send'[c]) : send'[c][i] = Error \/ i \in 1..Len(send[c])
        /\ \A i \in 1..Len(send[c]) : send'[c][i] = send[c][i]
    <3>1. PICK q \in Seq(Sendable) : q = send[c]
      BY <2>1, Zenon
    <3>2. PICK h \in Sendable : h = Error
      BY SameError, Zenon
    <3>3. PICK u : u = Append(q, h)
      BY Zenon
    <3>4. u \in Seq(Sendable) /\ Len(u) = Len(q) + 1 /\ Len(q) \in Nat /\ u[Len(q) + 1] = h
      BY <3>3
    <3>5. \A i \in 1..Len(q) : u[i] = q[i]
      BY <3>3
    <3>6. \A i \in 1..Len(u) : u[i] = h \/ i \in 1..Len(q)
      BY <3>4
    <3>7. QED
      BY <2>1, <3>1, <3>2, <3>3, <3>4, <3>5, <3>6, Zenon
  <2>5. send' \in [Clients -> Seq(Sendable)]
    BY <1>3, <2>4, Zenon DEF Wires
  <2>6. \A d \in Clients \ Known' : \A i \in 1..Len(send'[d]) : send'[d][i] = Error
    <3>1. Known' = Known
      BY Zenon DEF Known
    <3>2. \A d \in Clients \ Known : \A i \in 1..Len(send[d]) : send[d][i] = Error
      BY Zenon DEF Wires
    <3>3. ASSUME NEW d \in Clients \ Known, NEW i \in 1..Len(send'[d]) PROVE send'[d][i] = Error
      <4>1. CASE d = c
        <5>1. i \in 1..Len(send'[c]) /\ c \in Clients \ Known
          BY <4>1, Zenon
        <5>2. send'[c][i] = Error \/ i \in 1..Len(send[c])
          BY <2>4, <5>1, Zenon
        <5>3. i \in 1..Len(send[c]) => send'[c][i] = send[c][i] /\ send[c][i] = Error
          BY <2>4, <3>2, <5>1, Zenon
        <5>4. QED
          BY <4>1, <5>2, <5>3, Zenon
      <4>2. CASE d # c
        <5>1. d \in Clients /\ send'[d] = send[d]
          BY <2>1, <4>2, Zenon
        <5>2. QED
          BY <3>2, <5>1, Zenon
      <4>3. QED
        BY <4>1, <4>2, Zenon
    <3>4. QED
      BY <3>1, <3>3, Zenon
  <2>7. Wires'
    BY <2>5, <2>6, Zenon DEF Wires, Known
  <2>8. QED
    BY <2>3, <2>7, Zenon DEF Kept
<1>4. QED
  BY <1>2, <1>3, Zenon DEF Enqueue

LEMMA ReadInvalidKept == ASSUME Inv, Wires, NEW c \in Clients, ReadInvalid(c) PROVE Kept
<1>1. Enqueue(c, Error) /\ UNCHANGED <<jobs, worker, dropping>>
  BY Zenon DEF ReadInvalid, pool
<1>2. UNCHANGED <<closed, clients, sequence, frames, users, latest, missed, refused>>
  BY Zenon DEF ReadInvalid, room, browsers
<1>3. QED
  BY <1>1, <1>2, ErrorKept, Zenon

LEMMA RejectOperationKept ==
  ASSUME Inv, Wires, NEW c \in Clients, RejectOperation(c) PROVE Kept
<1>1. Enqueue(c, Error) /\ UNCHANGED <<jobs, worker, dropping>>
  BY Zenon DEF RejectOperation, pool
<1>2. UNCHANGED <<closed, clients, sequence, frames, users, latest, missed, refused>>
  BY Zenon DEF RejectOperation, browsers, counts
<1>3. QED
  BY <1>1, <1>2, ErrorKept, Zenon

LEMMA EndBroadcastKept == ASSUME Inv, Wires, EndBroadcast PROVE Kept
<1>1. Types /\ frames \in Seq(FrameSet) /\ frames # <<>> /\ frames' = Tail(frames)
  BY Zenon DEF Inv, Types, EndBroadcast
<1>2. PICK f \in FrameSet, F \in Seq(FrameSet) : frames = <<f>> \o F /\ f = frames[1] /\ F = frames'
  <2>1. /\ frames[1] \in FrameSet /\ Tail(frames) \in Seq(FrameSet)
        /\ frames = <<frames[1]>> \o Tail(frames)
    BY <1>1
  <2>2. QED
    BY <1>1, <2>1, Zenon
<1>3. f.todo \cap clients = {}
  BY <1>2, Zenon DEF EndBroadcast
<1>4. UNCHANGED <<closed, clients, sequence, users, latest, missed, refused>>
  BY Zenon DEF EndBroadcast, connections, browsers, counts
<1>5. UNCHANGED <<send, jobs, worker, dropping>>
  BY Zenon DEF EndBroadcast, connections, pool
<1>6. ASSUME NEW d \in clients \ closed PROVE Same(OnTheWay(d)', OnTheWay(d))
  <2>1. d \in Clients /\ d \notin f.todo
    BY <1>1, <1>3, Zenon DEF Types
  <2>2. /\ Pooled \in Seq(JobSet) /\ send[d] \in Seq(Sendable)
        /\ OnTheWay(d) = Way(d, send[d], Pooled, <<f>> \o F)
    BY <1>1, <1>2, <2>1, WayOf, Zenon
  <2>3. OnTheWay(d)' = Way(d, send[d], Pooled, F)
    BY <1>2, <1>5, WayNext, Zenon DEF Pooled
  <2>4. Same(Way(d, send[d], Pooled, <<f>> \o F), Way(d, send[d], Pooled, F))
    BY <2>1, <2>2, WayEnd, Zenon
  <2>5. QED
    BY <2>2, <2>3, <2>4, SameSwap, Zenon
<1>7. UNCHANGED Promise!vars /\ (Listed => Listed')
  BY <1>1, <1>4, <1>6, SameWays, Zenon
<1>8. Wires'
  BY <1>4, <1>5, Zenon DEF Wires, Known
<1>9. QED
  BY <1>7, <1>8, Zenon DEF Kept

OneLess(rest, all) ==
  \E i \in DOMAIN all : rest = SubSeq(all, 1, i - 1) \o SubSeq(all, i + 1, Len(all))

LEMMA DropOne ==
  ASSUME NEW N \in Seq(Nat), NEW R \in Seq(Nat), NEW n \in Nat
  PROVE  OneLess(N \o R, N \o (<<n>> \o R))
<1>1. PICK t, all : t = <<n>> \o R /\ all = N \o (<<n>> \o R)
  BY Zenon
<1>2. PICK l \in Nat, k \in Nat : l = Len(N) /\ k = Len(R)
  OBVIOUS
<1>3. t \in Seq(Nat) /\ Len(t) = 1 + k /\ \A i \in 1..k : t[1 + i] = R[i]
  BY <1>1, <1>2
<1>4. all = N \o t
  BY <1>1, Zenon
<1>5. all \in Seq(Nat) /\ Len(all) = l + (1 + k)
  <2>1. t \in Seq(Nat)
    BY <1>3, Zenon
  <2>2. N \o t \in Seq(Nat) /\ Len(N \o t) = Len(N) + Len(t)
    BY <2>1
  <2>3. QED
    BY <1>2, <1>3, <1>4, <2>2, Zenon
<1>6. /\ \A i \in 1..l : all[i] = N[i]
      /\ \A i \in 1..(1 + k) : all[l + i] = t[i]
  <2>1. \A i \in 1..l : (N \o t)[i] = N[i]
    BY <1>2, <1>3
  <2>2. \A i \in 1..(1 + k) : (N \o t)[l + i] = t[i]
    BY <1>2, <1>3
  <2>3. QED
    BY <1>4, <2>1, <2>2, Zenon
<1>7. \A i \in 1..k : 1 + i \in 1..(1 + k) /\ l + (1 + i) = ((l + 1) + 1) + i - 1
  OBVIOUS
<1>8. SubSeq(all, 1, (l + 1) - 1) = N
  <2>1. PICK s : s = SubSeq(all, 1, (l + 1) - 1)
    BY Zenon
  <2>2. s \in Seq(Nat) /\ Len(s) = l /\ \A i \in 1..l : s[i] = all[i]
    <3>1. (l + 1) - 1 = l /\ l <= Len(all)
      BY <1>5
    <3>2. s = [i \in 1..l |-> all[i]]
      BY <1>5, <2>1, <3>1
    <3>3. \A i \in 1..l : all[i] \in Nat
      BY <1>5, <3>1
    <3>4. QED
      BY <3>2, <3>3
  <2>3. s = [i \in 1..l |-> s[i]] /\ N = [i \in 1..l |-> N[i]]
    BY <1>2, <2>2
  <2>4. QED
    BY <1>6, <2>1, <2>2, <2>3, Zenon
<1>9. SubSeq(all, (l + 1) + 1, Len(all)) = R
  <2>1. PICK s : s = SubSeq(all, (l + 1) + 1, Len(all))
    BY Zenon
  <2>2. s \in Seq(Nat) /\ Len(s) = k
    BY <1>5, <2>1, SMTT(30)
  <2>3. \A i \in 1..k : s[i] = all[((l + 1) + 1) + i - 1]
    <3>1. (l + 1) + 1 \in Nat /\ Len(all) \in Nat /\ Len(all) - ((l + 1) + 1) + 1 = k
      BY <1>5
    <3>2. QED
      BY <1>5, <2>1, <3>1
  <2>4. \A i \in 1..k : all[((l + 1) + 1) + i - 1] = R[i]
    BY <1>3, <1>6, <1>7, Zenon
  <2>5. s = [i \in 1..k |-> s[i]] /\ R = [i \in 1..k |-> R[i]]
    BY <1>2, <2>2
  <2>6. QED
    BY <2>1, <2>3, <2>4, <2>5, Zenon
<1>10. l + 1 \in DOMAIN all
  BY <1>5
<1>11. OneLess(N \o R, all)
  BY <1>8, <1>9, <1>10, Zenon DEF OneLess
<1>12. QED
  BY <1>1, <1>11, Zenon

(* The numbers on a way without the message at the head of the pool. *)
LEMMA NumbersLost ==
  ASSUME NEW d \in Clients, NEW q \in Seq(Sendable), NEW j \in JobSet, j.client = d,
         NEW Q \in Seq(JobSet), NEW F \in Seq(FrameSet), NEW all, NEW rest,
         all = Numbers(Way(d, q, <<j>> \o Q, F)), rest = Numbers(Way(d, q, Q, F))
  PROVE  rest = all \/ OneLess(rest, all)
<1>1. PICK m \in Sendable : m = j.data /\ m = ForClient(d, j)
  BY JobsForTypes, Zenon DEF ForClient
<1>2. PICK J, K \in Seq(Sendable) : J = JobsFor(d, Q) /\ K = FramesFor(d, F)
  BY ForTypes, Zenon
<1>3. <<m>> \in Seq(Sendable) /\ J \o K \in Seq(Sendable) /\ q \o J \in Seq(Sendable)
  OBVIOUS
<1>4. PICK s \in Seq(Sendable) : s = <<m>>
  BY <1>3, Zenon
<1>5. s \o (J \o K) \in Seq(Sendable) /\ s \o J \in Seq(Sendable)
  BY <1>3
<1>6. Way(d, q, Q, F) = q \o (J \o K)
  <2>1. (q \o J) \o K = q \o (J \o K)
    BY Regroup, SMTT(30)
  <2>2. QED
    BY <1>2, <2>1, Zenon DEF Way
<1>7. Way(d, q, <<j>> \o Q, F) = q \o (s \o (J \o K))
  <2>1. JobsFor(d, <<j>> \o Q) = s \o J
    BY <1>1, <1>2, <1>4, JobsForTypes, Zenon
  <2>2. Way(d, q, <<j>> \o Q, F) = (q \o (s \o J)) \o K
    BY <1>2, <2>1, Zenon DEF Way
  <2>3. PICK u \in Seq(Sendable) : u = s \o J
    BY <1>5, Zenon
  <2>4. (q \o u) \o K = q \o (u \o K)
    BY Regroup, SMTT(30)
  <2>5. (s \o J) \o K = s \o (J \o K)
    BY Regroup, SMTT(30)
  <2>6. QED
    BY <2>2, <2>3, <2>4, <2>5, Zenon
<1>8. PICK N, R \in Seq(Nat) : N = Numbers(q) /\ R = Numbers(J \o K)
  BY <1>3, NumbersConcat, Zenon
<1>9. rest = N \o R
  <2>1. Numbers(q \o (J \o K)) = Numbers(q) \o Numbers(J \o K)
    BY <1>3, NumbersConcat, Zenon
  <2>2. QED
    BY <1>6, <1>8, <2>1, Zenon
<1>10. all = N \o (Numbers(s) \o R)
  <2>1. Numbers(q \o (s \o (J \o K))) = Numbers(q) \o Numbers(s \o (J \o K))
    BY <1>5, NumbersConcat, Zenon
  <2>2. Numbers(s \o (J \o K)) = Numbers(s) \o Numbers(J \o K)
    BY <1>3, NumbersConcat, Zenon
  <2>3. QED
    BY <1>7, <1>8, <2>1, <2>2, Zenon
<1>11. CASE ~(m.kind \in {"sync", "op"})
  <2>1. Numbers(s) = <<>>
    BY <1>4, <1>11, Short, Zenon
  <2>2. <<>> \o R = R
    OBVIOUS
  <2>3. QED
    BY <1>9, <1>10, <2>1, <2>2, Zenon
<1>12. CASE m.kind \in {"sync", "op"}
  <2>1. PICK n \in Nat : Numbers(s) = <<n>>
    BY <1>4, <1>12, Short, Kinds, Zenon
  <2>2. all = N \o (<<n>> \o R)
    BY <1>10, <2>1, Zenon
  <2>3. OneLess(N \o R, N \o (<<n>> \o R))
    BY DropOne, Zenon
  <2>4. QED
    BY <1>9, <2>2, <2>3, Zenon
<1>13. QED
  BY <1>11, <1>12, Zenon

LEMMA EnqueueJobKept == ASSUME Inv, Wires, EnqueueJob PROVE Kept
<1>1. Types /\ jobs \in Seq(JobSet) /\ frames \in Seq(FrameSet)
  BY Zenon DEF Inv, Types
<1>2. PICK j \in JobSet : worker = <<j>>
  BY Zenon DEF EnqueueJob, Wires
<1>3. PICK c \in Clients : c = j.client /\ c = worker[1].client /\ c \in Known /\ j = worker[1]
  <2>1. worker[1] = j
    BY <1>2
  <2>2. worker[1].client \in Known
    BY Zenon DEF EnqueueJob, Inv, JobsKnown
  <2>3. j.client \in Clients
    BY Zenon DEF JobSet
  <2>4. QED
    BY <2>1, <2>2, <2>3, Zenon
<1>4. /\ ~dropping /\ jobs' = jobs /\ frames' = frames
      /\ UNCHANGED <<closed, clients, sequence, users, latest, refused>>
      /\ Enqueue(c, j.data)
      /\ worker' = IF HasPlace(c) THEN <<>> ELSE worker
      /\ dropping' = ~HasPlace(c)
      /\ missed' = IF HasPlace(c) \/ c \in closed THEN missed ELSE missed \cup {c}
  BY <1>3, Zenon DEF EnqueueJob, room, browsers
<1>5. <<>> \o jobs = jobs
  BY <1>1
<1>6. Pooled = <<j>> \o jobs /\ Pooled' = jobs
  BY <1>2, <1>4, <1>5, Zenon DEF Pooled
<1>7. ASSUME NEW d \in Clients
      PROVE  /\ send[d] \in Seq(Sendable)
             /\ OnTheWay(d) = Way(d, send[d], <<j>> \o jobs, frames)
             /\ OnTheWay(d) = Way(d, Append(send[d], ForClient(d, j)), jobs, frames)
             /\ OnTheWay(d) \in Seq(Sendable)
             /\ OnTheWay(d)' = Way(d, send'[d], jobs, frames)
  <2>1. /\ send[d] \in Seq(Sendable) /\ OnTheWay(d) = Way(d, send[d], <<j>> \o jobs, frames)
        /\ OnTheWay(d) \in Seq(Sendable)
    BY <1>1, <1>6, WayOf, Zenon
  <2>2. Way(d, send[d], <<j>> \o jobs, frames)
        = Way(d, Append(send[d], ForClient(d, j)), jobs, frames)
    BY <1>1, <2>1, WayJob, Zenon
  <2>3. OnTheWay(d)' = Way(d, send'[d], jobs, frames)
    BY <1>4, <1>6, WayNext, Zenon
  <2>4. QED
    BY <2>1, <2>2, <2>3, Zenon
<1>8. ASSUME NEW d \in Clients, d # c, send'[d] = send[d] PROVE Same(OnTheWay(d)', OnTheWay(d))
  <2>1. ForClient(d, j) = Error
    BY <1>3, <1>8, Zenon DEF ForClient
  <2>2. Same(Way(d, Append(send[d], Error), jobs, frames), Way(d, send[d], jobs, frames))
    BY <1>1, <1>7, WayError, Zenon
  <2>3. Same(OnTheWay(d), OnTheWay(d)')
    BY <1>7, <1>8, <2>1, <2>2, Zenon
  <2>4. QED
    BY <2>3, SameSwap, Zenon
<1>9. j.data \in Sendable /\ ForClient(c, j) = j.data
  BY <1>3, Zenon DEF JobSet, Sendable, ForClient
<1>10. CASE HasPlace(c)
  <2>1. /\ send' = [send EXCEPT ![c] = Append(@, j.data)]
        /\ worker' = <<>> /\ missed' = missed
    BY <1>4, <1>10, Zenon DEF Enqueue
  <2>2. /\ send'[c] = Append(send[c], j.data)
        /\ \A d \in Clients : d # c => send'[d] = send[d]
    BY <2>1, Zenon DEF Wires
  <2>3. ASSUME NEW d \in clients \ closed PROVE Same(OnTheWay(d)', OnTheWay(d))
    <3>1. d \in Clients
      BY <1>1, Zenon DEF Types
    <3>2. CASE d = c
      BY <1>7, <1>9, <2>2, <3>1, <3>2, ZenonT(60) DEF Same
    <3>3. QED
      BY <1>8, <2>2, <3>1, <3>2, Zenon
  <2>4. UNCHANGED Promise!vars /\ (Listed => Listed')
    BY <1>1, <1>4, <2>1, <2>3, SameWays, Zenon
  <2>5. send' \in [Clients -> Seq(Sendable)]
    <3>1. send[c] \in Seq(Sendable)
      BY Zenon DEF Wires
    <3>2. Append(send[c], j.data) \in Seq(Sendable)
      BY <1>9, <3>1
    <3>3. QED
      BY <2>1, <3>2, Zenon DEF Wires
  <2>6. Wires'
    <3>1. Known' = Known
      BY <1>4, Zenon DEF Known
    <3>2. \A d \in Clients \ Known : send'[d] = send[d]
      BY <1>3, <2>2, Zenon
    <3>3. \A d \in Clients \ Known' : \A i \in 1..Len(send'[d]) : send'[d][i] = Error
      BY <3>1, <3>2, Zenon DEF Wires
    <3>4. QED
      BY <1>4, <2>1, <2>5, <3>3, Zenon DEF Wires
  <2>7. QED
    BY <2>4, <2>6, Zenon DEF Kept
<1>11. CASE ~HasPlace(c)
  <2>1. send' = send /\ worker' = worker
    BY <1>4, <1>11, Zenon DEF Enqueue
  <2>2. \A d \in Clients : d # c => Same(OnTheWay(d)', OnTheWay(d))
    BY <1>8, <2>1, ZenonT(60)
  <2>3. CASE c \in closed
    <3>1. missed' = missed
      BY <1>4, <2>3, Zenon
    <3>2. UNCHANGED Promise!vars /\ (Listed => Listed')
      <4>1. \A d \in clients \ closed : Same(OnTheWay(d)', OnTheWay(d))
        BY <1>1, <2>2, <2>3, ZenonT(60) DEF Types
      <4>2. QED
        BY <1>1, <1>4, <3>1, <4>1, SameWays, ZenonT(60)
    <3>3. Wires'
      BY <1>4, <2>1, <3>1, Zenon DEF Wires, Known
    <3>4. QED
      BY <3>2, <3>3, Zenon DEF Kept
  <2>4. CASE c \notin closed
    <3>1. missed' = missed \cup {c} /\ c \in clients
      BY <1>3, <1>4, <1>11, <2>4, Zenon DEF Known
    <3>2. Wires'
      BY <1>4, <2>1, <2>4, <3>1, Zenon DEF Wires, Known
    <3>3. ASSUME Listed, ~refused', NEW d \in clients' \ (closed' \cup missed')
          PROVE  Final(users[d], OnTheWay(d))' = clients'
      <4>1. d \in clients \ (closed \cup missed) /\ d # c /\ d \in Clients
        BY <1>1, <1>4, <3>1, <3>3, Zenon DEF Types
      <4>2. Final(users[d], OnTheWay(d)') = Final(users[d], OnTheWay(d))
        BY <2>2, <4>1, Zenon DEF Wires, Same
      <4>3. Final(users[d], OnTheWay(d)) = clients
        BY <1>4, <3>3, <4>1, Zenon DEF Listed
      <4>4. QED
        BY <1>4, <4>2, <4>3, Zenon DEF Final, Fold, Showing
    <3>4. Promise!Miss(c)
      <4>1. PICK all, rest : /\ all = Numbers(OnTheWay(c)) /\ rest = Numbers(OnTheWay(c)')
                             /\ (rest = all \/ OneLess(rest, all))
        <5>1. PICK all, rest : /\ all = Numbers(Way(c, send[c], <<j>> \o jobs, frames))
                               /\ rest = Numbers(Way(c, send[c], jobs, frames))
          BY Zenon
        <5>2. rest = all \/ OneLess(rest, all)
          BY <1>1, <1>3, <1>7, <5>1, NumbersLost, Zenon
        <5>3. QED
          BY <1>7, <2>1, <5>1, <5>2, Zenon
      <4>2. Outbox[c] = all
        BY <2>4, <3>1, <4>1, Zenon DEF Outbox
      <4>3. Outbox' = [Outbox EXCEPT ![c] = rest]
        <5>1. \A d : Numbers(OnTheWay(d))' = Numbers(OnTheWay(d)')
          BY Zenon DEF Numbers
        <5>2. \A d \in Clients : d # c => Numbers(OnTheWay(d)') = Numbers(OnTheWay(d))
          BY <2>2, Zenon DEF Same
        <5>3. QED
          BY <1>4, <2>4, <3>1, <4>1, <5>1, <5>2, ZenonT(60) DEF Outbox
      <4>4. CASE rest = all
        <5>1. Outbox' = Outbox
          BY <4>2, <4>3, <4>4, Zenon DEF Outbox
        <5>2. QED
          BY <1>4, <2>4, <3>1, <5>1, Zenon DEF Promise!Miss
      <4>5. CASE OneLess(rest, all)
        <5>1. PICK i \in DOMAIN Outbox[c] :
                rest = SubSeq(Outbox[c], 1, i - 1) \o SubSeq(Outbox[c], i + 1, Len(Outbox[c]))
          BY <4>2, <4>5, Zenon DEF OneLess
        <5>2. QED
          BY <1>4, <2>4, <3>1, <4>3, <5>1, Zenon DEF Promise!Miss
      <4>6. QED
        BY <4>1, <4>4, <4>5, Zenon
    <3>5. QED
      BY <3>2, <3>3, <3>4, Zenon DEF Kept, Listed, Promise!Next
  <2>5. QED
    BY <2>3, <2>4, Zenon
<1>12. QED
  BY <1>10, <1>11, Zenon

LEMMA WriteLoopKept == ASSUME Inv, Wires, NEW c \in Clients, WriteLoop(c) PROVE Kept
<1>1. Types /\ c \notin closed /\ send[c] # <<>> /\ send[c] \in Seq(Sendable)
  BY Zenon DEF Inv, Types, Wires, WriteLoop
<1>2. PICK m \in Sendable, q \in Seq(Sendable) :
        m = Head(send[c]) /\ q = Tail(send[c]) /\ send[c] = <<m>> \o q
  <2>1. /\ Head(send[c]) \in Sendable /\ Tail(send[c]) \in Seq(Sendable)
        /\ send[c] = <<Head(send[c])>> \o Tail(send[c])
    BY <1>1
  <2>2. QED
    BY <2>1, Zenon
<1>3. /\ latest' = IF m.kind \in {"sync", "op"} THEN [latest EXCEPT ![c] = m.seq] ELSE latest
      /\ users' = [users EXCEPT ![c] = Shown(@, m)]
      /\ send' = [send EXCEPT ![c] = q]
      /\ UNCHANGED <<closed, clients, sequence, frames, missed, refused>>
      /\ UNCHANGED <<jobs, worker, dropping>>
  BY <1>2, Zenon DEF WriteLoop, room, pool, counts
<1>4. /\ send'[c] = q /\ users'[c] = Shown(users[c], m) /\ users[c] \in SUBSET Clients
      /\ \A d \in Clients : d # c => send'[d] = send[d] /\ users'[d] = users[d]
  BY <1>3, Zenon DEF Wires
<1>5. Shown(users[c], m) \in SUBSET Clients
  <2>1. PICK u \in SUBSET Clients : u = users[c]
    BY <1>4, Zenon
  <2>2. Shown(u, m) \in SUBSET Clients
    BY Kinds DEF Shown
  <2>3. QED
    BY <2>1, <2>2, Zenon
<1>6. /\ Pooled' = Pooled /\ Pooled \in Seq(JobSet) /\ frames \in Seq(FrameSet)
      /\ \A d \in Clients : /\ OnTheWay(d) = Way(d, send[d], Pooled, frames)
                            /\ OnTheWay(d)' = Way(d, send'[d], Pooled, frames)
  BY <1>1, <1>3, WayOf, WayNext, Zenon DEF Pooled
<1>7. \A d \in Clients : d # c => OnTheWay(d)' = OnTheWay(d)
  BY <1>4, <1>6, Zenon
<1>8. PICK w \in Seq(Sendable) : w = OnTheWay(c)' /\ OnTheWay(c) = <<m>> \o w
  <2>1. Way(c, <<m>> \o q, Pooled, frames) = <<m>> \o Way(c, q, Pooled, frames)
    BY <1>6, WayHead, Zenon
  <2>2. Way(c, q, Pooled, frames) \in Seq(Sendable)
    BY <1>6, WayType, Zenon
  <2>3. QED
    BY <1>2, <1>4, <1>6, <2>1, <2>2, Zenon
<1>9. Wires'
  <2>1. send' \in [Clients -> Seq(Sendable)] /\ users' \in [Clients -> SUBSET Clients]
    BY <1>3, <1>5, Zenon DEF Wires
  <2>2. /\ \A i \in 1..Len(q) : i + 1 \in 1..Len(send[c]) /\ q[i] = send[c][i + 1]
    BY <1>1, <1>2
  <2>3. ASSUME NEW d \in Clients \ Known PROVE \A i \in 1..Len(send'[d]) : send'[d][i] = Error
    BY <1>4, <2>2, <2>3, ZenonT(60) DEF Wires
  <2>4. Known' = Known
    BY <1>3, Zenon DEF Known
  <2>5. QED
    BY <1>3, <2>1, <2>3, <2>4, ZenonT(60) DEF Wires
<1>10. ASSUME Listed, ~refused', NEW d \in clients' \ (closed' \cup missed')
       PROVE  Final(users[d], OnTheWay(d))' = clients'
  <2>1. d \in clients \ (closed \cup missed) /\ d \in Clients
    BY <1>1, <1>3, <1>10, Zenon DEF Types
  <2>2. Final(users[d], OnTheWay(d)) = clients
    BY <1>3, <1>10, <2>1, Zenon DEF Listed
  <2>3. Final(users'[d], OnTheWay(d)') = Final(users[d], OnTheWay(d))
    <3>1. CASE d # c
      BY <1>4, <1>7, <2>1, <3>1, Zenon
    <3>2. CASE d = c
      <4>1. <<m>> \in Seq(Sendable)
        OBVIOUS
      <4>2. Final(users[c], <<m>> \o w) = Final(Final(users[c], <<m>>), w)
        BY <1>4, <4>1, FinalConcat, Zenon
      <4>3. Final(users[c], <<m>>) = Shown(users[c], m)
        BY <1>4, Short, Zenon
      <4>4. QED
        BY <1>4, <1>8, <3>2, <4>2, <4>3, Zenon
    <3>3. QED
      BY <3>1, <3>2, Zenon
  <2>4. QED
    BY <1>3, <2>2, <2>3, Zenon DEF Final, Fold, Showing
<1>11. \A d : Numbers(OnTheWay(d))' = Numbers(OnTheWay(d)')
  BY Zenon DEF Numbers
<1>12. Numbers(OnTheWay(c)) = Numbers(<<m>>) \o Numbers(w) /\ Numbers(w) \in Seq(Nat)
  <2>1. <<m>> \in Seq(Sendable)
    OBVIOUS
  <2>2. Numbers(<<m>> \o w) = Numbers(<<m>>) \o Numbers(w) /\ Numbers(w) \in Seq(Nat)
    BY <2>1, NumbersConcat, Zenon
  <2>3. QED
    BY <1>8, <2>2, Zenon
<1>13. CASE c \in clients /\ m.kind \in {"sync", "op"}
  <2>1. PICK n : n = m.seq /\ Numbers(<<m>>) = <<n>>
    BY <1>13, Short, Zenon
  <2>2. PICK N \in Seq(Nat) : N = Numbers(w)
    BY <1>12, Zenon
  <2>3. <<n>> \o N # <<>> /\ Head(<<n>> \o N) = n /\ Tail(<<n>> \o N) = N
    <3>1. n \in Nat
      BY <1>13, <2>1, Kinds, Zenon
    <3>2. QED
      BY <3>1
  <2>4. Outbox[c] = <<n>> \o N
    BY <1>1, <1>12, <1>13, <2>1, <2>2, Zenon DEF Outbox
  <2>5. Outbox' = [Outbox EXCEPT ![c] = N]
    BY <1>1, <1>3, <1>7, <1>8, <1>11, <1>13, <2>2, ZenonT(60) DEF Outbox
  <2>6. Outbox' = [Outbox EXCEPT ![c] = Tail(@)] /\ Outbox[c] # <<>> /\ Head(Outbox[c]) = n
    BY <2>3, <2>4, <2>5, Zenon
  <2>7. latest' = [latest EXCEPT ![c] = Head(Outbox[c])]
    BY <1>3, <1>13, <2>1, <2>6, Zenon
  <2>8. Promise!Deliver(c)
    BY <1>1, <1>3, <1>13, <2>6, <2>7, Zenon DEF Promise!Deliver
  <2>9. QED
    BY <1>9, <1>10, <2>8, Zenon DEF Kept, Listed, Promise!Next
<1>14. CASE ~(c \in clients /\ m.kind \in {"sync", "op"})
  <2>1. c \in clients \/ m = Error
    <3>1. 1 \in 1..Len(send[c]) /\ send[c][1] = m
      BY <1>1, <1>2
    <3>2. QED
      BY <1>1, <3>1, Zenon DEF Wires, Known
  <2>2. ~(m.kind \in {"sync", "op"})
    <3>1. ~(Error.kind \in {"sync", "op"})
      BY DEF Error
    <3>2. QED
      BY <1>14, <2>1, <3>1, Zenon
  <2>3. latest' = latest
    BY <1>3, <2>2, Zenon
  <2>4. Numbers(OnTheWay(c)') = Numbers(OnTheWay(c))
    <3>1. Numbers(<<m>>) = <<>>
      BY <2>2, Short, Zenon
    <3>2. PICK N \in Seq(Nat) : N = Numbers(w)
      BY <1>12, Zenon
    <3>3. <<>> \o N = N
      OBVIOUS
    <3>4. QED
      BY <1>8, <1>12, <3>1, <3>2, <3>3, Zenon
  <2>5. \A d \in clients \ closed : Numbers(OnTheWay(d)') = Numbers(OnTheWay(d))
    BY <1>1, <1>7, <2>4, Zenon DEF Types
  <2>6. UNCHANGED Promise!vars
    BY <1>3, <2>3, <2>5, NumbersStay, Zenon
  <2>7. QED
    BY <1>9, <1>10, <2>6, Zenon DEF Kept, Listed
<1>15. QED
  BY <1>13, <1>14, Zenon

(* Client.close. *)
LEMMA CloseEffect ==
  ASSUME Wires, NEW c \in Clients, Close(c), worker' = worker, Known \subseteq Known'
  PROVE  /\ Wires' /\ closed' = closed \cup {c} /\ missed' = missed \ {c}
         /\ \A d \in Clients : d # c => send'[d] = send[d] /\ users'[d] = users[d]
<1>1. /\ send' = [send EXCEPT ![c] = <<>>] /\ users' = [users EXCEPT ![c] = {}]
      /\ closed' = closed \cup {c} /\ missed' = missed \ {c}
  BY Zenon DEF Close
<1>2. <<>> \in Seq(Sendable) /\ {} \in SUBSET Clients
  OBVIOUS
<1>3. send' \in [Clients -> Seq(Sendable)] /\ users' \in [Clients -> SUBSET Clients]
  BY <1>1, <1>2, Zenon DEF Wires
<1>4. \A d \in Clients : d # c => send'[d] = send[d] /\ users'[d] = users[d]
  BY <1>1, Zenon DEF Wires
<1>5. \A d \in Clients \ Known' : d # c /\ d \in Clients \ Known
  BY <1>1, Zenon DEF Known
<1>6. \A d \in Clients \ Known' : \A i \in 1..Len(send'[d]) : send'[d][i] = Error
  BY <1>4, <1>5, Zenon DEF Wires
<1>7. missed' \cap closed' = {}
  BY <1>1, Zenon DEF Wires
<1>8. Wires'
  BY <1>3, <1>6, <1>7, Zenon DEF Wires
<1>9. QED
  BY <1>1, <1>4, <1>8, Zenon

LEMMA CloseMapped ==
  ASSUME Wires, NEW c \in Clients, closed' = closed \cup {c}, missed' = missed \ {c},
         sequence' = sequence, latest' = latest,
         (clients \ closed)' = (clients \ closed) \ {c},
         \A d \in (clients \ closed) \ {c} : Numbers(OnTheWay(d)') = Numbers(OnTheWay(d))
  PROVE  Promise!Next \/ UNCHANGED Promise!vars
<1>1. CASE c \in closed
  <2>1. closed' = closed /\ missed' = missed /\ (clients \ closed)' = clients \ closed
    BY <1>1, Zenon DEF Wires
  <2>2. \A d \in clients \ closed : Numbers(OnTheWay(d)') = Numbers(OnTheWay(d))
    BY <1>1, Zenon
  <2>3. QED
    BY <2>1, <2>2, NumbersStay, Zenon
<1>2. CASE c \notin closed
  <2>1. \A d : Numbers(OnTheWay(d))' = Numbers(OnTheWay(d)')
    BY Zenon DEF Numbers
  <2>2. Outbox' = [Outbox EXCEPT ![c] = <<>>]
    BY <2>1, Zenon DEF Outbox
  <2>3. Promise!Close(c)
    BY <1>2, <2>2, Zenon DEF Promise!Close
  <2>4. QED
    BY <2>3, Zenon DEF Promise!Next
<1>3. QED
  BY <1>1, <1>2, Zenon

LEMMA CloseKept ==
  ASSUME Inv, Wires, NEW c \in Clients, Close(c),
         UNCHANGED <<clients, frames, sequence, latest, refused>>,
         UNCHANGED <<jobs, worker, dropping>>
  PROVE  Kept
<1>1. Types
  BY Zenon DEF Inv
<1>2. Known \subseteq Known'
  BY Zenon DEF Known, Close
<1>3. /\ Wires' /\ closed' = closed \cup {c} /\ missed' = missed \ {c}
      /\ \A d \in Clients : d # c => send'[d] = send[d] /\ users'[d] = users[d]
  BY <1>2, CloseEffect, Zenon
<1>4. \A d \in Clients : d # c => OnTheWay(d)' = OnTheWay(d)
  <2>1. Pooled' = Pooled
    BY Zenon DEF Pooled
  <2>2. QED
    BY <1>1, <1>3, <2>1, WayOf, WayNext, Zenon
<1>5. Promise!Next \/ UNCHANGED Promise!vars
  <2>1. \A d \in (clients \ closed) \ {c} : Numbers(OnTheWay(d)') = Numbers(OnTheWay(d))
    BY <1>1, <1>4, Zenon DEF Types
  <2>2. (clients \ closed)' = (clients \ closed) \ {c}
    BY <1>3, Zenon
  <2>3. QED
    BY <1>3, <2>1, <2>2, CloseMapped, Zenon
<1>6. ASSUME Listed, ~refused', NEW d \in clients' \ (closed' \cup missed')
      PROVE  Final(users[d], OnTheWay(d))' = clients'
  <2>1. d # c /\ d \in clients \ (closed \cup missed) /\ d \in Clients
    BY <1>1, <1>3, <1>6, Zenon DEF Types
  <2>2. Final(users[d], OnTheWay(d)) = clients
    BY <1>6, <2>1, Zenon DEF Listed
  <2>3. users'[d] = users[d] /\ OnTheWay(d)' = OnTheWay(d)
    BY <1>3, <1>4, <2>1, Zenon
  <2>4. QED
    BY <2>2, <2>3, Zenon DEF Final, Fold, Showing
<1>7. QED
  BY <1>3, <1>5, <1>6, Zenon DEF Kept, Listed

LEMMA BreakKept == ASSUME Inv, Wires, NEW c \in Clients, Break(c) PROVE Kept
<1>1. Close(c) /\ UNCHANGED <<clients, frames, sequence, latest, refused>>
      /\ UNCHANGED <<jobs, worker, dropping>>
  BY Zenon DEF Break, room, pool
<1>2. QED
  BY <1>1, CloseKept, Zenon

(* The owner begins a broadcast. *)
LEMMA Begins ==
  ASSUME Types, Wires, frames = <<>>, NEW f \in FrameSet, frames' = <<f>>,
         NEW d \in Clients, send'[d] = send[d], Pooled' = Pooled
  PROVE  /\ ToClient(d, f) \in Sendable
         /\ Numbers(OnTheWay(d)) \in Seq(Nat)
         /\ Numbers(OnTheWay(d)') = Numbers(OnTheWay(d)) \o Numbers(<<ToClient(d, f)>>)
         /\ \A x \in SUBSET Clients :
              Final(x, OnTheWay(d)') = Shown(Final(x, OnTheWay(d)), ToClient(d, f))
<1>1. PICK W \in Seq(Sendable) : W = OnTheWay(d) /\ W = Way(d, send[d], Pooled, <<>>)
  BY WayOf, Zenon
<1>2. Pooled \in Seq(JobSet) /\ send[d] \in Seq(Sendable)
  BY WayOf, Zenon
<1>3. <<>> \in Seq(FrameSet)
  OBVIOUS
<1>4. PICK m \in Sendable : m = ToClient(d, f)
  BY <1>3, FramesForTypes, Zenon
<1>5. PICK s \in Seq(Sendable) : s = <<m>>
  <2>1. <<m>> \in Seq(Sendable)
    OBVIOUS
  <2>2. QED
    BY <2>1, Zenon
<1>6. OnTheWay(d)' = W \o s
  <2>1. OnTheWay(d)' = Way(d, send[d], Pooled, <<f>>)
    BY WayNext, Zenon
  <2>2. Way(d, send[d], Pooled, <<f>>) = Way(d, send[d], Pooled, <<>>) \o <<ToClient(d, f)>>
    BY <1>2, WayFrame, Zenon
  <2>3. QED
    BY <1>1, <1>4, <1>5, <2>1, <2>2, Zenon
<1>7. Numbers(W) \in Seq(Nat) /\ Numbers(W \o s) = Numbers(W) \o Numbers(s)
  BY NumbersConcat, Zenon
<1>8. ASSUME NEW x \in SUBSET Clients PROVE Final(x, W \o s) = Shown(Final(x, W), m)
  <2>1. Final(x, W) \in SUBSET Clients
    BY FinalConcat, Zenon
  <2>2. Final(x, W \o s) = Final(Final(x, W), s)
    BY FinalConcat, Zenon
  <2>3. QED
    BY <1>5, <2>1, <2>2, Short, Zenon
<1>9. QED
  BY <1>1, <1>4, <1>5, <1>6, <1>7, <1>8, Zenon

LEMMA ShownMessage ==
  /\ \A x, n : Shown(x, Op(n)) = x /\ Op(n).kind = "op" /\ Op(n).seq = n
  /\ \A x, a : Shown(x, Presence(a)) = a /\ Presence(a).kind = "presence"
  /\ \A x, c : Shown(x, Cursor(c)) = x \cup {c} /\ Cursor(c).kind = "cursor"
  /\ \A x : Shown(x, Error) = x /\ Error.kind = "error"
  BY DEF Shown, Op, Presence, Cursor, Error

LEMMA AcceptOperationKept ==
  ASSUME Inv, Wires, NEW c \in Clients, AcceptOperation(c) PROVE Kept
<1>1. /\ Types /\ frames = <<>> /\ sequence' = sequence + 1
      /\ frames' = <<Frame(Op(sequence'), clients \ {c})>>
      /\ UNCHANGED <<closed, send, clients, jobs, worker, dropping>>
      /\ UNCHANGED <<latest, users, missed, refused>>
  BY Zenon DEF Inv, AcceptOperation, Take, connections, pool, browsers, counts
<1>2. sequence' \in Nat
  BY <1>1 DEF Types
<1>3. PICK f \in FrameSet : frames' = <<f>> /\ f.data = Op(sequence') /\ f.todo = clients \ {c}
  <2>1. Op(sequence') \in Messages /\ clients \ {c} \in SUBSET Clients
    BY <1>1, <1>2, MessageTypes, Zenon DEF Types
  <2>2. QED
    BY <1>1, <2>1, FrameTypes, Zenon DEF Frame
<1>4. Pooled' = Pooled
  BY <1>1, Zenon DEF Pooled
<1>5. ASSUME NEW d \in clients \ closed
      PROVE  /\ Numbers(OnTheWay(d)') = IF d # c THEN Append(Numbers(OnTheWay(d)), sequence')
                                        ELSE Numbers(OnTheWay(d))
             /\ \A x \in SUBSET Clients : Final(x, OnTheWay(d)') = Final(x, OnTheWay(d))
  <2>1. d \in Clients
    BY <1>1, Zenon DEF Types
  <2>2. PICK m \in Sendable, N \in Seq(Nat) :
          /\ m = ToClient(d, f) /\ N = Numbers(OnTheWay(d))
          /\ Numbers(OnTheWay(d)') = N \o Numbers(<<m>>)
          /\ \A x \in SUBSET Clients : Final(x, OnTheWay(d)') = Shown(Final(x, OnTheWay(d)), m)
    BY <1>1, <1>3, <1>4, <2>1, Begins, ZenonT(60)
  <2>3. m = IF d # c THEN Op(sequence') ELSE Error
    BY <1>3, <2>2, Zenon DEF ToClient
  <2>4. \A x : Shown(x, m) = x
    BY <2>3, ShownMessage, Zenon
  <2>5. Numbers(<<m>>) = IF d # c THEN <<sequence'>> ELSE <<>>
    BY <2>3, ShownMessage, Short, ZenonT(60)
  <2>6. N \o <<sequence'>> = Append(N, sequence') /\ N \o <<>> = N
    BY <1>2
  <2>7. QED
    BY <2>2, <2>4, <2>5, <2>6, Zenon
<1>6. Wires'
  BY <1>1, Zenon DEF Wires, Known
<1>7. ASSUME Listed, ~refused', NEW d \in clients' \ (closed' \cup missed')
      PROVE  Final(users[d], OnTheWay(d))' = clients'
  <2>1. d \in clients \ (closed \cup missed) /\ d \in clients \ closed /\ d \in Clients
    BY <1>1, <1>7, Zenon DEF Types
  <2>2. Final(users[d], OnTheWay(d)) = clients
    BY <1>1, <1>7, <2>1, ZenonT(60) DEF Listed
  <2>3. Final(users[d], OnTheWay(d)') = Final(users[d], OnTheWay(d))
    BY <1>5, <2>1, Zenon DEF Wires
  <2>4. QED
    BY <1>1, <2>2, <2>3, Zenon DEF Final, Fold, Showing
<1>8. Promise!Publish(c)
  <2>1. \A d : Numbers(OnTheWay(d))' = Numbers(OnTheWay(d)')
    BY Zenon DEF Numbers
  <2>2. Outbox' = [d \in Clients |-> IF d \in (clients \ closed) \ {c}
                                     THEN Append(Outbox[d], sequence') ELSE Outbox[d]]
    BY <1>1, <1>5, <2>1, Zenon DEF Outbox
  <2>3. QED
    BY <1>1, <2>2, Zenon DEF Promise!Publish
<1>9. QED
  BY <1>6, <1>7, <1>8, Zenon DEF Kept, Listed, Promise!Next

LEMMA ApplyCursorKept == ASSUME Inv, Wires, NEW c \in Clients, ApplyCursor(c) PROVE Kept
<1>1. /\ Types /\ frames = <<>>
      /\ frames' = IF c \in pendingCursors \cap clients
                   THEN <<Frame(Cursor(c), clients \ {c})>> ELSE <<>>
      /\ UNCHANGED <<closed, send, clients, sequence, latest, users, missed, refused>>
      /\ UNCHANGED <<jobs, worker, dropping>>
  BY Zenon DEF Inv, ApplyCursor, Take, connections, pool, browsers, counts
<1>2. Pooled' = Pooled /\ (worker' = <<>> \/ \E j \in JobSet : worker' = <<j>>)
  BY <1>1, Zenon DEF Pooled, Wires
<1>3. CASE c \notin pendingCursors \cap clients
  <2>1. UNCHANGED <<closed, send, clients, sequence, frames, users, latest, missed, refused>>
    BY <1>1, <1>3, ZenonT(60)
  <2>2. QED
    BY <1>2, <2>1, Quiet, Zenon
<1>4. CASE c \in pendingCursors \cap clients
  <2>1. PICK f \in FrameSet : frames' = <<f>> /\ f.data = Cursor(c) /\ f.todo = clients \ {c}
    <3>1. Cursor(c) \in Messages /\ clients \ {c} \in SUBSET Clients
      BY <1>1, MessageTypes, Zenon DEF Types
    <3>2. QED
      BY <1>1, <1>4, <3>1, FrameTypes, ZenonT(60) DEF Frame
  <2>2. ASSUME NEW d \in clients \ closed
        PROVE  /\ Numbers(OnTheWay(d)') = Numbers(OnTheWay(d))
               /\ \A x \in SUBSET Clients : Final(x, OnTheWay(d)') = Final(x, OnTheWay(d))
                                         \/ Final(x, OnTheWay(d)') = Final(x, OnTheWay(d)) \cup {c}
    <3>1. d \in Clients
      BY <1>1, Zenon DEF Types
    <3>2. PICK m \in Sendable, N \in Seq(Nat) :
            /\ m = ToClient(d, f) /\ N = Numbers(OnTheWay(d))
            /\ Numbers(OnTheWay(d)') = N \o Numbers(<<m>>)
            /\ \A x \in SUBSET Clients : Final(x, OnTheWay(d)') = Shown(Final(x, OnTheWay(d)), m)
      BY <1>1, <1>2, <2>1, <3>1, Begins, ZenonT(60)
    <3>3. m = Cursor(c) \/ m = Error
      BY <2>1, <3>2, Zenon DEF ToClient
    <3>4. (\A x : Shown(x, m) = x) \/ (\A x : Shown(x, m) = x \cup {c})
      <4>1. /\ \A x : Shown(x, Cursor(c)) = x \cup {c}
            /\ \A x : Shown(x, Error) = x
        BY ShownMessage, Zenon
      <4>2. QED
        BY <3>3, <4>1, Zenon
    <3>5. Numbers(<<m>>) = <<>>
      BY <3>3, ShownMessage, Short, Zenon
    <3>6. N \o <<>> = N
      OBVIOUS
    <3>7. QED
      BY <3>2, <3>4, <3>5, <3>6, ZenonT(60)
  <2>3. Wires'
    BY <1>1, Zenon DEF Wires, Known
  <2>4. ASSUME Listed, ~refused', NEW d \in clients' \ (closed' \cup missed')
        PROVE  Final(users[d], OnTheWay(d))' = clients'
    <3>1. d \in clients \ (closed \cup missed) /\ d \in clients \ closed /\ d \in Clients
      BY <1>1, <2>4, Zenon DEF Types
    <3>2. Final(users[d], OnTheWay(d)) = clients /\ clients \cup {c} = clients
      BY <1>1, <1>4, <2>4, <3>1, Zenon DEF Listed
    <3>3. users[d] \in SUBSET Clients
      BY <3>1, Zenon DEF Wires
    <3>4. Final(users[d], OnTheWay(d)') = clients
      BY <2>2, <3>1, <3>2, <3>3, Zenon
    <3>5. QED
      BY <1>1, <3>4, Zenon DEF Final, Fold, Showing
  <2>5. UNCHANGED Promise!vars
    BY <1>1, <2>2, NumbersStay, Zenon
  <2>6. QED
    BY <2>3, <2>4, <2>5, ZenonT(60) DEF Kept, Listed
<1>5. QED
  BY <1>3, <1>4, Zenon

LEMMA ApplyRegisterKept == ASSUME Inv, Wires, NEW c \in Clients, ApplyRegister(c) PROVE Kept
<1>1. /\ Types /\ frames = <<>>
      /\ UNCHANGED <<sequence, latest, refused, jobs, worker, dropping>>
  BY Zenon DEF Inv, ApplyRegister, Take, pool
<1>2. c \notin clients
  BY TakeEffect, Zenon DEF Inv, Coalescing, ApplyRegister
<1>3. CASE ~HasPlace(c)
  <2>1. Close(c) /\ UNCHANGED <<clients, frames>>
    BY <1>3, Zenon DEF ApplyRegister
  <2>2. QED
    BY <1>1, <2>1, CloseKept, ZenonT(60)
<1>4. CASE HasPlace(c)
  <2>1. /\ clients' = clients \cup {c} /\ UNCHANGED <<closed, users, missed>>
        /\ send' = [send EXCEPT ![c] = Append(@, Sync(sequence, clients'))]
        /\ frames' = <<Frame(Presence(clients'), clients)>>
        /\ c \notin closed
    BY <1>4, Zenon DEF ApplyRegister, Enqueue, HasPlace
  <2>2. clients' \in SUBSET Clients /\ clients \in SUBSET Clients /\ sequence \in Nat
    BY <1>1, <2>1, Zenon DEF Types
  <2>3. PICK f \in FrameSet : frames' = <<f>> /\ f.data = Presence(clients') /\ f.todo = clients
    BY <2>1, <2>2, MessageTypes, FrameTypes, Zenon DEF Frame
  <2>4. PICK m \in Sendable : /\ m = Sync(sequence, clients')
                              /\ m.kind = "sync" /\ m.seq = sequence /\ m.active = clients'
    <3>1. Sync(sequence, clients') \in Sendable
      BY <2>2, Zenon DEF Sync, Sendable, Messages
    <3>2. /\ Sync(sequence, clients').kind = "sync" /\ Sync(sequence, clients').seq = sequence
          /\ Sync(sequence, clients').active = clients'
      BY Zenon DEF Sync
    <3>3. QED
      BY <3>1, <3>2, Zenon
  <2>5. Pooled' = Pooled /\ c \notin Known
    BY <1>1, <1>2, <2>1, Zenon DEF Pooled, Known
  <2>6. /\ send'[c] = Append(send[c], m)
        /\ \A d \in Clients : d # c => send'[d] = send[d]
        /\ \A d \in Clients : send[d] \in Seq(Sendable)
    BY <2>1, <2>4, Zenon DEF Wires
  <2>7. ASSUME NEW d \in clients \ closed
        PROVE  /\ Numbers(OnTheWay(d)') = Numbers(OnTheWay(d))
               /\ \A x \in SUBSET Clients : Final(x, OnTheWay(d)') = clients'
    <3>1. d \in Clients /\ d # c
      BY <1>1, <1>2, Zenon DEF Types
    <3>2. PICK p \in Sendable, N \in Seq(Nat) :
            /\ p = ToClient(d, f) /\ N = Numbers(OnTheWay(d))
            /\ Numbers(OnTheWay(d)') = N \o Numbers(<<p>>)
            /\ \A x \in SUBSET Clients : Final(x, OnTheWay(d)') = Shown(Final(x, OnTheWay(d)), p)
      BY <1>1, <2>3, <2>5, <2>6, <3>1, Begins, ZenonT(60)
    <3>3. p = Presence(clients')
      BY <2>3, <3>2, Zenon DEF ToClient
    <3>4. \A x : Shown(x, p) = clients'
      BY <3>3, ShownMessage, Zenon
    <3>5. Numbers(<<p>>) = <<>>
      BY <3>3, ShownMessage, Short, Zenon
    <3>6. N \o <<>> = N
      OBVIOUS
    <3>7. QED
      BY <3>2, <3>4, <3>5, <3>6, Zenon
  <2>8. Same(OnTheWay(c)', <<m>>)
    <3>1. OnTheWay(c)' = Way(c, Append(send[c], m), Pooled, <<f>>)
      BY <2>3, <2>5, <2>6, WayNext, Zenon
    <3>2. Pooled \in Seq(JobSet)
      BY <1>1, WayOf, Zenon
    <3>3. \A i \in 1..Len(send[c]) : send[c][i] = Error
      BY <2>5, Zenon DEF Wires
    <3>4. \A i \in 1..Len(Pooled) : Pooled[i].client # c
      <4>1. /\ jobs \in Seq(JobSet) /\ \A i \in 1..Len(jobs) : jobs[i].client # c
            /\ worker # <<>> => worker[1].client # c
            /\ worker = <<>> \/ \E j \in JobSet : worker = <<j>>
        BY <1>1, <2>5, Zenon DEF Types, Wires, Inv, JobsKnown
      <4>2. CASE dropping \/ worker = <<>>
        <5>1. <<>> \o jobs = jobs
          BY <4>1
        <5>2. QED
          BY <4>1, <4>2, <5>1, Zenon DEF Pooled
      <4>3. CASE ~(dropping \/ worker = <<>>)
        <5>1. PICK j \in JobSet : worker = <<j>>
          BY <4>1, <4>3, Zenon
        <5>2. PICK Q : Q = <<j>> \o jobs /\ Q = Pooled
          BY <4>3, <5>1, Zenon DEF Pooled
        <5>3. j.client # c
          <6>1. worker[1] = j
            BY <5>1
          <6>2. QED
            BY <4>1, <4>3, <6>1, Zenon
        <5>4. \A i \in 1..Len(Q) : Q[i] = j \/ \E k \in 1..Len(jobs) : Q[i] = jobs[k]
          BY <4>1, <5>2
        <5>5. QED
          BY <4>1, <5>2, <5>3, <5>4, Zenon
      <4>4. QED
        BY <4>2, <4>3, Zenon
    <3>5. c \notin f.todo
      BY <1>2, <2>3, Zenon
    <3>6. Same(Way(c, Append(send[c], m), Pooled, <<f>>), <<m>>)
      BY <2>6, <3>2, <3>3, <3>4, <3>5, WayRegister, ZenonT(60)
    <3>7. QED
      BY <3>1, <3>6, Zenon
  <2>9. Numbers(OnTheWay(c)') = <<sequence>>
    <3>1. Numbers(<<m>>) = <<sequence>>
      BY <2>4, Short, Zenon
    <3>2. QED
      BY <2>8, <3>1, Zenon DEF Same
  <2>10. \A x \in SUBSET Clients : Final(x, OnTheWay(c)') = clients'
    <3>1. \A x : Shown(x, m) = clients'
      BY <2>4 DEF Shown
    <3>2. \A x \in SUBSET Clients : Final(x, <<m>>) = Shown(x, m)
      BY Short, Zenon
    <3>3. \A x \in SUBSET Clients : Final(x, OnTheWay(c)') = Final(x, <<m>>)
      BY <2>8, Zenon DEF Same
    <3>4. QED
      BY <3>1, <3>2, <3>3, Zenon
  <2>11. Wires'
    <3>1. Append(send[c], m) \in Seq(Sendable)
      <4>1. send[c] \in Seq(Sendable)
        BY <2>6, Zenon
      <4>2. QED
        BY <4>1
    <3>2. send' \in [Clients -> Seq(Sendable)]
      BY <2>1, <2>4, <3>1, Zenon DEF Wires
    <3>3. \A d \in Clients \ Known' : d # c /\ d \in Clients \ Known
      BY <2>1, Zenon DEF Known
    <3>4. \A d \in Clients \ Known' : \A i \in 1..Len(send'[d]) : send'[d][i] = Error
      BY <2>6, <3>3, Zenon DEF Wires
    <3>5. QED
      BY <1>1, <2>1, <3>2, <3>4, Zenon DEF Wires
  <2>12. ASSUME ~refused', NEW d \in clients' \ (closed' \cup missed')
         PROVE  Final(users[d], OnTheWay(d))' = clients'
    <3>1. (d = c \/ d \in clients \ closed) /\ d \in Clients
      BY <1>1, <2>1, <2>12, Zenon DEF Types
    <3>2. users'[d] \in SUBSET Clients
      BY <2>1, <3>1, Zenon DEF Wires
    <3>3. Final(users'[d], OnTheWay(d)') = clients'
      BY <2>7, <2>10, <3>1, <3>2, Zenon
    <3>4. QED
      BY <3>3, Zenon DEF Final, Fold, Showing
  <2>13. Promise!Join(c)
    <3>1. \A d : Numbers(OnTheWay(d))' = Numbers(OnTheWay(d)')
      BY Zenon DEF Numbers
    <3>2. Outbox' = [Outbox EXCEPT ![c] = <<sequence>>]
      BY <2>1, <2>7, <2>9, <3>1, Zenon DEF Outbox
    <3>3. QED
      BY <1>1, <1>2, <2>1, <3>2, Zenon DEF Promise!Join
  <2>14. QED
    BY <2>11, <2>12, <2>13, Zenon DEF Kept, Listed, Promise!Next
<1>5. QED
  BY <1>3, <1>4, Zenon

LEMMA ApplyUnregisterKept ==
  ASSUME Inv, Wires, NEW c \in Clients, ApplyUnregister(c) PROVE Kept
<1>1. /\ Types /\ frames = <<>>
      /\ UNCHANGED <<sequence, latest, refused, jobs, worker, dropping>>
  BY Zenon DEF Inv, ApplyUnregister, Take, pool
<1>2. Pooled' = Pooled /\ (worker' = <<>> \/ \E j \in JobSet : worker' = <<j>>)
  BY <1>1, Zenon DEF Pooled, Wires
<1>3. CASE c \notin clients
  <2>1. UNCHANGED <<closed, send, clients, sequence, frames, users, latest, missed, refused>>
    BY <1>1, <1>3, Zenon DEF ApplyUnregister
  <2>2. QED
    BY <1>2, <2>1, Quiet, Zenon
<1>4. CASE c \in clients
  <2>1. /\ clients' = clients \ {c} /\ Close(c)
        /\ frames' = <<Frame(Presence(clients'), clients')>> \o <<>>
    BY <1>4, Zenon DEF ApplyUnregister, RemoveClient
  <2>2. Known \subseteq Known'
    BY <2>1, Zenon DEF Known, Close
  <2>3. /\ Wires' /\ closed' = closed \cup {c} /\ missed' = missed \ {c}
        /\ \A d \in Clients : d # c => send'[d] = send[d] /\ users'[d] = users[d]
    BY <1>1, <2>1, <2>2, CloseEffect, Zenon
  <2>4. PICK f \in FrameSet : frames' = <<f>> /\ f.data = Presence(clients') /\ f.todo = clients'
    <3>1. clients' \in SUBSET Clients
      BY <1>1, <2>1, Zenon DEF Types
    <3>2. Frame(Presence(clients'), clients') \in FrameSet
      BY <3>1, MessageTypes, FrameTypes, Zenon
    <3>3. <<Frame(Presence(clients'), clients')>> \o <<>> = <<Frame(Presence(clients'), clients')>>
      BY <3>2
    <3>4. QED
      BY <2>1, <3>2, <3>3, Zenon DEF Frame
  <2>5. ASSUME NEW d \in (clients \ closed) \ {c}
        PROVE  /\ Numbers(OnTheWay(d)') = Numbers(OnTheWay(d))
               /\ \A x \in SUBSET Clients : Final(x, OnTheWay(d)') = clients'
    <3>1. d \in Clients /\ d # c
      BY <1>1, Zenon DEF Types
    <3>2. PICK p \in Sendable, N \in Seq(Nat) :
            /\ p = ToClient(d, f) /\ N = Numbers(OnTheWay(d))
            /\ Numbers(OnTheWay(d)') = N \o Numbers(<<p>>)
            /\ \A x \in SUBSET Clients : Final(x, OnTheWay(d)') = Shown(Final(x, OnTheWay(d)), p)
      BY <1>1, <1>2, <2>3, <2>4, <3>1, Begins, Zenon
    <3>3. p = Presence(clients')
      BY <2>1, <2>4, <3>2, Zenon DEF ToClient
    <3>4. \A x : Shown(x, p) = clients'
      BY <3>3, ShownMessage, Zenon
    <3>5. Numbers(<<p>>) = <<>>
      BY <3>3, ShownMessage, Short, Zenon
    <3>6. N \o <<>> = N
      OBVIOUS
    <3>7. QED
      BY <3>2, <3>4, <3>5, <3>6, Zenon
  <2>6. Promise!Next \/ UNCHANGED Promise!vars
    <3>1. (clients \ closed)' = (clients \ closed) \ {c}
      BY <2>1, <2>3, Zenon
    <3>2. QED
      BY <1>1, <2>3, <2>5, <3>1, CloseMapped, Zenon
  <2>7. ASSUME ~refused', NEW d \in clients' \ (closed' \cup missed')
        PROVE  Final(users[d], OnTheWay(d))' = clients'
    <3>1. d \in (clients \ closed) \ {c} /\ d \in Clients
      BY <1>1, <2>1, <2>3, <2>7, Zenon DEF Types
    <3>2. users'[d] \in SUBSET Clients
      BY <2>3, <3>1, Zenon DEF Wires
    <3>3. Final(users'[d], OnTheWay(d)') = clients'
      BY <2>5, <3>1, <3>2, Zenon
    <3>4. QED
      BY <3>3, Zenon DEF Final, Fold, Showing
  <2>8. QED
    BY <2>3, <2>6, <2>7, Zenon DEF Kept, Listed
<1>5. QED
  BY <1>3, <1>4, Zenon

LEMMA BroadcastKept == ASSUME Inv, Wires, NEW c \in Clients, Broadcast(c) PROVE Kept
<1>1. /\ Types /\ frames \in Seq(FrameSet) /\ frames # <<>> /\ jobs \in Seq(JobSet)
      /\ c \in frames[1].todo /\ c \in clients
      /\ UNCHANGED <<sequence, latest, worker, dropping>>
  BY Zenon DEF Inv, Types, Broadcast
<1>2. PICK f \in FrameSet, F \in Seq(FrameSet) :
        frames = <<f>> \o F /\ f = frames[1] /\ F = Tail(frames)
  <2>1. /\ frames[1] \in FrameSet /\ Tail(frames) \in Seq(FrameSet)
        /\ frames = <<frames[1]>> \o Tail(frames)
    BY <1>1
  <2>2. QED
    BY <2>1, Zenon
<1>3. PICK g \in FrameSet : /\ g = [f EXCEPT !.todo = @ \ {c}]
                            /\ g.data = f.data /\ g.todo = f.todo \ {c}
  <2>1. PICK g : g = [f EXCEPT !.todo = @ \ {c}]
    BY Zenon
  <2>2. g \in FrameSet
    BY <2>1, Zenon DEF FrameSet
  <2>3. g.data = f.data /\ g.todo = f.todo \ {c}
    BY <2>1 DEF FrameSet
  <2>4. QED
    BY <2>1, <2>2, <2>3, Zenon
<1>4. c \in f.todo
  BY <1>1, <1>2, Zenon
<1>5. CASE /\ jobs' = Append(jobs, [client |-> c, data |-> f.data]) /\ frames' = <<g>> \o F
           /\ UNCHANGED <<clients, closed, send, users, missed, refused>>
  <2>1. PICK j \in JobSet : /\ j = [client |-> c, data |-> f.data]
                            /\ j.client = c /\ j.data = f.data
    <3>1. PICK j : j = [client |-> c, data |-> f.data]
      BY Zenon
    <3>2. j \in JobSet /\ j.client = c /\ j.data = f.data
      BY <3>1 DEF FrameSet, JobSet
    <3>3. QED
      BY <3>1, <3>2, Zenon
  <2>2. Pooled' = Append(Pooled, j)
    <3>1. PICK w \in Seq(JobSet) : w = IF dropping THEN <<>> ELSE worker
      <4>1. <<>> \in Seq(JobSet)
        OBVIOUS
      <4>2. QED
        BY <1>1, <4>1, Zenon DEF Types
    <3>2. w \o Append(jobs, j) = Append(w \o jobs, j)
      BY <1>1, SMTT(30)
    <3>3. QED
      BY <1>1, <1>5, <2>1, <3>1, <3>2, Zenon DEF Pooled
  <2>3. ASSUME NEW d \in clients \ closed PROVE Same(OnTheWay(d)', OnTheWay(d))
    <3>1. d \in Clients
      BY <1>1, Zenon DEF Types
    <3>2. /\ Pooled \in Seq(JobSet) /\ send[d] \in Seq(Sendable)
          /\ OnTheWay(d) = Way(d, send[d], Pooled, <<f>> \o F)
      BY <1>1, <1>2, <3>1, WayOf, Zenon
    <3>3. OnTheWay(d)' = Way(d, send[d], Append(Pooled, j), <<g>> \o F)
      BY <1>5, <2>2, WayNext, Zenon
    <3>4. Same(Way(d, send[d], Append(Pooled, j), <<g>> \o F),
               Way(d, send[d], Pooled, <<f>> \o F))
      BY <1>3, <1>4, <2>1, <3>1, <3>2, WaySubmit, ZenonT(60)
    <3>5. QED
      BY <3>2, <3>3, <3>4, Zenon
  <2>4. UNCHANGED Promise!vars /\ (Listed => Listed')
    BY <1>1, <1>5, <2>3, SameWays, Zenon
  <2>5. Wires'
    BY <1>1, <1>5, Zenon DEF Wires, Known
  <2>6. QED
    BY <2>4, <2>5, Zenon DEF Kept
<1>6. CASE RemoveClient(c, <<g>> \o F) /\ refused' = TRUE /\ UNCHANGED jobs
  <2>1. /\ clients' = clients \ {c} /\ Close(c)
        /\ frames' = <<Frame(Presence(clients'), clients')>> \o (<<g>> \o F)
    BY <1>6, Zenon DEF RemoveClient
  <2>2. Known \subseteq Known'
    BY <2>1, Zenon DEF Known, Close
  <2>3. /\ Wires' /\ closed' = closed \cup {c} /\ missed' = missed \ {c}
        /\ \A d \in Clients : d # c => send'[d] = send[d] /\ users'[d] = users[d]
    BY <1>1, <2>1, <2>2, CloseEffect, Zenon
  <2>4. PICK p \in FrameSet : frames' = <<p>> \o (<<g>> \o F) /\ p.data.kind = "presence"
    <3>1. clients' \in SUBSET Clients
      BY <1>1, <2>1, Zenon DEF Types
    <3>2. Frame(Presence(clients'), clients') \in FrameSet
      BY <3>1, MessageTypes, FrameTypes, Zenon
    <3>3. Frame(Presence(clients'), clients').data.kind = "presence"
      BY Zenon DEF Frame, Presence
    <3>4. QED
      BY <2>1, <3>2, <3>3, Zenon
  <2>5. Pooled' = Pooled
    BY <1>1, <1>6, Zenon DEF Pooled
  <2>6. ASSUME NEW d \in (clients \ closed) \ {c}
        PROVE  Numbers(OnTheWay(d)') = Numbers(OnTheWay(d))
    <3>1. d \in Clients /\ d # c
      BY <1>1, Zenon DEF Types
    <3>2. /\ Pooled \in Seq(JobSet) /\ send[d] \in Seq(Sendable)
          /\ OnTheWay(d) = Way(d, send[d], Pooled, <<f>> \o F)
      BY <1>1, <1>2, <3>1, WayOf, Zenon
    <3>3. OnTheWay(d)' = Way(d, send[d], Pooled, <<p>> \o (<<g>> \o F))
      BY <2>3, <2>4, <2>5, <3>1, WayNext, Zenon
    <3>4. ToClient(d, g) = ToClient(d, f)
      BY <1>3, <3>1, ZenonT(60) DEF ToClient
    <3>5. Numbers(Way(d, send[d], Pooled, <<p>> \o (<<g>> \o F)))
          = Numbers(Way(d, send[d], Pooled, <<f>> \o F))
      BY <2>4, <3>1, <3>2, <3>4, WayNested, SMTT(30)
    <3>6. QED
      BY <3>2, <3>3, <3>5, Zenon
  <2>7. Promise!Next \/ UNCHANGED Promise!vars
    <3>1. (clients \ closed)' = (clients \ closed) \ {c}
      BY <2>1, <2>3, Zenon
    <3>2. QED
      BY <1>1, <2>3, <2>6, <3>1, CloseMapped, Zenon
  <2>8. Listed'
    BY <1>6, Zenon DEF Listed
  <2>9. QED
    BY <2>3, <2>7, <2>8, Zenon DEF Kept
<1>7. QED
  BY <1>2, <1>3, <1>5, <1>6, Zenon DEF Broadcast

-----------------------------------------------------------------------------
LEMMA KeptInit == Init => Wires /\ Listed /\ Promise!Init
<1> SUFFICES ASSUME Init PROVE Wires /\ Listed /\ Promise!Init
  BY Zenon
<1>1. <<>> \in Seq(Sendable) /\ Len(<<>>) = 0 /\ {} \in SUBSET Clients
  OBVIOUS
<1>2. send \in [Clients -> Seq(Sendable)] /\ users \in [Clients -> SUBSET Clients]
  BY <1>1, Zenon DEF Init
<1>3. \A c \in Clients : \A i \in 1..Len(send[c]) : send[c][i] = Error
  <2>1. \A i : i \notin 1..0
    OBVIOUS
  <2>2. QED
    BY <1>1, <2>1, Zenon DEF Init
<1>4. Wires
  BY <1>2, <1>3, Zenon DEF Wires, Init
<1>5. Listed
  BY Zenon DEF Listed, Init
<1>6. Outbox = [c \in Clients |-> <<>>]
  BY Zenon DEF Outbox, Init
<1>7. Promise!Init
  BY <1>6, Zenon DEF Promise!Init, Init
<1>8. QED
  BY <1>4, <1>5, <1>7, Zenon

LEMMA KeptStep == Inv /\ Wires /\ [Next]_vars => Kept
<1> SUFFICES ASSUME Inv, Wires, [Next]_vars PROVE Kept
  BY Zenon
<1>1. CASE UNCHANGED vars
  BY <1>1, StutterKept, Zenon
<1>2. CASE \E c \in Clients : \/ Register(c) \/ ReadOperation(c) \/ ReadCursor(c)
                              \/ ReadInvalid(c) \/ Break(c) \/ ReadLoop(c) \/ WriteLoop(c)
  BY <1>2, SubmitKept, ReadInvalidKept, BreakKept, WriteLoopKept, Zenon
<1>3. CASE Owner
  BY <1>3, EndBroadcastKept, ApplyRegisterKept, ApplyUnregisterKept, AcceptOperationKept,
     RejectOperationKept, ApplyCursorKept, BroadcastKept, ZenonT(60) DEF Owner
<1>4. CASE Worker
  BY <1>4, TakeJobKept, EnqueueJobKept, DropClientKept, Zenon DEF Worker
<1>5. QED
  BY <1>1, <1>2, <1>3, <1>4, Zenon DEF Next, Finished

LEMMA KeptAlways == Spec => [](Inv /\ Wires /\ Listed)
<1>1. Init => Inv /\ Wires /\ Listed
  BY InvInit, KeptInit, Zenon
<1>2. Inv /\ Wires /\ Listed /\ [Next]_vars => (Inv /\ Wires /\ Listed)'
  BY InvStep, KeptStep, Zenon DEF Kept
<1>3. QED
  BY <1>1, <1>2, PTL DEF Spec

(***************************************************************************)
(* Owner, pool, workers and connections implement Delivery, step by step   *)
(* and for every number of clients and every size of the queues: a client  *)
(* gets the snapshot first, then the operations of the others in their     *)
(* order, each once, and none is left out unless it is marked as missed.   *)
(***************************************************************************)
THEOREM DeliversTheorem == Spec => Promise!Safety
<1>1. Init => Promise!Init
  BY KeptInit, Zenon
<1>2. Inv /\ Wires /\ Listed /\ [Next]_vars => [Promise!Next]_(Promise!vars)
  BY KeptStep, Zenon DEF Kept
<1>3. QED
  BY <1>1, <1>2, KeptAlways, PTL DEF Spec, Promise!Safety

(***************************************************************************)
(* When nothing is on its way to a connection that missed nothing, its tab *)
(* shows the users of the room, as long as the pool refused no message.    *)
(***************************************************************************)
THEOREM PresenceSettlesTheorem == Spec => []PresenceSettles
<1>1. ASSUME Inv, Wires, Listed, ~refused, NEW c \in clients \ (closed \cup missed), Settled(c)
      PROVE  users[c] = clients
  <2>1. c \in Clients /\ Types /\ send[c] = <<>> /\ frames = <<>>
    BY <1>1, Zenon DEF Inv, Types, Settled
  <2>2. jobs \in Seq(JobSet) /\ worker \in Seq(JobSet)
    BY <2>1, Zenon DEF Types
  <2>3. \A i \in DOMAIN (worker \o jobs) : (worker \o jobs)[i].client # c
    BY <1>1, Zenon DEF Settled
  <2>4. Pooled \in Seq(JobSet) /\ OnTheWay(c) = Way(c, <<>>, Pooled, <<>>)
    BY <1>1, <2>1, WayOf, Zenon
  <2>5. \A i \in 1..Len(Pooled) : Pooled[i].client # c
    <3>1. CASE ~dropping
      <4>1. Pooled = worker \o jobs
        BY <3>1, Zenon DEF Pooled
      <4>2. DOMAIN Pooled = 1..Len(Pooled)
        BY <2>4
      <4>3. QED
        BY <2>3, <4>1, <4>2, Zenon
    <3>2. CASE dropping
      <4>1. Pooled = jobs
        BY <2>2, <3>2, SMTT(30) DEF Pooled
      <4>2. \A i \in 1..Len(jobs) : /\ Len(worker) + i \in DOMAIN (worker \o jobs)
                                    /\ (worker \o jobs)[Len(worker) + i] = jobs[i]
        BY <2>2
      <4>3. QED
        BY <2>3, <4>1, <4>2, Zenon
    <3>3. QED
      BY <3>1, <3>2, Zenon
  <2>6. PICK J \in Seq(Sendable) : J = JobsFor(c, Pooled)
    <3>1. <<>> \in Seq(FrameSet)
      OBVIOUS
    <3>2. QED
      BY <2>1, <2>4, <3>1, ForTypes, Zenon
  <2>7. Same(J, <<>>)
    <3>1. \A i \in 1..Len(J) : J[i] = Error
      BY <2>4, <2>5, <2>6, SMTT(30) DEF JobsFor
    <3>2. QED
      BY <3>1, OnlyErrors, Zenon
  <2>8. OnTheWay(c) = J
    <3>1. FramesFor(c, <<>>) = <<>>
      BY DEF FramesFor
    <3>2. (<<>> \o J) \o <<>> = J
      OBVIOUS
    <3>3. QED
      BY <2>4, <2>6, <3>1, <3>2, Zenon DEF Way
  <2>9. Final(users[c], OnTheWay(c)) = clients
    BY <1>1, Zenon DEF Listed
  <2>10. Final(users[c], J) = users[c]
    <3>1. users[c] \in SUBSET Clients
      BY <1>1, <2>1, Zenon DEF Wires
    <3>2. Final(users[c], J) = Final(users[c], <<>>)
      BY <2>7, <3>1, Zenon DEF Same
    <3>3. QED
      BY <3>1, <3>2, Short, Zenon
  <2>11. QED
    BY <2>8, <2>9, <2>10, Zenon
<1>2. Inv /\ Wires /\ Listed => PresenceSettles
  BY <1>1, Zenon DEF PresenceSettles
<1>3. QED
  BY <1>2, KeptAlways, PTL
-----------------------------------------------------------------------------
(***************************************************************************)
(* The bounds.  The room numbers no operation that was not read from a     *)
(* connection: one that was read and has no number yet is in the queue of  *)
(* commands, or its read loop is about to put it there.  These can be      *)
(* given numbers of their own between the last one of the room and the     *)
(* number of messages read.                                                *)
(***************************************************************************)
OpsQueued == {i \in DOMAIN commands : commands[i].kind = "operation"}

OpsRead == {c \in Clients : pc[c] = "operation"}

Unnumbered == {<<"queued", i>> : i \in OpsQueued} \cup {<<"read", c>> : c \in OpsRead}

Fits(S, a, b) ==
  \E f : /\ \A x \in S : f[x] \in (a + 1)..b
         /\ \A x, y \in S : f[x] = f[y] => x = y

Counted ==
  /\ reads \in Nat /\ reads <= MaxReads /\ sequence <= reads
  /\ Fits(Unnumbered, sequence, reads)

(* S has no more members than T. *)
LEMMA FitsCarried ==
  ASSUME NEW S, NEW T, NEW a, NEW b, NEW h, Fits(T, a, b), \A x \in S : h[x] \in T,
         \A x, y \in S : h[x] = h[y] => x = y
  PROVE  Fits(S, a, b)
<1>1. PICK f : /\ \A x \in T : f[x] \in (a + 1)..b
               /\ \A x, y \in T : f[x] = f[y] => x = y
  BY Zenon DEF Fits
<1>2. PICK g : g = [x \in S |-> f[h[x]]]
  BY Zenon
<1>3. \A x \in S : g[x] = f[h[x]]
  BY <1>2, Zenon
<1>4. ASSUME NEW x \in S, NEW y \in S, g[x] = g[y] PROVE x = y
  <2>1. h[x] \in T /\ h[y] \in T /\ f[h[x]] = f[h[y]]
    BY <1>3, <1>4, Zenon
  <2>2. h[x] = h[y]
    BY <1>1, <2>1, Zenon
  <2>3. QED
    BY <2>2, Zenon
<1>5. ASSUME NEW x \in S PROVE g[x] \in (a + 1)..b
  <2>1. h[x] \in T /\ g[x] = f[h[x]]
    BY <1>3, <1>5, Zenon
  <2>2. QED
    BY <1>1, <2>1, Zenon
<1>6. QED
  BY <1>4, <1>5, Zenon DEF Fits

LEMMA FitsFewer ==
  ASSUME NEW S, NEW T, NEW a, NEW b \in Nat, NEW e \in Nat, Fits(T, a, b), S \subseteq T, b <= e, a \in Nat
  PROVE  Fits(S, a, e)
<1>1. PICK f : /\ \A x \in T : f[x] \in (a + 1)..b
               /\ \A x, y \in T : f[x] = f[y] => x = y
  BY Zenon DEF Fits
<1>2. \A n \in (a + 1)..b : n \in (a + 1)..e
  OBVIOUS
<1>3. QED
  BY <1>1, <1>2, Zenon DEF Fits

LEMMA FitsMore ==
  ASSUME NEW T, NEW a \in Nat, NEW b \in Nat, NEW t, Fits(T, a, b), t \notin T, a <= b
  PROVE  Fits(T \cup {t}, a, b + 1)
<1>1. PICK f : /\ \A x \in T : f[x] \in (a + 1)..b
               /\ \A x, y \in T : f[x] = f[y] => x = y
  BY Zenon DEF Fits
<1>2. PICK e, g : e = b + 1 /\ g = [x \in T \cup {t} |-> IF x = t THEN e ELSE f[x]]
  BY Zenon
<1>3. g[t] = e /\ \A x \in T : g[x] = f[x]
  BY <1>2, Zenon
<1>4. e \in (a + 1)..e /\ \A n \in (a + 1)..b : n \in (a + 1)..e /\ n # e
  BY <1>2
<1>5. \A x \in T \cup {t} : g[x] \in (a + 1)..e
  BY <1>1, <1>3, <1>4, Zenon
<1>6. \A x, y \in T \cup {t} : g[x] = g[y] => x = y
  BY <1>1, <1>3, <1>4, Zenon
<1>7. QED
  BY <1>2, <1>5, <1>6, Zenon DEF Fits

(* One of T is given the first of the numbers, and leaves its own.         *)
LEMMA FitsTaken ==
  ASSUME NEW T, NEW a \in Nat, NEW b \in Nat, NEW t \in T, Fits(T, a, b)
  PROVE  Fits(T \ {t}, a + 1, b) /\ a + 1 <= b
<1>1. PICK f : /\ \A x \in T : f[x] \in (a + 1)..b
               /\ \A x, y \in T : f[x] = f[y] => x = y
  BY Zenon DEF Fits
<1>2. PICK e, g : e = a + 1 /\ g = [x \in T \ {t} |-> IF f[x] = e THEN f[t] ELSE f[x]]
  BY Zenon
<1>3. \A x \in T \ {t} : g[x] = IF f[x] = e THEN f[t] ELSE f[x]
  BY <1>2, Zenon
<1>4. \A n \in (a + 1)..b : n # e => n \in (e + 1)..b
  BY <1>2
<1>5. \A x \in T \ {t} : f[x] # f[t]
  BY <1>1, Zenon
<1>6. ASSUME NEW x \in T \ {t} PROVE g[x] \in (e + 1)..b
  BY <1>1, <1>3, <1>4, <1>5, <1>6, Zenon
<1>7. ASSUME NEW x \in T \ {t}, NEW y \in T \ {t}, g[x] = g[y] PROVE x = y
  BY <1>1, <1>3, <1>5, <1>7, Zenon
<1>8. a + 1 <= b
  BY <1>1
<1>9. QED
  BY <1>2, <1>6, <1>7, <1>8, Zenon DEF Fits

LEMMA Tokens ==
  /\ \A i \in OpsQueued : <<"queued", i>> \in Unnumbered
  /\ \A c \in OpsRead : <<"read", c>> \in Unnumbered
  /\ \A i, c : /\ <<"queued", i>> # <<"read", c>>
               /\ <<"queued", i>>[1] = "queued" /\ <<"queued", i>>[2] = i
               /\ <<"read", c>>[1] = "read" /\ <<"read", c>>[2] = c
               /\ "read" # "queued"
  BY DEF Unnumbered

LEMMA CountedFewer ==
  ASSUME Types, Counted, OpsQueued' \subseteq OpsQueued, OpsRead' \subseteq OpsRead,
         sequence' = sequence, reads' \in Nat, reads <= reads', reads' <= MaxReads
  PROVE  Counted'
<1>1. Unnumbered' \subseteq Unnumbered
  BY Zenon DEF Unnumbered
<1>2. sequence \in Nat /\ reads \in Nat /\ sequence <= reads
  BY Zenon DEF Types, Counted
<1>3. Fits(Unnumbered', sequence, reads')
  BY <1>1, <1>2, FitsFewer, Zenon DEF Counted
<1>4. sequence <= reads'
  BY <1>2
<1>5. QED
  BY <1>3, <1>4, Zenon DEF Counted

(* A command that is no operation is queued. *)
LEMMA OtherQueued ==
  ASSUME Types, NEW k \in {"register", "unregister", "cursor"}, NEW c \in Clients,
         Submit(Command(k, c))
  PROVE  OpsQueued' = OpsQueued
<1>1. /\ commands \in Seq(CommandSet) /\ commands' = Append(commands, Command(k, c))
  BY Zenon DEF Types, Submit
<1>2. /\ DOMAIN commands' = DOMAIN commands \cup {Len(commands) + 1}
      /\ \A i \in DOMAIN commands : commands'[i] = commands[i]
      /\ commands'[Len(commands) + 1] = Command(k, c)
  BY <1>1
<1>3. Command(k, c).kind # "operation"
  BY DEF Command
<1>4. QED
  BY <1>2, <1>3, Zenon DEF OpsQueued

LEMMA CountedReads ==
  ASSUME Types, Counted, NEW c \in Clients, ReadOperation(c)
  PROVE  Counted'
<1>1. /\ pc[c] = "read" /\ pc' = [pc EXCEPT ![c] = "operation"]
      /\ reads < MaxReads /\ reads' = reads + 1 /\ UNCHANGED <<commands, sequence>>
  BY Zenon DEF ReadOperation, At, Goto, room
<1>2. PICK r, t : r = OpsRead /\ t = <<"read", c>>
  BY Zenon
<1>3. "read" # "operation"
  BY SMT
<1>4. OpsRead' = r \cup {c} /\ c \notin r /\ OpsQueued' = OpsQueued
  BY <1>1, <1>2, <1>3, Zenon DEF OpsRead, OpsQueued, Types
<1>5. Unnumbered' = Unnumbered \cup {t}
  BY <1>2, <1>4, Zenon DEF Unnumbered
<1>6. t \notin Unnumbered
  <2>1. \A i : <<"queued", i>> # t
    BY <1>2, Tokens, Zenon
  <2>2. \A o \in r : <<"read", o>> # t
    <3>1. \A o : <<"read", o>>[2] = o
      BY Tokens, Zenon
    <3>2. QED
      BY <1>2, <1>4, <3>1, Zenon
  <2>3. QED
    BY <1>2, <2>1, <2>2, Zenon DEF Unnumbered
<1>7. sequence \in Nat /\ reads \in Nat /\ sequence <= reads /\ Fits(Unnumbered, sequence, reads)
  BY Zenon DEF Types, Counted
<1>8. Fits(Unnumbered', sequence, reads + 1)
  BY <1>5, <1>6, <1>7, FitsMore, Zenon
<1>9. reads + 1 \in Nat /\ reads + 1 <= MaxReads /\ sequence <= reads + 1
  BY <1>1, <1>7, SizesAssumption
<1>10. QED
  BY <1>1, <1>8, <1>9, Zenon DEF Counted

LEMMA CountedSubmits ==
  ASSUME Types, Counted, NEW c \in Clients, SubmitOperation(c)
  PROVE  Counted'
<1>1. /\ pc[c] = "operation" /\ pc' = [pc EXCEPT ![c] = "read"]
      /\ commands' = Append(commands, Command("operation", c))
      /\ UNCHANGED <<sequence, reads>>
  BY Zenon DEF SubmitOperation, Submit, At, Goto, counts
<1>2. PICK q, r, k : q = OpsQueued /\ r = OpsRead /\ k = Len(commands) + 1
  BY Zenon
<1>3. /\ DOMAIN commands' = DOMAIN commands \cup {k} /\ k \notin DOMAIN commands
      /\ \A i \in DOMAIN commands : commands'[i] = commands[i]
      /\ commands'[k] = Command("operation", c)
  BY <1>1, <1>2 DEF Types
<1>4. Command("operation", c).kind = "operation" /\ "read" # "operation"
  BY DEF Command
<1>5. OpsQueued' = q \cup {k} /\ k \notin q
  BY <1>2, <1>3, <1>4, Zenon DEF OpsQueued
<1>6. OpsRead' = r \ {c} /\ c \in r
  BY <1>1, <1>2, <1>4, Zenon DEF OpsRead, Types
<1>7. PICK s, t, S, T : s = <<"queued", k>> /\ t = <<"read", c>> /\ S = Unnumbered' /\ T = Unnumbered
  BY Zenon
<1>8. t \in T /\ s # t /\ \A x \in S : x = s \/ (x \in T /\ x # t)
  <2>1. t \in T /\ s # t /\ \A o : <<"read", o>>[2] = o /\ \A i : <<"queued", i>> # t
    BY <1>2, <1>6, <1>7, Tokens, Zenon
  <2>2. ASSUME NEW x \in S PROVE x = s \/ (x \in T /\ x # t)
    <3>1. (\E i \in q \cup {k} : x = <<"queued", i>>) \/ (\E o \in r \ {c} : x = <<"read", o>>)
      BY <1>5, <1>6, <1>7, <2>2, Zenon DEF Unnumbered
    <3>2. ASSUME NEW i \in q \cup {k}, x = <<"queued", i>> PROVE x = s \/ (x \in T /\ x # t)
      BY <1>2, <1>7, <2>1, <3>2, Tokens, Zenon
    <3>3. ASSUME NEW o \in r \ {c}, x = <<"read", o>> PROVE x \in T /\ x # t
      BY <1>2, <1>7, <2>1, <3>3, Tokens, Zenon
    <3>4. QED
      BY <3>1, <3>2, <3>3, Zenon
  <2>3. QED
    BY <2>1, <2>2, Zenon
<1>9. PICK h : h = [x \in S |-> IF x = s THEN t ELSE x]
  BY Zenon
<1>10. \A x \in S : h[x] = IF x = s THEN t ELSE x
  BY <1>9, Zenon
<1>11. /\ \A x \in S : h[x] \in T
       /\ \A x, y \in S : h[x] = h[y] => x = y
  BY <1>8, <1>10, Zenon
<1>12. Fits(S, sequence, reads)
  BY <1>7, <1>11, FitsCarried, Zenon DEF Counted
<1>13. QED
  BY <1>1, <1>7, <1>12, Zenon DEF Counted

(* The owner takes a command, which is the first. *)
LEMMA CountedTakes ==
  ASSUME Types, Counted, NEW k, NEW c, Take(k, c), UNCHANGED <<pc, reads>>,
         sequence' = sequence \/ (k = "operation" /\ sequence' = sequence + 1)
  PROVE  Counted'
<1>1. /\ commands \in Seq(CommandSet) /\ commands # <<>>
      /\ commands[1] = Command(k, c) /\ commands' = Tail(commands)
  BY DEF Types, Take
<1>2. /\ 1 \in DOMAIN commands
      /\ \A i \in DOMAIN commands' : /\ i + 1 \in DOMAIN commands /\ i + 1 # 1
                                     /\ commands'[i] = commands[i + 1]
      /\ \A i, j \in DOMAIN commands' : i + 1 = j + 1 => i = j
  BY <1>1
<1>3. PICK q, p, r : q = OpsQueued /\ p = OpsQueued' /\ r = OpsRead /\ r = OpsRead'
  BY Zenon DEF OpsRead
<1>4. \A i \in p : i + 1 \in q \ {1} /\ \A j \in p : i + 1 = j + 1 => i = j
  BY <1>2, <1>3, Zenon DEF OpsQueued
<1>5. PICK t, S, T : t = <<"queued", 1>> /\ S = Unnumbered' /\ T = Unnumbered
  BY Zenon
<1>6. PICK h : h = [x \in S |-> IF x[1] = "queued" THEN <<"queued", x[2] + 1>> ELSE x]
  BY Zenon
<1>7. ASSUME NEW x \in S
      PROVE  \/ \E i \in p : x = <<"queued", i>> /\ h[x] = <<"queued", i + 1>>
             \/ \E o \in r : x = <<"read", o>> /\ h[x] = x
  <2>1. h[x] = IF x[1] = "queued" THEN <<"queued", x[2] + 1>> ELSE x
    BY <1>6, <1>7, Zenon
  <2>2. (\E i \in p : x = <<"queued", i>>) \/ (\E o \in r : x = <<"read", o>>)
    BY <1>3, <1>5, <1>7, Zenon DEF Unnumbered
  <2>3. ASSUME NEW i \in p, x = <<"queued", i>> PROVE h[x] = <<"queued", i + 1>>
    <3>1. x[1] = "queued" /\ x[2] = i
      BY <2>3, Tokens, Zenon
    <3>2. QED
      BY <2>1, <3>1, Zenon
  <2>4. ASSUME NEW o \in r, x = <<"read", o>> PROVE h[x] = x
    <3>1. x[1] # "queued"
      BY <2>4, Tokens, Zenon
    <3>2. QED
      BY <2>1, <3>1, Zenon
  <2>5. QED
    BY <2>2, <2>3, <2>4, Zenon
<1>8. \A x \in S : h[x] \in T \ {t}
  <2>1. \A i \in p : <<"queued", i + 1>> \in T /\ <<"queued", i + 1>> # t
    <3>1. \A i : <<"queued", i>>[2] = i
      BY Tokens, Zenon
    <3>2. QED
      BY <1>3, <1>4, <1>5, <3>1, Tokens, Zenon
  <2>2. \A o \in r : <<"read", o>> \in T /\ <<"read", o>> # t
    BY <1>3, <1>5, Tokens, Zenon
  <2>3. ASSUME NEW x \in S PROVE h[x] \in T \ {t}
    <3>1. \/ \E i \in p : x = <<"queued", i>> /\ h[x] = <<"queued", i + 1>>
          \/ \E o \in r : x = <<"read", o>> /\ h[x] = x
      BY <1>7, Zenon
    <3>2. CASE \E i \in p : x = <<"queued", i>> /\ h[x] = <<"queued", i + 1>>
      BY <2>1, <3>2, Zenon
    <3>3. CASE \E o \in r : x = <<"read", o>> /\ h[x] = x
      BY <2>2, <3>3, Zenon
    <3>4. QED
      BY <3>1, <3>2, <3>3, Zenon
  <2>4. QED
    BY <2>3, Zenon
<1>9. \A x, y \in S : h[x] = h[y] => x = y
  <2>1. \A i, j \in p : <<"queued", i + 1>> = <<"queued", j + 1>> => i = j
    <3>1. \A i : <<"queued", i>>[2] = i
      BY Tokens, Zenon
    <3>2. \A i, j \in p : <<"queued", i + 1>> = <<"queued", j + 1>> => i + 1 = j + 1
      BY <3>1, Zenon
    <3>3. QED
      BY <1>4, <3>2, Zenon
  <2>2. ASSUME NEW x \in S, NEW y \in S, h[x] = h[y] PROVE x = y
    <3>1. /\ \/ \E i \in p : x = <<"queued", i>> /\ h[x] = <<"queued", i + 1>>
             \/ \E o \in r : x = <<"read", o>> /\ h[x] = x
          /\ \/ \E i \in p : y = <<"queued", i>> /\ h[y] = <<"queued", i + 1>>
             \/ \E o \in r : y = <<"read", o>> /\ h[y] = y
      BY <1>7, Zenon
    <3>2. \A i, o : <<"queued", i + 1>> # <<"read", o>>
      BY Tokens, Zenon
    <3>3. CASE \E o \in r : x = <<"read", o>> /\ h[x] = x
      <4>1. ~ \E i \in p : y = <<"queued", i>> /\ h[y] = <<"queued", i + 1>>
        BY <2>2, <3>2, <3>3, Zenon
      <4>2. QED
        BY <2>2, <3>1, <3>3, <4>1, Zenon
    <3>4. CASE \E i \in p : x = <<"queued", i>> /\ h[x] = <<"queued", i + 1>>
      <4>1. PICK i \in p : x = <<"queued", i>> /\ h[x] = <<"queued", i + 1>>
        BY <3>4, Zenon
      <4>2. PICK j \in p : y = <<"queued", j>> /\ h[y] = <<"queued", j + 1>>
        BY <2>2, <3>1, <3>2, <4>1, Zenon
      <4>3. i = j
        BY <2>1, <2>2, <4>1, <4>2, Zenon
      <4>4. QED
        BY <4>1, <4>2, <4>3, Zenon
    <3>5. QED
      BY <3>1, <3>3, <3>4, Zenon
  <2>3. QED
    BY <2>2, Zenon
<1>10. sequence \in Nat /\ reads \in Nat /\ sequence <= reads /\ Fits(T, sequence, reads)
  BY <1>5, Zenon DEF Types, Counted
<1>11. CASE sequence' = sequence
  <2>1. Fits(S, sequence, reads)
    BY <1>8, <1>9, <1>10, FitsCarried, Zenon
  <2>2. QED
    BY <1>5, <1>11, <2>1, Zenon DEF Counted
<1>12. CASE k = "operation" /\ sequence' = sequence + 1
  <2>1. t \in T
    <3>1. Command(k, c).kind = k
      BY DEF Command
    <3>2. 1 \in q
      BY <1>1, <1>2, <1>3, <1>12, <3>1, Zenon DEF OpsQueued
    <3>3. QED
      BY <1>3, <1>5, <3>2, Tokens, Zenon
  <2>2. Fits(T \ {t}, sequence + 1, reads) /\ sequence + 1 <= reads
    BY <1>10, <2>1, FitsTaken, Zenon
  <2>3. Fits(S, sequence + 1, reads)
    BY <1>8, <1>9, <2>2, FitsCarried, Zenon
  <2>4. QED
    BY <1>5, <1>12, <2>2, <2>3, Zenon DEF Counted
<1>13. QED
  BY <1>11, <1>12, Zenon

LEMMA CountedStep ==
  ASSUME Inv, Counted, [Next]_vars
  PROVE  Counted'
<1>0. Types
  BY Zenon DEF Inv
<1> USE <1>0 DEF connections, room, pool, cursorState, counts, browsers, At, Goto
<1>1. /\ reads \in Nat /\ reads <= MaxReads
      /\ reads < MaxReads => reads + 1 \in Nat /\ reads <= reads + 1 /\ reads + 1 <= MaxReads
      /\ reads <= reads
  BY SizesAssumption DEF Counted
<1>2. /\ "read" # "operation" /\ "cursor" # "operation" /\ "signal" # "operation"
      /\ "gone" # "operation"
  BY SMT
<1>3. ASSUME NEW c \in Clients, Register(c) PROVE Counted'
  <2>1. OpsQueued' = OpsQueued
    BY <1>3, OtherQueued, Zenon DEF Register
  <2>2. OpsRead' \subseteq OpsRead /\ UNCHANGED <<sequence, reads>>
    BY <1>2, <1>3, Zenon DEF Register, OpsRead, Types
  <2>3. QED
    BY <1>1, <2>1, <2>2, CountedFewer, Zenon
<1>4. ASSUME NEW c \in Clients, ReadCursor(c) PROVE Counted'
  <2>1. OpsQueued' = OpsQueued /\ OpsRead' \subseteq OpsRead /\ UNCHANGED sequence
    BY <1>2, <1>4, Zenon DEF ReadCursor, OpsRead, OpsQueued, Types
  <2>2. reads < MaxReads /\ reads' = reads + 1
    BY <1>4, Zenon DEF ReadCursor
  <2>3. QED
    BY <1>1, <2>1, <2>2, CountedFewer, Zenon
<1>5. ASSUME NEW c \in Clients, ReadInvalid(c) PROVE Counted'
  <2>1. OpsQueued' = OpsQueued /\ OpsRead' \subseteq OpsRead /\ UNCHANGED sequence
    BY <1>5, Zenon DEF ReadInvalid, OpsRead, OpsQueued
  <2>2. reads < MaxReads /\ reads' = reads + 1
    BY <1>5, Zenon DEF ReadInvalid
  <2>3. QED
    BY <1>1, <2>1, <2>2, CountedFewer, Zenon
<1>6. ASSUME NEW c \in Clients, StoreCursor(c) PROVE Counted'
  <2>1. OpsQueued' = OpsQueued /\ OpsRead' \subseteq OpsRead /\ UNCHANGED <<sequence, reads>>
    BY <1>2, <1>6, Zenon DEF StoreCursor, OpsRead, OpsQueued, Types
  <2>2. QED
    BY <1>1, <2>1, CountedFewer, Zenon
<1>7. ASSUME NEW c \in Clients, SignalCursor(c) \/ Unregister(c) PROVE Counted'
  <2>1. OpsQueued' = OpsQueued
    BY <1>7, OtherQueued, Zenon DEF SignalCursor, Unregister, OpsQueued
  <2>2. OpsRead' \subseteq OpsRead /\ UNCHANGED <<sequence, reads>>
    BY <1>2, <1>7, Zenon DEF SignalCursor, Unregister, OpsRead, Types
  <2>3. QED
    BY <1>1, <2>1, <2>2, CountedFewer, Zenon
<1>8. CASE UNCHANGED <<pc, commands, sequence, reads>>
  <2>1. OpsQueued' = OpsQueued /\ OpsRead' = OpsRead
    BY <1>8, Zenon DEF OpsQueued, OpsRead
  <2>2. QED
    BY <1>1, <1>8, <2>1, CountedFewer, Zenon
<1>9. ASSUME NEW c \in Clients, Break(c) \/ WriteLoop(c) \/ Broadcast(c)
      PROVE  UNCHANGED <<pc, commands, sequence, reads>>
  BY <1>9, Zenon DEF Break, WriteLoop, Broadcast
<1>10. ASSUME TakeJob \/ EnqueueJob \/ EndBroadcast \/ Finished \/ UNCHANGED vars
       PROVE  UNCHANGED <<pc, commands, sequence, reads>>
  BY <1>10, Zenon DEF TakeJob, EnqueueJob, EndBroadcast, Finished, vars
<1>11. CASE DropClient
  <2>1. worker # <<>> => worker[1].client \in Clients
    <3>1. worker \in Seq(JobSet)
      BY Zenon DEF Types
    <3>2. worker # <<>> => worker[1] \in JobSet
      BY <3>1
    <3>3. QED
      BY <3>2, Zenon DEF JobSet
  <2>2. OpsQueued' = OpsQueued
    BY <1>11, <2>1, OtherQueued, Zenon DEF DropClient, Inv, JobsKnown
  <2>3. QED
    BY <1>1, <1>11, <2>2, CountedFewer, Zenon DEF DropClient, OpsRead
<1>12. ASSUME NEW c \in Clients,
              \/ ApplyRegister(c) \/ ApplyUnregister(c) \/ RejectOperation(c)
              \/ ApplyCursor(c) \/ AcceptOperation(c)
       PROVE  Counted'
  <2>1. PICK k : Take(k, c) /\ UNCHANGED <<pc, reads>>
                 /\ (sequence' = sequence \/ (k = "operation" /\ sequence' = sequence + 1))
    BY <1>12, Zenon DEF ApplyRegister, ApplyUnregister, RejectOperation, ApplyCursor,
                        AcceptOperation
  <2>2. QED
    BY <2>1, CountedTakes, Zenon
<1>13. QED
  BY <1>3, <1>4, <1>5, <1>6, <1>7, <1>8, <1>9, <1>10, <1>11, <1>12, CountedReads,
     CountedSubmits, ZenonT(60) DEF Next, Owner, Worker, ReadLoop

(***************************************************************************)
(* Messages carry numbers the room has given.                              *)
(***************************************************************************)
Level(n) == {m \in Sendable : m.kind \in {"sync", "op"} => m.seq <= n}
JobsTo(n) == [client : Clients, data : Level(n)]
FramesTo(n) == [data : {m \in Level(n) : m.kind \in {"op", "presence", "cursor"}},
                todo : SUBSET Clients]

Dated ==
  /\ send \in [Clients -> Seq(Level(sequence))]
  /\ jobs \in Seq(JobsTo(sequence)) /\ worker \in Seq(JobsTo(sequence))
  /\ frames \in Seq(FramesTo(sequence))
  /\ latest \in [Clients -> 0..sequence]

Lengths ==
  /\ \A c \in Clients : Len(send[c]) <= QueueSize
  /\ Len(commands) <= QueueSize /\ Len(jobs) <= FanoutQueueSize
  /\ dropping \in BOOLEAN /\ refused \in BOOLEAN

LEMMA SequenceFacts ==
  ASSUME NEW X, NEW s \in Seq(X)
  PROVE  /\ <<>> \in Seq(X) /\ Len(<<>>) = 0 /\ Len(s) \in Nat
         /\ \A x \in X : /\ <<x>> \in Seq(X) /\ <<x>> \o s \in Seq(X)
                         /\ Append(s, x) \in Seq(X) /\ Len(Append(s, x)) = Len(s) + 1
         /\ s # <<>> => /\ s[1] \in X /\ Head(s) = s[1] /\ Tail(s) \in Seq(X)
                        /\ Len(Tail(s)) <= Len(s)
  OBVIOUS

LEMMA LevelMessages ==
  ASSUME NEW n \in Nat
  PROVE  /\ Error \in Level(n)
         /\ \A A \in SUBSET Clients : /\ Sync(n, A) \in Level(n)
                                      /\ Presence(A) \in Level(n) /\ Presence(A).kind = "presence"
         /\ Op(n) \in Level(n) /\ Op(n).kind = "op"
         /\ \A c \in Clients : Cursor(c) \in Level(n) /\ Cursor(c).kind = "cursor"
  BY DEF Level, Sendable, Messages, Error, Sync, Presence, Op, Cursor

LEMMA HigherLevel ==
  ASSUME NEW n \in Nat
  PROVE  /\ Seq(Level(n)) \subseteq Seq(Level(n + 1))
         /\ Seq(JobsTo(n)) \subseteq Seq(JobsTo(n + 1))
         /\ 0..n \subseteq 0..(n + 1)
<1>1. ASSUME NEW m \in Level(n) PROVE m \in Level(n + 1)
  <2>1. m \in Sendable /\ (m.kind \in {"sync", "op"} => m.seq <= n)
    BY <1>1, Zenon DEF Level
  <2>2. m.kind \in {"sync", "op"} => m.seq <= n + 1
    BY <2>1, Kinds
  <2>3. QED
    BY <2>1, <2>2, Zenon DEF Level
<1>2. Level(n) \subseteq Level(n + 1) /\ JobsTo(n) \subseteq JobsTo(n + 1)
  BY <1>1, Zenon DEF JobsTo
<1>3. \A X, Y : X \subseteq Y => Seq(X) \subseteq Seq(Y)
  OBVIOUS
<1>4. 0..n \subseteq 0..(n + 1)
  OBVIOUS
<1>5. QED
  BY <1>2, <1>3, <1>4, Zenon

LEMMA FrameLevel ==
  ASSUME NEW n, NEW m \in Level(n), m.kind \in {"op", "presence", "cursor"},
         NEW todo \in SUBSET Clients
  PROVE  Frame(m, todo) \in FramesTo(n)
  BY Zenon DEF Frame, FramesTo

LEMMA EnqueueDated ==
  ASSUME Dated, Lengths, NEW n, n = sequence, NEW c \in Clients, NEW m \in Level(n), Enqueue(c, m)
  PROVE  /\ send' \in [Clients -> Seq(Level(n))]
         /\ \A d \in Clients : Len(send'[d]) <= QueueSize
<1>1. CASE ~HasPlace(c)
  BY <1>1, Zenon DEF Enqueue, Dated, Lengths
<1>2. CASE HasPlace(c)
  <2>1. PICK s : s = Append(send[c], m)
    BY Zenon
  <2>2. send' = [send EXCEPT ![c] = s] /\ Len(send[c]) < QueueSize
    BY <1>2, <2>1, Zenon DEF Enqueue, HasPlace
  <2>3. send \in [Clients -> Seq(Level(n))]
    BY Zenon DEF Dated
  <2>4. s \in Seq(Level(n)) /\ Len(s) <= QueueSize
    <3>1. send[c] \in Seq(Level(n))
      BY <2>3, Zenon
    <3>2. s \in Seq(Level(n)) /\ Len(s) = Len(send[c]) + 1 /\ Len(send[c]) \in Nat
      BY <2>1, <3>1, SequenceFacts, Zenon
    <3>3. QED
      BY <2>2, <3>2, SizesAssumption
  <2>5. send' \in [Clients -> Seq(Level(n))]
    BY <2>2, <2>3, <2>4, Zenon
  <2>6. \A d \in Clients : send'[d] = IF d = c THEN s ELSE send[d]
    BY <2>2, <2>3, Zenon
  <2>7. \A d \in Clients : Len(send'[d]) <= QueueSize
    BY <2>4, <2>6, Zenon DEF Lengths
  <2>8. QED
    BY <2>5, <2>7, Zenon
<1>3. QED
  BY <1>1, <1>2, Zenon

LEMMA CloseDated ==
  ASSUME Dated, Lengths, NEW n, n = sequence, NEW c, Close(c)
  PROVE  /\ send' \in [Clients -> Seq(Level(n))]
         /\ \A d \in Clients : Len(send'[d]) <= QueueSize
<1>1. <<>> \in Seq(Level(n)) /\ Len(<<>>) <= QueueSize
  BY SizesAssumption
<1>2. send \in [Clients -> Seq(Level(n))]
  BY Zenon DEF Dated
<1>3. send' = [send EXCEPT ![c] = <<>>]
  BY Zenon DEF Close
<1>4. \A d \in Clients : send'[d] = send[d] \/ send'[d] = <<>>
  BY <1>2, <1>3, Zenon
<1>5. QED
  BY <1>1, <1>2, <1>3, <1>4, Zenon DEF Lengths

(* Dated and Lengths after a step that leaves the pool and the numbers.    *)
LEMMA DatedSends ==
  ASSUME Dated, Lengths, NEW n, n = sequence,
         send' \in [Clients -> Seq(Level(n))], \A d \in Clients : Len(send'[d]) <= QueueSize,
         frames' \in Seq(FramesTo(n)), Len(commands') <= QueueSize, refused' \in BOOLEAN,
         UNCHANGED <<sequence, jobs, worker, dropping, latest>>
  PROVE  Dated' /\ Lengths'
  BY Zenon DEF Dated, Lengths, JobsTo, FramesTo, Level

LEMMA SubmitLength ==
  ASSUME Types, NEW command, Submit(command)
  PROVE  Len(commands') <= QueueSize
  BY SizesAssumption DEF Types, Submit

LEMMA TakeLength ==
  ASSUME Types, Lengths, NEW k, NEW c, Take(k, c)
  PROVE  Len(commands') <= QueueSize
<1>1. commands \in Seq(CommandSet) /\ commands # <<>> /\ commands' = Tail(commands)
      /\ Len(commands) <= QueueSize
  BY Zenon DEF Types, Lengths, Take
<1>2. QED
  BY <1>1, SizesAssumption

LEMMA DatedConnections ==
  ASSUME Inv, Dated, Lengths, NEW c \in Clients,
         \/ Register(c) \/ ReadOperation(c) \/ ReadCursor(c) \/ ReadInvalid(c) \/ Break(c)
         \/ ReadLoop(c)
  PROVE  Dated' /\ Lengths'
<1> USE DEF connections, room, pool, cursorState, counts, browsers
<1>1. PICK n : n = sequence
  BY Zenon
<1>2. Types /\ n \in Nat
  BY <1>1, Zenon DEF Inv, Types
<1>3. /\ send \in [Clients -> Seq(Level(n))] /\ \A d \in Clients : Len(send[d]) <= QueueSize
      /\ frames \in Seq(FramesTo(n)) /\ Len(commands) <= QueueSize /\ refused \in BOOLEAN
  BY <1>1, Zenon DEF Dated, Lengths
<1>4. CASE ReadInvalid(c)
  <2>1. /\ send' \in [Clients -> Seq(Level(n))]
        /\ \A d \in Clients : Len(send'[d]) <= QueueSize
    BY <1>1, <1>2, <1>4, EnqueueDated, LevelMessages, Zenon DEF ReadInvalid
  <2>2. UNCHANGED <<sequence, jobs, worker, dropping, latest, frames, commands, refused>>
    BY <1>4, Zenon DEF ReadInvalid
  <2>3. QED
    BY <1>1, <1>3, <2>1, <2>2, DatedSends, Zenon
<1>5. CASE Break(c)
  <2>1. /\ send' \in [Clients -> Seq(Level(n))]
        /\ \A d \in Clients : Len(send'[d]) <= QueueSize
    BY <1>1, <1>5, CloseDated, Zenon DEF Break
  <2>2. UNCHANGED <<sequence, jobs, worker, dropping, latest, frames, commands, refused>>
    BY <1>5, Zenon DEF Break
  <2>3. QED
    BY <1>1, <1>3, <2>1, <2>2, DatedSends, Zenon
<1>6. CASE Register(c) \/ ReadOperation(c) \/ ReadCursor(c) \/ ReadLoop(c)
  <2>1. UNCHANGED <<sequence, jobs, worker, dropping, latest, frames, send, refused>>
    BY <1>6, Zenon DEF Register, ReadOperation, ReadCursor, ReadLoop, SubmitOperation,
                       StoreCursor, SignalCursor, Unregister
  <2>2. commands' = commands \/ \E command : Submit(command)
    BY <1>6, Zenon DEF Register, ReadOperation, ReadCursor, ReadLoop, SubmitOperation,
                       StoreCursor, SignalCursor, Unregister
  <2>3. Len(commands') <= QueueSize
    BY <1>2, <1>3, <2>2, SubmitLength, Zenon
  <2>4. QED
    BY <1>1, <1>3, <2>1, <2>3, DatedSends, Zenon
<1>7. QED
  BY <1>4, <1>5, <1>6, Zenon

LEMMA DatedWriteLoop ==
  ASSUME Inv, Dated, Lengths, NEW c \in Clients, WriteLoop(c)
  PROVE  Dated' /\ Lengths'
<1>1. PICK n, s, m : n = sequence /\ s = send[c] /\ m = Head(s)
  BY Zenon
<1>2. s \in Seq(Level(n)) /\ s # <<>> /\ n \in Nat
  BY <1>1, Zenon DEF WriteLoop, Dated, Inv, Types
<1>3. m \in Level(n) /\ Tail(s) \in Seq(Level(n)) /\ Len(Tail(s)) <= Len(s) /\ Len(s) \in Nat
      /\ Len(Tail(s)) \in Nat
  BY <1>1, <1>2
<1>4. /\ send' = [send EXCEPT ![c] = Tail(s)]
      /\ latest' = IF m.kind \in {"sync", "op"} THEN [latest EXCEPT ![c] = m.seq] ELSE latest
      /\ UNCHANGED <<sequence, jobs, worker, dropping, frames, commands, refused>>
  BY <1>1, Zenon DEF WriteLoop, room, pool, counts
<1>5. /\ send \in [Clients -> Seq(Level(n))] /\ latest \in [Clients -> 0..n]
      /\ \A d \in Clients : Len(send[d]) <= QueueSize
  BY <1>1, Zenon DEF Dated, Lengths
<1>6. m.kind \in {"sync", "op"} => m.seq \in 0..n
  <2>1. m \in Sendable /\ (m.kind \in {"sync", "op"} => m.seq <= n)
    BY <1>3, Zenon DEF Level
  <2>2. QED
    BY <1>2, <2>1, Kinds
<1>7. latest' \in [Clients -> 0..n]
  BY <1>4, <1>5, <1>6, Zenon
<1>8. send' \in [Clients -> Seq(Level(n))]
  BY <1>3, <1>4, <1>5, Zenon
<1>9. Len(Tail(s)) <= QueueSize
  <2>1. Len(s) <= QueueSize
    BY <1>1, <1>5, Zenon
  <2>2. QED
    BY <1>3, <2>1, SizesAssumption
<1>10. \A d \in Clients : send'[d] = send[d] \/ send'[d] = Tail(s)
  BY <1>4, <1>5, Zenon
<1>11. \A d \in Clients : Len(send'[d]) <= QueueSize
  BY <1>5, <1>9, <1>10, Zenon
<1>12. QED
  BY <1>1, <1>4, <1>7, <1>8, <1>11, Zenon DEF Dated, Lengths, JobsTo, FramesTo, Level

LEMMA DatedWorker ==
  ASSUME Inv, Dated, Lengths, Worker
  PROVE  Dated' /\ Lengths'
<1> USE DEF connections, room, pool, cursorState, counts, browsers
<1>1. PICK n : n = sequence
  BY Zenon
<1>2. Types /\ n \in Nat /\ jobs \in Seq(JobsTo(n)) /\ worker \in Seq(JobsTo(n))
  BY <1>1, Zenon DEF Inv, Types, Dated
<1>3. CASE TakeJob
  <2>1. /\ worker' = <<Head(jobs)>> /\ jobs' = Tail(jobs) /\ jobs # <<>>
        /\ UNCHANGED <<sequence, send, frames, commands, latest, dropping, refused>>
    BY <1>3, Zenon DEF TakeJob
  <2>2. worker' \in Seq(JobsTo(n)) /\ jobs' \in Seq(JobsTo(n))
    BY <1>2, <2>1
  <2>3. Len(jobs') <= FanoutQueueSize
    BY <1>2, <2>1, SizesAssumption DEF Lengths
  <2>4. QED
    BY <1>1, <2>1, <2>2, <2>3, Zenon DEF Dated, Lengths, JobsTo, FramesTo, Level
<1>4. CASE EnqueueJob
  <2>1. PICK j : j = worker[1]
    BY Zenon
  <2>2. worker # <<>>
    BY <1>4, Zenon DEF EnqueueJob
  <2>3. j \in JobsTo(n) /\ <<>> \in Seq(JobsTo(n))
    BY <1>2, <2>1, <2>2
  <2>4. j.client \in Clients /\ j.data \in Level(n)
    BY <2>3, Zenon DEF JobsTo
  <2>5. /\ send' \in [Clients -> Seq(Level(n))]
        /\ \A d \in Clients : Len(send'[d]) <= QueueSize
    BY <1>1, <1>4, <2>1, <2>4, EnqueueDated, Zenon DEF EnqueueJob
  <2>6. worker' \in Seq(JobsTo(n)) /\ dropping' \in BOOLEAN
    <3>1. HasPlace(j.client) \in BOOLEAN
      BY DEF HasPlace
    <3>2. QED
      BY <1>2, <1>4, <2>1, <2>3, <3>1, Zenon DEF EnqueueJob
  <2>7. UNCHANGED <<sequence, jobs, frames, commands, latest, refused>>
    BY <1>4, Zenon DEF EnqueueJob
  <2>8. QED
    BY <1>1, <2>5, <2>6, <2>7, Zenon DEF Dated, Lengths, JobsTo, FramesTo, Level
<1>5. CASE DropClient
  <2>1. /\ Len(commands') <= QueueSize /\ worker' = <<>> /\ dropping' = FALSE
        /\ UNCHANGED <<sequence, jobs, frames, send, latest, refused>>
    BY <1>2, <1>5, SubmitLength, Zenon DEF DropClient
  <2>2. <<>> \in Seq(JobsTo(n)) /\ FALSE \in BOOLEAN
    OBVIOUS
  <2>3. QED
    BY <1>1, <2>1, <2>2, Zenon DEF Dated, Lengths, JobsTo, FramesTo, Level
<1>6. QED
  BY <1>3, <1>4, <1>5, Zenon DEF Worker

LEMMA RemoveDated ==
  ASSUME Inv, Dated, Lengths, NEW n, n = sequence, NEW c,
         NEW outer \in Seq(FramesTo(n)), RemoveClient(c, outer)
  PROVE  /\ send' \in [Clients -> Seq(Level(n))]
         /\ \A d \in Clients : Len(send'[d]) <= QueueSize
         /\ frames' \in Seq(FramesTo(n))
<1>1. PICK f : f = Frame(Presence(clients'), clients')
  BY Zenon
<1>2. clients' \in SUBSET Clients /\ n \in Nat
  BY Zenon DEF RemoveClient, Inv, Types
<1>3. "presence" \in {"op", "presence", "cursor"}
  BY SMT
<1>4. f \in FramesTo(n)
  BY <1>1, <1>2, <1>3, LevelMessages, FrameLevel, Zenon
<1>5. <<f>> \o outer \in Seq(FramesTo(n))
  BY <1>4, SequenceFacts, Zenon
<1>6. frames' = <<f>> \o outer
  BY <1>1, Zenon DEF RemoveClient
<1>7. QED
  BY <1>5, <1>6, CloseDated, Zenon DEF RemoveClient

LEMMA DatedOwner ==
  ASSUME Inv, Dated, Lengths, NEW c \in Clients,
         ApplyRegister(c) \/ ApplyUnregister(c) \/ RejectOperation(c) \/ ApplyCursor(c)
  PROVE  Dated' /\ Lengths'
<1> USE DEF connections, room, pool, cursorState, counts, browsers
<1>1. PICK n : n = sequence
  BY Zenon
<1>2. Types /\ n \in Nat /\ clients \in SUBSET Clients
  BY <1>1, Zenon DEF Inv, Types
<1>3. /\ send \in [Clients -> Seq(Level(n))] /\ \A d \in Clients : Len(send[d]) <= QueueSize
      /\ frames \in Seq(FramesTo(n)) /\ Len(commands) <= QueueSize /\ refused \in BOOLEAN
  BY <1>1, Zenon DEF Dated, Lengths
<1>4. "presence" \in {"op", "presence", "cursor"} /\ "cursor" \in {"op", "presence", "cursor"}
  BY SMT
<1>5. <<>> \in Seq(FramesTo(n))
  OBVIOUS
<1>6. \A f \in FramesTo(n) : <<f>> \in Seq(FramesTo(n))
  BY <1>5, SequenceFacts, Zenon
<1>7. CASE ApplyRegister(c)
  <2>1. /\ UNCHANGED <<sequence, jobs, worker, dropping, latest, refused>>
        /\ Len(commands') <= QueueSize
    BY <1>2, <1>7, TakeLength, Zenon DEF ApplyRegister
  <2>2. CASE HasPlace(c)
    <3>1. /\ clients' = clients \cup {c} /\ Enqueue(c, Sync(sequence, clients'))
          /\ frames' = <<Frame(Presence(clients'), clients)>>
      BY <1>7, <2>2, Zenon DEF ApplyRegister
    <3>2. clients' \in SUBSET Clients
      BY <1>2, <3>1, Zenon
    <3>3. Sync(n, clients') \in Level(n) /\ Frame(Presence(clients'), clients) \in FramesTo(n)
      BY <1>2, <1>4, <3>2, LevelMessages, FrameLevel, Zenon
    <3>4. /\ send' \in [Clients -> Seq(Level(n))]
          /\ \A d \in Clients : Len(send'[d]) <= QueueSize
      BY <1>1, <3>1, <3>3, EnqueueDated, Zenon
    <3>5. frames' \in Seq(FramesTo(n))
      BY <1>6, <3>1, <3>3, Zenon
    <3>6. QED
      BY <1>1, <1>3, <2>1, <3>4, <3>5, DatedSends, Zenon
  <2>3. CASE ~HasPlace(c)
    <3>1. Close(c) /\ frames' = frames
      BY <1>7, <2>3, Zenon DEF ApplyRegister
    <3>2. /\ send' \in [Clients -> Seq(Level(n))]
          /\ \A d \in Clients : Len(send'[d]) <= QueueSize
      BY <1>1, <3>1, CloseDated, Zenon
    <3>3. QED
      BY <1>1, <1>3, <2>1, <3>1, <3>2, DatedSends, Zenon
  <2>4. QED
    BY <2>2, <2>3, Zenon
<1>8. CASE ApplyUnregister(c)
  <2>1. /\ UNCHANGED <<sequence, jobs, worker, dropping, latest, refused>>
        /\ Len(commands') <= QueueSize
    BY <1>2, <1>8, TakeLength, Zenon DEF ApplyUnregister
  <2>2. /\ send' \in [Clients -> Seq(Level(n))]
        /\ \A d \in Clients : Len(send'[d]) <= QueueSize
        /\ frames' \in Seq(FramesTo(n))
    BY <1>1, <1>3, <1>5, <1>8, RemoveDated, Zenon DEF ApplyUnregister
  <2>3. QED
    BY <1>1, <1>3, <2>1, <2>2, DatedSends, Zenon
<1>9. CASE RejectOperation(c)
  <2>1. /\ UNCHANGED <<sequence, jobs, worker, dropping, latest, refused, frames>>
        /\ Len(commands') <= QueueSize
    BY <1>2, <1>9, TakeLength, Zenon DEF RejectOperation
  <2>2. /\ send' \in [Clients -> Seq(Level(n))]
        /\ \A d \in Clients : Len(send'[d]) <= QueueSize
    BY <1>1, <1>2, <1>9, EnqueueDated, LevelMessages, Zenon DEF RejectOperation
  <2>3. QED
    BY <1>1, <1>3, <2>1, <2>2, DatedSends, Zenon
<1>10. CASE ApplyCursor(c)
  <2>1. /\ UNCHANGED <<sequence, jobs, worker, dropping, latest, refused, send>>
        /\ Len(commands') <= QueueSize
    BY <1>2, <1>10, TakeLength, Zenon DEF ApplyCursor
  <2>2. Frame(Cursor(c), clients \ {c}) \in FramesTo(n)
    BY <1>2, <1>4, LevelMessages, FrameLevel, Zenon
  <2>3. frames' \in Seq(FramesTo(n))
    BY <1>5, <1>6, <1>10, <2>2, Zenon DEF ApplyCursor
  <2>4. QED
    BY <1>1, <1>3, <2>1, <2>3, DatedSends, Zenon
<1>11. QED
  BY <1>7, <1>8, <1>9, <1>10, Zenon

LEMMA DatedEnd ==
  ASSUME Dated, Lengths, EndBroadcast
  PROVE  Dated' /\ Lengths'
<1>1. PICK n : n = sequence
  BY Zenon
<1>2. /\ UNCHANGED <<sequence, jobs, worker, dropping, latest, refused, send, commands>>
      /\ frames # <<>> /\ frames' = Tail(frames)
  BY Zenon DEF EndBroadcast, connections, pool, browsers, counts
<1>3. frames' \in Seq(FramesTo(n))
  BY <1>1, <1>2, SequenceFacts, Zenon DEF Dated
<1>4. QED
  BY <1>1, <1>2, <1>3, DatedSends, Zenon DEF Dated, Lengths

(* The next number is given. *)
LEMMA DatedAccept ==
  ASSUME Inv, Dated, Lengths, NEW c \in Clients, AcceptOperation(c)
  PROVE  Dated' /\ Lengths'
<1>1. PICK n : n = sequence
  BY Zenon
<1>2. Types /\ n \in Nat /\ clients \in SUBSET Clients /\ n + 1 \in Nat
  <2>1. Types /\ n \in Nat /\ clients \in SUBSET Clients
    BY <1>1, Zenon DEF Inv, Types
  <2>2. QED
    BY <2>1
<1>3. /\ sequence' = n + 1 /\ frames' = <<Frame(Op(n + 1), clients \ {c})>>
      /\ Len(commands') <= QueueSize
      /\ UNCHANGED <<send, jobs, worker, dropping, latest, refused>>
  BY <1>1, <1>2, TakeLength, Zenon DEF AcceptOperation, connections, pool, browsers, counts
<1>4. "op" \in {"op", "presence", "cursor"}
  BY SMT
<1>5. Frame(Op(n + 1), clients \ {c}) \in FramesTo(n + 1)
  BY <1>2, <1>4, LevelMessages, FrameLevel, Zenon
<1>6. frames' \in Seq(FramesTo(n + 1))
  BY <1>3, <1>5
<1>7. /\ send \in [Clients -> Seq(Level(n))] /\ jobs \in Seq(JobsTo(n))
      /\ worker \in Seq(JobsTo(n)) /\ latest \in [Clients -> 0..n]
  BY <1>1, Zenon DEF Dated
<1>8. /\ send' \in [Clients -> Seq(Level(n + 1))] /\ jobs' \in Seq(JobsTo(n + 1))
      /\ worker' \in Seq(JobsTo(n + 1)) /\ latest' \in [Clients -> 0..(n + 1)]
  BY <1>2, <1>3, <1>7, HigherLevel, Zenon
<1>9. QED
  BY <1>3, <1>6, <1>8, Zenon DEF Dated, Lengths, JobsTo, FramesTo, Level

LEMMA DatedBroadcast ==
  ASSUME Inv, Dated, Lengths, NEW c \in Clients, Broadcast(c)
  PROVE  Dated' /\ Lengths'
<1>1. PICK n, f, g, rest : /\ n = sequence /\ f = frames[1] /\ g = [f EXCEPT !.todo = @ \ {c}]
                           /\ rest = <<g>> \o Tail(frames)
  BY Zenon
<1>2. /\ frames \in Seq(FramesTo(n)) /\ jobs \in Seq(JobsTo(n)) /\ frames # <<>>
      /\ Len(jobs) <= FanoutQueueSize
  BY <1>1, Zenon DEF Dated, Lengths, Broadcast
<1>3. f \in FramesTo(n) /\ Tail(frames) \in Seq(FramesTo(n))
  BY <1>1, <1>2, SequenceFacts, Zenon
<1>4. g \in FramesTo(n)
  BY <1>1, <1>3, Zenon DEF FramesTo
<1>5. rest \in Seq(FramesTo(n))
  BY <1>1, <1>3, <1>4, SequenceFacts, Zenon
<1>6. UNCHANGED <<commands, sequence, worker, dropping, latest>>
  BY Zenon DEF Broadcast
<1>7. CASE Len(jobs) < FanoutQueueSize /\ frames' = rest
           /\ jobs' = Append(jobs, [client |-> c, data |-> f.data])
           /\ UNCHANGED <<send, refused>>
  <2>1. [client |-> c, data |-> f.data] \in JobsTo(n)
    BY <1>3, Zenon DEF FramesTo, JobsTo
  <2>2. jobs' \in Seq(JobsTo(n)) /\ Len(jobs') = Len(jobs) + 1 /\ Len(jobs) \in Nat
    BY <1>2, <1>7, <2>1
  <2>3. Len(jobs') <= FanoutQueueSize
    BY <1>7, <2>2, SizesAssumption
  <2>4. QED
    BY <1>1, <1>5, <1>6, <1>7, <2>2, <2>3, Zenon DEF Dated, Lengths, JobsTo, FramesTo, Level
<1>8. CASE RemoveClient(c, rest) /\ refused' = TRUE /\ UNCHANGED jobs
  <2>1. /\ send' \in [Clients -> Seq(Level(n))]
        /\ \A d \in Clients : Len(send'[d]) <= QueueSize
        /\ frames' \in Seq(FramesTo(n))
    BY <1>1, <1>5, <1>8, RemoveDated, Zenon
  <2>2. refused' \in BOOLEAN /\ Len(commands') <= QueueSize
    BY <1>6, <1>8, Zenon DEF Lengths
  <2>3. QED
    BY <1>1, <1>6, <1>8, <2>1, <2>2, DatedSends, Zenon
<1>9. QED
  BY <1>1, <1>7, <1>8, Zenon DEF Broadcast

Limits == Inv /\ Wires /\ Counted /\ Dated /\ Lengths

LEMMA LimitsInit == Init => Limits
<1> SUFFICES ASSUME Init PROVE Limits
  BY Zenon
<1>1. Inv /\ Wires
  BY InvInit, KeptInit, Zenon
<1>2. /\ <<>> \in Seq(Level(0)) /\ <<>> \in Seq(JobsTo(0)) /\ <<>> \in Seq(FramesTo(0))
      /\ 0 \in 0..0 /\ FALSE \in BOOLEAN
      /\ Len(<<>>) <= QueueSize /\ Len(<<>>) <= FanoutQueueSize
  BY SizesAssumption
<1>3. Dated /\ Lengths
  BY <1>2, Zenon DEF Init, Dated, Lengths
<1>4. "new" # "operation" /\ DOMAIN <<>> = {}
  BY SMT
<1>5. OpsQueued = {} /\ OpsRead = {}
  BY <1>4, Zenon DEF Init, OpsQueued, OpsRead
<1>6. reads = 0 /\ sequence = 0
  BY Zenon DEF Init
<1>7. Counted
  <2>1. Fits(Unnumbered, sequence, reads)
    BY <1>5, Zenon DEF Unnumbered, Fits
  <2>2. reads \in Nat /\ reads <= MaxReads /\ sequence <= reads
    BY <1>6, SizesAssumption
  <2>3. QED
    BY <2>1, <2>2, Zenon DEF Counted
<1>8. QED
  BY <1>1, <1>3, <1>7, Zenon DEF Limits

LEMMA LimitsStep == Limits /\ [Next]_vars => Limits'
<1> SUFFICES ASSUME Limits, [Next]_vars PROVE Limits'
  BY Zenon
<1>1. Inv /\ Dated /\ Lengths /\ Inv' /\ Wires' /\ Counted'
  BY InvStep, KeptStep, CountedStep, Zenon DEF Limits, Kept
<1>2. CASE UNCHANGED vars
  <2>1. UNCHANGED <<send, commands, sequence, frames, jobs, worker, dropping, latest, refused>>
    BY <1>2, Zenon DEF vars, connections, room, pool, browsers, counts
  <2>2. Dated' /\ Lengths'
    BY <1>1, <2>1, Zenon DEF Dated, Lengths, JobsTo, FramesTo, Level
  <2>3. QED
    BY <1>1, <2>2, Zenon DEF Limits
<1>3. ASSUME NEW c \in Clients,
             \/ Register(c) \/ ReadOperation(c) \/ ReadCursor(c) \/ ReadInvalid(c) \/ Break(c)
             \/ ReadLoop(c) \/ WriteLoop(c)
      PROVE  Dated' /\ Lengths'
  BY <1>1, <1>3, DatedConnections, DatedWriteLoop, Zenon
<1>4. ASSUME NEW c \in Clients,
             \/ ApplyRegister(c) \/ ApplyUnregister(c) \/ AcceptOperation(c)
             \/ RejectOperation(c) \/ ApplyCursor(c) \/ Broadcast(c)
      PROVE  Dated' /\ Lengths'
  BY <1>1, <1>4, DatedOwner, DatedAccept, DatedBroadcast, Zenon
<1>5. CASE Worker
  <2>1. Dated' /\ Lengths'
    BY <1>1, <1>5, DatedWorker, Zenon
  <2>2. QED
    BY <1>1, <2>1, Zenon DEF Limits
<1>6. CASE Owner
  <2>1. Dated' /\ Lengths'
    BY <1>1, <1>4, <1>6, DatedEnd, Zenon DEF Owner
  <2>2. QED
    BY <1>1, <2>1, Zenon DEF Limits
<1>7. QED
  BY <1>1, <1>2, <1>3, <1>5, <1>6, Zenon DEF Next, Finished, Limits

LEMMA LimitsAreTypes == Limits => TypeOK
<1>1. SUFFICES ASSUME Limits PROVE TypeOK
  BY Zenon
<1>2. Types /\ JobsKnown /\ Wires /\ Counted /\ Dated /\ Lengths
  BY <1>1, Zenon DEF Limits, Inv
<1>3. PICK n : n = sequence
  BY Zenon
<1>4. ASSUME NEW c \in Clients
      PROVE  /\ Len(send[c]) <= QueueSize
             /\ \A i \in DOMAIN send[c] : send[c][i].kind \in Message
             /\ users[c] \subseteq Clients
             /\ latest[c] \in 0..sequence
  <2>1. send[c] \in Seq(Sendable)
    BY <1>2, Zenon DEF Wires
  <2>2. \A i \in DOMAIN send[c] : send[c][i] \in Sendable
    BY <2>1
  <2>3. \A m \in Sendable : m.kind \in Message
    BY DEF Sendable, Messages, Error, Message
  <2>4. QED
    BY <1>2, <2>2, <2>3, Zenon DEF Wires, Dated, Lengths
<1>5. ASSUME NEW i \in DOMAIN commands
      PROVE  /\ commands[i].kind \in {"register", "unregister", "operation", "cursor"}
             /\ commands[i].client \in Clients
  <2>1. commands \in Seq(CommandSet)
    BY <1>2, Zenon DEF Types
  <2>2. commands[i] \in CommandSet
    BY <2>1
  <2>3. QED
    BY <2>2, Zenon DEF CommandSet
<1>6. sequence \in 0..reads /\ reads \in 0..MaxReads
  <2>1. sequence \in Nat /\ reads \in Nat /\ reads <= MaxReads /\ sequence <= reads
    BY <1>2, Zenon DEF Types, Counted
  <2>2. QED
    BY <2>1, SizesAssumption
<1>7. ASSUME NEW i \in DOMAIN frames
      PROVE  /\ frames[i].data.kind \in {"op", "presence", "cursor"}
             /\ frames[i].todo \subseteq Clients
  <2>1. frames \in Seq(FramesTo(n))
    BY <1>2, <1>3, Zenon DEF Dated
  <2>2. frames[i] \in FramesTo(n)
    BY <2>1
  <2>3. QED
    BY <2>2, Zenon DEF FramesTo
<1>8. /\ Len(worker) <= 1
      /\ \A i \in DOMAIN (worker \o jobs) : (worker \o jobs)[i].client \in Clients
  <2>1. jobs \in Seq(JobSet) /\ worker \in Seq(JobSet)
    BY <1>2, Zenon DEF Types
  <2>2. \A i \in DOMAIN (worker \o jobs) : (worker \o jobs)[i] \in JobSet
    BY <2>1
  <2>3. Len(worker) <= 1
    <3>1. worker = <<>> \/ \E j \in JobSet : worker = <<j>>
      BY <1>2, Zenon DEF Wires
    <3>2. \A j : Len(<<j>>) <= 1
      OBVIOUS
    <3>3. Len(<<>>) <= 1
      OBVIOUS
    <3>4. QED
      BY <3>1, <3>2, <3>3, Zenon
  <2>4. QED
    BY <2>2, <2>3, Zenon DEF JobSet
<1>9. {closed, clients, pendingCursors, cursorQueued, missed} \subseteq SUBSET Clients
  BY <1>2, Zenon DEF Types
<1>10. {dropping, refused} \subseteq BOOLEAN /\ (dropping => worker # <<>>)
  BY <1>2, Zenon DEF Lengths, JobsKnown
<1>11. QED
  BY <1>2, <1>4, <1>5, <1>6, <1>7, <1>8, <1>9, <1>10, Zenon DEF Types, Lengths, TypeOK

(***************************************************************************)
(* The room numbers no operation that no connection sent, no client is     *)
(* told a number the room has not given, and no queue outgrows its         *)
(* capacity, for every number of clients and every size of the queues.     *)
(***************************************************************************)
THEOREM TypeOKTheorem == Spec => []TypeOK
<1>1. Init => Limits
  BY LimitsInit, Zenon
<1>2. Limits /\ [Next]_vars => Limits'
  BY LimitsStep, Zenon
<1>3. Limits => TypeOK
  BY LimitsAreTypes, Zenon
<1>4. QED
  BY <1>1, <1>2, <1>3, PTL DEF Spec
=============================================================================
