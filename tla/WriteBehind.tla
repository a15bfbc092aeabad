---------------------------- MODULE WriteBehind ----------------------------
(***************************************************************************)
(* How edits become durable: the room owners (internal/realtime/room.go)   *)
(* queue operations and snapshots, the one goroutine of the Writer         *)
(* (internal/store/writer.go) batches them into the store                  *)
(* (internal/store/store.go), and a document is loaded again from what the *)
(* store has when its room was evicted or the server was restarted.        *)
(*                                                                         *)
(* The operations of a document are the numbers 1, 2, ... in the order in  *)
(* which its rooms accepted them; needs is the operation whose character   *)
(* it names (its left anchor, or the one it deletes), 0 for none.  The     *)
(* state of a CRDT document is the set of operations it accepted, which is *)
(* what StateFromAccepted of RgaReplicas says.                             *)
(***************************************************************************)
EXTENDS Naturals, Sequences, FiniteSets, FiniteSetsExt

CONSTANTS Documents,
          QueueSize,            (* capacity of Writer.jobs                 *)
          OperationBatchSize,   (* operations after which to flush         *)
          SnapshotOpThreshold,  (* operations after which to snapshot      *)
          MaxOps,               (* bound: operations of a document         *)
          MaxFailures,          (* bound: store calls that fail            *)
          MaxCrashes            (* bound: crashes of the server            *)

ASSUME LimitsAssumption ==
  /\ {QueueSize, OperationBatchSize, SnapshotOpThreshold} \subseteq Nat \ {0}
  /\ {MaxOps, MaxFailures, MaxCrashes} \subseteq Nat

VARIABLES
  (* the store *)
  log,               (* per document: rows of operations, by sequence      *)
  snapshot,          (* per document: the snapshot and its version         *)
  (* the rooms *)
  open,              (* documents that have a room                         *)
  content,           (* per document: operations its room has accepted     *)
  sequence,          (* per document                                       *)
  opsSinceSnapshot,  (* per document                                       *)
  pc,                (* per document: where its owner is                   *)
  leaving,           (* rooms that end after their last snapshot request   *)
  (* the writer *)
  jobs,              (* the channel                                        *)
  pendingSnapshot,   (* per document: {} or {snapshot}                     *)
  snapshotQueued,
  pending,           (* per document: operations not yet flushed           *)
  timerActive,
  batches,           (* per document: what flush has still to write        *)
  saves,             (* per document: what flushSnapshots has yet to save  *)
  phase,             (* where the writer goroutine is                      *)
  closing,           (* the job in hand is writerClose                     *)
  (* the server *)
  stopping,          (* CloseContext was called                            *)
  (* bookkeeping of the model *)
  applied,           (* per document: operations accepted so far           *)
  lost,              (* per document: operations that missed the log       *)
  dropped,           (* some job found the queue full                      *)
  failures, crashes

store == <<log, snapshot>>
rooms == <<open, content, sequence, opsSinceSnapshot, pc, leaving>>
writer == <<jobs, pendingSnapshot, snapshotQueued, pending, timerActive, batches,
            saves, phase, closing>>
counts == <<applied, lost, dropped, failures, crashes>>
vars == <<store, rooms, writer, stopping, counts>>

Each(v) == [d \in Documents |-> v]

(* Mutant: the fields of the job are filled in the wrong order. *)
OpsJob_Swapped(d, op) == [kind |-> "operations", doc |-> op, op |-> d]

OpsJob(d, op) == [kind |-> "operations", doc |-> d, op |-> op]
SignalJob == [kind |-> "snapshotSignal"]
CloseJob == [kind |-> "close"]

Numbers(seq) == {seq[i].n : i \in DOMAIN seq}

(* The places of the operations of a document among the jobs. *)
Queued(d) == {i \in DOMAIN jobs : jobs[i].kind = "operations" /\ jobs[i].doc = d}
-----------------------------------------------------------------------------
(***************************************************************************)
(* LoadDocument and BuildAt: the snapshot, then the rows after its version *)
(* one by one.  An operation that names a character the document does not  *)
(* have is refused, and then the document cannot be opened.                *)
(***************************************************************************)
(* Mutant: the first row after the snapshot is skipped. *)
Replayed_SkipsOne(d) == SubSeq(log[d], snapshot[d].version + 2, Len(log[d]))

Replayed(d) == SubSeq(log[d], snapshot[d].version + 1, Len(log[d]))

Recovered(d) == snapshot[d].content \cup Numbers(Replayed(d))

Loadable(d) ==
  LET rows == Replayed(d)
  IN  \A i \in DOMAIN rows :
        rows[i].needs \in {0} \cup snapshot[d].content
                              \cup Numbers(SubSeq(rows, 1, i - 1))

(* newRoom *)
LoadedSequence(d) == IF Len(log[d]) > snapshot[d].version
                     THEN Len(log[d]) ELSE snapshot[d].version

Init ==
  /\ open = {}
  /\ content = Each({})
  /\ sequence = Each(0)
  /\ opsSinceSnapshot = Each(0)
  /\ pc = Each("idle")
  /\ leaving = {}
  /\ jobs = <<>>
  /\ pendingSnapshot = Each({})
  /\ snapshotQueued = FALSE
  /\ pending = Each(<<>>)
  /\ timerActive = FALSE
  /\ batches = Each(<<>>)
  /\ saves = Each({})
  /\ phase = "select"
  /\ closing = FALSE
  /\ stopping = FALSE
  /\ log = Each(<<>>)
  /\ snapshot = Each([content |-> {}, version |-> 0])
  /\ applied = Each(0)
  /\ lost = Each({})
  /\ dropped = FALSE
  /\ failures = 0
  /\ crashes = 0
-----------------------------------------------------------------------------
(***************************************************************************)
(* The rooms.                                                              *)
(***************************************************************************)
(* GetOrCreateRoom *)
OpenRoom(d) ==
  /\ d \notin open
  /\ ~stopping
  /\ Loadable(d)
  /\ open' = open \cup {d}
  /\ content' = [content EXCEPT ![d] = Recovered(d)]
  /\ sequence' = [sequence EXCEPT ![d] = LoadedSequence(d)]
  /\ opsSinceSnapshot' = [opsSinceSnapshot EXCEPT ![d] = 0]
  /\ UNCHANGED <<store, pc, leaving, writer, stopping, counts>>

Idle(d) == d \in open /\ pc[d] = "idle"

(* applyOperation with queuePersistence: EnqueueOps does not wait for a    *)
(* place in the queue, and the room does not look at its answer.           *)
ApplyOperation(d) ==
  /\ Idle(d)
  /\ applied[d] < MaxOps
  /\ applied' = [applied EXCEPT ![d] = @ + 1]
  /\ content' = [content EXCEPT ![d] = @ \cup {applied'[d]}]
  /\ sequence' = [sequence EXCEPT ![d] = @ + 1]
  /\ opsSinceSnapshot' = [opsSinceSnapshot EXCEPT ![d] = @ + 1]
  /\ pc' = [pc EXCEPT ![d] = IF opsSinceSnapshot'[d] >= SnapshotOpThreshold
                             THEN "request" ELSE @]
  /\ IF Len(jobs) < QueueSize
     THEN /\ \E p \in content[d] \cup {0} :
               jobs' = Append(jobs, OpsJob(d, [n |-> applied'[d], needs |-> p]))
          /\ UNCHANGED <<lost, dropped>>
     ELSE /\ lost' = [lost EXCEPT ![d] = @ \cup {applied'[d]}]
          /\ dropped' = TRUE
          /\ UNCHANGED jobs
  /\ UNCHANGED <<store, open, leaving, pendingSnapshot, snapshotQueued, pending,
                 timerActive, batches, saves, phase, closing, stopping, failures,
                 crashes>>

(* The snapshot ticker. *)
SnapshotTick(d) ==
  /\ Idle(d)
  /\ opsSinceSnapshot[d] > 0
  /\ pc' = [pc EXCEPT ![d] = "request"]
  /\ UNCHANGED <<store, open, content, sequence, opsSinceSnapshot, leaving, writer,
                 stopping, counts>>

(* A room ends at the idle timeout or on shutdown, after a last            *)
(* requestSnapshot.  Timing assumption: at the idle timeout (45 s after    *)
(* the last client left) the operations of the document are long flushed.  *)
LeaveRoom(d) ==
  /\ Idle(d)
  /\ ~stopping => /\ Queued(d) = {}
                  /\ pending[d] = <<>> /\ batches[d] = <<>>
  /\ IF opsSinceSnapshot[d] = 0
     THEN open' = open \ {d} /\ UNCHANGED <<pc, leaving>>
     ELSE /\ pc' = [pc EXCEPT ![d] = "request"]
          /\ leaving' = leaving \cup {d}
          /\ UNCHANGED open
  /\ UNCHANGED <<store, content, sequence, opsSinceSnapshot, writer, stopping,
                 counts>>

(* requestSnapshot returns to the loop of the room, or the room ends. *)
Return(d) ==
  /\ pc' = [pc EXCEPT ![d] = "idle"]
  /\ open' = open \ (leaving \cap {d})
  /\ leaving' = leaving \ {d}

(* EnqueueSnapshot, up to the unlock of snapshotMu. *)
RequestSnapshot(d) ==
  /\ pc[d] = "request"
  /\ pendingSnapshot' =
       [pendingSnapshot EXCEPT
          ![d] = {[content |-> content[d], version |-> sequence[d]]}]
  /\ snapshotQueued' = TRUE
  /\ IF snapshotQueued
     THEN /\ Return(d)
          /\ opsSinceSnapshot' = [opsSinceSnapshot EXCEPT ![d] = 0]
     ELSE /\ pc' = [pc EXCEPT ![d] = "signal"]
          /\ UNCHANGED <<open, leaving, opsSinceSnapshot>>
  /\ UNCHANGED <<store, content, sequence, jobs, pending, timerActive, batches,
                 saves, phase, closing, stopping, counts>>

(* EnqueueSnapshot, the select: the signal is queued or the queue is full. *)
SendSignal(d) ==
  /\ pc[d] = "signal"
  /\ IF Len(jobs) < QueueSize
     THEN /\ jobs' = Append(jobs, SignalJob)
          /\ Return(d)
          /\ opsSinceSnapshot' = [opsSinceSnapshot EXCEPT ![d] = 0]
          /\ UNCHANGED dropped
     ELSE /\ pc' = [pc EXCEPT ![d] = "reset"]
          /\ dropped' = TRUE
          /\ UNCHANGED <<jobs, open, leaving, opsSinceSnapshot>>
  /\ UNCHANGED <<store, content, sequence, pendingSnapshot, snapshotQueued, pending,
                 timerActive, batches, saves, phase, closing, stopping, applied,
                 lost, failures, crashes>>

(* EnqueueSnapshot, its answer FALSE. *)
ResetSignal(d) ==
  /\ pc[d] = "reset"
  /\ snapshotQueued' = FALSE
  /\ Return(d)
  /\ UNCHANGED <<store, content, sequence, opsSinceSnapshot, jobs, pendingSnapshot,
                 pending, timerActive, batches, saves, phase, closing, stopping,
                 counts>>
-----------------------------------------------------------------------------
(***************************************************************************)
(* The writer goroutine.  flush takes over what is pending and writes one  *)
(* transaction per document; meanwhile the goroutine does nothing else.    *)
(***************************************************************************)
Flushed == batches = Each(<<>>)

AtSelect == phase = "select" /\ Flushed

JobIs(kind) == jobs # <<>> /\ Head(jobs).kind = kind

(* Mutant: flush does not start a new map of pending operations. *)
StartFlush_KeepsPending(p) == batches' = p /\ pending' = p /\ timerActive' = FALSE

(* flush with stopTimer, on the operations in p. *)
StartFlush(p) ==
  /\ batches' = p
  /\ pending' = Each(<<>>)
  /\ timerActive' = FALSE

PendingCount(p) == MapThenSumSet(LAMBDA d : Len(p[d]), Documents)

(* Mutant: the timer is not started for a batch that is not full. *)
BufferOps_NoTimer(p) ==
  IF PendingCount(p) >= OperationBatchSize THEN StartFlush(p)
  ELSE pending' = p /\ timerActive' = FALSE /\ UNCHANGED batches

BufferOps(p) ==
  IF PendingCount(p) >= OperationBatchSize THEN StartFlush(p)
  ELSE pending' = p /\ timerActive' = TRUE /\ UNCHANGED batches

TakeOperations ==
  /\ AtSelect
  /\ JobIs("operations")
  /\ LET job == Head(jobs)
     IN  BufferOps([pending EXCEPT ![job.doc] = Append(@, job.op)])
  /\ jobs' = Tail(jobs)
  /\ UNCHANGED <<store, rooms, pendingSnapshot, snapshotQueued, saves, phase, closing,
                 stopping, counts>>

TimerFires ==
  /\ AtSelect
  /\ timerActive
  /\ StartFlush(pending)
  /\ UNCHANGED <<store, rooms, jobs, pendingSnapshot, snapshotQueued, saves, phase,
                 closing, stopping, counts>>

TakeSignal ==
  /\ AtSelect
  /\ JobIs("snapshotSignal") \/ JobIs("close")
  /\ StartFlush(pending)
  /\ phase' = "flush"
  /\ closing' = JobIs("close")
  /\ jobs' = Tail(jobs)
  /\ UNCHANGED <<store, rooms, pendingSnapshot, snapshotQueued, saves, stopping,
                 counts>>

(* AppendOperationBatch numbers the rows on from MAX(sequence), in one     *)
(* transaction.                                                            *)
WriteBatch(d) ==
  /\ batches[d] # <<>>
  /\ log' = [log EXCEPT ![d] = @ \o batches[d]]
  /\ batches' = [batches EXCEPT ![d] = <<>>]
  /\ UNCHANGED <<snapshot, rooms, jobs, pendingSnapshot, snapshotQueued, pending,
                 timerActive, saves, phase, closing, stopping, counts>>

(* Its error is remembered, but the batch is not tried again. *)
WriteBatchFails(d) ==
  /\ batches[d] # <<>>
  /\ failures < MaxFailures
  /\ failures' = failures + 1
  /\ lost' = [lost EXCEPT ![d] = @ \cup Numbers(batches[d])]
  /\ batches' = [batches EXCEPT ![d] = <<>>]
  /\ UNCHANGED <<store, rooms, jobs, pendingSnapshot, snapshotQueued, pending,
                 timerActive, saves, phase, closing, stopping, applied, dropped,
                 crashes>>

(* Mutant: takeSnapshots leaves the flag raised. *)
SignalAfterTake_Kept == snapshotQueued

SignalAfterTake == FALSE

TakeSnapshots ==
  /\ phase = "flush" /\ Flushed
  /\ phase' = "save"
  /\ saves' = pendingSnapshot
  /\ pendingSnapshot' = Each({})
  /\ snapshotQueued' = SignalAfterTake
  /\ UNCHANGED <<store, rooms, jobs, pending, timerActive, batches, closing, stopping,
                 counts>>

SaveSnapshot(d) ==
  /\ phase = "save"
  /\ \E s \in saves[d] : snapshot' = [snapshot EXCEPT ![d] = s]
  /\ saves' = [saves EXCEPT ![d] = {}]
  /\ UNCHANGED <<log, rooms, jobs, pendingSnapshot, snapshotQueued, pending,
                 timerActive, batches, phase, closing, stopping, counts>>

SaveSnapshotFails(d) ==
  /\ phase = "save"
  /\ saves[d] # {}
  /\ failures < MaxFailures
  /\ failures' = failures + 1
  /\ saves' = [saves EXCEPT ![d] = {}]
  /\ UNCHANGED <<store, rooms, jobs, pendingSnapshot, snapshotQueued, pending,
                 timerActive, batches, phase, closing, stopping, applied, lost,
                 dropped, crashes>>

FinishJob ==
  /\ phase = "save"
  /\ saves = Each({})
  /\ phase' = IF closing THEN "stopped" ELSE "select"
  /\ UNCHANGED <<store, rooms, jobs, pendingSnapshot, snapshotQueued, pending,
                 timerActive, batches, saves, closing, stopping, counts>>
-----------------------------------------------------------------------------
(***************************************************************************)
(* The server.                                                             *)
(***************************************************************************)
(* CloseContext tells every room to end, waits for them, ... *)
Shutdown ==
  /\ ~stopping
  /\ stopping' = TRUE
  /\ UNCHANGED <<store, rooms, writer, counts>>

(* Mutant: CloseContext does not wait for the rooms. *)
RoomsDone_Unawaited == TRUE

RoomsDone == open = {}

(* ... and then closes the writer, waiting for a place in the queue. *)
CloseWriter ==
  /\ stopping
  /\ RoomsDone
  /\ phase # "stopped" /\ ~closing
  /\ ~ \E i \in DOMAIN jobs : jobs[i] = CloseJob
  /\ Len(jobs) < QueueSize
  /\ jobs' = Append(jobs, CloseJob)
  /\ UNCHANGED <<store, rooms, pendingSnapshot, snapshotQueued, pending, timerActive,
                 batches, saves, phase, closing, stopping, counts>>

(* What is only in memory is gone; the store is as it was. *)
Reboot ==
  /\ open' = {}
  /\ content' = Each({})
  /\ sequence' = Each(0)
  /\ opsSinceSnapshot' = Each(0)
  /\ pc' = Each("idle")
  /\ leaving' = {}
  /\ jobs' = <<>>
  /\ pendingSnapshot' = Each({})
  /\ snapshotQueued' = FALSE
  /\ pending' = Each(<<>>)
  /\ timerActive' = FALSE
  /\ batches' = Each(<<>>)
  /\ saves' = Each({})
  /\ phase' = "select"
  /\ closing' = FALSE
  /\ stopping' = FALSE
  /\ lost' = [d \in Documents |-> 1..applied[d] \ Numbers(log[d])]
  /\ UNCHANGED <<store, applied, dropped, failures>>

Crash ==
  /\ crashes < MaxCrashes
  /\ crashes' = crashes + 1
  /\ Reboot

(* The next start after a clean shutdown. *)
Restart ==
  /\ phase = "stopped" /\ open = {}
  /\ Reboot
  /\ UNCHANGED crashes
-----------------------------------------------------------------------------
RoomStep(d) == RequestSnapshot(d) \/ SendSignal(d) \/ ResetSignal(d)

WriterStep ==
  \/ TakeOperations
  \/ TakeSignal
  \/ TakeSnapshots
  \/ FinishJob
  \/ \E d \in Documents : \/ WriteBatch(d)
                          \/ WriteBatchFails(d)
                          \/ SaveSnapshot(d)
                          \/ SaveSnapshotFails(d)

Next ==
  \/ \E d \in Documents : \/ OpenRoom(d)
                          \/ ApplyOperation(d)
                          \/ SnapshotTick(d)
                          \/ LeaveRoom(d)
                          \/ RoomStep(d)
  \/ WriterStep
  \/ TimerFires
  \/ Shutdown
  \/ CloseWriter
  \/ Crash
  \/ Restart

Spec == Init /\ [][Next]_vars

(***************************************************************************)
(* Fairness: the goroutines of the writer and of the rooms are scheduled,  *)
(* and a running timer fires; nothing is assumed of users, of the snapshot *)
(* ticker or of shutdown.                                                  *)
(***************************************************************************)
FairSpec == /\ Spec
            /\ WF_vars(WriterStep)
            /\ WF_vars(TimerFires)
            /\ \A d \in Documents : WF_vars(RoomStep(d))
-----------------------------------------------------------------------------
Op == [n : Nat \ {0}, needs : Nat]

IsOps(seq) == \A i \in DOMAIN seq : seq[i] \in Op

IsSnapshot(s) == s.content \subseteq Nat \ {0} /\ s.version \in Nat

AtMostOne(S) == \A s, t \in S : s = t

(* Type invariant of the store, the rooms and the writer. *)
TypeOK ==
  /\ \A d \in Documents :
       /\ IsOps(log[d]) /\ IsOps(pending[d]) /\ IsOps(batches[d])
       /\ \A s \in {snapshot[d]} \cup pendingSnapshot[d] \cup saves[d] : IsSnapshot(s)
       /\ AtMostOne(pendingSnapshot[d]) /\ AtMostOne(saves[d])
       /\ content[d] \subseteq 1..applied[d]
       /\ lost[d] \subseteq 1..applied[d]
  /\ open \subseteq Documents /\ leaving \subseteq open
  /\ sequence \in [Documents -> Nat]
  /\ opsSinceSnapshot \in [Documents -> Nat]
  /\ pc \in [Documents -> {"idle", "request", "signal", "reset"}]
  /\ Len(jobs) <= QueueSize
  /\ \A i \in DOMAIN jobs :
       \/ jobs[i] \in {SignalJob, CloseJob}
       \/ jobs[i] \in [kind : {"operations"}, doc : Documents, op : Op]
  /\ phase \in {"select", "flush", "save", "stopped"}
  /\ {snapshotQueued, timerActive, closing, stopping, dropped} \subseteq BOOLEAN
  /\ applied \in [Documents -> 0..MaxOps]
  /\ failures \in 0..MaxFailures /\ crashes \in 0..MaxCrashes

(* The operations of a document in the log, and with the writer on their   *)
(* way into it; behind them are those in the queue.                        *)
Trail(d) == log[d] \o batches[d] \o pending[d]

Waiting(d) == {jobs[i].op.n : i \in Queued(d)}

Rising(seq) == \A i, j \in DOMAIN seq : i < j => seq[i].n < seq[j].n

(***************************************************************************)
(* Every operation a room accepted is in the log, on its way there, or was *)
(* dropped by a full queue, a failed transaction or a crash; never both,   *)
(* never twice, and the log keeps the order in which they were accepted.   *)
(***************************************************************************)
NothingLostSilently ==
  \A d \in Documents :
    /\ Numbers(Trail(d)) \cup Waiting(d) \cup lost[d] = 1..applied[d]
    /\ (Numbers(Trail(d)) \cup Waiting(d)) \cap lost[d] = {}
    /\ Rising(Trail(d))
    /\ \A m \in Numbers(Trail(d)), n \in Waiting(d) : m < n
    /\ \A i, j \in Queued(d) : i < j => jobs[i].op.n < jobs[j].op.n

(***************************************************************************)
(* Unless an operation was dropped or the server crashed, what can be      *)
(* loaded at any moment is a prefix of the edits that includes all of the  *)
(* log: the version of a snapshot agrees with the rows it replaces, also   *)
(* when the snapshot was saved before its last operations.                 *)
(***************************************************************************)
RecoverablePrefix ==
  crashes = 0 =>
    \A d \in Documents : lost[d] = {} =>
      /\ Loadable(d)
      /\ \E k \in Len(log[d])..applied[d] : Recovered(d) = 1..k

(***************************************************************************)
(* A clean shutdown (rooms, then writer) leaves every operation in the     *)
(* store, also when its snapshots could not be saved or signalled.         *)
(***************************************************************************)
CleanShutdownKeepsAll ==
  phase = "stopped" /\ crashes = 0 =>
    \A d \in Documents : lost[d] = {} => Recovered(d) = 1..applied[d]

(***************************************************************************)
(* As long as the queue was never full, a pending snapshot is about to be  *)
(* taken: its signal is queued, a room is about to queue it, or the writer *)
(* is flushing on the way to takeSnapshots.                                *)
(***************************************************************************)
SnapshotSignalled ==
  ~dropped =>
    \A d \in Documents : pendingSnapshot[d] # {} =>
      \/ \E i \in DOMAIN jobs : jobs[i] = SignalJob
      \/ \E e \in Documents : pc[e] = "signal"
      \/ phase = "flush"

(***************************************************************************)
(* Every operation a room accepted is written or counted as lost in the    *)
(* end: a batch that is not full does not wait for more operations.        *)
(***************************************************************************)
OpsReachStore ==
  \A d \in Documents : \A n \in 1..MaxOps :
    n <= applied[d] ~> n \in Numbers(log[d]) \cup lost[d]
-----------------------------------------------------------------------------
(***************************************************************************)
(* docs/gopad-spec.md: "documents and their full edit history are not      *)
(* lost" by a restart.  What is in the log is part of the document that    *)
(* LoadDocument and BuildAt make.                                          *)
(***************************************************************************)
DurableIsRecovered == \A d \in Documents : Numbers(log[d]) \subseteq Recovered(d)
=============================================================================
