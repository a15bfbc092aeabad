------------------------- MODULE WriteBehind_proofs -------------------------
(***************************************************************************)
(* Theorems about WriteBehind for any documents, queue and batch sizes,    *)
(* failures and crashes: the invariant behind the account of operations,   *)
(* what appending and removing does to the sequences it is about, the      *)
(* steps that keep it, and the signal of a pending snapshot.               *)
(***************************************************************************)
EXTENDS History, TLAPS

JobSet == [kind : {"operations"}, doc : Documents, op : Op] \cup {SignalJob, CloseJob}

SnapshotSet == [content : SUBSET Nat, version : Nat]

Types ==
  /\ log \in [Documents -> Seq(Op)]
  /\ batches \in [Documents -> Seq(Op)]
  /\ pending \in [Documents -> Seq(Op)]
  /\ jobs \in Seq(JobSet)
  /\ snapshot \in [Documents -> SnapshotSet]
  /\ pendingSnapshot \in [Documents -> SUBSET SnapshotSet]
  /\ saves \in [Documents -> SUBSET SnapshotSet]
  /\ content \in [Documents -> SUBSET Nat]
  /\ sequence \in [Documents -> Nat]
  /\ applied \in [Documents -> Nat]
  /\ lost \in [Documents -> SUBSET Nat]

Before(first, second) == \A m \in first, n \in second : m < n

(* The jobs of a document are in the order of their numbers. *)
InOrder(d) == \A i, j \in Queued(d) : i < j => jobs[i].op.n < jobs[j].op.n

(* NothingLostSilently, part by part. *)
Account(d) ==
  /\ Numbers(log[d]) \cup Numbers(batches[d]) \cup Numbers(pending[d])
       \cup Waiting(d) \cup lost[d] = 1..applied[d]
  /\ (Numbers(log[d]) \cup Numbers(batches[d]) \cup Numbers(pending[d]) \cup Waiting(d))
       \cap lost[d] = {}
  /\ Rising(log[d]) /\ Rising(batches[d]) /\ Rising(pending[d]) /\ InOrder(d)
  /\ Before(Numbers(log[d]), Numbers(batches[d]))
  /\ Before(Numbers(log[d]), Numbers(pending[d]))
  /\ Before(Numbers(batches[d]), Numbers(pending[d]))
  /\ Before(Numbers(log[d]), Waiting(d))
  /\ Before(Numbers(batches[d]), Waiting(d))
  /\ Before(Numbers(pending[d]), Waiting(d))

Inv == Types /\ \A d \in Documents : Account(d)
-----------------------------------------------------------------------------
(* Sequences of operations. *)
LEMMA NoNumbers == Numbers(<<>>) = {} /\ Rising(<<>>) /\ <<>> \in Seq(Op)
  BY DEF Numbers, Rising

LEMMA NumbersAreNumbers == ASSUME NEW s \in Seq(Op) PROVE Numbers(s) \subseteq Nat
<1>1. \A i \in DOMAIN s : s[i] \in Op
  OBVIOUS
<1>2. QED
  BY <1>1, Zenon DEF Numbers, Op

LEMMA ConcatNumbers ==
  ASSUME NEW s \in Seq(Op), NEW t \in Seq(Op)
  PROVE  /\ s \o t \in Seq(Op)
         /\ Numbers(s \o t) = Numbers(s) \cup Numbers(t)
         /\ Rising(s \o t) <=>
              Rising(s) /\ Rising(t) /\ Before(Numbers(s), Numbers(t))
<1> DEFINE u == s \o t
<1>1. /\ u \in Seq(Op) /\ Len(s) \in Nat /\ Len(t) \in Nat
      /\ DOMAIN s = 1..Len(s) /\ DOMAIN t = 1..Len(t)
      /\ DOMAIN u = 1..(Len(s) + Len(t))
      /\ \A i \in DOMAIN s : i \in DOMAIN u /\ u[i] = s[i]
      /\ \A i \in DOMAIN t : i + Len(s) \in DOMAIN u /\ u[i + Len(s)] = t[i]
  OBVIOUS
<1>2. \A i \in DOMAIN u : i \in DOMAIN s \/ (i - Len(s) \in DOMAIN t /\ u[i] = t[i - Len(s)])
  BY <1>1
<1> HIDE DEF u
<1>3. Numbers(u) = Numbers(s) \cup Numbers(t)
  <2>1. \A i \in DOMAIN s : s[i].n \in Numbers(u)
    BY <1>1, Zenon DEF Numbers
  <2>2. \A i \in DOMAIN t : t[i].n \in Numbers(u)
    BY <1>1, Zenon DEF Numbers
  <2>3. \A i \in DOMAIN u : u[i].n \in Numbers(s) \cup Numbers(t)
    BY <1>1, <1>2, Zenon DEF Numbers
  <2>4. QED
    BY <2>1, <2>2, <2>3, Zenon DEF Numbers
<1>4. ASSUME Rising(u) PROVE Rising(s) /\ Rising(t) /\ Before(Numbers(s), Numbers(t))
  <2>1. Rising(s)
    BY <1>1, <1>4, Zenon DEF Rising
  <2>2. Rising(t)
    BY <1>1, <1>4, SMTT(30) DEF Rising
  <2>3. ASSUME NEW i \in DOMAIN s, NEW j \in DOMAIN t PROVE s[i].n < t[j].n
    <3>1. i < j + Len(s)
      BY <1>1
    <3>2. QED
      BY <1>1, <1>4, <3>1, Zenon DEF Rising
  <2>4. QED
    BY <2>1, <2>2, <2>3, Zenon DEF Before, Numbers
<1>5. ASSUME Rising(s), Rising(t), Before(Numbers(s), Numbers(t)) PROVE Rising(u)
  <2>1. SUFFICES ASSUME NEW i \in DOMAIN u, NEW j \in DOMAIN u, i < j
                 PROVE  u[i].n < u[j].n
    BY Zenon DEF Rising
  <2>2. CASE i \in DOMAIN s /\ j \in DOMAIN s
    BY <1>1, <1>5, <2>1, <2>2, Zenon DEF Rising
  <2>3. CASE i \in DOMAIN s /\ j \notin DOMAIN s
    <3>1. u[i].n \in Numbers(s) /\ u[j].n \in Numbers(t)
      BY <1>1, <1>2, <2>3, Zenon DEF Numbers
    <3>2. QED
      BY <1>5, <3>1, Zenon DEF Before
  <2>4. CASE i \notin DOMAIN s
    <3>1. j \notin DOMAIN s
      BY <1>1, <2>1, <2>4
    <3>2. /\ i - Len(s) \in DOMAIN t /\ u[i] = t[i - Len(s)]
          /\ j - Len(s) \in DOMAIN t /\ u[j] = t[j - Len(s)]
          /\ i - Len(s) < j - Len(s)
      BY <1>1, <1>2, <2>1, <2>4, <3>1
    <3>3. QED
      BY <1>5, <3>2, Zenon DEF Rising
  <2>5. QED
    BY <2>2, <2>3, <2>4, Zenon
<1>6. QED
  BY <1>1, <1>3, <1>4, <1>5, Zenon DEF u

LEMMA AppendNumbers ==
  ASSUME NEW s \in Seq(Op), NEW o \in Op
  PROVE  /\ Append(s, o) \in Seq(Op)
         /\ Numbers(Append(s, o)) = Numbers(s) \cup {o.n}
         /\ Rising(s) /\ Before(Numbers(s), {o.n}) => Rising(Append(s, o))
<1>1. PICK t : t \in Seq(Op) /\ t = <<o>>
  <2>1. <<o>> \in Seq(Op)
    OBVIOUS
  <2>2. QED
    BY <2>1, Zenon
<1>2. Numbers(t) = {o.n} /\ Rising(t)
  BY <1>1 DEF Numbers, Rising
<1>3. PICK u : u = s \o t
  BY Zenon
<1>4. u = Append(s, o)
  BY <1>1, <1>3
<1>5. /\ u \in Seq(Op) /\ Numbers(u) = Numbers(s) \cup Numbers(t)
      /\ Rising(u) <=> Rising(s) /\ Rising(t) /\ Before(Numbers(s), Numbers(t))
  BY <1>1, <1>3, ConcatNumbers, Zenon
<1>6. QED
  BY <1>2, <1>4, <1>5, Zenon

-----------------------------------------------------------------------------
(* The queue. *)
LEMMA JobTypes ==
  /\ SignalJob \in JobSet /\ CloseJob \in JobSet
  /\ SignalJob.kind # "operations" /\ CloseJob.kind # "operations"
  /\ \A e \in Documents, o \in Op : /\ OpsJob(e, o) \in JobSet
                                    /\ OpsJob(e, o).kind = "operations"
                                    /\ OpsJob(e, o).doc = e /\ OpsJob(e, o).op = o
  BY Zenon DEF SignalJob, CloseJob, OpsJob, JobSet

PlacesIn(q, d) == {i \in DOMAIN q : q[i].kind = "operations" /\ q[i].doc = d}

NumbersIn(q, d) == {q[i].op.n : i \in PlacesIn(q, d)}

OrderedIn(q, d) == \A i, j \in PlacesIn(q, d) : i < j => q[i].op.n < q[j].op.n

LEMMA QueueViews ==
  ASSUME NEW d
  PROVE  /\ Waiting(d) = NumbersIn(jobs, d) /\ Waiting(d)' = NumbersIn(jobs', d)
         /\ InOrder(d) = OrderedIn(jobs, d) /\ InOrder(d)' = OrderedIn(jobs', d)
  BY Zenon DEF Waiting, InOrder, Queued, NumbersIn, OrderedIn, PlacesIn

LEMMA AppendJob ==
  ASSUME NEW q \in Seq(JobSet), NEW job \in JobSet, NEW r, r = Append(q, job), NEW d
  PROVE  /\ r \in Seq(JobSet)
         /\ job.kind # "operations" \/ job.doc # d =>
              NumbersIn(r, d) = NumbersIn(q, d) /\ (OrderedIn(q, d) => OrderedIn(r, d))
         /\ job.kind = "operations" /\ job.doc = d =>
              /\ NumbersIn(r, d) = NumbersIn(q, d) \cup {job.op.n}
              /\ OrderedIn(q, d) /\ Before(NumbersIn(q, d), {job.op.n}) => OrderedIn(r, d)
<1>1. PICK last : last = Len(q) + 1
  BY Zenon
<1>2. /\ r \in Seq(JobSet)
      /\ DOMAIN r = DOMAIN q \cup {last} /\ r[last] = job
      /\ \A i \in DOMAIN q : i < last /\ ~(last < i) /\ r[i] = q[i]
      /\ ~(last < last)
  BY <1>1
<1>3. CASE job.kind # "operations" \/ job.doc # d
  <2>1. PlacesIn(r, d) = PlacesIn(q, d) /\ \A i \in PlacesIn(q, d) : r[i] = q[i]
    BY <1>2, <1>3, Zenon DEF PlacesIn
  <2>2. NumbersIn(r, d) = NumbersIn(q, d) /\ (OrderedIn(q, d) => OrderedIn(r, d))
    BY <2>1, ZenonT(60) DEF NumbersIn, OrderedIn
  <2>3. QED
    BY <1>2, <1>3, <2>2, Zenon
<1>4. CASE job.kind = "operations" /\ job.doc = d
  <2>1. /\ PlacesIn(r, d) = PlacesIn(q, d) \cup {last}
        /\ \A i \in PlacesIn(q, d) : i < last /\ ~(last < i) /\ r[i] = q[i]
    BY <1>2, <1>4, Zenon DEF PlacesIn
  <2>2. NumbersIn(r, d) = NumbersIn(q, d) \cup {job.op.n}
    <3>1. \A i \in PlacesIn(q, d) : r[i].op.n = q[i].op.n
      BY <2>1, Zenon
    <3>2. r[last].op.n = job.op.n
      BY <1>2, Zenon
    <3>3. /\ \A i \in PlacesIn(r, d) : r[i].op.n \in NumbersIn(q, d) \cup {job.op.n}
          /\ \A i \in PlacesIn(q, d) : q[i].op.n \in NumbersIn(r, d)
          /\ job.op.n \in NumbersIn(r, d)
      BY <2>1, <3>1, <3>2, Zenon DEF NumbersIn
    <3>4. QED
      BY <3>3, ZenonT(60) DEF NumbersIn
  <2>3. \A i \in PlacesIn(q, d) : q[i].op.n \in NumbersIn(q, d)
    BY Zenon DEF NumbersIn
  <2>4. OrderedIn(q, d) /\ Before(NumbersIn(q, d), {job.op.n}) => OrderedIn(r, d)
    BY <1>2, <2>1, <2>3, ZenonT(30) DEF OrderedIn, Before
  <2>5. QED
    BY <1>2, <1>4, <2>2, <2>4, Zenon
<1>5. QED
  BY <1>3, <1>4, Zenon

LEMMA TailJob ==
  ASSUME NEW q \in Seq(JobSet), q # <<>>, NEW job, job = Head(q), NEW r, r = Tail(q), NEW d
  PROVE  /\ r \in Seq(JobSet)
         /\ OrderedIn(q, d) => OrderedIn(r, d)
         /\ NumbersIn(q, d) \subseteq NumbersIn(r, d) \/ (job.kind = "operations" /\ job.doc = d)
         /\ NumbersIn(r, d) \subseteq NumbersIn(q, d)
         /\ job.kind = "operations" /\ job.doc = d =>
              /\ NumbersIn(q, d) = NumbersIn(r, d) \cup {job.op.n}
              /\ OrderedIn(q, d) => Before({job.op.n}, NumbersIn(r, d))
<1>1. /\ r \in Seq(JobSet)
      /\ 1 \in DOMAIN q /\ q[1] = job
      /\ \A i \in DOMAIN r : i + 1 \in DOMAIN q /\ 1 < i + 1 /\ r[i] = q[i + 1]
      /\ \A i \in DOMAIN q : i = 1 \/ (i - 1 \in DOMAIN r /\ r[i - 1] = q[i])
      /\ \A i, j \in DOMAIN r : i < j => i + 1 < j + 1
  OBVIOUS
<1>2. /\ \A i \in PlacesIn(r, d) : i + 1 \in PlacesIn(q, d) /\ 1 < i + 1 /\ r[i] = q[i + 1]
      /\ \A i \in PlacesIn(q, d) : i = 1 \/ (i - 1 \in PlacesIn(r, d) /\ r[i - 1] = q[i])
      /\ \A i, j \in PlacesIn(r, d) : i < j => i + 1 < j + 1
      /\ 1 \in PlacesIn(q, d) <=> job.kind = "operations" /\ job.doc = d
  BY <1>1, Zenon DEF PlacesIn
<1>3. OrderedIn(q, d) => OrderedIn(r, d)
  BY <1>2, ZenonT(30) DEF OrderedIn
<1>4. NumbersIn(r, d) \subseteq NumbersIn(q, d)
  <2>1. ASSUME NEW i \in PlacesIn(r, d) PROVE r[i].op.n \in NumbersIn(q, d)
    <3>1. PICK j \in PlacesIn(q, d) : r[i] = q[j]
      BY <1>2, Zenon
    <3>2. QED
      BY <3>1, Zenon DEF NumbersIn
  <2>2. QED
    BY <2>1, Zenon DEF NumbersIn
<1>5. \A v \in NumbersIn(q, d) : v \in NumbersIn(r, d) \/ (1 \in PlacesIn(q, d) /\ v = job.op.n)
  <2>1. ASSUME NEW i \in PlacesIn(q, d), i # 1 PROVE q[i].op.n \in NumbersIn(r, d)
    <3>1. PICK j \in PlacesIn(r, d) : r[j] = q[i]
      BY <1>2, <2>1, Zenon
    <3>2. QED
      BY <3>1, Zenon DEF NumbersIn
  <2>2. QED
    BY <1>1, <2>1, ZenonT(30) DEF NumbersIn
<1>6. 1 \in PlacesIn(q, d) => job.op.n \in NumbersIn(q, d)
  BY <1>1, Zenon DEF NumbersIn
<1>7. ASSUME OrderedIn(q, d), 1 \in PlacesIn(q, d) PROVE Before({job.op.n}, NumbersIn(r, d))
  <2>1. \A i \in PlacesIn(r, d) : job.op.n < r[i].op.n
    BY <1>1, <1>2, <1>7, Zenon DEF OrderedIn
  <2>2. QED
    BY <2>1, Zenon DEF Before, NumbersIn
<1>8. QED
  BY <1>1, <1>2, <1>3, <1>4, <1>5, <1>6, <1>7, Zenon


LEMMA TailOtherJob ==
  ASSUME NEW q \in Seq(JobSet), q # <<>>, NEW r, r = Tail(q), NEW d,
         ~(Head(q).kind = "operations" /\ Head(q).doc = d)
  PROVE  NumbersIn(r, d) = NumbersIn(q, d) /\ (OrderedIn(q, d) => OrderedIn(r, d))
<1>1. PICK job : job = Head(q)
  BY Zenon
<1>2. ~(job.kind = "operations" /\ job.doc = d)
  BY <1>1, Zenon
<1>3. OrderedIn(q, d) => OrderedIn(r, d)
  BY <1>1, TailJob, Zenon
<1>4. NumbersIn(r, d) \subseteq NumbersIn(q, d)
  BY <1>1, TailJob, Zenon
<1>5. NumbersIn(q, d) \subseteq NumbersIn(r, d) \/ (job.kind = "operations" /\ job.doc = d)
  BY <1>1, TailJob, Zenon
<1>6. QED
  BY <1>2, <1>3, <1>4, <1>5, Zenon

-----------------------------------------------------------------------------
(* Steps that leave the operations where they are. *)
LEMMA AccountKept ==
  ASSUME NEW d, Account(d),
         log'[d] = log[d], batches'[d] = batches[d], pending'[d] = pending[d],
         Waiting(d)' = Waiting(d), InOrder(d) => InOrder(d)',
         lost'[d] = lost[d], applied'[d] = applied[d]
  PROVE  Account(d)'
  BY Zenon DEF Account

LEMMA LedgerSame ==
  ASSUME Inv, Types', UNCHANGED <<log, batches, pending, jobs, lost, applied>>
  PROVE  Inv'
<1>1. ASSUME NEW d \in Documents PROVE Account(d)'
  <2>1. Waiting(d)' = Waiting(d) /\ InOrder(d)' = InOrder(d)
    BY QueueViews, Zenon
  <2>2. QED
    BY <2>1, AccountKept, Zenon DEF Inv
<1>2. QED
  BY <1>1, Zenon DEF Inv

LEMMA NoOperationQueued ==
  ASSUME Inv, NEW job \in {SignalJob, CloseJob}, jobs' = Append(jobs, job), Types',
         UNCHANGED <<log, batches, pending, lost, applied>>
  PROVE  Inv'
<1>1. job \in JobSet /\ job.kind # "operations"
  BY JobTypes, Zenon
<1>2. ASSUME NEW d \in Documents PROVE Account(d)'
  <2>1. NumbersIn(jobs', d) = NumbersIn(jobs, d) /\ (OrderedIn(jobs, d) => OrderedIn(jobs', d))
    BY <1>1, AppendJob, Zenon DEF Inv, Types
  <2>2. Waiting(d)' = Waiting(d) /\ (InOrder(d) => InOrder(d)')
    BY <2>1, QueueViews, Zenon
  <2>3. QED
    BY <2>2, AccountKept, Zenon DEF Inv
<1>3. QED
  BY <1>2, Zenon DEF Inv

LEMMA RecoveredType ==
  ASSUME Types, NEW d \in Documents
  PROVE  Recovered(d) \in SUBSET Nat /\ LoadedSequence(d) \in Nat
<1>1. log[d] \in Seq(Op) /\ snapshot[d].content \subseteq Nat /\ snapshot[d].version \in Nat
  BY Zenon DEF Types, SnapshotSet
<1>2. Replayed(d) \in Seq(Op)
  BY <1>1, SMTT(30) DEF Replayed
<1>3. Numbers(Replayed(d)) \subseteq Nat
  BY <1>2, NumbersAreNumbers, Zenon
<1>4. QED
  BY <1>1, <1>3 DEF Recovered, LoadedSequence

LEMMA QuietDocumentSteps ==
  ASSUME Inv, NEW d \in Documents,
         \/ OpenRoom(d) \/ SnapshotTick(d) \/ LeaveRoom(d)
         \/ RequestSnapshot(d) \/ SendSignal(d) \/ ResetSignal(d)
         \/ SaveSnapshot(d) \/ SaveSnapshotFails(d)
  PROVE  Inv'
<1> USE DEF store, rooms, writer, counts
<1>1. CASE OpenRoom(d)
  <2>1. Types'
    BY <1>1, RecoveredType, Zenon DEF Inv, Types, OpenRoom
  <2>2. QED
    BY <1>1, <2>1, LedgerSame, Zenon DEF OpenRoom
<1>2. CASE SnapshotTick(d)
  BY <1>2, LedgerSame, Zenon DEF SnapshotTick, Inv, Types
<1>3. CASE LeaveRoom(d)
  BY <1>3, LedgerSame, Zenon DEF LeaveRoom, Inv, Types
<1>4. CASE RequestSnapshot(d)
  <2>1. Types'
    BY <1>4, SMTT(30) DEF RequestSnapshot, Inv, Types, SnapshotSet
  <2>2. QED
    BY <1>4, <2>1, LedgerSame, Zenon DEF RequestSnapshot
<1>5. CASE SendSignal(d)
  <2>1. CASE Len(jobs) < QueueSize
    <3>1. jobs' = Append(jobs, SignalJob) /\ SignalJob \in JobSet
      BY <1>5, <2>1, JobTypes, Zenon DEF SendSignal
    <3>2. jobs' \in Seq(JobSet)
      BY <3>1 DEF Inv, Types
    <3>3. Types'
      BY <1>5, <3>2, Zenon DEF SendSignal, Inv, Types
    <3>4. QED
      BY <1>5, <3>1, <3>3, NoOperationQueued, Zenon DEF SendSignal
  <2>2. CASE ~(Len(jobs) < QueueSize)
    BY <1>5, <2>2, LedgerSame, Zenon DEF SendSignal, Inv, Types
  <2>3. QED
    BY <2>1, <2>2, Zenon
<1>6. CASE ResetSignal(d)
  BY <1>6, LedgerSame, Zenon DEF ResetSignal, Inv, Types
<1>7. CASE SaveSnapshot(d)
  <2>1. Types'
    BY <1>7, Zenon DEF SaveSnapshot, Inv, Types
  <2>2. QED
    BY <1>7, <2>1, LedgerSame, Zenon DEF SaveSnapshot
<1>8. CASE SaveSnapshotFails(d)
  <2>1. Types'
    BY <1>8, Zenon DEF SaveSnapshotFails, Inv, Types
  <2>2. QED
    BY <1>8, <2>1, LedgerSame, Zenon DEF SaveSnapshotFails
<1>9. QED
  BY <1>1, <1>2, <1>3, <1>4, <1>5, <1>6, <1>7, <1>8, Zenon

LEMMA QuietWriterSteps ==
  ASSUME Inv, TakeSnapshots \/ FinishJob \/ Shutdown \/ CloseWriter
  PROVE  Inv'
<1> USE DEF store, rooms, writer, counts
<1>1. CASE TakeSnapshots
  <2>1. Types'
    BY <1>1, Zenon DEF TakeSnapshots, Inv, Types, Each
  <2>2. QED
    BY <1>1, <2>1, LedgerSame, Zenon DEF TakeSnapshots
<1>2. CASE FinishJob
  BY <1>2, LedgerSame, Zenon DEF FinishJob, Inv, Types
<1>3. CASE Shutdown
  BY <1>3, LedgerSame, Zenon DEF Shutdown, Inv, Types
<1>4. CASE CloseWriter
  <2>1. jobs' = Append(jobs, CloseJob) /\ CloseJob \in JobSet
    BY <1>4, JobTypes, Zenon DEF CloseWriter
  <2>2. jobs' \in Seq(JobSet)
    BY <2>1 DEF Inv, Types
  <2>3. Types'
    BY <1>4, <2>2, Zenon DEF CloseWriter, Inv, Types
  <2>4. QED
    BY <1>4, <2>1, <2>3, NoOperationQueued, Zenon DEF CloseWriter
<1>5. QED
  BY <1>1, <1>2, <1>3, <1>4, Zenon
-----------------------------------------------------------------------------
(* Steps that move operations. *)
LEMMA AccountBound ==
  ASSUME NEW d, Account(d)
  PROVE  /\ Numbers(log[d]) \subseteq 1..applied[d] /\ Numbers(batches[d]) \subseteq 1..applied[d]
         /\ Numbers(pending[d]) \subseteq 1..applied[d] /\ Waiting(d) \subseteq 1..applied[d]
         /\ lost[d] \subseteq 1..applied[d]
  BY Zenon DEF Account

LEMMA AccountFlushed ==
  ASSUME NEW d, Account(d), batches[d] = <<>>,
         log'[d] = log[d], batches'[d] = pending[d], pending'[d] = <<>>,
         Waiting(d)' = Waiting(d), InOrder(d) => InOrder(d)',
         lost'[d] = lost[d], applied'[d] = applied[d]
  PROVE  Account(d)'
<1>1. Numbers(<<>>) = {} /\ Rising(<<>>)
  BY NoNumbers, Zenon
<1>2. QED
  BY <1>1, Zenon DEF Account, Before

(* An operation that is put in the queue is the last one. *)
LEMMA AccountQueued ==
  ASSUME NEW d, NEW n, Account(d), 1..n = 1..applied[d] \cup {n},
         \A m \in 1..applied[d] : m < n /\ m # n, applied'[d] = n,
         UNCHANGED <<log, batches, pending, lost>>,
         Waiting(d)' = Waiting(d) \cup {n},
         InOrder(d) /\ Before(Waiting(d), {n}) => InOrder(d)'
  PROVE  Account(d)'
<1>1. /\ Numbers(log[d]) \subseteq 1..applied[d] /\ Numbers(batches[d]) \subseteq 1..applied[d]
      /\ Numbers(pending[d]) \subseteq 1..applied[d] /\ Waiting(d) \subseteq 1..applied[d]
      /\ lost[d] \subseteq 1..applied[d]
  BY AccountBound, Zenon
<1>2. /\ Before(Numbers(log[d]), {n}) /\ Before(Numbers(batches[d]), {n})
      /\ Before(Numbers(pending[d]), {n}) /\ Before(Waiting(d), {n}) /\ n \notin lost[d]
  BY <1>1, Zenon DEF Before
<1>3. QED
  BY <1>2 DEF Account, Before

LEMMA ApplyOperationStep ==
  ASSUME Inv, NEW d \in Documents, ApplyOperation(d)
  PROVE  Inv'
<1> USE DEF store, rooms, writer, counts
<1>1. PICK n : n = applied[d] + 1
  BY Zenon
<1>2. /\ applied[d] \in Nat /\ n \in Nat \ {0}
      /\ 1..n = 1..applied[d] \cup {n} /\ \A m \in 1..applied[d] : m < n /\ m # n
      /\ applied' = [applied EXCEPT ![d] = n] /\ applied'[d] = n
      /\ UNCHANGED <<log, batches, pending>>
      /\ \A e \in Documents \ {d} : applied'[e] = applied[e]
  BY <1>1, SMTT(30) DEF ApplyOperation, Inv, Types
<1>3. content' \in [Documents -> SUBSET Nat]
  BY <1>2, ZenonT(60) DEF ApplyOperation, Inv, Types
<1>4. /\ Account(d)
      /\ Numbers(log[d]) \subseteq 1..applied[d] /\ Numbers(batches[d]) \subseteq 1..applied[d]
      /\ Numbers(pending[d]) \subseteq 1..applied[d] /\ Waiting(d) \subseteq 1..applied[d]
      /\ lost[d] \subseteq 1..applied[d]
  BY AccountBound, Zenon DEF Inv
<1>5. CASE Len(jobs) < QueueSize
  <2>1. PICK p \in content[d] \cup {0} :
          jobs' = Append(jobs, OpsJob(d, [n |-> applied'[d], needs |-> p]))
    BY <1>5, Zenon DEF ApplyOperation
  <2>2. PICK o : o = [n |-> n, needs |-> p]
    BY Zenon
  <2>3. o \in Op /\ o.n = n
    BY <1>2, <2>2 DEF Inv, Types, Op
  <2>4. PICK job : job = OpsJob(d, o)
    BY Zenon
  <2>5. job \in JobSet /\ job.kind = "operations" /\ job.doc = d /\ job.op.n = n
    BY <2>3, <2>4, JobTypes, ZenonT(60)
  <2>6. jobs' = Append(jobs, job) /\ UNCHANGED lost
    BY <1>2, <1>5, <2>1, <2>2, <2>4, Zenon DEF ApplyOperation
  <2>7. Types'
    <3>1. jobs' \in Seq(JobSet)
      BY <2>5, <2>6 DEF Inv, Types
    <3>2. QED
      BY <1>2, <1>3, <2>6, <3>1, SMTT(30) DEF ApplyOperation, Inv, Types
  <2>8. ASSUME NEW e \in Documents \ {d} PROVE Account(e)'
    <3>1. NumbersIn(jobs', e) = NumbersIn(jobs, e) /\ (OrderedIn(jobs, e) => OrderedIn(jobs', e))
      BY <2>5, <2>6, AppendJob, ZenonT(60) DEF Inv, Types
    <3>2. Waiting(e)' = Waiting(e) /\ (InOrder(e) => InOrder(e)')
      BY <3>1, QueueViews, Zenon
    <3>3. QED
      BY <1>2, <2>6, <3>2, AccountKept, Zenon DEF Inv
  <2>9. Account(d)'
    <3>1. /\ NumbersIn(jobs', d) = NumbersIn(jobs, d) \cup {n}
          /\ OrderedIn(jobs, d) /\ Before(NumbersIn(jobs, d), {n}) => OrderedIn(jobs', d)
      BY <2>5, <2>6, AppendJob, ZenonT(30) DEF Inv, Types
    <3>2. /\ Waiting(d)' = Waiting(d) \cup {n}
          /\ InOrder(d) /\ Before(Waiting(d), {n}) => InOrder(d)'
      BY <3>1, QueueViews, Zenon
    <3>3. QED
      BY <1>2, <1>4, <2>6, <3>2, AccountQueued, Zenon
  <2>10. QED
    BY <2>7, <2>8, <2>9, Zenon DEF Inv
<1>6. CASE ~(Len(jobs) < QueueSize)
  <2>1. lost' = [lost EXCEPT ![d] = @ \cup {n}] /\ jobs' = jobs
    BY <1>2, <1>6, Zenon DEF ApplyOperation
  <2>2. Types'
    BY <1>2, <1>3, <2>1, SMTT(30) DEF ApplyOperation, Inv, Types
  <2>3. ASSUME NEW e \in Documents PROVE Waiting(e)' = Waiting(e) /\ InOrder(e)' = InOrder(e)
    BY <2>1, QueueViews, Zenon
  <2>4. ASSUME NEW e \in Documents \ {d} PROVE Account(e)'
    <3>1. lost'[e] = lost[e]
      BY <2>1, Zenon DEF Inv, Types
    <3>2. QED
      BY <1>2, <2>3, <3>1, AccountKept, Zenon DEF Inv
  <2>5. Account(d)'
    <3>1. Waiting(d)' = Waiting(d) /\ InOrder(d)' = InOrder(d)
      BY <2>3, Zenon
    <3>2. lost'[d] = lost[d] \cup {n}
      BY <2>1, Zenon DEF Inv, Types
    <3>3. QED
      BY <1>2, <1>4, <3>1, <3>2, ZenonT(30) DEF Account
  <2>6. QED
    BY <2>2, <2>4, <2>5, Zenon DEF Inv
<1>7. QED
  BY <1>5, <1>6, Zenon

LEMMA TakeOperationsStep ==
  ASSUME Inv, TakeOperations
  PROVE  Inv'
<1> USE DEF store, rooms, writer, counts
<1>q. jobs \in Seq(JobSet)
  BY Zenon DEF Inv, Types
<1>1. PICK job : job = Head(jobs)
  BY Zenon
<1>2. jobs # <<>> /\ job.kind = "operations" /\ jobs' = Tail(jobs)
  BY <1>1, Zenon DEF TakeOperations, JobIs
<1>3. job \in JobSet
  BY <1>1, <1>2 DEF Inv, Types
<1>4. job.doc \in Documents /\ job.op \in Op
  BY <1>2, <1>3 DEF JobSet, SignalJob, CloseJob
<1>5. PICK e \in Documents, o \in Op : e = job.doc /\ o = job.op
  BY <1>4, Zenon
<1>6. PICK p : p = [pending EXCEPT ![e] = Append(@, o)]
  BY Zenon
<1>7. p \in [Documents -> Seq(Op)] /\ p[e] = Append(pending[e], o)
      /\ \A d \in Documents \ {e} : p[d] = pending[d]
  BY <1>5, <1>6 DEF Inv, Types
<1>8. /\ batches = Each(<<>>)
      /\ \/ batches' = p /\ pending' = Each(<<>>)
         \/ pending' = p /\ batches' = batches
      /\ UNCHANGED <<log, lost, applied>>
  BY <1>1, <1>5, <1>6, Zenon DEF TakeOperations, AtSelect, Flushed, BufferOps, StartFlush
<1>9. <<>> \in Seq(Op) /\ Numbers(<<>>) = {} /\ Rising(<<>>)
  BY NoNumbers, Zenon
<1>10. jobs' \in Seq(JobSet)
  BY <1>2 DEF Inv, Types
<1>11. Types'
  BY <1>7, <1>8, <1>9, <1>10, Zenon DEF TakeOperations, Inv, Types, Each
<1>12. ASSUME NEW d \in Documents \ {e} PROVE Account(d)'
  <2>1. NumbersIn(jobs', d) = NumbersIn(jobs, d) /\ (OrderedIn(jobs, d) => OrderedIn(jobs', d))
    <3>1. ~(Head(jobs).kind = "operations" /\ Head(jobs).doc = d)
      BY <1>1, <1>5, Zenon
    <3>2. QED
      BY <1>q, <1>1, <1>2, <3>1, TailOtherJob, Zenon
  <2>2. Waiting(d)' = Waiting(d) /\ (InOrder(d) => InOrder(d)')
    BY <2>1, QueueViews, Zenon
  <2>3. CASE batches' = p /\ pending' = Each(<<>>)
    BY <1>7, <1>8, <2>2, <2>3, AccountFlushed, Zenon DEF Inv, Each
  <2>4. CASE pending' = p /\ batches' = batches
    BY <1>7, <1>8, <2>2, <2>4, AccountKept, Zenon DEF Inv
  <2>5. QED
    BY <1>8, <2>3, <2>4, Zenon
<1>13. Account(e)'
  <2>1. /\ NumbersIn(jobs, e) = NumbersIn(jobs', e) \cup {o.n}
        /\ OrderedIn(jobs, e) => OrderedIn(jobs', e) /\ Before({o.n}, NumbersIn(jobs', e))
    BY <1>q, <1>1, <1>2, <1>5, TailJob, ZenonT(60)
  <2>2. /\ Waiting(e) = Waiting(e)' \cup {o.n}
        /\ InOrder(e) => InOrder(e)' /\ Before({o.n}, Waiting(e)')
    BY <2>1, QueueViews, Zenon
  <2>3. Account(e) /\ batches[e] = <<>>
    BY <1>8, Zenon DEF Inv, Each
  <2>4. pending[e] \in Seq(Op)
    BY Zenon DEF Inv, Types
  <2>5. Before(Numbers(pending[e]), {o.n})
    BY <2>2, <2>3, Zenon DEF Account, Before
  <2>6. Numbers(p[e]) = Numbers(pending[e]) \cup {o.n} /\ Rising(p[e])
    BY <1>7, <2>3, <2>4, <2>5, AppendNumbers, Zenon DEF Account
  <2>7. CASE batches' = p /\ pending' = Each(<<>>)
    <3>1. batches'[e] = p[e] /\ pending'[e] = <<>>
      BY <2>7, Zenon DEF Each
    <3>2. QED
      BY <1>8, <1>9, <2>2, <2>3, <2>6, <3>1, ZenonT(60) DEF Account, Before
  <2>8. CASE pending' = p /\ batches' = batches
    <3>1. pending'[e] = p[e] /\ batches'[e] = <<>>
      BY <2>3, <2>8, Zenon
    <3>2. QED
      BY <1>8, <1>9, <2>2, <2>3, <2>6, <3>1, ZenonT(60) DEF Account, Before
  <2>9. QED
    BY <1>8, <2>7, <2>8, Zenon
<1>14. QED
  BY <1>11, <1>12, <1>13, Zenon DEF Inv

LEMMA FlushSteps ==
  ASSUME Inv, TimerFires \/ TakeSignal
  PROVE  Inv'
<1> USE DEF store, rooms, writer, counts
<1>q. jobs \in Seq(JobSet)
  BY Zenon DEF Inv, Types
<1>1. /\ batches = Each(<<>>) /\ batches' = pending /\ pending' = Each(<<>>)
      /\ UNCHANGED <<log, lost, applied, snapshot, pendingSnapshot, saves, content, sequence>>
  BY Zenon DEF TimerFires, TakeSignal, AtSelect, Flushed, StartFlush
<1>2. <<>> \in Seq(Op)
  BY NoNumbers, Zenon
<1>3. /\ jobs' \in Seq(JobSet)
      /\ \A d \in Documents : /\ NumbersIn(jobs', d) = NumbersIn(jobs, d)
                              /\ OrderedIn(jobs, d) => OrderedIn(jobs', d)
  <2>1. CASE TimerFires
    BY <2>1, Zenon DEF TimerFires, Inv, Types
  <2>2. CASE TakeSignal
    <3>1. PICK job : job = Head(jobs)
      BY Zenon
    <3>2. jobs # <<>> /\ job.kind # "operations" /\ jobs' = Tail(jobs)
      BY <2>2, <3>1, Zenon DEF TakeSignal, JobIs
    <3>3. jobs' \in Seq(JobSet)
      BY <1>q, <3>2
    <3>4. ASSUME NEW d \in Documents
          PROVE  /\ NumbersIn(jobs', d) = NumbersIn(jobs, d)
                 /\ OrderedIn(jobs, d) => OrderedIn(jobs', d)
      <4>1. ~(Head(jobs).kind = "operations" /\ Head(jobs).doc = d)
        BY <3>1, <3>2, Zenon
      <4>2. QED
        BY <1>q, <3>1, <3>2, <4>1, TailOtherJob, Zenon
    <3>5. QED
      BY <3>3, <3>4, Zenon
  <2>3. QED
    BY <2>1, <2>2, Zenon
<1>4. Types'
  BY <1>1, <1>2, <1>3, Zenon DEF Inv, Types, Each
<1>5. ASSUME NEW d \in Documents PROVE Account(d)'
  <2>1. Waiting(d)' = Waiting(d) /\ (InOrder(d) => InOrder(d)')
    BY <1>3, QueueViews, Zenon
  <2>2. QED
    BY <1>1, <2>1, AccountFlushed, Zenon DEF Inv, Each
<1>6. QED
  BY <1>4, <1>5, Zenon DEF Inv

LEMMA WriteBatchStep ==
  ASSUME Inv, NEW d \in Documents, WriteBatch(d)
  PROVE  Inv'
<1> USE DEF store, rooms, writer, counts
<1>1. log[d] \in Seq(Op) /\ batches[d] \in Seq(Op)
  BY Zenon DEF Inv, Types
<1>2. PICK u : u = log[d] \o batches[d]
  BY Zenon
<1>3. /\ u \in Seq(Op) /\ Numbers(u) = Numbers(log[d]) \cup Numbers(batches[d])
      /\ Rising(log[d]) /\ Rising(batches[d]) /\ Before(Numbers(log[d]), Numbers(batches[d]))
           => Rising(u)
  BY <1>1, <1>2, ConcatNumbers, Zenon
<1>4. <<>> \in Seq(Op) /\ Numbers(<<>>) = {} /\ Rising(<<>>)
  BY NoNumbers, Zenon
<1>5. /\ log' = [log EXCEPT ![d] = u] /\ batches' = [batches EXCEPT ![d] = <<>>]
      /\ UNCHANGED <<pending, jobs, lost, applied, snapshot, pendingSnapshot, saves,
                     content, sequence>>
  BY <1>2, Zenon DEF WriteBatch
<1>6. Types'
  BY <1>3, <1>4, <1>5, Zenon DEF Inv, Types
<1>7. ASSUME NEW e \in Documents PROVE Account(e)'
  <2>1. Waiting(e)' = Waiting(e) /\ InOrder(e)' = InOrder(e)
    BY <1>5, QueueViews, Zenon
  <2>2. CASE e # d
    BY <1>5, <2>1, <2>2, AccountKept, ZenonT(60) DEF Inv, Types
  <2>3. CASE e = d
    <3>1. log'[d] = u /\ batches'[d] = <<>> /\ Account(d)
      BY <1>5, Zenon DEF Inv, Types
    <3>2. QED
      BY <1>3, <1>4, <1>5, <2>1, <2>3, <3>1 DEF Account, Before
  <2>4. QED
    BY <2>2, <2>3, Zenon
<1>8. QED
  BY <1>6, <1>7, Zenon DEF Inv

LEMMA WriteBatchFailsStep ==
  ASSUME Inv, NEW d \in Documents, WriteBatchFails(d)
  PROVE  Inv'
<1> USE DEF store, rooms, writer, counts
<1>1. batches[d] \in Seq(Op)
  BY Zenon DEF Inv, Types
<1>2. Numbers(batches[d]) \subseteq Nat
  BY <1>1, NumbersAreNumbers, Zenon
<1>3. <<>> \in Seq(Op) /\ Numbers(<<>>) = {} /\ Rising(<<>>)
  BY NoNumbers, Zenon
<1>4. /\ lost' = [lost EXCEPT ![d] = @ \cup Numbers(batches[d])]
      /\ batches' = [batches EXCEPT ![d] = <<>>]
      /\ UNCHANGED <<log, pending, jobs, applied, snapshot, pendingSnapshot, saves,
                     content, sequence>>
  BY Zenon DEF WriteBatchFails
<1>5. Types'
  BY <1>2, <1>3, <1>4, Zenon DEF Inv, Types
<1>6. ASSUME NEW e \in Documents PROVE Account(e)'
  <2>1. Waiting(e)' = Waiting(e) /\ InOrder(e)' = InOrder(e)
    BY <1>4, QueueViews, Zenon
  <2>2. CASE e # d
    BY <1>4, <2>1, <2>2, AccountKept, Zenon DEF Inv, Types
  <2>3. CASE e = d
    <3>1. /\ lost'[d] = lost[d] \cup Numbers(batches[d]) /\ batches'[d] = <<>>
          /\ Account(d)
      BY <1>4, Zenon DEF Inv, Types
    <3>2. \A m \in Numbers(batches[d]) : ~(m < m)
      BY <1>2
    <3>3. QED
      BY <1>3, <1>4, <2>1, <2>3, <3>1, <3>2 DEF Account, Before
  <2>4. QED
    BY <2>2, <2>3, Zenon
<1>7. QED
  BY <1>5, <1>6, Zenon DEF Inv

LEMMA RebootStep ==
  ASSUME Inv, Reboot
  PROVE  Inv'
<1> USE DEF store
<1>1. <<>> \in Seq(Op) /\ Numbers(<<>>) = {} /\ Rising(<<>>)
  BY NoNumbers, Zenon
<1>2. Types'
  BY <1>1 DEF Reboot, Inv, Types, Each
<1>3. ASSUME NEW d \in Documents PROVE Account(d)'
  <2>1. Waiting(d)' = {} /\ InOrder(d)'
    BY DEF Reboot, Waiting, InOrder, Queued
  <2>2. /\ batches'[d] = <<>> /\ pending'[d] = <<>> /\ log'[d] = log[d]
        /\ applied'[d] = applied[d] /\ lost'[d] = (1..applied[d]) \ Numbers(log[d])
    BY Zenon DEF Reboot, Each
  <2>3. Account(d)
    BY Zenon DEF Inv
  <2>4. QED
    BY <1>1, <2>1, <2>2, <2>3, Zenon DEF Account, Before
<1>4. QED
  BY <1>2, <1>3, Zenon DEF Inv

-----------------------------------------------------------------------------
LEMMA InitInv == Init => Inv
<1> SUFFICES ASSUME Init PROVE Inv
  BY Zenon
<1>1. <<>> \in Seq(Op) /\ Numbers(<<>>) = {} /\ Rising(<<>>)
  BY NoNumbers, Zenon
<1>2. Types
  BY <1>1 DEF Init, Types, Each, SnapshotSet
<1>3. ASSUME NEW d \in Documents PROVE Account(d)
  <2>1. Waiting(d) = {} /\ InOrder(d)
    BY DEF Init, Waiting, InOrder, Queued
  <2>2. /\ batches[d] = <<>> /\ pending[d] = <<>> /\ log[d] = <<>>
        /\ 1..applied[d] = {} /\ lost[d] = {}
    BY DEF Init, Each
  <2>3. QED
    BY <1>1, <2>1, <2>2, Zenon DEF Account, Before
<1>4. QED
  BY <1>2, <1>3, Zenon DEF Inv

LEMMA StepInv == Inv /\ [Next]_vars => Inv'
<1> SUFFICES ASSUME Inv, [Next]_vars PROVE Inv'
  BY Zenon
<1>1. CASE UNCHANGED vars
  <2>1. Types' /\ UNCHANGED <<log, batches, pending, jobs, lost, applied>>
    BY <1>1, Zenon DEF vars, store, rooms, writer, counts, Inv, Types
  <2>2. QED
    BY <2>1, LedgerSame, Zenon
<1>2. ASSUME NEW d \in Documents, ApplyOperation(d) PROVE Inv'
  BY <1>2, ApplyOperationStep, Zenon
<1>3. ASSUME NEW d \in Documents,
             OpenRoom(d) \/ SnapshotTick(d) \/ LeaveRoom(d) \/ RoomStep(d)
      PROVE  Inv'
  BY <1>3, QuietDocumentSteps, Zenon DEF RoomStep
<1>4. CASE WriterStep
  <2>1. CASE TakeOperations
    BY <2>1, TakeOperationsStep, Zenon
  <2>2. CASE TakeSignal
    BY <2>2, FlushSteps, Zenon
  <2>3. CASE TakeSnapshots \/ FinishJob
    BY <2>3, QuietWriterSteps, Zenon
  <2>4. ASSUME NEW d \in Documents, WriteBatch(d) PROVE Inv'
    BY <2>4, WriteBatchStep, Zenon
  <2>5. ASSUME NEW d \in Documents, WriteBatchFails(d) PROVE Inv'
    BY <2>5, WriteBatchFailsStep, Zenon
  <2>6. ASSUME NEW d \in Documents, SaveSnapshot(d) \/ SaveSnapshotFails(d) PROVE Inv'
    BY <2>6, QuietDocumentSteps, Zenon
  <2>7. QED
    BY <1>4, <2>1, <2>2, <2>3, <2>4, <2>5, <2>6, Zenon DEF WriterStep
<1>5. CASE TimerFires
  BY <1>5, FlushSteps, Zenon
<1>6. CASE Shutdown \/ CloseWriter
  BY <1>6, QuietWriterSteps, Zenon
<1>7. CASE Crash \/ Restart
  BY <1>7, RebootStep, Zenon DEF Crash, Restart
<1>8. QED
  BY <1>1, <1>2, <1>3, <1>4, <1>5, <1>6, <1>7, Zenon DEF Next

(* The parts of the account are those of the operations of the trail. *)
LEMMA AccountSuffices == Inv => NothingLostSilently
<1> SUFFICES ASSUME Inv, NEW d \in Documents
             PROVE  /\ Numbers(Trail(d)) \cup Waiting(d) \cup lost[d] = 1..applied[d]
                    /\ (Numbers(Trail(d)) \cup Waiting(d)) \cap lost[d] = {}
                    /\ Rising(Trail(d))
                    /\ \A m \in Numbers(Trail(d)), n \in Waiting(d) : m < n
                    /\ \A i, j \in Queued(d) : i < j => jobs[i].op.n < jobs[j].op.n
  BY Zenon DEF NothingLostSilently
<1>1. log[d] \in Seq(Op) /\ batches[d] \in Seq(Op) /\ pending[d] \in Seq(Op) /\ Account(d)
  BY Zenon DEF Inv, Types
<1>2. PICK s : s = log[d] \o batches[d]
  BY Zenon
<1>3. /\ s \in Seq(Op) /\ Numbers(s) = Numbers(log[d]) \cup Numbers(batches[d])
      /\ Rising(log[d]) /\ Rising(batches[d]) /\ Before(Numbers(log[d]), Numbers(batches[d]))
           => Rising(s)
  BY <1>1, <1>2, ConcatNumbers, Zenon
<1>4. PICK t : t = s \o pending[d]
  BY Zenon
<1>5. /\ Numbers(t) = Numbers(s) \cup Numbers(pending[d])
      /\ Rising(s) /\ Rising(pending[d]) /\ Before(Numbers(s), Numbers(pending[d]))
           => Rising(t)
  BY <1>1, <1>3, <1>4, ConcatNumbers, Zenon
<1>6. Trail(d) = t
  BY <1>2, <1>4, Zenon DEF Trail
<1>7. Rising(t)
  BY <1>1, <1>3, <1>5, Zenon DEF Account, Before
<1>8. Numbers(t) = Numbers(log[d]) \cup Numbers(batches[d]) \cup Numbers(pending[d])
  BY <1>3, <1>5, Zenon
<1>9. \A m \in Numbers(t), n \in Waiting(d) : m < n
  BY <1>1, <1>8, Zenon DEF Account, Before
<1>10. \A i, j \in Queued(d) : i < j => jobs[i].op.n < jobs[j].op.n
  BY <1>1, Zenon DEF Account, InOrder
<1>11. QED
  BY <1>1, <1>6, <1>7, <1>8, <1>9, <1>10, Zenon DEF Account

(* At every moment an operation accepted by a room is in the log, on its   *)
(* way there in order, or counted as lost, exactly one of the three:       *)
(* EnqueueOps, the batches of flush and AppendOperationBatch neither       *)
(* forget, repeat nor reorder one.                                         *)
THEOREM NothingLostSilentlyTheorem == Spec => []NothingLostSilently
<1>1. Init => Inv
  BY InitInv, Zenon
<1>2. Inv /\ [Next]_vars => Inv'
  BY StepInv, Zenon
<1>3. Inv => NothingLostSilently
  BY AccountSuffices, Zenon
<1>4. QED
  BY <1>1, <1>2, <1>3, PTL DEF Spec

-----------------------------------------------------------------------------
(***************************************************************************)
(* The signal of a pending snapshot.                                       *)
(***************************************************************************)
SignalWaits == \E i \in DOMAIN jobs : jobs[i] = SignalJob

Coming ==
  \/ SignalWaits
  \/ \E e \in Documents : pc[e] = "signal"
  \/ phase = "flush"

(* SnapshotSignalled needs the flag: EnqueueSnapshot sends no second       *)
(* signal while it is up, so it must be up only while a signal is coming.  *)
Signalling ==
  /\ pc \in [Documents -> {"idle", "request", "signal", "reset"}]
  /\ snapshotQueued \in BOOLEAN /\ dropped \in BOOLEAN
  /\ \A d \in Documents : pc[d] = "reset" => dropped
  /\ ~dropped => \A d \in Documents : pendingSnapshot[d] # {} => snapshotQueued
  /\ ~dropped /\ snapshotQueued => Coming

LEMMA AppendSignal ==
  ASSUME NEW q \in Seq(JobSet), NEW job, NEW r, r = Append(q, job)
  PROVE  /\ (\E i \in DOMAIN q : q[i] = SignalJob) => \E i \in DOMAIN r : r[i] = SignalJob
         /\ job = SignalJob => \E i \in DOMAIN r : r[i] = SignalJob
<1>1. PICK last : last = Len(q) + 1
  BY Zenon
<1>2. /\ last \in DOMAIN r /\ r[last] = job
      /\ \A i \in DOMAIN q : i \in DOMAIN r /\ r[i] = q[i]
  BY <1>1
<1>3. QED
  BY <1>2, Zenon

LEMMA TailSignal ==
  ASSUME NEW q \in Seq(JobSet), q # <<>>, Head(q) # SignalJob, NEW r, r = Tail(q),
         \E i \in DOMAIN q : q[i] = SignalJob
  PROVE  \E i \in DOMAIN r : r[i] = SignalJob
<1>1. PICK i \in DOMAIN q : q[i] = SignalJob
  BY Zenon
<1>2. i # 1
  BY <1>1
<1>3. i - 1 \in DOMAIN r /\ r[i - 1] = q[i]
  BY <1>2
<1>4. QED
  BY <1>1, <1>3, Zenon

LEMMA ComingKept ==
  ASSUME Signalling,
         SignalWaits => SignalWaits', phase = "flush" => phase' = "flush",
         pc' \in [Documents -> {"idle", "request", "signal", "reset"}],
         \A d \in Documents : pc[d] = "signal" <=> pc'[d] = "signal",
         \A d \in Documents : pc'[d] = "reset" => pc[d] = "reset",
         UNCHANGED <<snapshotQueued, pendingSnapshot>>, dropped' \in BOOLEAN,
         dropped => dropped'
  PROVE  Signalling'
  BY Zenon DEF Signalling, Coming

LEMMA SignalRoomSteps ==
  ASSUME Inv, Signalling, NEW d \in Documents,
         \/ OpenRoom(d) \/ ApplyOperation(d) \/ SnapshotTick(d) \/ LeaveRoom(d)
         \/ RoomStep(d)
  PROVE  Signalling'
<1>q. jobs \in Seq(JobSet) /\ dropped \in BOOLEAN
  BY Zenon DEF Inv, Types, Signalling
<1>p. pc \in [Documents -> {"idle", "request", "signal", "reset"}]
  BY Zenon DEF Signalling
<1>1. CASE OpenRoom(d)
  <2>1. SignalWaits => SignalWaits'
    BY <1>1, Zenon DEF OpenRoom, SignalWaits, writer
  <2>2. QED
    BY <1>p, <1>q, <1>1, <2>1, ComingKept, Zenon DEF OpenRoom, writer, counts
<1>2. CASE ApplyOperation(d)
  <2>1. SignalWaits => SignalWaits'
    <3>1. PICK job : jobs' = Append(jobs, job) \/ jobs' = jobs
      BY <1>2, Zenon DEF ApplyOperation
    <3>2. QED
      BY <1>q, <3>1, AppendSignal DEF SignalWaits
  <2>2. /\ pc[d] = "idle" /\ dropped' \in BOOLEAN /\ (dropped => dropped')
        /\ UNCHANGED <<phase, snapshotQueued, pendingSnapshot>>
    BY <1>q, <1>2, Zenon DEF ApplyOperation, Idle
  <2>3. pc' = [pc EXCEPT ![d] = "request"] \/ pc' = pc
    BY <1>p, <1>2, Zenon DEF ApplyOperation
  <2>4. QED
    BY <1>p, <2>1, <2>2, <2>3, ComingKept, Zenon
<1>3. CASE SnapshotTick(d) \/ LeaveRoom(d)
  <2>1. SignalWaits => SignalWaits'
    BY <1>3, Zenon DEF SnapshotTick, LeaveRoom, SignalWaits, writer
  <2>2. /\ pc[d] = "idle" /\ (pc' = [pc EXCEPT ![d] = "request"] \/ pc' = pc)
        /\ UNCHANGED <<phase, snapshotQueued, pendingSnapshot, dropped>>
    BY <1>3, Zenon DEF SnapshotTick, LeaveRoom, Idle, writer, counts
  <2>3. QED
    BY <1>p, <1>q, <2>1, <2>2, ComingKept, Zenon
<1>4. CASE RequestSnapshot(d)
  <2>1. SignalWaits => SignalWaits'
    BY <1>4, Zenon DEF RequestSnapshot, SignalWaits
  <2>2. /\ pc[d] = "request" /\ UNCHANGED <<phase, dropped>> /\ snapshotQueued' = TRUE
        /\ pc' = [pc EXCEPT ![d] = IF snapshotQueued THEN "idle" ELSE "signal"]
    BY <1>4, Zenon DEF RequestSnapshot, Return, counts
  <2>3. QED
    BY <2>1, <2>2, Zenon DEF Signalling, Coming
<1>5. CASE SendSignal(d)
  <2>1. CASE Len(jobs) < QueueSize
    <3>1. SignalWaits'
      <4>1. jobs' = Append(jobs, SignalJob)
        BY <1>5, <2>1, Zenon DEF SendSignal
      <4>2. QED
        BY <1>q, <4>1, AppendSignal DEF SignalWaits
    <3>2. /\ pc' = [pc EXCEPT ![d] = "idle"]
          /\ UNCHANGED <<phase, dropped, snapshotQueued, pendingSnapshot>>
      BY <1>5, <2>1, Zenon DEF SendSignal, Return
    <3>3. QED
      BY <3>1, <3>2, Zenon DEF Signalling, Coming
  <2>2. CASE ~(Len(jobs) < QueueSize)
    BY <1>5, <2>2, Zenon DEF SendSignal, Signalling
  <2>3. QED
    BY <2>1, <2>2, Zenon
<1>6. CASE ResetSignal(d)
  BY <1>6, Zenon DEF ResetSignal, Return, counts, Signalling
<1>7. QED
  BY <1>1, <1>2, <1>3, <1>4, <1>5, <1>6, Zenon DEF RoomStep

LEMMA SignalWriterSteps ==
  ASSUME Inv, Signalling, WriterStep \/ TimerFires \/ Shutdown \/ CloseWriter
  PROVE  Signalling'
<1> USE DEF store, rooms, writer, counts
<1>q. jobs \in Seq(JobSet)
  BY Zenon DEF Inv, Types
<1>1. CASE TakeOperations
  <2>1. jobs # <<>> /\ Head(jobs) # SignalJob /\ jobs' = Tail(jobs)
    BY <1>1 DEF TakeOperations, JobIs, SignalJob
  <2>2. SignalWaits => SignalWaits'
    BY <1>q, <2>1, TailSignal, Zenon DEF SignalWaits
  <2>3. QED
    BY <1>1, <2>2, ComingKept, Zenon DEF TakeOperations, Signalling
<1>2. CASE TakeSignal
  BY <1>2, Zenon DEF TakeSignal, Signalling, Coming
<1>3. CASE TakeSnapshots
  BY <1>3, Zenon DEF TakeSnapshots, SignalAfterTake, Each, Signalling
<1>4. CASE FinishJob
  <2>1. phase # "flush" /\ (SignalWaits => SignalWaits')
    BY <1>4, Zenon DEF FinishJob, SignalWaits
  <2>2. QED
    BY <1>4, <2>1, ComingKept, Zenon DEF FinishJob, Signalling
<1>5. ASSUME NEW d \in Documents, WriteBatch(d) \/ WriteBatchFails(d) PROVE Signalling'
  <2>1. /\ SignalWaits => SignalWaits'
        /\ UNCHANGED <<pc, phase, dropped, snapshotQueued, pendingSnapshot>>
    BY <1>5, Zenon DEF WriteBatch, WriteBatchFails, SignalWaits
  <2>2. QED
    BY <2>1, ComingKept, Zenon DEF Signalling
<1>6. ASSUME NEW d \in Documents, SaveSnapshot(d) \/ SaveSnapshotFails(d) PROVE Signalling'
  <2>1. /\ SignalWaits => SignalWaits'
        /\ UNCHANGED <<pc, phase, dropped, snapshotQueued, pendingSnapshot>>
    BY <1>6, Zenon DEF SaveSnapshot, SaveSnapshotFails, SignalWaits
  <2>2. QED
    BY <2>1, ComingKept, Zenon DEF Signalling
<1>7. CASE TimerFires \/ Shutdown
  <2>1. /\ SignalWaits => SignalWaits'
        /\ UNCHANGED <<pc, phase, dropped, snapshotQueued, pendingSnapshot>>
    BY <1>7, Zenon DEF TimerFires, Shutdown, SignalWaits
  <2>2. QED
    BY <2>1, ComingKept, Zenon DEF Signalling
<1>8. CASE CloseWriter
  <2>1. SignalWaits => SignalWaits'
    BY <1>q, <1>8, AppendSignal, ZenonT(60) DEF CloseWriter, SignalWaits
  <2>2. QED
    BY <1>8, <2>1, ComingKept, Zenon DEF CloseWriter, Signalling
<1>9. QED
  BY <1>1, <1>2, <1>3, <1>4, <1>5, <1>6, <1>7, <1>8, Zenon DEF WriterStep

LEMMA StepSignalling == Inv /\ Signalling /\ [Next]_vars => Signalling'
<1> SUFFICES ASSUME Inv, Signalling, [Next]_vars PROVE Signalling'
  BY Zenon
<1>1. CASE UNCHANGED vars
  <2>1. /\ SignalWaits => SignalWaits'
        /\ UNCHANGED <<pc, phase, dropped, snapshotQueued, pendingSnapshot>>
    BY <1>1, Zenon DEF vars, store, rooms, writer, counts, SignalWaits
  <2>2. QED
    BY <2>1, ComingKept, Zenon DEF Signalling
<1>2. CASE Crash \/ Restart
  BY <1>2, Zenon DEF Crash, Restart, Reboot, Each, Signalling
<1>3. QED
  BY <1>1, <1>2, SignalRoomSteps, SignalWriterSteps, Zenon DEF Next

(* As long as no job was dropped, a snapshot that EnqueueSnapshot put      *)
(* aside is about to be taken by takeSnapshots: the one flag snapshotQueued*)
(* suffices for all rooms, whatever their order at snapshotMu.             *)
THEOREM SnapshotSignalledTheorem == Spec => []SnapshotSignalled
<1>1. Init => Inv /\ Signalling
  BY InitInv, Zenon DEF Init, Each, Signalling
<1>2. Inv /\ Signalling /\ [Next]_vars => (Inv /\ Signalling)'
  BY StepInv, StepSignalling, Zenon
<1>3. Signalling => SnapshotSignalled
  BY Zenon DEF Signalling, Coming, SignalWaits, SnapshotSignalled
<1>4. QED
  BY <1>1, <1>2, <1>3, PTL DEF Spec

-----------------------------------------------------------------------------
(***************************************************************************)
(* What is read back from the store, by LoadDocument (WriteBehind) and by  *)
(* the points of the history view (History).                               *)
(***************************************************************************)


(* Operations numbered on from n, each naming an earlier one. *)
Counted(s, n) == \A i \in DOMAIN s : s[i].n = n + i /\ s[i].needs < s[i].n

(* A snapshot of the first operations, at most n, with their number. *)
Exact(s, n) == s.content = 1..s.version /\ s.version <= n

(* The kinds of the jobs of a queue: operations are before writerClose. *)
HasClose(q) == \E i \in DOMAIN q : q[i].kind = "close"

NoOps(q) == \A i \in DOMAIN q : q[i].kind # "operations"

CloseLast(q) ==
  \A i, j \in DOMAIN q : q[i].kind = "close" /\ q[j].kind = "operations" => j < i

Quiet(d) == PlacesIn(jobs, d) = {} /\ pending[d] = <<>> /\ batches[d] = <<>>

(***************************************************************************)
(* The order in which rooms and writer end: nothing of a document is on    *)
(* its way when its room ended, unless the server stops; writerClose is    *)
(* the last job, and behind it nothing is left in memory.                  *)
(***************************************************************************)
Lifecycle ==
  /\ open \subseteq Documents /\ leaving \subseteq open
  /\ pc \in [Documents -> {"idle", "request", "signal", "reset"}]
  /\ crashes \in Nat
  /\ \A d \in Documents : pc[d] # "idle" => d \in open
  /\ \A d \in leaving : pc[d] # "idle"
  /\ \A d \in Documents : d \in leaving \/ d \notin open => stopping \/ Quiet(d)
  /\ CloseLast(jobs)
  /\ HasClose(jobs) \/ closing => stopping /\ open = {}
  /\ phase = "stopped" => closing
  /\ closing => /\ NoOps(jobs) /\ pending = Each(<<>>) /\ phase # "select"
                /\ phase # "flush" => batches = Each(<<>>)

(* The operations of a document in a queue name earlier ones. *)
Backward(q, d) == \A i \in PlacesIn(q, d) : q[i].op.needs < q[i].op.n

(***************************************************************************)
(* While no operation of the document was lost and the server did not      *)
(* crash: the rows and what follows them are numbered without gaps, every  *)
(* snapshot is of the first operations, and the room has all of them.      *)
(***************************************************************************)
Whole(d) ==
  /\ Counted(log[d], 0) /\ Counted(batches[d], Len(log[d]))
  /\ Counted(pending[d], Len(log[d]) + Len(batches[d]))
  /\ Backward(jobs, d)
  /\ Exact(snapshot[d], applied[d])
  /\ \A s \in pendingSnapshot[d] \cup saves[d] : Exact(s, applied[d])
  /\ d \in open => content[d] = 1..applied[d] /\ sequence[d] = applied[d]
-----------------------------------------------------------------------------
(* Rows with consecutive numbers. *)
LEMMA CountedEmpty == ASSUME NEW n PROVE Counted(<<>>, n)
  BY DEF Counted

LEMMA CountedAppend ==
  ASSUME NEW s \in Seq(Op), NEW n \in Nat, Counted(s, n), NEW o \in Op,
         o.n = n + Len(s) + 1, o.needs < o.n
  PROVE  Counted(Append(s, o), n)
<1>1. PICK u : u = Append(s, o)
  BY Zenon
<1>2. /\ DOMAIN u = 1..(Len(s) + 1) /\ u[Len(s) + 1] = o /\ Len(s) \in Nat
      /\ \A i \in 1..Len(s) : i \in DOMAIN s /\ u[i] = s[i]
  BY <1>1
<1>3. \A i \in 1..Len(s) : u[i].n = n + i /\ u[i].needs < u[i].n
  BY <1>2, Zenon DEF Counted
<1>4. u[Len(s) + 1].n = n + (Len(s) + 1) /\ u[Len(s) + 1].needs < u[Len(s) + 1].n
  BY <1>2
<1>5. \A i \in DOMAIN u : i \in 1..Len(s) \/ i = Len(s) + 1
  BY <1>2
<1>6. QED
  BY <1>1, <1>3, <1>4, <1>5, Zenon DEF Counted

LEMMA CountedConcat ==
  ASSUME NEW s \in Seq(Op), NEW t \in Seq(Op), Counted(s, 0), Counted(t, Len(s))
  PROVE  Counted(s \o t, 0) /\ Len(s \o t) = Len(s) + Len(t)
<1>1. PICK u : u = s \o t
  BY Zenon
<1>2. /\ DOMAIN u = 1..(Len(s) + Len(t)) /\ Len(u) = Len(s) + Len(t)
      /\ Len(s) \in Nat /\ Len(t) \in Nat
      /\ \A i \in 1..Len(s) : i \in DOMAIN s /\ u[i] = s[i]
      /\ \A i \in (Len(s) + 1)..(Len(s) + Len(t)) :
           i - Len(s) \in DOMAIN t /\ u[i] = t[i - Len(s)]
  BY <1>1
<1>3. \A i \in DOMAIN u : u[i].n = 0 + i /\ u[i].needs < u[i].n
  BY <1>2 DEF Counted
<1>4. QED
  BY <1>1, <1>2, <1>3, Zenon DEF Counted

LEMMA CountedNumbers ==
  ASSUME NEW s \in Seq(Op), NEW n \in Nat, Counted(s, n)
  PROVE  Len(s) \in Nat /\ Numbers(s) = (n + 1)..(n + Len(s))
<1>1. Len(s) \in Nat /\ DOMAIN s = 1..Len(s)
  OBVIOUS
<1>2. \A i \in DOMAIN s : s[i].n \in (n + 1)..(n + Len(s))
  BY <1>1 DEF Counted
<1>3. \A m \in (n + 1)..(n + Len(s)) : m - n \in DOMAIN s /\ s[m - n].n = m
  BY <1>1 DEF Counted
<1>4. \A m \in (n + 1)..(n + Len(s)) : m \in Numbers(s)
  BY <1>3 DEF Numbers
<1>5. QED
  BY <1>1, <1>2, <1>4, SMTT(30) DEF Numbers

(* BuildAt: the rows after version v, up to row m, on the first v          *)
(* operations.                                                             *)
LEMMA ReplayedRows ==
  ASSUME NEW s \in Seq(Op), Counted(s, 0), NEW v \in Nat, NEW m \in 0..Len(s),
         NEW rows, rows = SubSeq(s, v + 1, m)
  PROVE  /\ 1..v \cup Numbers(rows) = 1..(IF v > m THEN v ELSE m)
         /\ \A i \in DOMAIN rows :
              rows[i].needs \in {0} \cup 1..v \cup Numbers(SubSeq(rows, 1, i - 1))
<1>1. CASE v >= m
  <2>1. rows = <<>>
    BY <1>1
  <2>2. Numbers(rows) = {}
    BY <2>1, NoNumbers, Zenon
  <2>3. DOMAIN rows = {}
    BY <2>1, SMTT(30)
  <2>4. v = IF v > m THEN v ELSE m
    BY <1>1
  <2>5. QED
    BY <2>2, <2>3, <2>4
<1>2. CASE v < m
  <2>1. /\ rows \in Seq(Op) /\ Len(rows) = m - v
        /\ \A i \in 1..(m - v) : rows[i] = s[v + i] /\ v + i \in DOMAIN s
    BY <1>2
  <2>2. Counted(rows, v)
    BY <1>2, <2>1, SMTT(30) DEF Counted
  <2>3. Numbers(rows) = (v + 1)..m
    <3>1. Numbers(rows) = (v + 1)..(v + Len(rows))
      BY <2>1, <2>2, CountedNumbers, Zenon
    <3>2. QED
      BY <1>2, <2>1, <3>1
  <2>4. ASSUME NEW i \in DOMAIN rows
        PROVE  rows[i].needs \in {0} \cup 1..v \cup Numbers(SubSeq(rows, 1, i - 1))
    <3>1. PICK t : t = SubSeq(rows, 1, i - 1)
      BY Zenon
    <3>2. /\ t \in Seq(Op) /\ Len(t) = i - 1
          /\ \A j \in 1..(i - 1) : t[j] = rows[j] /\ j \in DOMAIN rows
      BY <1>2, <2>1, <3>1, SMTT(30)
    <3>3. Counted(t, v)
      BY <2>2, <3>2, SMTT(30) DEF Counted
    <3>4. Numbers(t) = (v + 1)..(v + (i - 1))
      BY <3>2, <3>3, CountedNumbers, Zenon
    <3>5. i \in Nat /\ rows[i] \in Op /\ rows[i].needs < v + i
      BY <2>1, <2>2, SMTT(30) DEF Counted
    <3>6. rows[i].needs \in Nat
      BY <3>5, Zenon DEF Op
    <3>7. QED
      BY <3>1, <3>4, <3>5, <3>6, SMTT(30)
  <2>5. QED
    BY <1>2, <2>3, <2>4
<1>3. QED
  BY <1>1, <1>2

-----------------------------------------------------------------------------
(* The kinds of the jobs when one is added or taken. *)
LEMMA AppendKinds ==
  ASSUME NEW q \in Seq(JobSet), NEW job \in JobSet, NEW r, r = Append(q, job)
  PROVE  /\ HasClose(r) <=> HasClose(q) \/ job.kind = "close"
         /\ NoOps(r) <=> NoOps(q) /\ job.kind # "operations"
         /\ CloseLast(q) /\ (HasClose(q) => job.kind # "operations") => CloseLast(r)
         /\ \A d : job.kind # "operations" \/ job.doc # d =>
                    (PlacesIn(r, d) = {} <=> PlacesIn(q, d) = {})
<1>1. PICK last : last = Len(q) + 1
  BY Zenon
<1>2. /\ DOMAIN r = DOMAIN q \cup {last} /\ r[last] = job
      /\ \A i \in DOMAIN q : i < last /\ ~(last < i) /\ r[i] = q[i]
      /\ ~(last < last) /\ last \notin DOMAIN q
  BY <1>1
<1>3. HasClose(r) <=> HasClose(q) \/ job.kind = "close"
  BY <1>2, Zenon DEF HasClose
<1>4. NoOps(r) <=> NoOps(q) /\ job.kind # "operations"
  BY <1>2, Zenon DEF NoOps
<1>5. ASSUME CloseLast(q), HasClose(q) => job.kind # "operations" PROVE CloseLast(r)
  <2>1. job \in JobSet /\ ~(job.kind = "close" /\ job.kind = "operations")
    OBVIOUS
  <2>2. ASSUME NEW i \in DOMAIN r, NEW j \in DOMAIN r, r[i].kind = "close", r[j].kind = "operations"
        PROVE  j < i
    <3>1. CASE i = last
      BY <1>2, <2>1, <2>2, <3>1, Zenon
    <3>2. CASE i \in DOMAIN q /\ j = last
      BY <1>2, <1>5, <2>2, <3>2, Zenon DEF HasClose
    <3>3. CASE i \in DOMAIN q /\ j \in DOMAIN q
      BY <1>2, <1>5, <2>2, <3>3, Zenon DEF CloseLast
    <3>4. QED
      BY <1>2, <3>1, <3>2, <3>3, Zenon
  <2>3. QED
    BY <2>2, Zenon DEF CloseLast
<1>6. ASSUME NEW d, job.kind # "operations" \/ job.doc # d
      PROVE  PlacesIn(r, d) = {} <=> PlacesIn(q, d) = {}
  <2>1. PlacesIn(r, d) = PlacesIn(q, d)
    BY <1>2, <1>6 DEF PlacesIn
  <2>2. QED
    BY <2>1, Zenon
<1>7. QED
  BY <1>3, <1>4, <1>5, <1>6, Zenon

LEMMA TailKinds ==
  ASSUME NEW q \in Seq(JobSet), q # <<>>, NEW job, job = Head(q), NEW r, r = Tail(q)
  PROVE  /\ job \in JobSet
         /\ HasClose(r) => HasClose(q)
         /\ job.kind = "close" => HasClose(q)
         /\ NoOps(q) => NoOps(r)
         /\ CloseLast(q) => CloseLast(r)
         /\ CloseLast(q) /\ job.kind = "close" => NoOps(r)
         /\ \A d : PlacesIn(q, d) = {} =>
                    /\ PlacesIn(r, d) = {}
                    /\ ~(job.kind = "operations" /\ job.doc = d)
<1>1. /\ job \in JobSet /\ 1 \in DOMAIN q /\ q[1] = job
      /\ \A i \in DOMAIN r : i + 1 \in DOMAIN q /\ ~(i + 1 < 1) /\ r[i] = q[i + 1]
      /\ \A i, j \in DOMAIN r : i + 1 < j + 1 => i < j
  OBVIOUS
<1>2. HasClose(r) => HasClose(q)
  BY <1>1, Zenon DEF HasClose
<1>3. job.kind = "close" => HasClose(q)
  BY <1>1, Zenon DEF HasClose
<1>4. NoOps(q) => NoOps(r)
  BY <1>1, Zenon DEF NoOps
<1>5. ASSUME CloseLast(q) PROVE CloseLast(r)
  <2>1. SUFFICES ASSUME NEW i \in DOMAIN r, NEW j \in DOMAIN r,
                        r[i].kind = "close", r[j].kind = "operations"
                 PROVE  j < i
    BY Zenon DEF CloseLast
  <2>2. /\ i + 1 \in DOMAIN q /\ q[i + 1].kind = "close"
        /\ j + 1 \in DOMAIN q /\ q[j + 1].kind = "operations"
    BY <1>1, <2>1, Zenon
  <2>3. QED
    BY <1>1, <1>5, <2>1, <2>2, Zenon DEF CloseLast
<1>6. CloseLast(q) /\ job.kind = "close" => NoOps(r)
  BY <1>1, Zenon DEF CloseLast, NoOps
<1>7. ASSUME NEW d, PlacesIn(q, d) = {}
      PROVE  PlacesIn(r, d) = {} /\ ~(job.kind = "operations" /\ job.doc = d)
  <2>1. \A i \in DOMAIN q : ~(q[i].kind = "operations" /\ q[i].doc = d)
    BY <1>7, Zenon DEF PlacesIn
  <2>2. \A i \in DOMAIN r : ~(r[i].kind = "operations" /\ r[i].doc = d)
    BY <1>1, <2>1, ZenonT(60)
  <2>3. QED
    BY <1>1, <2>1, <2>2, Zenon DEF PlacesIn
<1>8. QED
  BY <1>1, <1>2, <1>3, <1>4, <1>5, <1>6, <1>7, Zenon

-----------------------------------------------------------------------------
(* One room goes on, with no operation added to the queue. *)
LEMMA RoomGoesOn ==
  ASSUME Lifecycle, NEW d \in open,
         UNCHANGED <<stopping, closing, phase, pending, batches, crashes>>,
         pc' \in [Documents -> {"idle", "request", "signal", "reset"}],
         \A e \in Documents \ {d} : pc'[e] = pc[e],
         open' \subseteq open, open \subseteq open' \cup {d},
         leaving' \subseteq leaving \cup {d}, leaving' \subseteq open',
         d \notin open' => pc'[d] = "idle", d \in leaving' => pc'[d] # "idle",
         d \in leaving' \/ d \notin open' => stopping \/ Quiet(d),
         HasClose(jobs') => HasClose(jobs), CloseLast(jobs'),
         NoOps(jobs) => NoOps(jobs'),
         \A e \in Documents : PlacesIn(jobs, e) = {} => PlacesIn(jobs', e) = {}
  PROVE  Lifecycle'
<1>1. \A e \in Documents : Quiet(e) => Quiet(e)'
  BY Zenon DEF Quiet
<1>2. \A e \in Documents : e \in leaving' \/ e \notin open' => stopping' \/ Quiet(e)'
  <2>1. \A e \in Documents : e # d /\ e \in leaving' => e \in leaving
    BY Zenon
  <2>2. \A e \in Documents : e # d /\ e \notin open' => e \notin open
    BY Zenon
  <2>3. QED
    BY <1>1, <2>1, <2>2, Zenon DEF Lifecycle
<1>3. open' \subseteq Documents
  BY Zenon DEF Lifecycle
<1>4. \A e \in Documents : pc'[e] # "idle" => e \in open'
  BY Zenon DEF Lifecycle
<1>5. \A e \in leaving' : pc'[e] # "idle"
  BY <1>3, Zenon DEF Lifecycle
<1>6. HasClose(jobs') \/ closing' => stopping' /\ open' = {}
  BY Zenon DEF Lifecycle
<1>7. closing' => /\ NoOps(jobs') /\ pending' = Each(<<>>) /\ phase' # "select"
                  /\ phase' # "flush" => batches' = Each(<<>>)
  BY Zenon DEF Lifecycle
<1>8. (phase' = "stopped" => closing') /\ crashes' \in Nat
  BY Zenon DEF Lifecycle
<1>9. QED
  BY <1>2, <1>3, <1>4, <1>5, <1>6, <1>7, <1>8, Zenon DEF Lifecycle

LEMMA LifecycleRoomSteps ==
  ASSUME Inv, Lifecycle, NEW d \in Documents,
         SnapshotTick(d) \/ LeaveRoom(d) \/ RoomStep(d)
  PROVE  Lifecycle'
<1>t. /\ pc \in [Documents -> {"idle", "request", "signal", "reset"}]
      /\ open \subseteq Documents /\ leaving \subseteq open /\ CloseLast(jobs)
      /\ d \in leaving => pc[d] # "idle" /\ (stopping \/ Quiet(d))
      /\ pc[d] # "idle" => d \in open
  BY Zenon DEF Lifecycle
<1>q. jobs \in Seq(JobSet)
  BY Zenon DEF Inv, Types
<1>1. CASE SnapshotTick(d)
  <2>1. /\ d \in open /\ pc[d] = "idle" /\ pc' = [pc EXCEPT ![d] = "request"]
        /\ UNCHANGED <<stopping, closing, phase, pending, batches, crashes, open, leaving, jobs>>
    BY <1>1, Zenon DEF SnapshotTick, Idle, writer, counts
  <2>2. pc' \in [Documents -> {"idle", "request", "signal", "reset"}]
        /\ \A e \in Documents \ {d} : pc'[e] = pc[e]
    BY <1>t, <2>1
  <2>3. QED
    BY <1>t, <2>1, <2>2, RoomGoesOn, Zenon
<1>2. CASE LeaveRoom(d)
  <2>1. /\ d \in open /\ pc[d] = "idle" /\ (stopping \/ Quiet(d)) /\ d \notin leaving
        /\ UNCHANGED <<stopping, closing, phase, pending, batches, crashes, jobs>>
    BY <1>t, <1>2, Zenon DEF LeaveRoom, Idle, writer, counts, Quiet, Queued, PlacesIn
  <2>2. CASE opsSinceSnapshot[d] = 0
    <3>1. open' = open \ {d} /\ pc' = pc /\ leaving' = leaving
      BY <1>2, <2>2, Zenon DEF LeaveRoom
    <3>2. /\ open' \subseteq open /\ open \subseteq open' \cup {d} /\ leaving' \subseteq open'
      BY <1>t, <2>1, <3>1, Zenon
    <3>3. QED
      BY <1>t, <2>1, <3>1, <3>2, RoomGoesOn, Zenon
  <2>3. CASE opsSinceSnapshot[d] # 0
    <3>1. open' = open /\ pc' = [pc EXCEPT ![d] = "request"] /\ leaving' = leaving \cup {d}
      BY <1>2, <2>3, Zenon DEF LeaveRoom
    <3>2. /\ pc' \in [Documents -> {"idle", "request", "signal", "reset"}]
          /\ \A e \in Documents \ {d} : pc'[e] = pc[e]
          /\ pc'[d] = "request" /\ leaving' \subseteq open'
      BY <1>t, <2>1, <3>1
    <3>3. QED
      BY <1>t, <2>1, <3>1, <3>2, RoomGoesOn, Zenon
  <2>4. QED
    BY <2>2, <2>3, Zenon
<1>3. ASSUME pc[d] # "idle",
             UNCHANGED <<stopping, closing, phase, pending, batches, crashes>>,
             jobs' = jobs \/ jobs' = Append(jobs, SignalJob),
             \/ Return(d)
             \/ /\ UNCHANGED <<open, leaving>>
                /\ \E to \in {"signal", "reset"} : pc' = [pc EXCEPT ![d] = to]
      PROVE  Lifecycle'
  <2>1. /\ HasClose(jobs') => HasClose(jobs)
        /\ CloseLast(jobs')
        /\ NoOps(jobs) => NoOps(jobs')
        /\ \A e \in Documents : PlacesIn(jobs, e) = {} => PlacesIn(jobs', e) = {}
    <3>1. SignalJob \in JobSet /\ SignalJob.kind = "snapshotSignal"
      BY DEF SignalJob, JobSet
    <3>2. SignalJob.kind # "operations" /\ SignalJob.kind # "close"
      BY <3>1
    <3>3. CASE jobs' = Append(jobs, SignalJob)
      BY <1>t, <1>q, <3>1, <3>2, <3>3, AppendKinds, Zenon
    <3>4. QED
      BY <1>t, <1>3, <3>3, Zenon
  <2>2. d \in open
    BY <1>t, <1>3, Zenon
  <2>3. CASE Return(d)
    <3>1. /\ pc' = [pc EXCEPT ![d] = "idle"]
          /\ open' = open \ (leaving \cap {d}) /\ leaving' = leaving \ {d}
      BY <2>3, Zenon DEF Return
    <3>2. /\ pc' \in [Documents -> {"idle", "request", "signal", "reset"}]
          /\ \A e \in Documents \ {d} : pc'[e] = pc[e]
          /\ pc'[d] = "idle"
      BY <1>t, <3>1
    <3>3. /\ open' \subseteq open /\ open \subseteq open' \cup {d}
          /\ leaving' \subseteq leaving \cup {d} /\ leaving' \subseteq open'
          /\ d \notin leaving' /\ (d \notin open' => d \in leaving)
      BY <1>t, <2>2, <3>1, Zenon
    <3>4. QED
      BY <1>t, <1>3, <2>1, <2>2, <3>2, <3>3, RoomGoesOn, Zenon
  <2>4. ASSUME UNCHANGED <<open, leaving>>,
               NEW to \in {"signal", "reset"}, pc' = [pc EXCEPT ![d] = to]
        PROVE  Lifecycle'
    <3>1. /\ pc' \in [Documents -> {"idle", "request", "signal", "reset"}]
          /\ \A e \in Documents \ {d} : pc'[e] = pc[e]
          /\ pc'[d] # "idle"
      BY <1>t, <2>4
    <3>2. QED
      BY <1>t, <1>3, <2>1, <2>2, <2>4, <3>1, RoomGoesOn, Zenon
  <2>5. QED
    BY <1>3, <2>3, <2>4, Zenon
<1>4. CASE RequestSnapshot(d)
  <2>1. pc[d] # "idle"
    BY <1>4 DEF RequestSnapshot
  <2>2. QED
    BY <1>3, <1>4, <2>1, Zenon DEF RequestSnapshot, counts
<1>5. CASE SendSignal(d)
  <2>1. pc[d] # "idle"
    BY <1>5 DEF SendSignal
  <2>2. QED
    BY <1>3, <1>5, <2>1, Zenon DEF SendSignal
<1>6. CASE ResetSignal(d)
  <2>1. pc[d] # "idle"
    BY <1>6 DEF ResetSignal
  <2>2. QED
    BY <1>3, <1>6, <2>1, Zenon DEF ResetSignal, counts
<1>7. QED
  BY <1>1, <1>2, <1>4, <1>5, <1>6, Zenon DEF RoomStep

LEMMA LifecycleOpenRoom ==
  ASSUME Lifecycle, NEW d \in Documents, OpenRoom(d)
  PROVE  Lifecycle'
<1>1. /\ open' = open \cup {d} /\ ~stopping
      /\ UNCHANGED <<stopping, closing, phase, pending, batches, crashes, leaving, pc, jobs>>
  BY Zenon DEF OpenRoom, writer, counts
<1>2. \A e \in Documents : Quiet(e)' <=> Quiet(e)
  BY <1>1, Zenon DEF Quiet
<1>3. QED
  BY <1>1, <1>2, Zenon DEF Lifecycle

LEMMA LifecycleApplyOperation ==
  ASSUME Inv, Lifecycle, NEW d \in Documents, ApplyOperation(d)
  PROVE  Lifecycle'
<1>t. /\ pc \in [Documents -> {"idle", "request", "signal", "reset"}]
      /\ d \in leaving => pc[d] # "idle"
  BY Zenon DEF Lifecycle
<1>q. jobs \in Seq(JobSet)
  BY Zenon DEF Inv, Types
<1>1. /\ d \in open /\ pc[d] = "idle"
      /\ UNCHANGED <<open, leaving, pending, batches, phase, closing, stopping, crashes>>
  BY Zenon DEF ApplyOperation, Idle
<1>2. ~HasClose(jobs) /\ ~closing /\ d \notin leaving
  BY <1>t, <1>1, Zenon DEF Lifecycle
<1>3. /\ pc' \in [Documents -> {"idle", "request", "signal", "reset"}]
      /\ \A e \in Documents \ {d} : pc'[e] = pc[e]
  <2>1. pc' = pc \/ pc' = [pc EXCEPT ![d] = "request"]
    BY <1>t, Zenon DEF ApplyOperation
  <2>2. QED
    BY <1>t, <2>1
<1>4. /\ ~HasClose(jobs') /\ CloseLast(jobs')
      /\ \A e \in Documents \ {d} : PlacesIn(jobs, e) = {} => PlacesIn(jobs', e) = {}
  <2>1. CASE Len(jobs) < QueueSize
    <3>1. PICK p \in content[d] \cup {0} :
            jobs' = Append(jobs, OpsJob(d, [n |-> applied'[d], needs |-> p]))
      BY <2>1, Zenon DEF ApplyOperation
    <3>2. PICK o : o = [n |-> applied'[d], needs |-> p]
      BY Zenon
    <3>3. o \in Op
      BY <3>2 DEF ApplyOperation, Inv, Types, Op
    <3>4. PICK job : job = OpsJob(d, o)
      BY Zenon
    <3>5. job \in JobSet /\ job.kind = "operations" /\ job.doc = d
      BY <3>3, <3>4, JobTypes, Zenon
    <3>6. jobs' = Append(jobs, job) /\ job.kind # "close"
      BY <3>1, <3>2, <3>4, <3>5
    <3>7. CloseLast(jobs)
      BY Zenon DEF Lifecycle
    <3>8. ~HasClose(jobs') /\ CloseLast(jobs')
      BY <1>q, <1>2, <3>5, <3>6, <3>7, AppendKinds, Zenon
    <3>9. QED
      BY <1>q, <3>5, <3>6, <3>8, AppendKinds, Zenon
  <2>2. CASE ~(Len(jobs) < QueueSize)
    BY <1>2, <2>2, Zenon DEF ApplyOperation, Lifecycle
  <2>3. QED
    BY <2>1, <2>2, Zenon
<1>5. \A e \in Documents \ {d} : Quiet(e) => Quiet(e)'
  BY <1>1, <1>4, Zenon DEF Quiet
<1>6. \A e \in Documents : pc'[e] # "idle" => e \in open'
  BY <1>1, <1>3, Zenon DEF Lifecycle
<1>7. \A e \in leaving' : pc'[e] # "idle"
  BY <1>1, <1>2, <1>3, Zenon DEF Lifecycle
<1>8. \A e \in Documents : e \in leaving' \/ e \notin open' => stopping' \/ Quiet(e)'
  BY <1>1, <1>2, <1>5, Zenon DEF Lifecycle
<1>9. QED
  BY <1>1, <1>2, <1>3, <1>4, <1>6, <1>7, <1>8, Zenon DEF Lifecycle

(* The writer goes on: the rooms stay as they are. *)
LEMMA WriterGoesOn ==
  ASSUME Lifecycle, UNCHANGED <<open, leaving, pc, crashes>>, stopping => stopping',
         \A d \in Documents : Quiet(d) => Quiet(d)', CloseLast(jobs'),
         HasClose(jobs') \/ closing' => stopping' /\ open = {},
         phase' = "stopped" => closing',
         closing' => /\ NoOps(jobs') /\ pending' = Each(<<>>) /\ phase' # "select"
                     /\ phase' # "flush" => batches' = Each(<<>>)
  PROVE  Lifecycle'
  BY Zenon DEF Lifecycle

LEMMA LifecycleWriterSteps ==
  ASSUME Inv, Lifecycle, WriterStep \/ TimerFires
  PROVE  Lifecycle'
<1>q. jobs \in Seq(JobSet) /\ CloseLast(jobs)
  BY Zenon DEF Inv, Types, Lifecycle
<1>c. /\ HasClose(jobs) \/ closing => stopping /\ open = {}
      /\ closing => NoOps(jobs) /\ pending = Each(<<>>) /\ phase # "select"
      /\ closing /\ phase # "flush" => batches = Each(<<>>)
      /\ phase = "stopped" => closing
  BY Zenon DEF Lifecycle
<1>1. CASE TakeOperations
  <2>1. PICK job : job = Head(jobs)
    BY Zenon
  <2>2. /\ jobs # <<>> /\ job.kind = "operations" /\ jobs' = Tail(jobs) /\ ~closing
        /\ UNCHANGED <<open, leaving, pc, crashes, stopping, phase, closing>>
        /\ phase = "select"
    BY <1>c, <1>1, <2>1, Zenon DEF TakeOperations, AtSelect, JobIs, rooms, counts
  <2>3. /\ job \in JobSet /\ CloseLast(jobs') /\ (HasClose(jobs') => HasClose(jobs))
        /\ \A d : PlacesIn(jobs, d) = {} =>
             PlacesIn(jobs', d) = {} /\ ~(job.kind = "operations" /\ job.doc = d)
    BY <1>q, <2>1, <2>2, TailKinds, Zenon
  <2>4. PICK p : p = [pending EXCEPT ![job.doc] = Append(@, job.op)]
    BY Zenon
  <2>5. \A d \in Documents : d # job.doc => p[d] = pending[d]
    BY <2>4, SMTT(30) DEF Inv, Types
  <2>6. /\ batches = Each(<<>>)
        /\ \/ batches' = p /\ pending' = Each(<<>>)
           \/ pending' = p /\ batches' = batches
    BY <1>1, <2>1, <2>4 DEF TakeOperations, AtSelect, Flushed, BufferOps, StartFlush
  <2>7. ASSUME NEW d \in Documents, Quiet(d) PROVE Quiet(d)'
    <3>1. PlacesIn(jobs', d) = {} /\ d # job.doc
      BY <2>2, <2>3, <2>7, Zenon DEF Quiet
    <3>2. pending'[d] = <<>> /\ batches'[d] = <<>>
      BY <2>5, <2>6, <2>7, <3>1, Zenon DEF Quiet, Each
    <3>3. QED
      BY <3>1, <3>2, Zenon DEF Quiet
  <2>8. QED
    BY <1>c, <2>2, <2>3, <2>7, WriterGoesOn, Zenon
<1>2. ASSUME NEW flushing, flushing = pending, AtSelect, StartFlush(flushing)
      PROVE  /\ ~closing /\ phase = "select" /\ pending' = Each(<<>>)
             /\ \A d \in Documents : pending[d] = <<>> => batches'[d] = <<>> /\ pending'[d] = <<>>
  BY <1>c, <1>2, Zenon DEF AtSelect, StartFlush, Each
<1>3. CASE TimerFires
  <2>1. /\ ~closing /\ phase = "select"
        /\ UNCHANGED <<open, leaving, pc, crashes, stopping, phase, closing, jobs>>
        /\ \A d \in Documents : pending[d] = <<>> => batches'[d] = <<>> /\ pending'[d] = <<>>
    BY <1>2, <1>3, Zenon DEF TimerFires, rooms, counts
  <2>2. \A d \in Documents : Quiet(d) => Quiet(d)'
    BY <2>1, Zenon DEF Quiet
  <2>3. QED
    BY <1>c, <1>q, <2>1, <2>2, WriterGoesOn, Zenon
<1>4. CASE TakeSignal
  <2>1. PICK job : job = Head(jobs)
    BY Zenon
  <2>2. /\ jobs # <<>> /\ jobs' = Tail(jobs) /\ closing' = (job.kind = "close")
        /\ phase' = "flush" /\ pending' = Each(<<>>)
        /\ UNCHANGED <<open, leaving, pc, crashes, stopping>>
        /\ \A d \in Documents : pending[d] = <<>> => batches'[d] = <<>> /\ pending'[d] = <<>>
    BY <1>2, <1>4, <2>1 DEF TakeSignal, JobIs, rooms, counts
  <2>3. /\ CloseLast(jobs') /\ (HasClose(jobs') => HasClose(jobs))
        /\ job.kind = "close" => HasClose(jobs) /\ NoOps(jobs')
        /\ \A d : PlacesIn(jobs, d) = {} => PlacesIn(jobs', d) = {}
    BY <1>q, <2>1, <2>2, TailKinds, Zenon
  <2>4. \A d \in Documents : Quiet(d) => Quiet(d)'
    BY <2>2, <2>3, Zenon DEF Quiet
  <2>5. phase' # "stopped" /\ phase' # "select"
    BY <2>2
  <2>6. QED
    BY <1>c, <2>2, <2>3, <2>4, <2>5, WriterGoesOn, Zenon
<1>5. CASE TakeSnapshots
  <2>1. /\ phase' = "save" /\ batches' = batches /\ batches = Each(<<>>)
        /\ UNCHANGED <<open, leaving, pc, crashes, stopping, jobs, pending, closing>>
    BY <1>5, Zenon DEF TakeSnapshots, Flushed, rooms, counts
  <2>2. \A d \in Documents : Quiet(d) => Quiet(d)'
    BY <2>1, Zenon DEF Quiet
  <2>3. phase' # "stopped" /\ phase' # "select"
    BY <2>1
  <2>4. QED
    BY <1>c, <1>q, <2>1, <2>2, <2>3, WriterGoesOn, Zenon
<1>6. CASE FinishJob
  <2>1. /\ phase = "save" /\ phase' = (IF closing THEN "stopped" ELSE "select")
        /\ UNCHANGED <<open, leaving, pc, crashes, stopping, jobs, pending, batches, closing>>
    BY <1>6, Zenon DEF FinishJob, rooms, counts
  <2>2. \A d \in Documents : Quiet(d) => Quiet(d)'
    BY <2>1, Zenon DEF Quiet
  <2>3. (phase' = "stopped" => closing) /\ (closing => phase' # "select") /\ phase # "flush"
    BY <2>1
  <2>4. QED
    BY <1>c, <1>q, <2>1, <2>2, <2>3, WriterGoesOn, Zenon
<1>7. ASSUME NEW d \in Documents, WriteBatch(d) \/ WriteBatchFails(d) PROVE Lifecycle'
  <2>1. /\ batches[d] # <<>> /\ batches' = [batches EXCEPT ![d] = <<>>]
        /\ UNCHANGED <<open, leaving, pc, crashes, stopping, jobs, pending, phase, closing>>
    BY <1>7, Zenon DEF WriteBatch, WriteBatchFails, rooms, counts
  <2>2. \A e \in Documents : batches[e] = <<>> => batches'[e] = <<>>
    BY <2>1 DEF Inv, Types
  <2>3. \A e \in Documents : Quiet(e) => Quiet(e)'
    BY <2>1, <2>2, Zenon DEF Quiet
  <2>4. closing => phase = "flush"
    BY <1>c, <2>1, Zenon DEF Each
  <2>5. QED
    BY <1>c, <1>q, <2>1, <2>3, <2>4, WriterGoesOn, Zenon
<1>8. ASSUME NEW d \in Documents, SaveSnapshot(d) \/ SaveSnapshotFails(d) PROVE Lifecycle'
  <2>1. UNCHANGED <<open, leaving, pc, crashes, stopping, jobs, pending, batches, phase, closing>>
    BY <1>8, Zenon DEF SaveSnapshot, SaveSnapshotFails, rooms, counts
  <2>2. \A e \in Documents : Quiet(e) => Quiet(e)'
    BY <2>1, Zenon DEF Quiet
  <2>3. QED
    BY <1>c, <1>q, <2>1, <2>2, WriterGoesOn, Zenon
<1>9. QED
  BY <1>1, <1>3, <1>4, <1>5, <1>6, <1>7, <1>8, Zenon DEF WriterStep

LEMMA LifecycleServerSteps ==
  ASSUME Inv, Lifecycle, Shutdown \/ CloseWriter \/ Crash \/ Restart \/ UNCHANGED vars
  PROVE  Lifecycle'
<1>q. jobs \in Seq(JobSet) /\ CloseLast(jobs)
  BY Zenon DEF Inv, Types, Lifecycle
<1>c. /\ HasClose(jobs) \/ closing => stopping /\ open = {}
      /\ closing => NoOps(jobs) /\ pending = Each(<<>>) /\ phase # "select"
      /\ closing /\ phase # "flush" => batches = Each(<<>>)
      /\ phase = "stopped" => closing
  BY Zenon DEF Lifecycle
<1>1. CASE Shutdown \/ UNCHANGED vars
  <2>1. /\ stopping => stopping'
        /\ UNCHANGED <<open, leaving, pc, crashes, jobs, pending, batches, phase, closing>>
    BY <1>1 DEF Shutdown, vars, rooms, writer, counts
  <2>2. \A e \in Documents : Quiet(e) => Quiet(e)'
    BY <2>1, Zenon DEF Quiet
  <2>3. QED
    BY <1>c, <1>q, <2>1, <2>2, WriterGoesOn, Zenon
<1>2. CASE CloseWriter
  <2>1. /\ stopping /\ open = {} /\ ~closing /\ jobs' = Append(jobs, CloseJob)
        /\ UNCHANGED <<open, leaving, pc, crashes, stopping, pending, batches, phase, closing>>
    BY <1>2, Zenon DEF CloseWriter, RoomsDone, rooms, counts
  <2>2. CloseJob \in JobSet /\ CloseJob.kind # "operations"
    BY JobTypes, Zenon
  <2>3. /\ CloseLast(jobs')
        /\ \A d : PlacesIn(jobs, d) = {} => PlacesIn(jobs', d) = {}
    BY <1>q, <2>1, <2>2, AppendKinds, Zenon
  <2>4. \A e \in Documents : Quiet(e) => Quiet(e)'
    BY <2>1, <2>3, Zenon DEF Quiet
  <2>5. QED
    BY <1>c, <2>1, <2>3, <2>4, WriterGoesOn, Zenon
<1>3. CASE Crash \/ Restart
  <2>1. /\ open' = {} /\ leaving' = {} /\ pc' = Each("idle") /\ jobs' = <<>> /\ closing' = FALSE
        /\ pending' = Each(<<>>) /\ batches' = Each(<<>>) /\ phase' = "select"
    BY <1>3, Zenon DEF Crash, Restart, Reboot
  <2>2. crashes' \in Nat
    BY <1>3, SMTT(30) DEF Crash, Restart, Lifecycle
  <2>3. DOMAIN jobs' = {}
    BY <2>1
  <2>4. /\ CloseLast(jobs') /\ ~HasClose(jobs')
        /\ \A d \in Documents : PlacesIn(jobs', d) = {}
    BY <2>3, Zenon DEF CloseLast, HasClose, PlacesIn
  <2>5. \A d \in Documents : Quiet(d)'
    BY <2>1, <2>4, Zenon DEF Quiet, Each
  <2>6. pc' \in [Documents -> {"idle", "request", "signal", "reset"}]
        /\ \A d \in Documents : pc'[d] = "idle"
    BY <2>1 DEF Each
  <2>7. phase' # "stopped"
    BY <2>1
  <2>8. QED
    BY <2>1, <2>2, <2>4, <2>5, <2>6, <2>7, Zenon DEF Lifecycle
<1>4. QED
  BY <1>1, <1>2, <1>3, Zenon

LEMMA LifecycleStep == Inv /\ Lifecycle /\ [Next]_vars => Lifecycle'
  BY LifecycleOpenRoom, LifecycleApplyOperation, LifecycleRoomSteps, LifecycleWriterSteps,
     LifecycleServerSteps, Zenon DEF Next

-----------------------------------------------------------------------------
(* What the account says of a document that lost nothing. *)
LEMMA NumberedRows ==
  ASSUME Inv, NEW d \in Documents, Whole(d), lost[d] = {}
  PROVE  /\ Len(log[d]) \in Nat /\ Len(batches[d]) \in Nat /\ Len(pending[d]) \in Nat
         /\ applied[d] \in Nat
         /\ Numbers(log[d]) = 1..Len(log[d])
         /\ Numbers(batches[d]) = (Len(log[d]) + 1)..(Len(log[d]) + Len(batches[d]))
         /\ Numbers(pending[d]) = (Len(log[d]) + Len(batches[d]) + 1)..
                                  (Len(log[d]) + Len(batches[d]) + Len(pending[d]))
         /\ Len(log[d]) <= applied[d]
<1>1. /\ log[d] \in Seq(Op) /\ batches[d] \in Seq(Op) /\ pending[d] \in Seq(Op)
      /\ applied[d] \in Nat
  BY Zenon DEF Inv, Types
<1>a. \A s, t \in Seq(Op) : Len(s) \in Nat /\ Len(s) + Len(t) \in Nat
  OBVIOUS
<1>2. Len(log[d]) \in Nat /\ Len(batches[d]) \in Nat /\ Len(pending[d]) \in Nat
      /\ Len(log[d]) + Len(batches[d]) \in Nat
  BY <1>1, <1>a, Zenon
<1>3. Numbers(log[d]) = (0 + 1)..(0 + Len(log[d]))
  BY <1>1, CountedNumbers DEF Whole
<1>4. Numbers(batches[d]) = (Len(log[d]) + 1)..(Len(log[d]) + Len(batches[d]))
  BY <1>1, <1>2, CountedNumbers, Zenon DEF Whole
<1>5. Numbers(pending[d]) = (Len(log[d]) + Len(batches[d]) + 1)..
                            (Len(log[d]) + Len(batches[d]) + Len(pending[d]))
  BY <1>1, <1>2, CountedNumbers, Zenon DEF Whole
<1>6. Numbers(log[d]) \subseteq 1..applied[d]
  BY AccountBound, Zenon DEF Inv
<1>7. Len(log[d]) <= applied[d]
  BY <1>1, <1>2, <1>3, <1>6, SMTT(30)
<1>8. Numbers(log[d]) = 1..Len(log[d])
  BY <1>2, <1>3
<1>9. QED
  BY <1>1, <1>2, <1>4, <1>5, <1>7, <1>8, Zenon

(* Nothing is on its way: the log has every operation. *)
LEMMA QuietIsWritten ==
  ASSUME Inv, NEW d \in Documents, Whole(d), lost[d] = {}, Quiet(d)
  PROVE  Len(log[d]) = applied[d]
<1>1. /\ Numbers(batches[d]) = {} /\ Numbers(pending[d]) = {}
  BY NoNumbers, Zenon DEF Quiet
<1>2. Waiting(d) = {}
  BY ZenonT(60) DEF Waiting, Queued, Quiet, PlacesIn
<1>3. Numbers(log[d]) = 1..applied[d]
  BY <1>1, <1>2 DEF Inv, Account
<1>4. Numbers(log[d]) = 1..Len(log[d]) /\ Len(log[d]) \in Nat /\ applied[d] \in Nat
  BY NumberedRows, Zenon
<1>5. QED
  BY <1>3, <1>4

LEMMA LoadsTheLog ==
  ASSUME Inv, NEW d \in Documents, Whole(d), lost[d] = {}
  PROVE  /\ Loadable(d) /\ snapshot[d].version \in Nat /\ snapshot[d].version <= applied[d]
         /\ Recovered(d) = 1..(IF snapshot[d].version > Len(log[d])
                               THEN snapshot[d].version ELSE Len(log[d]))
<1>1. PICK v, rows : v = snapshot[d].version /\ rows = Replayed(d)
  BY Zenon
<1>2. /\ v \in Nat /\ snapshot[d].content = 1..v /\ v <= applied[d] /\ log[d] \in Seq(Op)
      /\ Counted(log[d], 0)
  BY <1>1, Zenon DEF Inv, Types, SnapshotSet, Whole, Exact
<1>3. Len(log[d]) \in 0..Len(log[d])
  BY <1>2
<1>4. rows = SubSeq(log[d], v + 1, Len(log[d]))
  BY <1>1, Zenon DEF Replayed
<1>5. PICK m : m = Len(log[d])
  BY Zenon
<1>6. /\ 1..v \cup Numbers(rows) = 1..(IF v > m THEN v ELSE m)
      /\ \A i \in DOMAIN rows :
           rows[i].needs \in {0} \cup 1..v \cup Numbers(SubSeq(rows, 1, i - 1))
  BY <1>2, <1>3, <1>4, <1>5, ReplayedRows, ZenonT(60)
<1>7. Recovered(d) = 1..(IF v > m THEN v ELSE m)
  BY <1>1, <1>2, <1>6, Zenon DEF Recovered
<1>8. Loadable(d)
  BY <1>1, <1>2, <1>6, Zenon DEF Loadable
<1>9. QED
  BY <1>1, <1>2, <1>5, <1>7, <1>8, Zenon

-----------------------------------------------------------------------------
(* What was lost stays lost. *)
LEMMA LostStaysLost ==
  ASSUME Inv, Lifecycle, [Next]_vars, NEW d \in Documents, Intact(d)'
  PROVE  Intact(d)
<1>1. crashes \in Nat /\ lost \in [Documents -> SUBSET Nat] /\ Account(d)
  BY Zenon DEF Lifecycle, Inv, Types
<1>2. CASE UNCHANGED vars
  BY <1>2 DEF Intact, vars, counts
<1>3. CASE \/ \E e \in Documents : \/ OpenRoom(e) \/ SnapshotTick(e) \/ LeaveRoom(e)
                                   \/ RoomStep(e) \/ WriteBatch(e)
                                   \/ SaveSnapshot(e) \/ SaveSnapshotFails(e)
           \/ TakeOperations \/ TakeSignal \/ TakeSnapshots \/ FinishJob
           \/ TimerFires \/ Shutdown \/ CloseWriter
  <2>1. UNCHANGED <<lost, crashes>>
    BY <1>3, Zenon DEF OpenRoom, SnapshotTick, LeaveRoom, RoomStep, RequestSnapshot, SendSignal,
         ResetSignal, WriteBatch, SaveSnapshot, SaveSnapshotFails, TakeOperations, TakeSignal,
         TakeSnapshots, FinishJob, TimerFires, Shutdown, CloseWriter, counts
  <2>2. QED
    BY <2>1, Zenon DEF Intact
<1>4. CASE \E e \in Documents : ApplyOperation(e) \/ WriteBatchFails(e)
  <2>1. PICK e, more :
          e \in Documents /\ crashes' = crashes /\ lost' \in {lost, [lost EXCEPT ![e] = @ \cup more]}
    BY <1>4, ZenonT(60) DEF ApplyOperation, WriteBatchFails
  <2>2. lost[d] \subseteq lost'[d]
    BY <1>1, <2>1
  <2>3. QED
    BY <2>1, <2>2, Zenon DEF Intact
<1>5. CASE Crash
  BY <1>1, <1>5 DEF Crash, Intact
<1>6. CASE Restart
  <2>1. lost'[d] = 1..applied[d] \ Numbers(log[d]) /\ crashes' = crashes
    BY <1>6, Zenon DEF Restart, Reboot
  <2>2. lost[d] \subseteq lost'[d]
    BY <1>1, <2>1, Zenon DEF Account
  <2>3. QED
    BY <2>1, <2>2, Zenon DEF Intact
<1>7. QED
  BY <1>2, <1>3, <1>4, <1>5, <1>6, Zenon DEF Next, WriterStep

LEMMA ExactLater ==
  ASSUME NEW s, NEW n, NEW m, s.version \in Nat, n \in Nat, m \in Nat, n <= m, Exact(s, n)
  PROVE  Exact(s, m)
  BY DEF Exact

(* A step that leaves the rows of a document alone. *)
LEMMA WholeKept ==
  ASSUME NEW d \in Documents, Whole(d),
         log'[d] = log[d], batches'[d] = batches[d], pending'[d] = pending[d],
         applied'[d] = applied[d], Backward(jobs', d),
         \A s \in {snapshot'[d]} \cup pendingSnapshot'[d] \cup saves'[d] :
           s \in {snapshot[d]} \cup pendingSnapshot[d] \cup saves[d] \/ Exact(s, applied[d]),
         d \in open' => content'[d] = 1..applied[d] /\ sequence'[d] = applied[d]
  PROVE  Whole(d)'
<1>1. \A s \in {snapshot'[d]} \cup pendingSnapshot'[d] \cup saves'[d] : Exact(s, applied[d])
  BY Zenon DEF Whole
<1>2. QED
  BY <1>1, Zenon DEF Whole

(* Jobs that are queued or taken. *)
LEMMA AppendBackward ==
  ASSUME NEW q \in Seq(JobSet), NEW job, NEW r, r = Append(q, job), NEW d, Backward(q, d),
         job.kind = "operations" /\ job.doc = d => job.op.needs < job.op.n
  PROVE  Backward(r, d)
<1>1. PICK last : last = Len(q) + 1
  BY Zenon
<1>2. DOMAIN r = DOMAIN q \cup {last} /\ r[last] = job /\ \A i \in DOMAIN q : r[i] = q[i]
  BY <1>1
<1>3. QED
  BY <1>2, Zenon DEF Backward, PlacesIn

LEMMA TailBackward ==
  ASSUME NEW q \in Seq(JobSet), q # <<>>, NEW r, r = Tail(q), NEW d, Backward(q, d)
  PROVE  /\ Backward(r, d)
         /\ Head(q).kind = "operations" /\ Head(q).doc = d => Head(q).op.needs < Head(q).op.n
<1>1. /\ 1 \in DOMAIN q /\ q[1] = Head(q)
      /\ \A i \in DOMAIN r : i + 1 \in DOMAIN q /\ r[i] = q[i + 1]
  OBVIOUS
<1>2. QED
  BY <1>1, Zenon DEF Backward, PlacesIn

-----------------------------------------------------------------------------
(***************************************************************************)
(* Each step keeps the rows and the snapshots of a document whole, as long *)
(* as it loses nothing.                                                    *)
(***************************************************************************)
LEMMA WholeOpenRoom ==
  ASSUME Inv, Lifecycle, NEW d \in Documents, OpenRoom(d),
         NEW e \in Documents, Whole(e), Intact(e)
  PROVE  Whole(e)'
<1>1. /\ d \notin open /\ ~stopping /\ open' = open \cup {d}
      /\ content' = [content EXCEPT ![d] = Recovered(d)]
      /\ sequence' = [sequence EXCEPT ![d] = LoadedSequence(d)]
      /\ UNCHANGED <<log, snapshot, jobs, pendingSnapshot, pending, batches, saves, applied>>
  BY Zenon DEF OpenRoom, store, writer, counts
<1>2. content \in [Documents -> SUBSET Nat] /\ sequence \in [Documents -> Nat]
  BY Zenon DEF Inv, Types
<1>3. CASE e # d
  <2>1. content'[e] = content[e] /\ sequence'[e] = sequence[e]
    BY <1>1, <1>2, <1>3
  <2>2. e \in open' => content'[e] = 1..applied[e] /\ sequence'[e] = applied[e]
    BY <1>1, <1>3, <2>1, Zenon DEF Whole
  <2>3. Backward(jobs', e)
    BY <1>1, Zenon DEF Whole
  <2>4. QED
    BY <1>1, <2>2, <2>3, WholeKept, Zenon
<1>4. CASE e = d
  <2>1. Quiet(d) /\ lost[d] = {}
    BY <1>1, <1>4, Zenon DEF Lifecycle, Intact
  <2>2. Len(log[d]) = applied[d]
    BY <1>4, <2>1, QuietIsWritten, Zenon
  <2>3. PICK v : v = snapshot[d].version
    BY Zenon
  <2>4. /\ v \in Nat /\ v <= applied[d] /\ applied[d] \in Nat
        /\ Recovered(d) = 1..(IF v > Len(log[d]) THEN v ELSE Len(log[d]))
    BY <1>4, <2>1, <2>3, LoadsTheLog, Zenon DEF Inv, Types
  <2>5. Recovered(d) = 1..applied[d]
    BY <2>2, <2>4, SMTT(30)
  <2>6. LoadedSequence(d) = applied[d]
    BY <2>2, <2>3, <2>4, SMTT(30) DEF LoadedSequence
  <2>7. content'[d] = 1..applied[d] /\ sequence'[d] = applied[d]
    BY <1>1, <1>2, <2>5, <2>6, SMTT(30)
  <2>8. Backward(jobs', e)
    BY <1>1, Zenon DEF Whole
  <2>9. QED
    BY <1>1, <1>4, <2>7, <2>8, WholeKept, Zenon
<1>5. QED
  BY <1>3, <1>4, Zenon

LEMMA WholeApplyOperation ==
  ASSUME Inv, Lifecycle, NEW d \in Documents, ApplyOperation(d),
         NEW e \in Documents, Whole(e), Intact(e), Intact(e)'
  PROVE  Whole(e)'
<1>t. /\ content \in [Documents -> SUBSET Nat] /\ sequence \in [Documents -> Nat]
      /\ applied \in [Documents -> Nat] /\ jobs \in Seq(JobSet)
      /\ lost \in [Documents -> SUBSET Nat]
  BY Zenon DEF Inv, Types
<1>1. /\ d \in open
      /\ UNCHANGED <<log, snapshot, open, pendingSnapshot, pending, batches, saves>>
  BY Zenon DEF ApplyOperation, Idle, store
<1>2. PICK n : n = applied[d] + 1
  BY Zenon
<1>3. /\ n \in Nat /\ applied[d] <= n /\ 1..n = 1..applied[d] \cup {n}
      /\ applied' = [applied EXCEPT ![d] = n] /\ applied'[d] = n
      /\ content' = [content EXCEPT ![d] = @ \cup {n}]
      /\ sequence' = [sequence EXCEPT ![d] = @ + 1]
  BY <1>t, <1>2 DEF ApplyOperation
<1>4. \/ \E p \in content[d] \cup {0} : jobs' = Append(jobs, OpsJob(d, [n |-> n, needs |-> p]))
      \/ jobs' = jobs /\ lost' = [lost EXCEPT ![d] = @ \cup {n}]
  BY <1>3, Zenon DEF ApplyOperation
<1>5. CASE e # d
  <2>1. /\ content'[e] = content[e] /\ sequence'[e] = sequence[e] /\ applied'[e] = applied[e]
    BY <1>t, <1>3, <1>5
  <2>2. Backward(jobs', e)
    <3>1. ASSUME NEW p, jobs' = Append(jobs, OpsJob(d, [n |-> n, needs |-> p]))
          PROVE  Backward(jobs', e)
      <4>1. PICK job : job = OpsJob(d, [n |-> n, needs |-> p])
        BY Zenon
      <4>2. job.doc # e /\ jobs' = Append(jobs, job)
        BY <1>5, <3>1, <4>1, Zenon DEF OpsJob
      <4>3. QED
        BY <1>t, <4>2, AppendBackward, Zenon DEF Whole
    <3>2. QED
      BY <1>4, <3>1, Zenon DEF Whole
  <2>3. QED
    BY <1>1, <2>1, <2>2, WholeKept, Zenon DEF Whole
<1>6. CASE e = d
  <2>1. lost'[d] = {}
    BY <1>6, Zenon DEF Intact
  <2>2. PICK p \in content[d] \cup {0} : jobs' = Append(jobs, OpsJob(d, [n |-> n, needs |-> p]))
    BY <1>t, <1>4, <2>1, Zenon
  <2>3. content[d] = 1..applied[d] /\ sequence[d] = applied[d] /\ applied[d] \in Nat
    BY <1>1, <1>6, <1>t, ZenonT(60) DEF Whole
  <2>4. p < n
    BY <1>2, <2>3
  <2>5. PICK job : job = OpsJob(d, [n |-> n, needs |-> p])
    BY Zenon
  <2>6. job.op.needs < job.op.n
    BY <2>4, <2>5, Zenon DEF OpsJob
  <2>7. Backward(jobs', d)
    BY <1>6, <1>t, <2>2, <2>5, <2>6, AppendBackward, ZenonT(60) DEF Whole
  <2>8. content'[d] = 1..n /\ sequence'[d] = n
    BY <1>t, <1>2, <1>3, <2>3, SMTT(30)
  <2>9. \A s \in {snapshot[d]} \cup pendingSnapshot[d] \cup saves[d] : s.version \in Nat
    <3>1. /\ snapshot[d] \in SnapshotSet
          /\ pendingSnapshot[d] \subseteq SnapshotSet /\ saves[d] \subseteq SnapshotSet
      BY Zenon DEF Inv, Types
    <3>2. \A s \in SnapshotSet : s.version \in Nat
      BY Zenon DEF SnapshotSet
    <3>3. QED
      BY <3>1, <3>2, Zenon
  <2>10. \A s \in {snapshot[d]} \cup pendingSnapshot[d] \cup saves[d] : Exact(s, n)
    BY <1>3, <1>6, <2>3, <2>9, ExactLater, Zenon DEF Whole
  <2>11. QED
    BY <1>1, <1>3, <1>6, <2>7, <2>8, <2>10, ZenonT(60) DEF Whole
<1>7. QED
  BY <1>5, <1>6, Zenon

LEMMA WholeRoomSteps ==
  ASSUME Inv, Lifecycle, NEW d \in Documents,
         SnapshotTick(d) \/ LeaveRoom(d) \/ RoomStep(d),
         NEW e \in Documents, Whole(e), Intact(e)
  PROVE  Whole(e)'
<1>t. /\ jobs \in Seq(JobSet) /\ pendingSnapshot \in [Documents -> SUBSET SnapshotSet]
  BY Zenon DEF Inv, Types
<1>1. UNCHANGED <<log, snapshot, content, sequence, pending, batches, saves, applied>>
  BY Zenon DEF SnapshotTick, LeaveRoom, RoomStep, RequestSnapshot, SendSignal, ResetSignal,
       store, writer, counts
<1>2. open' \subseteq open
  BY Zenon DEF SnapshotTick, LeaveRoom, RoomStep, RequestSnapshot, SendSignal, ResetSignal,
       Return
<1>3. jobs' = jobs \/ jobs' = Append(jobs, SignalJob)
  BY Zenon DEF SnapshotTick, LeaveRoom, RoomStep, RequestSnapshot, SendSignal, ResetSignal,
       writer
<1>4. Backward(jobs', e)
  <2>1. SignalJob.kind # "operations"
    BY JobTypes, Zenon
  <2>2. QED
    BY <1>t, <1>3, <2>1, AppendBackward, Zenon DEF Whole
<1>5. \A s \in pendingSnapshot'[e] : s \in pendingSnapshot[e] \/ Exact(s, applied[e])
  <2>1. CASE RequestSnapshot(d)
    <3>1. PICK s : s = [content |-> content[d], version |-> sequence[d]]
      BY Zenon
    <3>2. pendingSnapshot' = [pendingSnapshot EXCEPT ![d] = {s}]
      BY <2>1, <3>1, ZenonT(60) DEF RequestSnapshot
    <3>3. d \in open
      BY <2>1, SMTT(30) DEF RequestSnapshot, Lifecycle
    <3>4. Whole(d) /\ applied[d] \in Nat => Exact(s, applied[d])
      BY <3>1, <3>3 DEF Whole, Exact
    <3>5. \A x \in pendingSnapshot'[e] : x \in pendingSnapshot[e] \/ (e = d /\ x = s)
      BY <1>t, <3>2
    <3>6. QED
      BY <3>4, <3>5, Zenon DEF Inv, Types
  <2>2. CASE ~RequestSnapshot(d)
    <3>1. UNCHANGED pendingSnapshot
      BY <2>2, Zenon DEF SnapshotTick, LeaveRoom, RoomStep, SendSignal, ResetSignal, writer
    <3>2. QED
      BY <3>1, Zenon
  <2>3. QED
    BY <2>1, <2>2, Zenon
<1>6. QED
  <2>1. e \in open' => content'[e] = 1..applied[e] /\ sequence'[e] = applied[e]
    BY <1>1, <1>2, Zenon DEF Whole
  <2>2. \A s \in {snapshot'[e]} \cup pendingSnapshot'[e] \cup saves'[e] :
          s \in {snapshot[e]} \cup pendingSnapshot[e] \cup saves[e] \/ Exact(s, applied[e])
    BY <1>1, <1>5, Zenon
  <2>3. QED
    BY <1>1, <1>4, <2>1, <2>2, WholeKept, Zenon

LEMMA WholeSnapshotSteps ==
  ASSUME Inv, NEW e \in Documents, Whole(e),
         \/ TakeSnapshots \/ FinishJob
         \/ \E d \in Documents : SaveSnapshot(d) \/ SaveSnapshotFails(d)
  PROVE  Whole(e)'
<1>t. /\ snapshot \in [Documents -> SnapshotSet]
      /\ pendingSnapshot \in [Documents -> SUBSET SnapshotSet]
      /\ saves \in [Documents -> SUBSET SnapshotSet]
  BY Zenon DEF Inv, Types
<1>1. UNCHANGED <<log, open, content, sequence, jobs, pending, batches, applied>>
  BY Zenon DEF TakeSnapshots, FinishJob, SaveSnapshot, SaveSnapshotFails, store, rooms, counts
<1>2. \A s \in {snapshot'[e]} \cup pendingSnapshot'[e] \cup saves'[e] :
        s \in {snapshot[e]} \cup pendingSnapshot[e] \cup saves[e]
  <2>1. CASE TakeSnapshots \/ FinishJob
    <3>1. /\ UNCHANGED snapshot
          /\ \/ saves' = pendingSnapshot /\ pendingSnapshot' = Each({})
             \/ UNCHANGED <<saves, pendingSnapshot>>
      BY <2>1, Zenon DEF TakeSnapshots, FinishJob, store
    <3>2. Each({})[e] = {}
      BY Zenon DEF Each
    <3>3. QED
      BY <3>1, <3>2, Zenon
  <2>2. ASSUME NEW d \in Documents, SaveSnapshot(d) \/ SaveSnapshotFails(d)
        PROVE  \A s \in {snapshot'[e]} \cup pendingSnapshot'[e] \cup saves'[e] :
                 s \in {snapshot[e]} \cup pendingSnapshot[e] \cup saves[e]
    <3>1. PICK s \in SnapshotSet :
            /\ UNCHANGED pendingSnapshot /\ saves' = [saves EXCEPT ![d] = {}]
            /\ \/ s \in saves[d] /\ snapshot' = [snapshot EXCEPT ![d] = s]
               \/ UNCHANGED snapshot
      BY <1>t, <2>2, Zenon DEF SaveSnapshot, SaveSnapshotFails, store
    <3>2. /\ saves'[e] \subseteq saves[e]
          /\ snapshot'[e] = snapshot[e] \/ snapshot'[e] \in saves[e]
      BY <1>t, <3>1
    <3>3. QED
      BY <3>1, <3>2, Zenon
  <2>3. QED
    BY <2>1, <2>2, Zenon
<1>3. QED
  BY <1>1, <1>2, WholeKept, Zenon DEF Whole

(* The operations p of a document are all pending or all flushed. *)
LEMMA WholeMoved ==
  ASSUME NEW d \in Documents, Whole(d), log[d] \in Seq(Op), NEW p, Counted(p, Len(log[d])),
         \/ batches'[d] = p /\ pending'[d] = <<>>
         \/ batches'[d] = <<>> /\ pending'[d] = p,
         Backward(jobs', d),
         UNCHANGED <<log, applied, snapshot, pendingSnapshot, saves, open, content, sequence>>
  PROVE  Whole(d)'
<1>1. Len(log[d]) \in Nat /\ Len(<<>>) = 0 /\ \A n \in Nat : n + 0 = n
  OBVIOUS
<1>2. Counted(batches'[d], Len(log[d])) /\ Counted(pending'[d], Len(log[d]) + Len(batches'[d]))
  BY <1>1, CountedEmpty, Zenon
<1>3. QED
  BY <1>2, Zenon DEF Whole

LEMMA WholePending ==
  ASSUME NEW d \in Documents, Whole(d), log[d] \in Seq(Op), batches[d] = <<>>
  PROVE  Counted(pending[d], Len(log[d]))
<1>1. Len(log[d]) \in Nat /\ Len(<<>>) = 0 /\ \A n \in Nat : n + 0 = n
  OBVIOUS
<1>2. QED
  BY <1>1, Zenon DEF Whole

LEMMA WholeFlushSteps ==
  ASSUME Inv, NEW e \in Documents, Whole(e), TimerFires \/ TakeSignal
  PROVE  Whole(e)'
<1>1. /\ log[e] \in Seq(Op) /\ jobs \in Seq(JobSet)
  BY Zenon DEF Inv, Types
<1>2. /\ batches = Each(<<>>) /\ batches' = pending /\ pending' = Each(<<>>)
      /\ UNCHANGED <<log, applied, snapshot, pendingSnapshot, saves, open, content, sequence>>
      /\ jobs' = jobs \/ (jobs # <<>> /\ jobs' = Tail(jobs))
  BY Zenon DEF TimerFires, TakeSignal, AtSelect, Flushed, StartFlush, JobIs, store, rooms, counts
<1>3. batches[e] = <<>> /\ pending'[e] = <<>>
  BY <1>2, Zenon DEF Each
<1>4. Backward(jobs', e)
  BY <1>1, <1>2, TailBackward, Zenon DEF Whole
<1>5. QED
  BY <1>1, <1>2, <1>3, <1>4, WholePending, WholeMoved, Zenon

(* The next operation in the queue goes on from the pending ones. *)
LEMMA NextNumber ==
  ASSUME Inv, NEW d \in Documents, Whole(d), lost[d] = {}, batches[d] = <<>>,
         jobs # <<>>, Head(jobs).kind = "operations", Head(jobs).doc = d
  PROVE  Head(jobs).op.n = Len(log[d]) + Len(pending[d]) + 1
<1>1. PICK n, rest, l, p : /\ n = Head(jobs).op.n /\ rest = NumbersIn(Tail(jobs), d)
                           /\ l = Len(log[d]) /\ p = Len(pending[d])
  BY Zenon
<1>2. Waiting(d) = rest \cup {n} /\ Before({n}, rest)
  <2>1. jobs \in Seq(JobSet) /\ OrderedIn(jobs, d)
    BY QueueViews, Zenon DEF Inv, Types, Account
  <2>2. NumbersIn(jobs, d) = rest \cup {n} /\ Before({n}, rest)
    BY <1>1, <2>1, TailJob, ZenonT(60)
  <2>3. QED
    BY <2>2, QueueViews, Zenon
<1>3. /\ l \in Nat /\ p \in Nat /\ applied[d] \in Nat /\ Numbers(log[d]) = 1..l
      /\ Numbers(pending[d]) = (l + Len(batches[d]) + 1)..(l + Len(batches[d]) + p)
  BY <1>1, NumberedRows, Zenon
<1>4. Numbers(pending[d]) = (l + 1)..(l + p)
  <2>1. Len(batches[d]) = 0
    OBVIOUS
  <2>2. QED
    BY <1>3, <2>1
<1>5. Numbers(batches[d]) = {}
  BY NoNumbers, Zenon
<1>6. /\ 1..l \cup (l + 1)..(l + p) \cup rest \cup {n} = 1..applied[d]
      /\ Before(1..l, {n}) /\ Before((l + 1)..(l + p), {n})
  <2>1. /\ Numbers(log[d]) \cup Numbers(batches[d]) \cup Numbers(pending[d]) \cup Waiting(d)
             \cup lost[d] = 1..applied[d]
        /\ Before(Numbers(log[d]), Waiting(d)) /\ Before(Numbers(pending[d]), Waiting(d))
    BY Zenon DEF Inv, Account
  <2>2. QED
    BY <1>2, <1>3, <1>4, <1>5, <2>1, Zenon DEF Before
<1>7. n \in 1..applied[d] /\ n > l + p
  <2>1. /\ n \in 1..applied[d] /\ \A m \in 1..l : m < n
        /\ \A m \in (l + 1)..(l + p) : m < n
    BY <1>6, Zenon DEF Before
  <2>2. QED
    BY <1>3, <2>1
<1>8. l + p + 1 \in 1..applied[d]
  BY <1>3, <1>7
<1>9. l + p + 1 \in rest \cup {n}
  <2>1. l + p + 1 \notin 1..l /\ l + p + 1 \notin (l + 1)..(l + p)
    BY <1>3
  <2>2. QED
    BY <1>6, <1>8, <2>1, Zenon
<1>10. n = l + p + 1
  BY <1>2, <1>3, <1>7, <1>9 DEF Before
<1>11. QED
  BY <1>1, <1>10, Zenon

LEMMA WholeTakeOperations ==
  ASSUME Inv, NEW e \in Documents, Whole(e), Intact(e), TakeOperations
  PROVE  Whole(e)'
<1>t. /\ log[e] \in Seq(Op) /\ pending \in [Documents -> Seq(Op)] /\ jobs \in Seq(JobSet)
  BY Zenon DEF Inv, Types
<1>1. PICK job, p : job = Head(jobs) /\ p = [pending EXCEPT ![job.doc] = Append(@, job.op)]
  BY Zenon
<1>2. /\ batches = Each(<<>>) /\ jobs # <<>> /\ job.kind = "operations" /\ jobs' = Tail(jobs)
      /\ UNCHANGED <<log, applied, snapshot, pendingSnapshot, saves, open, content, sequence>>
      /\ \/ batches' = p /\ pending' = Each(<<>>)
         \/ batches' = batches /\ pending' = p
  BY <1>1, Zenon DEF TakeOperations, AtSelect, Flushed, BufferOps, StartFlush, JobIs, store,
       rooms, counts
<1>3. batches[e] = <<>> /\ Each(<<>>)[e] = <<>>
  BY <1>2, Zenon DEF Each
<1>4. Backward(jobs', e)
  BY <1>t, <1>2, TailBackward, Zenon DEF Whole
<1>5. Counted(p[e], Len(log[e]))
  <2>1. CASE job.doc # e
    <3>1. p[e] = pending[e]
      BY <1>t, <1>1, <2>1
    <3>2. QED
      BY <1>t, <1>3, <3>1, WholePending, ZenonT(60)
  <2>2. CASE job.doc = e
    <3>1. p[e] = Append(pending[e], job.op)
      BY <1>t, <1>1, <2>2
    <3>2. job.op.n = Len(log[e]) + Len(pending[e]) + 1
      BY <1>1, <1>2, <1>3, <2>2, NextNumber, Zenon DEF Intact
    <3>3. job.op.needs < job.op.n
      BY <1>t, <1>1, <1>2, <2>2, TailBackward, ZenonT(60) DEF Whole
    <3>4. job.op \in Op
      <4>1. job \in JobSet
        BY <1>t, <1>1, <1>2, SMTT(30)
      <4>2. QED
        BY <4>1, <1>2, JobTypes, SMTT(30) DEF JobSet
    <3>5. Counted(pending[e], Len(log[e])) /\ Len(log[e]) \in Nat
      BY <1>t, <1>3, WholePending
    <3>6. QED
      BY <1>t, <3>1, <3>2, <3>3, <3>4, <3>5, CountedAppend, ZenonT(60)
  <2>3. QED
    BY <2>1, <2>2, Zenon
<1>6. QED
  BY <1>t, <1>2, <1>3, <1>4, <1>5, WholeMoved, Zenon

LEMMA WholeWriteBatch ==
  ASSUME Inv, NEW d \in Documents, WriteBatch(d), NEW e \in Documents, Whole(e)
  PROVE  Whole(e)'
<1>t. /\ log \in [Documents -> Seq(Op)] /\ batches \in [Documents -> Seq(Op)]
  BY Zenon DEF Inv, Types
<1>1. /\ log' = [log EXCEPT ![d] = @ \o batches[d]]
      /\ batches' = [batches EXCEPT ![d] = <<>>]
      /\ UNCHANGED <<pending, jobs, applied, snapshot, pendingSnapshot, saves, open, content,
                     sequence>>
  BY Zenon DEF WriteBatch, rooms, counts
<1>2. CASE e # d
  <2>1. log'[e] = log[e] /\ batches'[e] = batches[e]
    BY <1>t, <1>1, <1>2
  <2>2. QED
    BY <1>1, <2>1, WholeKept, Zenon DEF Whole
<1>3. CASE e = d
  <2>1. PICK u : u = log[d] \o batches[d]
    BY Zenon
  <2>2. log'[d] = u /\ batches'[d] = <<>>
    BY <1>t, <1>1, <2>1
  <2>3. Counted(u, 0) /\ Len(u) = Len(log[d]) + Len(batches[d])
    BY <1>t, <1>3, <2>1, CountedConcat, Zenon DEF Whole
  <2>4. Len(u) + Len(<<>>) = Len(log[d]) + Len(batches[d])
    <3>1. log[d] \in Seq(Op) /\ batches[d] \in Seq(Op)
      BY <1>t, Zenon
    <3>2. QED
      BY <2>3, <3>1
  <2>5. Counted(<<>>, Len(u))
    BY CountedEmpty, Zenon
  <2>6. QED
    BY <1>1, <1>3, <2>2, <2>3, <2>4, <2>5, ZenonT(60) DEF Whole
<1>4. QED
  BY <1>2, <1>3, Zenon

LEMMA WholeWriteBatchFails ==
  ASSUME Inv, NEW d \in Documents, WriteBatchFails(d), NEW e \in Documents, Whole(e), Intact(e)'
  PROVE  Whole(e)'
<1>t. /\ batches \in [Documents -> Seq(Op)] /\ lost \in [Documents -> SUBSET Nat]
  BY Zenon DEF Inv, Types
<1>1. /\ batches' = [batches EXCEPT ![d] = <<>>] /\ batches[d] # <<>>
      /\ lost' = [lost EXCEPT ![d] = @ \cup Numbers(batches[d])]
      /\ UNCHANGED <<log, pending, jobs, applied, snapshot, pendingSnapshot, saves, open,
                     content, sequence>>
  BY Zenon DEF WriteBatchFails, store, rooms
<1>2. e # d
  <2>1. \A s \in Seq(Op) : s # <<>> => 1 \in DOMAIN s
    OBVIOUS
  <2>2. Numbers(batches[d]) # {}
    BY <1>t, <1>1, <2>1, Zenon DEF Numbers
  <2>3. lost'[d] # {}
    BY <1>t, <1>1, <2>2, SMTT(30)
  <2>4. QED
    BY <2>3, Zenon DEF Intact
<1>3. batches'[e] = batches[e]
  BY <1>t, <1>1, <1>2
<1>4. QED
  BY <1>1, <1>3, WholeKept, Zenon DEF Whole

LEMMA WholeServerSteps ==
  ASSUME Inv, NEW e \in Documents, Whole(e), Shutdown \/ CloseWriter \/ UNCHANGED vars
  PROVE  Whole(e)'
<1>1. /\ UNCHANGED <<log, batches, pending, applied, snapshot, pendingSnapshot, saves, open,
                     content, sequence>>
      /\ jobs' = jobs \/ jobs' = Append(jobs, CloseJob)
  BY DEF Shutdown, CloseWriter, vars, store, rooms, writer, counts
<1>2. Backward(jobs', e)
  <2>1. CloseJob.kind # "operations" /\ jobs \in Seq(JobSet)
    BY JobTypes, Zenon DEF Inv, Types
  <2>2. QED
    BY <1>1, <2>1, AppendBackward, Zenon DEF Whole
<1>3. QED
  BY <1>1, <1>2, WholeKept, Zenon DEF Whole

LEMMA WholeReboot ==
  ASSUME NEW e \in Documents, Whole(e), Reboot
  PROVE  Whole(e)'
<1>1. /\ UNCHANGED <<log, snapshot, applied>> /\ open' = {} /\ jobs' = <<>>
      /\ batches'[e] = <<>> /\ pending'[e] = <<>>
      /\ pendingSnapshot'[e] = {} /\ saves'[e] = {}
  BY Zenon DEF Reboot, Each, store
<1>2. Backward(jobs', e)
  <2>1. DOMAIN jobs' = {}
    BY <1>1
  <2>2. QED
    BY <2>1, Zenon DEF Backward, PlacesIn
<1>3. QED
  BY <1>1, <1>2, CountedEmpty, Zenon DEF Whole

(* The invariant of what is read back. *)
RecoveryInv == Inv /\ Lifecycle /\ \A d \in Documents : Intact(d) => Whole(d)

LEMMA InitRecovery == Init => RecoveryInv
<1>1. SUFFICES ASSUME Init PROVE RecoveryInv
  BY Zenon
<1>2. jobs = <<>> /\ DOMAIN jobs = {} /\ 0 \in Nat
  BY <1>1 DEF Init
<1>3. Lifecycle
  <2>1. phase # "stopped"
    BY <1>1 DEF Init
  <2>2. \A d \in Documents : Quiet(d)
    BY <1>1, <1>2, Zenon DEF Init, Each, Quiet, PlacesIn
  <2>3. CloseLast(jobs) /\ ~HasClose(jobs)
    BY <1>2, Zenon DEF CloseLast, HasClose
  <2>4. /\ open = {} /\ leaving = {} /\ crashes = 0 /\ ~closing
        /\ pc \in [Documents -> {"idle", "request", "signal", "reset"}]
        /\ \A d \in Documents : pc[d] = "idle"
    BY <1>1, Zenon DEF Init, Each
  <2>5. QED
    BY <1>2, <2>1, <2>2, <2>3, <2>4, ZenonT(60) DEF Lifecycle
<1>4. ASSUME NEW d \in Documents PROVE Whole(d)
  <2>1. PICK s : s = [content |-> {}, version |-> 0]
    BY Zenon
  <2>2. Exact(s, 0)
    BY <2>1 DEF Exact
  <2>3. Backward(jobs, d)
    BY <1>2, Zenon DEF Backward, PlacesIn
  <2>4. /\ log[d] = <<>> /\ batches[d] = <<>> /\ pending[d] = <<>> /\ applied[d] = 0
        /\ snapshot[d] = s /\ pendingSnapshot[d] = {} /\ saves[d] = {} /\ d \notin open
    BY <1>1, <2>1, Zenon DEF Init, Each
  <2>5. QED
    BY <2>2, <2>3, <2>4, CountedEmpty, Zenon DEF Whole
<1>5. QED
  BY <1>1, <1>3, <1>4, InitInv, ZenonT(60) DEF RecoveryInv

LEMMA StepRecovery == RecoveryInv /\ [Next]_vars => RecoveryInv'
<1>1. SUFFICES ASSUME RecoveryInv, [Next]_vars PROVE RecoveryInv'
  BY Zenon
<1>2. Inv /\ Lifecycle /\ Inv' /\ Lifecycle'
  BY <1>1, StepInv, LifecycleStep, Zenon DEF RecoveryInv
<1>3. ASSUME NEW e \in Documents, Intact(e)' PROVE Whole(e)'
  <2>1. Intact(e) /\ Whole(e)
    BY <1>1, <1>2, <1>3, LostStaysLost, Zenon DEF RecoveryInv
  <2>2. CASE \E d \in Documents :
               \/ OpenRoom(d) \/ ApplyOperation(d) \/ SnapshotTick(d) \/ LeaveRoom(d)
               \/ RoomStep(d)
    BY <1>2, <1>3, <2>1, <2>2, WholeOpenRoom, WholeApplyOperation, WholeRoomSteps, ZenonT(60)
  <2>3. CASE WriterStep \/ TimerFires
    BY <1>2, <1>3, <2>1, <2>3, WholeTakeOperations, WholeFlushSteps, WholeSnapshotSteps,
       WholeWriteBatch, WholeWriteBatchFails, ZenonT(60) DEF WriterStep
  <2>4. CASE Shutdown \/ CloseWriter \/ UNCHANGED vars
    BY <1>2, <2>1, <2>4, WholeServerSteps, Zenon
  <2>5. CASE Crash \/ Restart
    BY <2>1, <2>5, WholeReboot, Zenon DEF Crash, Restart
  <2>6. QED
    BY <1>1, <2>2, <2>3, <2>4, <2>5, Zenon DEF Next
<1>4. QED
  BY <1>2, <1>3, Zenon DEF RecoveryInv

-----------------------------------------------------------------------------
LEMMA RecoveryIsPrefix == RecoveryInv => RecoverablePrefix
<1>1. SUFFICES ASSUME RecoveryInv, crashes = 0, NEW d \in Documents, lost[d] = {}
               PROVE  /\ Loadable(d)
                      /\ \E k \in Len(log[d])..applied[d] : Recovered(d) = 1..k
  BY Zenon DEF RecoverablePrefix
<1>2. Inv /\ Whole(d)
  BY <1>1, Zenon DEF RecoveryInv, Intact
<1>3. PICK v, l : v = snapshot[d].version /\ l = Len(log[d])
  BY Zenon
<1>4. /\ Loadable(d) /\ v \in Nat /\ v <= applied[d]
      /\ Recovered(d) = 1..(IF v > l THEN v ELSE l)
  BY <1>1, <1>2, <1>3, LoadsTheLog, Zenon
<1>5. l \in Nat /\ l <= applied[d] /\ applied[d] \in Nat
  BY <1>1, <1>2, <1>3, NumberedRows, ZenonT(60)
<1>6. (IF v > l THEN v ELSE l) \in l..applied[d]
  BY <1>4, <1>5, SMTT(30)
<1>7. QED
  BY <1>3, <1>4, <1>6, Zenon

LEMMA StoppedIsWritten == RecoveryInv => CleanShutdownKeepsAll
<1>1. SUFFICES ASSUME RecoveryInv, phase = "stopped", crashes = 0,
                      NEW d \in Documents, lost[d] = {}
               PROVE  Recovered(d) = 1..applied[d]
  BY Zenon DEF CleanShutdownKeepsAll
<1>2. Inv /\ Lifecycle /\ Whole(d)
  BY <1>1, Zenon DEF RecoveryInv, Intact
<1>3. Quiet(d)
  <2>1. phase # "flush"
    BY <1>1
  <2>2. NoOps(jobs) /\ pending = Each(<<>>) /\ batches = Each(<<>>)
    BY <1>1, <1>2, <2>1, Zenon DEF Lifecycle
  <2>3. QED
    BY <2>2, Zenon DEF Quiet, PlacesIn, NoOps, Each
<1>4. PICK v, l : v = snapshot[d].version /\ l = Len(log[d])
  BY Zenon
<1>5. /\ v \in Nat /\ v <= applied[d] /\ l = applied[d] /\ applied[d] \in Nat
      /\ Recovered(d) = 1..(IF v > l THEN v ELSE l)
  BY <1>1, <1>2, <1>3, <1>4, LoadsTheLog, QuietIsWritten, NumberedRows, ZenonT(60)
<1>6. QED
  BY <1>5

(* LoadDocument: unless an operation was dropped or the server crashed,    *)
(* what can be read back at any moment is a prefix of the edits that has   *)
(* all rows of the log, for every queue and batch size and any failures.   *)
THEOREM RecoverablePrefixTheorem == Spec => []RecoverablePrefix
<1>1. Init => RecoveryInv
  BY InitRecovery, Zenon
<1>2. RecoveryInv /\ [Next]_vars => RecoveryInv'
  BY StepRecovery, Zenon
<1>3. RecoveryInv => RecoverablePrefix
  BY RecoveryIsPrefix, Zenon
<1>4. QED
  BY <1>1, <1>2, <1>3, PTL DEF Spec

(* CloseContext: once rooms and writer have ended, every operation that    *)
(* was not dropped or refused by the store is read back.                   *)
THEOREM CleanShutdownKeepsAllTheorem == Spec => []CleanShutdownKeepsAll
<1>1. Init => RecoveryInv
  BY InitRecovery, Zenon
<1>2. RecoveryInv /\ [Next]_vars => RecoveryInv'
  BY StepRecovery, Zenon
<1>3. RecoveryInv => CleanShutdownKeepsAll
  BY StoppedIsWritten, Zenon
<1>4. QED
  BY <1>1, <1>2, <1>3, PTL DEF Spec

-----------------------------------------------------------------------------
(***************************************************************************)
(* The bounds: no room and no snapshot has an operation that was not       *)
(* accepted, a document has at most one snapshot waiting and one being     *)
(* saved, and the channel does not outgrow its capacity.                   *)
(***************************************************************************)
Held(d) ==
  /\ content[d] \subseteq 1..applied[d] /\ snapshot[d].content \subseteq 1..applied[d]
  /\ \A s \in pendingSnapshot[d] \cup saves[d] : s.content \subseteq 1..applied[d]
  /\ AtMostOne(pendingSnapshot[d]) /\ AtMostOne(saves[d])

Limits ==
  /\ opsSinceSnapshot \in [Documents -> Nat]
  /\ Len(jobs) <= QueueSize
  /\ phase \in {"select", "flush", "save", "stopped"}
  /\ snapshotQueued \in BOOLEAN /\ timerActive \in BOOLEAN /\ closing \in BOOLEAN
  /\ stopping \in BOOLEAN /\ dropped \in BOOLEAN
  /\ applied \in [Documents -> 0..MaxOps]
  /\ failures \in 0..MaxFailures /\ crashes \in 0..MaxCrashes

Bounds == Inv /\ Lifecycle /\ Limits /\ \A d \in Documents : Held(d)

LEMMA HeldSame ==
  ASSUME NEW d, Held(d), content'[d] = content[d], snapshot'[d] = snapshot[d],
         pendingSnapshot'[d] = pendingSnapshot[d], saves'[d] = saves[d],
         applied'[d] = applied[d]
  PROVE  Held(d)'
  BY Zenon DEF Held, AtMostOne

(* What is read back are operations that were accepted. *)
LEMMA RecoveredAccepted ==
  ASSUME Inv, NEW d \in Documents, Held(d)
  PROVE  Recovered(d) \subseteq 1..applied[d]
<1>1. PICK rows, v : rows = log[d] /\ v = snapshot[d].version
  BY Zenon
<1>2. rows \in Seq(Op) /\ v \in Nat
  BY <1>1, Zenon DEF Inv, Types, SnapshotSet
<1>3. PICK t : t = SubSeq(rows, v + 1, Len(rows))
  BY Zenon
<1>4. Numbers(Replayed(d)) \subseteq Numbers(log[d])
  <2>1. \A i \in DOMAIN t : i + v \in DOMAIN rows /\ t[i] = rows[i + v]
    BY <1>2, <1>3
  <2>2. Replayed(d) = t
    BY <1>1, <1>3, Zenon DEF Replayed
  <2>3. \A i \in DOMAIN t : t[i].n \in Numbers(rows)
    BY <2>1, Zenon DEF Numbers
  <2>4. Numbers(t) \subseteq Numbers(rows)
    BY <2>3, Zenon DEF Numbers
  <2>5. QED
    BY <1>1, <2>2, <2>4, Zenon
<1>5. Numbers(log[d]) \subseteq 1..applied[d]
  BY AccountBound, Zenon DEF Inv
<1>6. QED
  BY <1>4, <1>5, Zenon DEF Recovered, Held

LEMMA HeldStep ==
  ASSUME Inv, NEW e \in Documents, Held(e), [Next]_vars
  PROVE  Held(e)'
<1> USE DEF store, rooms, writer, counts
<1>1. ASSUME NEW d \in Documents, OpenRoom(d) PROVE Held(e)'
  <2>1. /\ UNCHANGED <<snapshot, pendingSnapshot, saves, applied>>
        /\ content' = [content EXCEPT ![d] = Recovered(d)]
    BY <1>1, Zenon DEF OpenRoom
  <2>2. content'[e] = content[e] \/ content'[e] = Recovered(e)
    BY <2>1, Zenon DEF Inv, Types
  <2>3. QED
    BY <2>1, <2>2, RecoveredAccepted, Zenon DEF Held, AtMostOne
<1>2. ASSUME NEW d \in Documents, ApplyOperation(d) PROVE Held(e)'
  <2>1. /\ UNCHANGED <<snapshot, pendingSnapshot, saves>>
        /\ applied' = [applied EXCEPT ![d] = @ + 1]
        /\ content' = [content EXCEPT ![d] = @ \cup {applied'[d]}]
    BY <1>2, Zenon DEF ApplyOperation
  <2>2. \/ applied'[e] = applied[e] /\ content'[e] = content[e]
        \/ applied'[e] = applied[e] + 1 /\ content'[e] = content[e] \cup {applied'[e]}
    BY <2>1, Zenon DEF Inv, Types
  <2>3. applied[e] \in Nat
    BY Zenon DEF Inv, Types
  <2>4. CASE applied'[e] = applied[e] + 1 /\ content'[e] = content[e] \cup {applied'[e]}
    <3>1. 1..applied[e] \subseteq 1..applied'[e] /\ applied'[e] \in 1..applied'[e]
      BY <2>3, <2>4
    <3>2. QED
      BY <2>1, <2>4, <3>1, Zenon DEF Held, AtMostOne
  <2>5. QED
    BY <2>1, <2>2, <2>4, HeldSame, Zenon
<1>3. ASSUME NEW d \in Documents, RequestSnapshot(d) PROVE Held(e)'
  <2>1. PICK s : s = [content |-> content[d], version |-> sequence[d]]
    BY Zenon
  <2>2. s.content = content[d]
    BY <2>1
  <2>3. /\ UNCHANGED <<content, snapshot, saves, applied>>
        /\ pendingSnapshot' = [pendingSnapshot EXCEPT ![d] = {s}]
    BY <1>3, <2>1, Zenon DEF RequestSnapshot
  <2>4. CASE d = e
    <3>1. pendingSnapshot'[e] = {s}
      BY <2>3, <2>4, Zenon DEF Inv, Types
    <3>2. QED
      BY <2>2, <2>3, <2>4, <3>1, Zenon DEF Held, AtMostOne
  <2>5. CASE d # e
    <3>1. pendingSnapshot'[e] = pendingSnapshot[e]
      BY <2>3, <2>5, Zenon DEF Inv, Types
    <3>2. QED
      BY <2>3, <3>1, HeldSame, Zenon
  <2>6. QED
    BY <2>4, <2>5, Zenon
<1>4. CASE TakeSnapshots
  <2>1. /\ UNCHANGED <<content, snapshot, applied>>
        /\ pendingSnapshot'[e] = {} /\ saves'[e] = pendingSnapshot[e]
    BY <1>4, Zenon DEF TakeSnapshots, Each
  <2>2. QED
    BY <2>1, Zenon DEF Held, AtMostOne
<1>5. ASSUME NEW d \in Documents, SaveSnapshot(d) \/ SaveSnapshotFails(d) PROVE Held(e)'
  <2>1. /\ UNCHANGED <<content, pendingSnapshot, applied>>
        /\ saves' = [saves EXCEPT ![d] = {}]
        /\ \/ UNCHANGED snapshot
           \/ \E s \in saves[d] : snapshot' = [snapshot EXCEPT ![d] = s]
    BY <1>5, Zenon DEF SaveSnapshot, SaveSnapshotFails
  <2>2. saves'[e] = saves[e] \/ saves'[e] = {}
    BY <2>1, Zenon DEF Inv, Types
  <2>3. snapshot'[e] = snapshot[e] \/ snapshot'[e] \in saves[e]
    BY <2>1, Zenon DEF Inv, Types
  <2>4. QED
    BY <2>1, <2>2, <2>3, Zenon DEF Held, AtMostOne
<1>6. CASE Crash \/ Restart
  <2>1. /\ UNCHANGED <<snapshot, applied>>
        /\ content'[e] = {} /\ pendingSnapshot'[e] = {} /\ saves'[e] = {}
    BY <1>6, Zenon DEF Crash, Restart, Reboot, Each
  <2>2. QED
    BY <2>1, Zenon DEF Held, AtMostOne
<1>7. CASE UNCHANGED <<content, snapshot, pendingSnapshot, saves, applied>>
  BY <1>7, HeldSame, Zenon
<1>8. ASSUME NEW d \in Documents,
             \/ SnapshotTick(d) \/ LeaveRoom(d) \/ SendSignal(d) \/ ResetSignal(d)
             \/ WriteBatch(d) \/ WriteBatchFails(d)
      PROVE  UNCHANGED <<content, snapshot, pendingSnapshot, saves, applied>>
  BY <1>8, Zenon DEF SnapshotTick, LeaveRoom, SendSignal, ResetSignal, WriteBatch,
                     WriteBatchFails
<1>9. CASE \/ TakeOperations \/ TakeSignal \/ FinishJob \/ TimerFires \/ Shutdown
           \/ CloseWriter \/ UNCHANGED vars
  <2>1. UNCHANGED <<content, snapshot, pendingSnapshot, saves, applied>>
    BY <1>9, ZenonT(60) DEF TakeOperations, TakeSignal, FinishJob, TimerFires, Shutdown,
                       CloseWriter, vars
  <2>2. QED
    BY <1>7, <2>1, Zenon
<1>10. QED
  BY <1>1, <1>2, <1>3, <1>4, <1>5, <1>6, <1>7, <1>8, <1>9, ZenonT(60)
     DEF Next, RoomStep, WriterStep

LEMMA LimitsRoomSteps ==
  ASSUME Inv, Limits, NEW d \in Documents,
         \/ OpenRoom(d) \/ ApplyOperation(d) \/ SnapshotTick(d) \/ LeaveRoom(d)
         \/ RoomStep(d)
  PROVE  Limits'
<1> USE DEF store, rooms, writer, counts
<1>1. 0 \in Nat /\ TRUE \in BOOLEAN /\ FALSE \in BOOLEAN
  BY SMT, SMTT(30)
<1>2. \A o \in JobSet : Len(jobs) < QueueSize => Len(Append(jobs, o)) <= QueueSize
  BY LimitsAssumption DEF Inv, Types
<1>3. SignalJob \in JobSet
  BY JobTypes, Zenon
<1>4. CASE OpenRoom(d)
  BY <1>1, <1>4, Zenon DEF OpenRoom, Limits
<1>5. CASE ApplyOperation(d)
  <2>1. /\ opsSinceSnapshot' = [opsSinceSnapshot EXCEPT ![d] = @ + 1]
        /\ applied' = [applied EXCEPT ![d] = @ + 1] /\ applied[d] < MaxOps
        /\ UNCHANGED <<phase, snapshotQueued, timerActive, closing, stopping, failures,
                       crashes>>
    BY <1>5, Zenon DEF ApplyOperation
  <2>2. /\ opsSinceSnapshot' \in [Documents -> Nat]
        /\ applied' \in [Documents -> 0..MaxOps]
    BY <2>1, LimitsAssumption, SMTT(30) DEF Limits
  <2>3. Len(jobs') <= QueueSize /\ dropped' \in BOOLEAN
    <3>1. CASE Len(jobs) < QueueSize
      <4>1. PICK p \in content[d] \cup {0} :
              jobs' = Append(jobs, OpsJob(d, [n |-> applied'[d], needs |-> p]))
        BY <1>5, <3>1, Zenon DEF ApplyOperation
      <4>2. dropped' = dropped
        BY <1>5, <3>1, Zenon DEF ApplyOperation
      <4>3. Len(jobs') <= QueueSize
        BY <3>1, <4>1, LimitsAssumption, SMTT(30) DEF Inv, Types
      <4>4. QED
        BY <4>2, <4>3, Zenon DEF Limits
    <3>2. CASE ~(Len(jobs) < QueueSize)
      BY <1>1, <1>5, <3>2, Zenon DEF ApplyOperation, Limits
    <3>3. QED
      BY <3>1, <3>2, Zenon
  <2>4. QED
    BY <2>1, <2>2, <2>3, Zenon DEF Limits
<1>6. CASE SnapshotTick(d) \/ LeaveRoom(d)
  BY <1>6, ZenonT(60) DEF SnapshotTick, LeaveRoom, Limits
<1>7. CASE RequestSnapshot(d)
  <2>1. opsSinceSnapshot' \in [Documents -> Nat]
    BY <1>1, <1>7, Zenon DEF RequestSnapshot, Limits
  <2>2. QED
    BY <1>1, <1>7, <2>1, Zenon DEF RequestSnapshot, Limits
<1>8. CASE SendSignal(d)
  <2>1. opsSinceSnapshot' \in [Documents -> Nat]
    BY <1>1, <1>8, Zenon DEF SendSignal, Limits
  <2>2. Len(jobs') <= QueueSize /\ dropped' \in BOOLEAN
    BY <1>1, <1>2, <1>3, <1>8, Zenon DEF SendSignal, Limits
  <2>3. QED
    BY <1>8, <2>1, <2>2, Zenon DEF SendSignal, Limits
<1>9. CASE ResetSignal(d)
  BY <1>1, <1>9, Zenon DEF ResetSignal, Limits
<1>10. QED
  BY <1>4, <1>5, <1>6, <1>7, <1>8, <1>9, Zenon DEF RoomStep

LEMMA LimitsOtherSteps ==
  ASSUME Inv, Limits, WriterStep \/ TimerFires \/ Shutdown \/ CloseWriter
  PROVE  Limits'
<1> USE DEF store, rooms, writer, counts
<1>1. TRUE \in BOOLEAN /\ FALSE \in BOOLEAN
  BY SMT, SMTT(30)
<1>2. jobs # <<>> => Len(Tail(jobs)) <= QueueSize
  BY LimitsAssumption DEF Inv, Types, Limits
<1>3. failures < MaxFailures => failures + 1 \in 0..MaxFailures
  BY LimitsAssumption DEF Limits
<1>4. CASE TakeOperations
  BY <1>1, <1>2, <1>4, Zenon DEF TakeOperations, JobIs, BufferOps, StartFlush, Limits
<1>5. CASE TimerFires
  BY <1>1, <1>5, Zenon DEF TimerFires, StartFlush, Limits
<1>6. CASE TakeSignal
  <2>1. JobIs("close") \in BOOLEAN
    BY <1>6 DEF JobIs
  <2>2. QED
    BY <1>1, <1>2, <1>6, <2>1, Zenon DEF TakeSignal, JobIs, StartFlush, Limits
<1>7. ASSUME NEW d \in Documents,
             WriteBatch(d) \/ WriteBatchFails(d) \/ SaveSnapshot(d) \/ SaveSnapshotFails(d)
      PROVE  Limits'
  BY <1>3, <1>7, ZenonT(60) DEF WriteBatch, WriteBatchFails, SaveSnapshot, SaveSnapshotFails,
                           Limits
<1>8. CASE TakeSnapshots \/ FinishJob \/ Shutdown
  BY <1>1, <1>8, Zenon DEF TakeSnapshots, SignalAfterTake, FinishJob, Shutdown, Limits
<1>9. CASE CloseWriter
  <2>1. Len(Append(jobs, CloseJob)) <= QueueSize
    BY <1>9, LimitsAssumption DEF Inv, Types, CloseWriter
  <2>2. QED
    BY <1>9, <2>1, ZenonT(60) DEF CloseWriter, Limits
<1>10. QED
  BY <1>4, <1>5, <1>6, <1>7, <1>8, <1>9, Zenon DEF WriterStep

LEMMA LimitsReboot ==
  ASSUME Limits, Crash \/ Restart
  PROVE  Limits'
<1>1. 0 \in Nat /\ FALSE \in BOOLEAN /\ Len(<<>>) <= QueueSize
  BY LimitsAssumption
<1>2. crashes < MaxCrashes => crashes + 1 \in 0..MaxCrashes
  BY LimitsAssumption DEF Limits
<1>3. crashes' \in 0..MaxCrashes /\ Reboot
  BY <1>2, Zenon DEF Crash, Restart, Limits
<1>4. QED
  BY <1>1, <1>3, Zenon DEF Reboot, Each, store, Limits

LEMMA InitBounds == Init => Bounds
<1>1. SUFFICES ASSUME Init PROVE Bounds
  BY Zenon
<1>2. Inv /\ Lifecycle
  BY <1>1, InitRecovery, Zenon DEF RecoveryInv
<1>3. /\ 0 \in Nat /\ FALSE \in BOOLEAN /\ Len(<<>>) <= QueueSize
      /\ 0 \in 0..MaxOps /\ 0 \in 0..MaxFailures /\ 0 \in 0..MaxCrashes
  BY LimitsAssumption
<1>4. Limits
  BY <1>1, <1>3, Zenon DEF Init, Each, Limits
<1>5. ASSUME NEW d \in Documents PROVE Held(d)
  <2>1. PICK s : s = [content |-> {}, version |-> 0]
    BY Zenon
  <2>2. s.content = {}
    BY <2>1
  <2>3. /\ content[d] = {} /\ snapshot[d] = s /\ pendingSnapshot[d] = {} /\ saves[d] = {}
    BY <1>1, <2>1, Zenon DEF Init, Each
  <2>4. QED
    BY <2>2, <2>3, Zenon DEF Held, AtMostOne
<1>6. QED
  BY <1>2, <1>4, <1>5, Zenon DEF Bounds

LEMMA StepBounds == Bounds /\ [Next]_vars => Bounds'
<1>1. SUFFICES ASSUME Bounds, [Next]_vars PROVE Bounds'
  BY Zenon
<1>2. Inv' /\ Lifecycle'
  BY <1>1, StepInv, LifecycleStep, Zenon DEF Bounds
<1>3. \A d \in Documents : Held(d)'
  BY <1>1, HeldStep, Zenon DEF Bounds
<1>4. CASE UNCHANGED vars
  <2>1. Limits'
    BY <1>1, <1>4, Zenon DEF Bounds, Limits, vars, rooms, writer, counts
  <2>2. QED
    BY <1>2, <1>3, <2>1, Zenon DEF Bounds
<1>5. CASE Next
  <2>1. Limits'
    BY <1>1, <1>5, LimitsRoomSteps, LimitsOtherSteps, LimitsReboot, ZenonT(60)
       DEF Bounds, Next
  <2>2. QED
    BY <1>2, <1>3, <2>1, Zenon DEF Bounds
<1>6. QED
  BY <1>1, <1>4, <1>5, Zenon

LEMMA BoundsAreTypes == Bounds => TypeOK
<1>1. SUFFICES ASSUME Bounds PROVE TypeOK
  BY Zenon
<1>2. Types /\ Lifecycle /\ Limits
  BY <1>1, Zenon DEF Bounds, Inv
<1>3. ASSUME NEW d \in Documents
      PROVE  /\ IsOps(log[d]) /\ IsOps(pending[d]) /\ IsOps(batches[d])
             /\ \A s \in {snapshot[d]} \cup pendingSnapshot[d] \cup saves[d] : IsSnapshot(s)
             /\ AtMostOne(pendingSnapshot[d]) /\ AtMostOne(saves[d])
             /\ content[d] \subseteq 1..applied[d]
             /\ lost[d] \subseteq 1..applied[d]
  <2>1. /\ log[d] \in Seq(Op) /\ pending[d] \in Seq(Op) /\ batches[d] \in Seq(Op)
        /\ applied[d] \in Nat /\ snapshot[d] \in SnapshotSet
        /\ pendingSnapshot[d] \subseteq SnapshotSet /\ saves[d] \subseteq SnapshotSet
    BY <1>2, Zenon DEF Types
  <2>2. Held(d) /\ Account(d)
    BY <1>1, Zenon DEF Bounds, Inv
  <2>3. \A s \in Seq(Op) : IsOps(s)
    BY DEF IsOps
  <2>4. 1..applied[d] \subseteq Nat \ {0}
    BY <2>1
  <2>5. ASSUME NEW s \in {snapshot[d]} \cup pendingSnapshot[d] \cup saves[d]
        PROVE  IsSnapshot(s)
    <3>1. s.version \in Nat
      BY <2>1, Zenon DEF SnapshotSet
    <3>2. s.content \subseteq 1..applied[d]
      BY <2>2, Zenon DEF Held
    <3>3. QED
      BY <2>4, <3>1, <3>2, Zenon DEF IsSnapshot
  <2>6. AtMostOne(pendingSnapshot[d]) /\ AtMostOne(saves[d])
    BY <2>2, Zenon DEF Held
  <2>7. content[d] \subseteq 1..applied[d] /\ lost[d] \subseteq 1..applied[d]
    BY <2>2, AccountBound, Zenon DEF Held
  <2>8. QED
    BY <2>1, <2>3, <2>5, <2>6, <2>7, Zenon
<1>4. ASSUME NEW i \in DOMAIN jobs
      PROVE  \/ jobs[i] \in {SignalJob, CloseJob}
             \/ jobs[i] \in [kind : {"operations"}, doc : Documents, op : Op]
  <2>1. jobs[i] \in JobSet
    <3>1. jobs \in Seq(JobSet)
      BY <1>2, Zenon DEF Types
    <3>2. QED
      BY <3>1
  <2>2. QED
    BY <2>1, Zenon DEF JobSet
<1>5. /\ open \subseteq Documents /\ leaving \subseteq open
      /\ pc \in [Documents -> {"idle", "request", "signal", "reset"}]
      /\ sequence \in [Documents -> Nat]
  BY <1>2, Zenon DEF Lifecycle, Types
<1>6. {snapshotQueued, timerActive, closing, stopping, dropped} \subseteq BOOLEAN
  BY <1>2, ZenonT(60) DEF Limits
<1>7. QED
  BY <1>2, <1>3, <1>4, <1>5, <1>6, Zenon DEF Limits, TypeOK

(* The writer and its rooms for any bounds: no room and no snapshot holds  *)
(* an operation that was never accepted, a document has at most one        *)
(* snapshot pending, and the queue of the writer keeps its capacity.       *)
THEOREM TypeOKTheorem == Spec => []TypeOK
<1>1. Init => Bounds
  BY InitBounds, Zenon
<1>2. Bounds /\ [Next]_vars => Bounds'
  BY StepBounds, Zenon
<1>3. Bounds => TypeOK
  BY BoundsAreTypes, Zenon
<1>4. QED
  BY <1>1, <1>2, <1>3, PTL DEF Spec

-----------------------------------------------------------------------------
(***************************************************************************)
(* The points of the history view.                                         *)
(***************************************************************************)
PointSet == [doc : Documents, seq : Nat, content : SUBSET Nat, complete : BOOLEAN]

ReaderTypes ==
  /\ at \in [Readers -> {"idle", "max", "lookup", "rows", "set", "answered", "failed"}]
  /\ doc \in [Readers -> Documents]
  /\ seq \in [Readers -> Nat]
  /\ base \in [Readers -> SnapshotSet]
  /\ built \in [Readers -> PointSet]
  /\ points \in SUBSET PointSet

Truthful(p) ==
  Intact(p.doc) => \E k \in 0..p.seq : /\ p.content = 1..k
                                       /\ p.complete => k = p.seq

(* Between its two reads a request has a snapshot of the first operations, *)
(* not later than the number asked for.                                    *)
ReadsOn(q) ==
  /\ at[q] = "rows" => base[q].version <= seq[q]
  /\ Intact(doc[q]) => /\ at[q] # "failed"
                       /\ at[q] = "rows" => base[q].content = 1..base[q].version

Reading ==
  /\ ReaderTypes
  /\ \A p \in points : Truthful(p)
  /\ \A q \in Readers : Truthful(built[q]) /\ ReadsOn(q)

LEMMA Extremes ==
  ASSUME NEW a \in Nat, NEW b \in Nat
  PROVE  /\ Max({a, b}) = IF a > b THEN a ELSE b
         /\ Min({a, b}) = IF a > b THEN b ELSE a
<1>1. \E x \in {a, b} : \A y \in {a, b} : x >= y
  OBVIOUS
<1>2. Max({a, b}) \in {a, b} /\ \A y \in {a, b} : Max({a, b}) >= y
  BY <1>1, Zenon DEF Max
<1>3. \E x \in {a, b} : \A y \in {a, b} : x =< y
  OBVIOUS
<1>4. Min({a, b}) \in {a, b} /\ \A y \in {a, b} : Min({a, b}) =< y
  BY <1>3, Zenon DEF Min
<1>5. QED
  BY <1>2, <1>4

(* An empty point, and the snapshot of a document that has none. *)
LEMMA NothingYet ==
  ASSUME NEW d \in Documents
  PROVE  /\ Point(d, 0, {}, TRUE) \in PointSet /\ Truthful(Point(d, 0, {}, TRUE))
         /\ NoSnapshot \in SnapshotSet /\ NoSnapshot.version = 0
         /\ NoSnapshot.content = 1..0
<1>1. 0 \in Nat /\ 0 \in 0..0 /\ 1..0 = {} /\ TRUE \in BOOLEAN
  OBVIOUS
<1>2. Point(d, 0, {}, TRUE) \in PointSet
  BY <1>1, Zenon DEF Point, PointSet
<1>3. Truthful(Point(d, 0, {}, TRUE))
  BY <1>1, Zenon DEF Point, Truthful
<1>4. QED
  BY <1>1, <1>2, <1>3, Zenon DEF NoSnapshot, SnapshotSet

LEMMA InitReading == HistoryInit => Reading
<1>1. SUFFICES ASSUME HistoryInit PROVE Reading
  BY Zenon
<1>2. 0 \in Nat /\ doc \in [Readers -> Documents] /\ points = {}
  BY <1>1, Zenon DEF HistoryInit
<1>3. /\ at = [q \in Readers |-> "idle"] /\ seq = [q \in Readers |-> 0]
      /\ base = [q \in Readers |-> NoSnapshot]
      /\ built = [q \in Readers |-> Point(doc[q], 0, {}, TRUE)]
  BY <1>1, Zenon DEF HistoryInit
<1>4. ReaderTypes
  BY <1>2, <1>3, NothingYet, Zenon DEF ReaderTypes
<1>5. ASSUME NEW q \in Readers PROVE Truthful(built[q]) /\ ReadsOn(q)
  <2>1. at[q] # "rows" /\ at[q] # "failed"
    BY <1>3
  <2>2. Truthful(built[q])
    BY <1>2, <1>3, NothingYet, Zenon
  <2>3. QED
    BY <2>1, <2>2, Zenon DEF ReadsOn
<1>6. QED
  BY <1>2, <1>4, <1>5, Zenon DEF Reading

LEMMA ReadingOtherSteps ==
  ASSUME Reading, \A d \in Documents : Intact(d)' => Intact(d),
         ForgetReaders \/ UNCHANGED readers
  PROVE  Reading'
<1>1. CASE UNCHANGED readers
  <2>1. UNCHANGED <<at, doc, seq, base, built, points>>
    BY <1>1, Zenon DEF readers
  <2>2. ReaderTypes'
    BY <2>1, Zenon DEF ReaderTypes, Reading
  <2>3. ASSUME NEW p \in PointSet, Truthful(p) PROVE Truthful(p)'
    <3>1. p.doc \in Documents
      BY Zenon DEF PointSet
    <3>2. QED
      BY <2>3, <3>1, Zenon DEF Truthful
  <2>4. \A q \in Readers : ReadsOn(q)'
    BY <2>1, Zenon DEF ReadsOn, Reading, ReaderTypes
  <2>5. \A q \in Readers : Truthful(built[q])'
    BY <2>1, <2>3, Zenon DEF Reading, ReaderTypes
  <2>6. \A p \in points' : Truthful(p)'
    BY <2>1, <2>3, Zenon DEF Reading, ReaderTypes
  <2>7. QED
    BY <2>2, <2>4, <2>5, <2>6, Zenon DEF Reading
<1>2. CASE ForgetReaders
  <2>1. /\ at' = [q \in Readers |-> "idle"] /\ seq' = [q \in Readers |-> 0]
        /\ base' = [q \in Readers |-> NoSnapshot] /\ doc' = doc /\ points' = {}
        /\ built' = [q \in Readers |-> Point(doc[q], 0, {}, TRUE)]
        /\ doc \in [Readers -> Documents]
    BY <1>2, Zenon DEF ForgetReaders, Reading, ReaderTypes
  <2>2. ReaderTypes'
    BY <2>1, NothingYet, Zenon DEF ReaderTypes
  <2>3. ASSUME NEW q \in Readers PROVE Truthful(built[q])' /\ ReadsOn(q)'
    <3>1. at'[q] # "rows" /\ at'[q] # "failed"
      BY <2>1
    <3>2. built'[q].doc = doc[q] /\ built'[q].seq = 0 /\ built'[q].content = {}
          /\ built'[q].complete = TRUE
      BY <2>1, Zenon DEF Point
    <3>3. 0 \in 0..0 /\ {} = 1..0
      OBVIOUS
    <3>4. Truthful(built[q])'
      BY <3>2, <3>3, Zenon DEF Truthful
    <3>5. QED
      BY <3>1, <3>4, Zenon DEF ReadsOn
  <2>4. QED
    BY <2>1, <2>2, <2>3, Zenon DEF Reading
<1>3. QED
  BY <1>1, <1>2, Zenon

(* A step of reader q. *)
LEMMA OneReader ==
  ASSUME Reading, UNCHANGED <<crashes, lost>>, ReaderTypes', NEW q \in Readers,
         \A r \in Readers \ {q} : /\ at'[r] = at[r] /\ doc'[r] = doc[r] /\ seq'[r] = seq[r]
                                  /\ base'[r] = base[r] /\ built'[r] = built[r],
         \A p \in points' : p \in points \/ p = built[q],
         Truthful(built'[q]), ReadsOn(q)'
  PROVE  Reading'
<1>1. \A p : Truthful(p)' <=> Truthful(p)
  BY Zenon DEF Truthful, Intact
<1>2. \A p \in points' : Truthful(p)'
  BY <1>1, Zenon DEF Reading
<1>3. ASSUME NEW r \in Readers PROVE Truthful(built'[r]) /\ ReadsOn(r)'
  <2>1. CASE r = q
    BY <2>1, Zenon
  <2>2. CASE r # q
    BY <2>2, Zenon DEF Reading, ReadsOn, Intact
  <2>3. QED
    BY <2>1, <2>2, Zenon
<1>4. \A r \in Readers : Truthful(built[r])'
  BY <1>3, Zenon DEF Truthful, Intact
<1>5. QED
  BY <1>2, <1>3, <1>4, Zenon DEF Reading

LEMMA ReadingBounds ==
  ASSUME Inv, Reading, UNCHANGED <<crashes, lost>>, NEW q \in Readers,
         (\E d \in Documents : ReadVersion(q, d)) \/ ReadMax(q)
  PROVE  Reading'
<1>t. ReaderTypes
  BY Zenon DEF Reading
<1>1. PICK s \in Nat, to \in {"max", "lookup"}, d \in Documents :
        /\ at' = [at EXCEPT ![q] = to] /\ seq' = [seq EXCEPT ![q] = s]
        /\ doc' = doc \/ doc' = [doc EXCEPT ![q] = d]
        /\ UNCHANGED <<base, built, points>>
  <2>1. CASE \E d \in Documents : ReadVersion(q, d)
    <3>1. PICK d \in Documents : ReadVersion(q, d)
      BY <2>1, Zenon
    <3>2. snapshot[d].version \in Nat
      BY Zenon DEF Inv, Types, SnapshotSet
    <3>3. QED
      BY <3>1, <3>2, Zenon DEF ReadVersion, Step
  <2>2. CASE ReadMax(q)
    <3>1. seq[q] \in Nat /\ doc[q] \in Documents /\ log[doc[q]] \in Seq(Op)
      BY <1>t, Zenon DEF ReaderTypes, Inv, Types
    <3>2. PICK l, m : l = Len(log[doc[q]]) /\ m = Max({seq[q], Len(log[doc[q]])})
      BY Zenon
    <3>3. l \in Nat
      BY <3>1, <3>2
    <3>4. m \in Nat
      BY <3>1, <3>2, <3>3, Extremes, Zenon
    <3>5. \A r \in 0..MaxOps + 1 : clampHistorySequence(r, 0, m) \in Nat
      BY <3>4, LimitsAssumption DEF clampHistorySequence
    <3>6. PICK r \in 0..MaxOps + 1 :
            seq' = [seq EXCEPT ![q] = clampHistorySequence(r, 0, m)]
      BY <2>2, <3>2, Zenon DEF ReadMax
    <3>7. PICK s : s = clampHistorySequence(r, 0, m)
      BY Zenon
    <3>8. s \in Nat /\ seq' = [seq EXCEPT ![q] = s]
      BY <3>5, <3>6, <3>7, Zenon
    <3>9. QED
      BY <2>2, <3>1, <3>8, ZenonT(60) DEF ReadMax, Step
  <2>3. QED
    BY <2>1, <2>2, Zenon
<1>2. /\ ReaderTypes' /\ at'[q] = to
      /\ \A r \in Readers \ {q} : at'[r] = at[r] /\ doc'[r] = doc[r] /\ seq'[r] = seq[r]
  BY <1>t, <1>1, SMTT(30) DEF ReaderTypes
<1>3. at'[q] # "rows" /\ at'[q] # "failed"
  BY <1>1, <1>2
<1>4. Truthful(built'[q]) /\ ReadsOn(q)'
  BY <1>1, <1>3, Zenon DEF Reading, ReadsOn
<1>5. QED
  BY <1>1, <1>2, <1>4, OneReader, Zenon

LEMMA ReadingCache ==
  ASSUME Reading, UNCHANGED <<crashes, lost>>, NEW q \in Readers,
         Hit(q) \/ SetPoint(q) \/ Answer(q)
  PROVE  Reading'
<1>t. ReaderTypes
  BY Zenon DEF Reading
<1>1. PICK to \in {"idle", "answered"}, p \in PointSet :
        /\ at' = [at EXCEPT ![q] = to] /\ UNCHANGED doc /\ Truthful(p)
        /\ built' = built \/ built' = [built EXCEPT ![q] = p]
        /\ seq' = seq \/ seq' = [seq EXCEPT ![q] = 0]
        /\ base' = base \/ base' = [base EXCEPT ![q] = NoSnapshot]
        /\ points' \subseteq points \cup {built[q]}
  <2>1. CASE Hit(q)
    <3>1. PICK p \in points : built' = [built EXCEPT ![q] = p]
      BY <2>1, Zenon DEF Hit
    <3>2. p \in PointSet /\ Truthful(p)
      BY <1>t, Zenon DEF Reading, ReaderTypes
    <3>3. QED
      BY <2>1, <3>1, <3>2, Zenon DEF Hit, Step
  <2>2. CASE SetPoint(q)
    <3>1. built[q] \in PointSet /\ Truthful(built[q])
      BY <1>t, Zenon DEF Reading, ReaderTypes
    <3>2. QED
      BY <2>2, <3>1, Zenon DEF SetPoint, Step
  <2>3. CASE Answer(q)
    <3>1. PICK p : p = Point(doc[q], 0, {}, TRUE)
      BY Zenon
    <3>2. p \in PointSet /\ Truthful(p)
      BY <1>t, <3>1, NothingYet, Zenon DEF ReaderTypes
    <3>3. QED
      BY <2>3, <3>1, <3>2, Zenon DEF Answer
  <2>4. QED
    BY <2>1, <2>2, <2>3, Zenon
<1>2. NoSnapshot \in SnapshotSet
  BY <1>t, NothingYet, Zenon DEF ReaderTypes
<1>3. /\ ReaderTypes' /\ at'[q] = to
      /\ \A r \in Readers \ {q} : /\ at'[r] = at[r] /\ doc'[r] = doc[r] /\ seq'[r] = seq[r]
                                  /\ base'[r] = base[r] /\ built'[r] = built[r]
      /\ built'[q] \in {built[q], p}
  BY <1>t, <1>1, <1>2, SMTT(30) DEF ReaderTypes
<1>4. at'[q] # "rows" /\ at'[q] # "failed"
  BY <1>1, <1>3
<1>5. Truthful(built'[q]) /\ ReadsOn(q)'
  BY <1>1, <1>3, <1>4, Zenon DEF Reading, ReadsOn
<1>6. QED
  BY <1>1, <1>3, <1>5, OneReader, Zenon

LEMMA ReadingSnapshot ==
  ASSUME RecoveryInv, Reading, UNCHANGED <<crashes, lost>>, NEW q \in Readers, ReadSnapshot(q)
  PROVE  Reading'
<1>t. ReaderTypes /\ Inv
  BY Zenon DEF Reading, RecoveryInv
<1>1. PICK s : s = SnapshotBeforeSeq(doc[q], seq[q])
  BY Zenon
<1>2. /\ at' = [at EXCEPT ![q] = "rows"] /\ base' = [base EXCEPT ![q] = s]
      /\ UNCHANGED <<doc, seq, built, points>>
  BY <1>1, Zenon DEF ReadSnapshot, Step
<1>3. /\ seq[q] \in Nat /\ doc[q] \in Documents /\ snapshot[doc[q]] \in SnapshotSet
      /\ snapshot[doc[q]].version \in Nat
  BY <1>t, Zenon DEF ReaderTypes, Inv, Types, SnapshotSet
<1>4. /\ NoSnapshot \in SnapshotSet /\ NoSnapshot.content = 1..NoSnapshot.version
      /\ NoSnapshot.version = 0
  BY <1>3, NothingYet, ZenonT(60)
<1>5. s \in SnapshotSet /\ s.version <= seq[q]
  BY <1>1, <1>3, <1>4, SMTT(30) DEF SnapshotBeforeSeq
<1>6. Intact(doc[q]) => s.content = 1..s.version
  <2>1. Intact(doc[q]) => snapshot[doc[q]].content = 1..snapshot[doc[q]].version
    BY <1>3, Zenon DEF RecoveryInv, Whole, Exact
  <2>2. QED
    BY <1>1, <1>4, <2>1, Zenon DEF SnapshotBeforeSeq
<1>7. /\ ReaderTypes' /\ at'[q] = "rows" /\ base'[q] = s
      /\ \A r \in Readers \ {q} : at'[r] = at[r] /\ base'[r] = base[r]
  BY <1>t, <1>2, <1>5, SMTT(30) DEF ReaderTypes
<1>8. at'[q] # "failed"
  BY <1>7
<1>9. Truthful(built'[q]) /\ ReadsOn(q)'
  BY <1>2, <1>5, <1>6, <1>7, <1>8, Zenon DEF Reading, ReadsOn, Intact
<1>10. QED
  BY <1>2, <1>7, <1>9, OneReader, Zenon

(* The rows between the snapshot and the number that was asked for. *)
LEMMA RowsBuildThePoint ==
  ASSUME Inv, NEW d \in Documents, Whole(d), NEW v \in Nat, NEW s \in Nat, v <= s,
         NEW rows, rows = OperationsInRange(d, v, s)
  PROVE  /\ Replayable(1..v, rows)
         /\ \E k \in 0..s : /\ 1..v \cup Numbers(rows) = 1..k
                            /\ s <= Max({v, Len(log[d])}) => k = s
<1>1. log[d] \in Seq(Op) /\ Counted(log[d], 0)
  BY Zenon DEF Inv, Types, Whole
<1>2. PICK l, m, t : l = Len(log[d]) /\ m = Min({s, Len(log[d])}) /\ t = Max({v, Len(log[d])})
  BY Zenon
<1>3. l \in Nat
  BY <1>1, <1>2
<1>4. m = (IF s > l THEN l ELSE s) /\ t = (IF v > l THEN v ELSE l)
  BY <1>2, <1>3, Extremes, Zenon
<1>a. m \in 0..l
  BY <1>3, <1>4
<1>5. m \in 0..Len(log[d])
  BY <1>2, <1>a, Zenon
<1>6. rows = SubSeq(log[d], v + 1, m)
  BY <1>2, Zenon DEF OperationsInRange
<1>7. /\ 1..v \cup Numbers(rows) = 1..(IF v > m THEN v ELSE m)
      /\ \A i \in DOMAIN rows :
           rows[i].needs \in {0} \cup 1..v \cup Numbers(SubSeq(rows, 1, i - 1))
  BY <1>1, <1>5, <1>6, ReplayedRows, ZenonT(60)
<1>8. PICK k : k = IF v > m THEN v ELSE m
  BY Zenon
<1>9. k \in 0..s /\ (s <= t => k = s)
  BY <1>3, <1>4, <1>8, SMTT(30)
<1>10. QED
  BY <1>2, <1>7, <1>8, <1>9, Zenon DEF Replayable

LEMMA ReadingRows ==
  ASSUME RecoveryInv, Reading, UNCHANGED <<crashes, lost>>, NEW q \in Readers, ReadRows(q)
  PROVE  Reading'
<1>t. ReaderTypes /\ Inv
  BY Zenon DEF Reading, RecoveryInv
<1>1. PICK d, v, s, c, rows :
        /\ d = doc[q] /\ v = base[q].version /\ s = seq[q] /\ c = base[q].content
        /\ rows = OperationsInRange(doc[q], base[q].version, seq[q])
  BY Zenon
<1>2. /\ d \in Documents /\ v \in Nat /\ s \in Nat /\ c \in SUBSET Nat /\ v <= s
      /\ Intact(d) => c = 1..v
  BY <1>t, <1>1, Zenon DEF ReaderTypes, SnapshotSet, Reading, ReadsOn, ReadRows
<1>3. ASSUME Intact(d)
      PROVE  /\ Replayable(c, rows)
             /\ \E k \in 0..s : /\ c \cup Numbers(rows) = 1..k
                                /\ s <= Max({v, Len(log[d])}) => k = s
  <2>1. Whole(d) /\ c = 1..v /\ rows = OperationsInRange(d, v, s)
    BY <1>1, <1>2, <1>3, Zenon DEF RecoveryInv
  <2>2. /\ Replayable(1..v, rows)
        /\ \E k \in 0..s : /\ 1..v \cup Numbers(rows) = 1..k
                           /\ s <= Max({v, Len(log[d])}) => k = s
    BY <1>t, <1>2, <2>1, RowsBuildThePoint, Zenon
  <2>3. QED
    BY <2>1, <2>2, Zenon
<1>4. PICK f : f = (s <= Max({v, Len(log[d])}))
  BY Zenon
<1>5. PICK p : p = Point(d, s, c \cup Numbers(rows), f)
  BY Zenon
<1>6. /\ UNCHANGED <<doc, seq, base, points>>
      /\ \/ at' = [at EXCEPT ![q] = "set"] /\ built' = [built EXCEPT ![q] = p]
         \/ /\ ~Replayable(c, rows) /\ UNCHANGED built
            /\ at' = [at EXCEPT ![q] = "failed"]
  BY <1>1, <1>4, <1>5, Zenon DEF ReadRows
<1>7. p \in PointSet
  <2>1. PICK l, m, x : /\ l = Len(log[d]) /\ m = Min({s, Len(log[d])})
                       /\ x = Max({v, Len(log[d])})
    BY Zenon
  <2>2. log[d] \in Seq(Op)
    BY <1>t, <1>2, Zenon DEF Inv, Types
  <2>3. l \in Nat
    BY <2>1, <2>2
  <2>4. m = (IF s > l THEN l ELSE s) /\ x = (IF v > l THEN v ELSE l)
    BY <1>2, <2>1, <2>3, Extremes, Zenon
  <2>a. m \in 0..l /\ (s <= x) \in BOOLEAN
    BY <1>2, <2>3, <2>4, SMTT(30)
  <2>5. m \in 0..Len(log[d]) /\ (s <= x) \in BOOLEAN
    BY <2>1, <2>a, Zenon
  <2>6. \A u \in Seq(Op), i \in Nat : \A j \in 0..Len(u) : SubSeq(u, i + 1, j) \in Seq(Op)
    OBVIOUS
  <2>7. Numbers(rows) \subseteq Nat
    BY <1>1, <1>2, <2>1, <2>2, <2>5, <2>6, NumbersAreNumbers, ZenonT(60) DEF OperationsInRange
  <2>8. f \in BOOLEAN
    BY <1>4, <2>1, <2>5, Zenon
  <2>9. QED
    BY <1>2, <1>5, <2>7, <2>8, Zenon DEF Point, PointSet
<1>8. Truthful(p)
  BY <1>3, <1>4, <1>5, ZenonT(60) DEF Truthful, Point
<1>9. /\ ReaderTypes'
      /\ \A r \in Readers \ {q} : at'[r] = at[r] /\ built'[r] = built[r]
      /\ \/ at'[q] = "set" /\ built'[q] = p
         \/ at'[q] = "failed" /\ built'[q] = built[q] /\ ~Replayable(c, rows)
  BY <1>t, <1>6, <1>7, SMTT(30) DEF ReaderTypes
<1>10. Truthful(built'[q])
  BY <1>8, <1>9, Zenon DEF Reading
<1>11. ReadsOn(q)'
  <2>1. at'[q] # "rows" /\ (at'[q] = "failed" => ~Replayable(c, rows))
    BY <1>9
  <2>2. QED
    BY <1>1, <1>3, <1>6, <2>1, ZenonT(60) DEF ReadsOn, Intact
<1>12. QED
  BY <1>6, <1>9, <1>10, <1>11, OneReader, ZenonT(60)

LEMMA StepHistory ==
  RecoveryInv /\ Reading /\ [HistoryNext]_<<vars, readers>> => RecoveryInv' /\ Reading'
<1>1. SUFFICES ASSUME RecoveryInv, Reading, [HistoryNext]_<<vars, readers>>
               PROVE  RecoveryInv' /\ Reading'
  BY Zenon
<1>2. CASE [Next]_vars /\ (ForgetReaders \/ UNCHANGED readers)
  <2>1. RecoveryInv' /\ \A d \in Documents : Intact(d)' => Intact(d)
    BY <1>1, <1>2, StepRecovery, LostStaysLost, Zenon DEF RecoveryInv
  <2>2. QED
    BY <1>1, <1>2, <2>1, ReadingOtherSteps, Zenon
<1>3. CASE ReaderStep /\ UNCHANGED vars
  <2>1. RecoveryInv'
    BY <1>1, <1>3, StepRecovery, Zenon
  <2>2. UNCHANGED <<crashes, lost>>
    BY <1>3 DEF vars, counts
  <2>3. ASSUME NEW p \in points, Expire(p) PROVE Reading'
    <3>1. UNCHANGED <<at, doc, seq, base, built>> /\ points' \subseteq points
      BY <2>3, Zenon DEF Expire
    <3>2. ReaderTypes'
      BY <1>1, <3>1, ZenonT(60) DEF Reading, ReaderTypes
    <3>3. QED
      BY <1>1, <2>2, <3>1, <3>2, ZenonT(60) DEF Reading, Truthful, ReadsOn, Intact
  <2>4. QED
    BY <1>1, <1>3, <2>1, <2>2, <2>3, ReadingBounds, ReadingCache, ReadingSnapshot,
       ReadingRows, ZenonT(60) DEF ReaderStep, RecoveryInv
<1>4. QED
  <2>1. CASE HistoryNext
    BY <1>2, <1>3, <2>1, Zenon DEF HistoryNext
  <2>2. CASE UNCHANGED <<vars, readers>>
    <3>1. UNCHANGED vars /\ UNCHANGED readers
      BY <2>2, Zenon
    <3>2. QED
      BY <1>2, <3>1, Zenon
  <2>3. QED
    BY <1>1, <2>1, <2>2, Zenon

(* The history view: unless an operation was dropped or the server         *)
(* crashed, a point shows the first edits of the document, none after its  *)
(* number, and all of them when their rows were there, for any number of   *)
(* requests and whatever the writer saves between their reads.             *)
THEOREM PointsAreTrueTheorem == HistorySpec => []PointsAreTrue
<1>1. HistoryInit => RecoveryInv /\ Reading
  BY InitRecovery, InitReading, Zenon DEF HistoryInit
<1>2. RecoveryInv /\ Reading /\ [HistoryNext]_<<vars, readers>> => RecoveryInv' /\ Reading'
  BY StepHistory, Zenon
<1>3. Reading => PointsAreTrue
  <2>1. SUFFICES ASSUME Reading PROVE PointsAreTrue
    BY Zenon
  <2>2. \A p \in points \cup {built[q] : q \in Readers} : Truthful(p)
    BY <2>1, Zenon DEF Reading
  <2>3. QED
    BY <2>1, <2>2, Zenon DEF PointsAreTrue, Truthful, Reading, ReadsOn
<1>4. QED
  BY <1>1, <1>2, <1>3, PTL DEF HistorySpec
=============================================================================
