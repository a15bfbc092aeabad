# A TLA+ model of gopad

gopad is a collaborative text editor: browsers edit one document over
WebSockets, a room on the server orders and forwards their operations, and a
writer behind the room makes them durable in SQLite. This directory models the
parts of it where something can go wrong between steps, checks the models with
TLC on small instances, and proves what does not depend on an instance with
TLAPS.

## The system

| Part | Source | State | Operations |
|---|---|---|---|
| CRDT document, server | `internal/crdt/document.go` | map from character IDs to rune, left and right anchor, tombstone flag | `Apply`, `Compact`, `Snapshot`, `Text` |
| CRDT document, browser | `web/assets/crdt.js` | the same | `apply`, `replaceSnapshot`, `snapshot`, `createTextOperations` |
| Room | `internal/realtime/room.go` | document, sequence, clients, operations since the last snapshot, timers | register, unregister, apply and broadcast, cursor, compact, shutdown, idle timeout |
| Fan-out pool | `internal/realtime/room.go` | one queue shared by all rooms | submit without waiting, drop a slow client |
| Client | `internal/realtime/client.go`, `protocol.go` | send queue, site ID | hello, read, write and ping loops |
| Hub | `internal/realtime/hub.go`, `cmd/gopad/main.go` | rooms by slug | get or create a room, evict, shut down |
| Writer | `internal/store/writer.go` | job queue, pending operations, pending snapshots, timer | enqueue, batch, flush, save, close |
| Store | `internal/store/store.go` | operations log, one snapshot per document, users, slugs | append a batch, save, load, history queries |
| Replay | `internal/history/replay.go` | none | build a document from snapshot and operations |
| Browser editor | `web/assets/app.js`, `ws.js` | document, text area, site, counter, connection | input, sync, op, error, reconnect |
| Slug cache | `internal/cache/cache.go` | found and missing entries with expiry | lookup, set, sweep |
| History API and scrubber | `internal/server/history.go`, `web/assets/history.js` | point cache, request token | range, point, playback |
| Presence and cursors | `room.go`, `web/assets/presence.js` | pending cursors, active users | coalesce, broadcast, place by anchor |

The room owner is a single goroutine with a command queue. It never waits for
the writer or for a client: a full queue drops the job or the client. A tab
applies its own edits first and sends them afterwards; the room does not echo
them. A tab that loses its connection gets a new site and a new snapshot.

What makes this hard: operations arrive at replicas in different orders;
connections break with part of a batch sent; snapshots are taken, replaced,
saved, and compacted from behind the room; the log, the snapshot and the
room each have their own idea of the sequence number; the server can crash
between any two of those steps.

## Modules

**`RgaDocument`** is the map of characters and what `Apply` and `Compact` do to
it, with every error, for the server (`Outcome`, `Apply`) and the browser
(`BrowserAccepts`, `BrowserApply`). A site ID is its rank among the site IDs, 0
being the empty string; a missing anchor is `NoID`.

**`RgaOrder`** is the reading order: children by ID (`Children`), depth-first
(`Base`, the recursive closure `visit` with its call stack), topologically sorted
by both anchors (`Edges`, `Sorted`), with the members of cycles at the end
(`Unsorted`). `ReplaySnapshot` is what `BuildAt` and `replaceSnapshot` make of a
snapshot: the set of the resulting document, which is empty if a character was
refused. **`RgaOrder_proofs`** has what is proved of it, and of what an operation
does to the documents at the two ends of a connection.

**`RgaReplicas`** delivers any operations to any replicas in any order and
number. It is the abstract promise of the CRDT: a document is a function of the
set of operations it accepted. **`RgaReplicas_proofs`** proves it.

**`Collaboration`** is one room with its tabs. `Register` to `Disconnect` are
the connection, `ReceiveSync` to `Input` the tab, `AcceptOperation` to
`ApplyCompaction` the room, `SaveSnapshot` and `SaveSnapshotFails` the part of
the writer that decides what is compacted. Each connection is a FIFO queue in
each direction. Downwards this is what `Fanout` shows for a connection that
missed nothing; one that missed a message is closed, which is one reason for
`Disconnect`. `Disconnect` keeps an arbitrary prefix of what the tab had sent.
The loss may be noticed later by one side than by the other; what either does in
between reaches nobody, so the model closes both ends in one step. The input
event is one step, as the handler is not interrupted.
**`Links_proofs`** has what its steps do to a single connection,
**`Collaboration_proofs`** the invariant and the theorems.

**`WriteBehind`** is the way of operations and snapshots into the store and
back. Operations are the numbers 1, 2, ... of a document, each naming the
operation it depends on; the content of a document is the set of operations it
accepted, which is what `RgaReplicas` justifies (compaction is not part of this
module). **`WriteBehind_proofs`** has its theorems.
`EnqueueSnapshot` takes three steps, because it releases its mutex before it sends the signal and takes it again when the queue was full; `flush`
takes one step per document. `Crash` forgets everything except `log` and
`snapshot`; `Restart` follows a clean shutdown.

**`SlugCache`** is the existence cache with the requests that use it: the editor
page and the hub's search for a document that has no room. Each half of `Lookup`,
`SetExists` and `SetMissing` is a step, because each takes the lock of another
cache. An entry holds the time it has left, so the model needs no clock and no
bound on time. **`SlugCache_proofs`** has its theorems.

**`Fanout`** is how the messages of a room reach its connections: the owner with
its bounded command queue, the worker of the fan-out pool, and for each client a
read loop, a bounded send queue and a write loop. `frames` is the stack of
broadcasts the owner is in: a message that the pool refuses removes its client on
the spot, which begins another broadcast inside the loop of the first. The two
halves of `SubmitCursor`, under the mutex and after it, are `StoreCursor` and
`SignalCursor`; the worker's callback that removes a slow client is
`DropClient`, which waits for a place in the command queue. The pool has one
worker, which is the default (`hub.go:24`); with more of them two messages for
one client could change places. **`Delivery`** is the promise: a connection gets
the document as of some sequence number, then the operations of the others in
their order, each once, or it is closed. `Fanout` implements it under the mapping
`Promise`, where the outbox of a connection is what is in its send queue, with
the worker, in the pool, and what the broadcasts in progress have yet to submit.
**`Fanout_proofs`** has its theorems.

**`Rooms`** is the life of the rooms of one document: `GetOrCreateRoom` as the
three steps that other goroutines can come between (`LookUp`, `LoadDocument`,
`StoreRoom`), the connection from the hello to the end of its read loop, the owner
with its idle timer, the eviction as two steps (it leaves the registry, then
`done` is closed), and the end of the server in each of the ways `main` has: a
signal, a signal with a handler that does not end in time, a listener that failed.
A document is the number of its operations. A broadcast may remove any of its
receivers, which is what `Fanout` does to a slow one. Cursors, compaction and
refused operations do not change what this module is about. The branches for a
cancelled context and for an idle timer that fires while there are clients are not
taken by the program: the hub's context is never cancelled, and a registration
stops the timer. **`Rooms_proofs`** has its theorems.

**`History`** extends `WriteBehind` with requests for a point of the history: the
version of the snapshot, the last row, the cache, the snapshot and the rows are
read one after the other, and the point is cached under its number.
**`WriteBehind_proofs`** has its theorem as well.

The modules with the prefix `MC` give the constants their
values. Operators whose comment begins with "Mutant" are wrong versions of the
definition that follows them. They are used to see that a property notices the
mistake; no specification uses them.

## Runs

| Run | Configuration | Checks |
|---|---|---|
| `replicas` | `MCRgaReplicas.cfg` | `TypeOK`, `StateFromAccepted`, `Convergence`, `ParentsPresent`, `BrowserAgrees` |
| `collab_edit` | `MCCollaboration_edit.cfg` | `TypeOK`, `Convergence`, `NoRefusal`, `LocalEditsApply` |
| `collab_compact` | `MCCollaboration_compact.cfg` | `SnapshotReplays`, `RoomTextReachesTabs`, `GraceWindow`, `DeadStaysDead` |
| `persist_one` | `MCWriteBehind_one.cfg` | `TypeOK`, `NothingLostSilently`, `RecoverablePrefix`, `CleanShutdownKeepsAll`, `OpsReachStore` |
| `persist_two` | `MCWriteBehind_two.cfg` | `SnapshotSignalled` |
| `slug_requests` | `MCSlugCache_requests.cfg` | `TypeOK`, `Bounded`, `FoundExists`, `StaysSettled`, `CreatedIsFound` |
| `fanout` | `MCFanout.cfg` | `TypeOK`, `DropIsFinal`, `CursorSignalled`, `CursorsCoalesced`, `PresenceSettles`, `ClosedLeaves`, `DeliversInOrder` |
| `rooms` | `MCRooms.cfg` | `TypeOK`, `OneOwner`, `RegisteredRuns`, `NoStaleRoom`, `RoomsEndFirst`, `EmptyRoomsEnd`, `ShutdownEnds`, `RegistrationAnswered` |
| `history` | `MCHistory.cfg` | `PointsAreTrue` |
| `collab_order` | `MCCollaboration_order.cfg` | `EditorShowsDocument`, violated |
| `collab_orphan` | `MCCollaboration_orphan.cfg` | `TextSurvivesCompaction`, violated |
| `persist_crash` | `MCWriteBehind_crash.cfg` | `DurableIsRecovered`, violated |

What holds:

- Two replicas that accepted the same operations are equal, and server and
  browser accept the same ones. The only difference is that the browser does not
  ask whether a right anchor is a valid ID; tabs never make such an anchor.
- Before anything is compacted, a tab with nothing under way has the document
  of the room, and nobody refuses an operation, also after reconnects.
- With compaction, a tab may keep characters the room has forgotten, but lacks
  none that the room would put into a snapshot. A deleted character does not
  come back. A tombstone is purged only when it was in a saved snapshot before
  the last one.
- Every snapshot can be replayed, also one of a document with orphans.
- Every operation is in the log or on its way, in order and once, or it was
  lost to a full queue, a failed transaction or a crash. Without such a loss,
  what can be loaded is a prefix of the edits that includes the whole log.
- While the queue was never full, no pending snapshot waits for a signal that
  does not come. Once a signal was dropped this no longer holds: a room that
  found `snapshotQueued` raised relied on a signal that was then not sent. Its
  snapshot stays pending until the next signal or the close of the writer.
- The slug cache never claims a document that does not exist. A new document may
  be hidden by a negative entry, but only by a request that read the store before
  the creation, and not for good: once the entry and such requests are
  gone, nothing hides it again.
- A connection gets its snapshot and the operations after it in order and once,
  or it is closed. Between a missed message and its removal it may still get a
  later one, so a tab can hold a document with a gap for a moment.
- The worker, the owner and the readers do not wait for each other in a circle: the
  owner never waits for the pool, so it always comes back to the command queue on
  which the others wait. The run checks deadlock.
- A cursor that was stored is broadcast, or its client left or the queue was full;
  a client in the room has one cursor command in the queue at most.
- When nothing is on its way to a tab, it shows the users in the room, as long as
  the pool has not refused a message.
- A document has one running room, which knows all that was accepted. For the
  second half the idle timeout has to be longer than a load and a flush (below).
- A room that has lost all its clients ends, whoever removed them. A shutdown ends,
  and if no handler was under way when it began, the rooms end before the writer
  and the pool are closed.
- A point of the history is a prefix of the edits, and can be built, whatever is
  saved between its reads.

What does not hold, although a document or comment of the repository says it:

- `EditorShowsDocument`. Two tabs type a character each at the same time, then
  one replaces the first of the two. Its right anchor is the tombstone of the
  replaced one, so the sort emits the other sibling first. The document reads in
  the other order than the text area, which the input handler does not write.
- `TextSurvivesCompaction`. Type two characters, delete the first. The second
  hangs on the tombstone of the first; once that is compacted, no walk from
  the root reaches the second, and it is gone from the text of the room, from
  every later sync and from the next snapshot.
- `DurableIsRecovered`. A queued snapshot is replaced by a newer one that
  covers an operation behind its signal. It is saved, and the server crashes
  before that operation is written. The next room counts on from the snapshot's
  version, but the store numbers its rows from the end of the log, so the next
  row has a number the snapshot claims to cover, and no load replays it.

What the models contain and no property forbids; a reader of the code should
know of it:

- A request gets a room from the hub, and the room is evicted before the client
  registers: `submit` returns on `done`, or leaves the command in a queue nobody
  reads. The client is connected, and is neither synced nor closed until its
  connection breaks. `docs/gopad-spec.md:31` has late joiners get the document.
  `readHello` has no timeout, so the gap can be as long as a client likes.
  `RegistrationAnswered` excepts a room that ends.
- After a failure of the listener, `main` calls `CloseContext` without waiting for
  handlers, so a late request may make a room that nobody tells to end. The
  comment at `hub.go:222` is kept by the other path only, and `RoomsEndFirst`
  is about that one (`drained`).
- After the pool refused a message, the leave message of the inner broadcast can
  reach a tab before the outer broadcast's list, which is older: the tab then shows
  a user who has left until the next join or leave. One such moment can remove
  several healthy clients, the sender included.
- A snapshot can be saved ahead of the log. A point between the end of the log
  and that version is then built from the log alone, and is cached under the larger
  number for 20 s. `PointsAreTrue` tells such points by `complete`.
- Five insertions of two connected tabs can have anchors that form a cycle, so the
  comment at `document.go:270` ("valid operations never take this path") goes too
  far. The bounds of the runs are below five; the fallback is modelled (`Unsorted`).
- A request that loaded before a document was created may write its negative entry
  afterwards and hide the new slug until the entry expires, which the comment at
  `cache.go:160` excludes; `CreatedIsFound` says that it is not hidden for good.

### Bounds

`replicas`: eleven operations chosen so that every outcome of `Apply` happens,
two replicas. `collab_edit`: two tabs, three sites (one reconnect after both
connected), three input events of at most one new rune each; three events are
what concurrent siblings and a replacement need. `collab_compact`: two
sites, three events, two saved snapshots, the least after which something is
compacted. Two-rune chains occur in `collab_orphan`, with one tab. Typed runes are
all different: equal runes would only make different edits look the same.
`persist_one`: queue of three, batches and snapshots of two, four operations, so
that a replaced snapshot, a full queue and a second batch happen, one failure and one
crash. `persist_two`: two documents with a queue of two. `slug_requests`: two slugs, a page and a
socket request at a time, caches of one entry, so that every insertion of the
other slug evicts, and entries that live for two and three ticks, so that requests
meet an entry that is about to expire; the states are finite without any bound on behaviours.
`fanout`: two clients, queues of two, a pool of one place and two messages read,
so that each queue is full at times, cursors overtake their command, and a broadcast
begins inside another. A third client, which the stale list of users above needs, is
out of reach. `rooms`: two requests, two rooms one after the other, a queue of
two and one operation, so that requests look up, load and register around an
eviction and the second room is made from what the first one left. `history`: one document and reader, three operations with a queue,
batches and snapshots of two, so that snapshots are saved ahead of and behind the
log between the reads. Tabs and documents are interchangeable,
so runs without liveness use symmetry.

`Collaboration` may stop, when the bounds on edits and sites are used up, so its
runs do not check deadlock. Those of `WriteBehind` and `History` do, as a server can
always be shut down and restarted afterwards, and so do those of `Fanout`, where the
only end is that every client is gone, and of `Rooms`, where it is the exit.

### Fairness

`FairSpec` of `WriteBehind` assumes that the writer goroutine continues, that a
running timer fires, and that a room in the middle of `EnqueueSnapshot`
continues. Go schedules runnable goroutines and fires timers, and none of these
steps waits for another actor. Weak fairness is enough for the timer, although
an arriving job disables it, because the number of operations is bounded. The
code restarts the timer on every operation, so with unbounded traffic below the
batch size the write can be late, although the top-level `README.md` calls the
setting the "Maximum operation write delay".

`FairSpec` of `SlugCache` assumes that a handler that has started goes on and that
time passes. It assumes neither further requests nor the sweepers.

`Spec` of `Fanout` assumes that the owner, the worker, the read loops and the
write loops go on. A read loop or the worker that waits for a place in the
command queue gets one, because the owner empties the queue and Go serves the
senders that wait on a channel in turn; weak fairness is enough since the number of
commands is bounded. A write ends within 5 s, with success or by closing the
connection. Nothing is assumed of what is typed or of when a peer disappears.

`Spec` of `Rooms` assumes the same of owners, handlers and `CloseContext`, that
timers fire and that the writer writes. It does not assume that clients say hello,
stay or leave.

### Assumption on time

`LeaveRoom` of `WriteBehind` at the idle timeout assumes that the operations of the
document have been flushed: the timeout is 45 s and the flush delay 250 ms by
default. A room opened again before that would load a document without them. The
last snapshot of the room may still be pending, which the model includes.

`Rooms` states the assumption as a guard. `StartTimer` notes in `awaits` what is
under way: loads of the document, commands in the queue of the room, readers of
closed connections that have not unregistered yet, and operations that are not
written. `TimerFires` waits until these are through. Without it (the mutant
`StartTimer_NoGrace`) a request can put a room into the registry that lacks
operations.

## Proofs

`RgaReplicas_proofs` proves, for any set of replicas and operations:

- `TypeCorrect`: `Spec => []TypeOK`;
- `StateIsFunctionOfAccepted`: `Spec => []StateFromAccepted`;
- `ReplicasConverge`: `Spec => []Convergence`;
- `NoOrphans`: `Spec => []ParentsPresent`;
- `ImplementationsAgree`: `Spec => []BrowserAgrees`.

`StateFromAccepted` together with `TypeOK` is inductive: an accepted insert adds
its ID to both sides or repeats one with the same content, an accepted delete
raises a flag whose character exists, and a refused operation changes neither.
`Convergence` is not inductive by itself, as it says nothing of one replica. It
follows from `StateFromAccepted`, because two maps that are described by the
same set have the same domain, content and flags. `NoOrphans` uses that an
accepted insert finds its left anchor and that nothing is ever removed.
`ImplementationsAgree` is a fact about the operators. The assumptions are
`NoIDAssumption` (a nil pointer is no ID) and `OpsAssumption` (operations are
well formed as JSON); TLC evaluates them in `replicas`.

`SlugCache_proofs` proves, for any slugs, requests, TTLs and size limit,
`CacheTypes` (`TypeOK`), `PositiveEntriesExist` (`FoundExists`, inductive with
`TypeOK`), `SettledForGood` (the action property `StaysSettled`, from `TypeOK`: only a
handler at `missing` or `setMissing` writes a negative entry, and after
the creation `LoadDocument` sends none there), and `SizeLimit` (`Bounded`, with
the strengthening that the caches are finite, since the cardinality of a set
only says something of finite ones). The assumption is `TTLAssumption`, which `New`
ensures by raising values that are not positive.

`WriteBehind_proofs` proves, for any documents, queue, batch and threshold sizes,
numbers of operations, failures and crashes:

- `NothingLostSilentlyTheorem`: `Spec => []NothingLostSilently`. The inductive
  invariant `Inv` says it part by part (`Account`): the numbers in the log, in the
  batches being written, in the pending operations, in the queue and among the lost
  ones make up all that was applied, the lost ones are nowhere else, each part
  rises, and each part lies before the next. The whole is not inductive without this
  split, because a step moves operations from one part to the next and has to
  know that they are the oldest of theirs.
- `SnapshotSignalledTheorem`: `Spec => []SnapshotSignalled`. The strengthening
  `Signalling` adds that as long as nothing was dropped a raised `snapshotQueued`
  stands for a signal in the queue or a room about to send one.

- `RecoverablePrefixTheorem` and `CleanShutdownKeepsAllTheorem`:
  `Spec => []RecoverablePrefix`, `Spec => []CleanShutdownKeepsAll`. `Lifecycle`
  says in which order rooms and writer end: nothing of a document is on its way
  when its room has left, and `writerClose` is the last job. `Whole` says of a
  document that lost nothing that rows, batches and pending operations are numbered
  without a gap, that every snapshot, saved or not, is of the first operations, and
  that the room has them all. A load then skips the rows up to the version and
  replays the rest, each of which finds the operation it needs.
- `TypeOKTheorem`: `Spec => []TypeOK`. Most of it is part of `Inv` and `Lifecycle`;
  `Bounds` adds that room and snapshots, waiting, being saved or saved, hold only
  operations that were accepted (`Held`), that the slot and the save of a document have
  one snapshot at most, and that the channel keeps its capacity. A crash keeps this
  because what is read back, the snapshot and the rows after it, was accepted before.
- `PointsAreTrueTheorem`: `HistorySpec => []PointsAreTrue`, for any number of readers.
  `Reading` adds that the
  snapshot a request read is not later than the number it asks for, whatever was
  saved since, and that every cached point is a prefix.

`RgaOrder_proofs` proves of any finite set of characters, with right anchors that
form cycles and left anchors that are missing:

- `SnapshotList`: `Snapshot` lists exactly the characters reached from the root
  (the least set that contains the children of the root and of its members), each
  once and after its left anchor;
- `RightAnchorsRespected`: a character comes before its right anchor, unless the
  anchor belongs to a set of characters (`Cyclic`) each of which has to follow another
  one of the set. Such a set has a cycle, and then no order obeys all anchors;
- `TextList`: `Text` lists the visible ones of these, each once;
- `SnapshotRestores`: `BuildAt` refuses no character of a snapshot, and builds
  what the snapshot carries.

Each loop has an invariant of its own, proved by induction over its steps: listed
and stacked characters are distinct, and every child of a listed one is listed or
stacked (`Base`); what is out is out once and behind all its predecessors, and as
long as a character is ready one goes out with every step (`Sorted`); the copied ones
are the members so far (`Filter`). So when the loop ends nothing is ready: either
everything is out, which is a matter of counting, or each of the rest waits for another
one of the rest, which is the set of `RightAnchorsRespected`. The rest is appended in
base order, where a left anchor comes first as well.

`Collaboration_proofs` proves, for any tabs, sites, edits, pastes, snapshots and
lost connections:

- `CInvTheorem`: `Spec => []CInv`, the inductive invariant;
- `ConvergenceTheorem`, `NoRefusalTheorem`, `LocalEditsApplyTheorem`,
  `RoomTextReachesTabsTheorem`, `SnapshotReplaysTheorem`, `GraceWindowTheorem`, each
  from `CInv` in the state it is about;
- `DeadStaysDeadTheorem`, the action property, from `CInv` and one step;
- `TypeOKTheorem`: if every natural number is a rune (`Nat \subseteq Values`),
  `Spec => []TypeOK`. `CInv` has most of it; `Roster` adds that the clients of the
  room are the sites of the open connections, which holds on because no two tabs share
  a site. The runs give `Values` the runes that their bounds allow to be typed, so that
  TLC checks that part; in the proofs a rune is any number, as in `Input`.

None of these is inductive: convergence says nothing about a tab with something
under way, and that is the usual case. `CInv` says what a connection may look like
at any moment. With V what the tab shows (or will show once it has read the
sync message), U what it sent, D what is on its way to it and c the document of the
room:

- characters in U are new to the room, in the order of their counters, and the
  counter of the tab is ahead of them (`Own`, `Fresh`; `Known` for the others);
- the tab applied all of U, the room all of D (`Sent`, `Coming`);
- V and c have the same anchors and runes, and a deletion that one of them
  lacks is in U or D (`Agree`);
- what is reached from the root of c is in V, or in D behind its left anchor
  (`Reach`). This is what compaction leaves: it removes characters from c, so fewer
  are reached, while an operation on a purged character is refused or changes
  only what is not reached;
- before the first compaction, what an operation refers to is where it goes, or is
  inserted before it (`RefsUp`, `RefsDown`, `Covered`).

`Queues` keeps the part about U for a connection whose tab is gone, `RoomInv` the
purged characters apart from the present ones, and `Window` follows the tombstones
through the saved snapshots. The largest step is `Input`: the operations of an
event are sent one by one, and the invariant is carried through the loop by
induction (`Batched`). That no character comes back follows because an insertion
under way is new (`Own`): neither a tombstone nor a purged ID can be inserted.
The assumptions are `NoIDAssumption`, `SitesAssumption` (a rank is positive, and
a tab without a connection has no site) and `EditsAssumption` (the bound on input events
is a number).

`Fanout_proofs` proves, for any clients, queue sizes and number of messages:

- `DropIsFinalTheorem`, `CursorSignalledTheorem` and `CursorsCoalescedTheorem`. The
  invariant adds that jobs are for clients that are in the room or closed
  (`JobsKnown`; otherwise the removal of a client could miss one that is still
  to come), and `Coalescing`: a client registers once, and while it is in the
  room, or its registration is queued, its flag is raised whenever it has a cursor
  command in the queue. A client that was removed may have an old command left,
  with its flag cleared, which is why the property is about clients in the room.
- `DeliversTheorem`: `Spec => Promise!Safety`, that every step is a step of
  `Delivery` or a stutter. What is on its way to a client is the concatenation of
  its send queue, the worker's job, the pool and the broadcasts in progress;
  a message for somebody else stands there as an error, which has no number. So
  the job that moves from one part to the next changes the list only by such errors
  (`Same`), and the numbers are a fold that ignores them. A new broadcast puts one
  number at the end, a delivery takes one from the front, and a loss takes one from
  the middle (`DropOne`), all of which `Delivery` allows.
- `PresenceSettlesTheorem`: `Spec => []PresenceSettles`, from `Listed`: what is on
  its way to a client turns the users it shows into those in the room. This is a
  fold over the same list.
- `TypeOKTheorem`: `Spec => []TypeOK`. That the room numbers no operation that no
  connection sent is not inductive: `Counted` says that the operations which were read
  and have no number yet, in the queue or in a read loop, can be given different
  numbers between the last one of the room and the number of messages read (`Fits`).
  A read adds the highest of these, and the operation that the room numbers swaps
  its place with the one that had the lowest. `Dated` says that no message, wherever it
  is, carries a number the room has not given, and `Lengths` that the queues keep their
  capacity.

`Rooms_proofs` proves, for any requests, queue size and bounds,
`OneOwnerTheorem`, `RegisteredRunsTheorem`, `NoStaleRoomTheorem` and
`RoomsEndFirstTheorem`. `Registry` is the invariant behind the first two: a running
room is the registered one. `Ending` follows the shutdown. `NoStaleRoom`
needs the most: when the registry is empty everything accepted is stored, and a
load that is yet to be put there has all of it (`Contents`). This is so
because an idle timer that runs was started after the last operation, or is going to
be started again by the unregister command of a client that `awaits` holds
(`Timers`); and that an operation in the queue is followed by the unregister
command of its sender once the sender is gone (`Operations`, `Membership`).
`TypeOKTheorem` (`Spec => []TypeOK`) adds that no room accepts an operation that no
client sent, by the same argument as in `Fanout_proofs`: the operations in the queues of
all rooms have numbers of their own among those sent and not accepted (`Numbered`).

The assumptions are `LimitsAssumption`, `SizesAssumption` and `RoomsAssumption`: sizes
are positive, as the constructors ensure, and bounds are natural numbers. TLC
evaluates them in the runs of the modules.

Inductions over the length of a list or the number of steps of a loop are written
with the least number of a set of counterexamples (`LeastNumber`, `Induction`, from
the well-foundedness of the natural numbers): the library's induction theorems
take an operator as a parameter, which the provers cannot instantiate. The loops of
the model are recursive functions for the same reason.

Only model-checked:

- liveness (`OpsReachStore`, `CreatedIsFound`, `ClosedLeaves`, `EmptyRoomsEnd`,
  `ShutdownEnds`, `RegistrationAnswered`) and the fairness of `Delivery` in
  `DeliversInOrder`: the provers know neither fairness nor `ENABLED`;
- that the runes of a run of `Collaboration` are in its `Values`, a bound that only the
  runs have.

Nothing is stated of how the order of `Text` changes from one step to the next: no
property depends on it beyond the equality of documents, and `EditorShowsDocument`
is about it and does not hold.

## Not modelled

- Time. Lengths of timeouts and delays appear only as the assumption above;
  how late a write may be is not checked.
- Users: `FindOrCreateUser` is one transaction on the only write connection.
  Names, colours and authorship do not influence a document.
- Migrations, configuration and the profiling server: they run before or beside
  everything else.
- The rate limiter and the timestamps of the history API, and the scrubber in the
  browser, which only shows what it is sent.
- Metrics: counters that nothing reads back.
- More than one fan-out worker (the default is one), and the persistence path
  without a writer, which only test stores take.
- The wording of errors, logging, HTML, drawing of cursors, avatars, the reveal
  animation and the load generator. Runes are not encoded: both sides handle one
  code point per character.
