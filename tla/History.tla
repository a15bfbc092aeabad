------------------------------ MODULE History -------------------------------
(***************************************************************************)
(* The points of the history view (internal/server/history.go): a request  *)
(* reads the bounds, the snapshot and the rows of a document one after the *)
(* other, while rooms and writer (WriteBehind) change them, and the text   *)
(* it builds is cached under the sequence number it was asked for.  The    *)
(* rate limiter, which only refuses requests, and the time of a point are  *)
(* left out.                                                               *)
(***************************************************************************)
EXTENDS WriteBehind

CONSTANTS Readers      (* requests for points *)

VARIABLES
  at,        (* per reader: where its request is                           *)
  doc,       (* per reader: the document asked for                         *)
  seq,       (* per reader: the sequence number, first the upper bound     *)
  base,      (* per reader: the snapshot its point is built on             *)
  built,     (* per reader: the point                                      *)
  points     (* handler.points                                             *)

readers == <<at, doc, seq, base, built, points>>

NoSnapshot == [content |-> {}, version |-> 0]

(* A point; complete: the log had the rows up to its number when they were *)
(* read, or the snapshot was the one with this number.                     *)
Point(d, s, c, f) == [doc |-> d, seq |-> s, content |-> c, complete |-> f]

HistoryInit ==
  /\ Init
  /\ at = [q \in Readers |-> "idle"]
  /\ doc \in [Readers -> Documents]
  /\ seq = [q \in Readers |-> 0]
  /\ base = [q \in Readers |-> NoSnapshot]
  /\ built = [q \in Readers |-> Point(doc[q], 0, {}, TRUE)]
  /\ points = {}

Step(q, from, to) == at[q] = from /\ at' = [at EXCEPT ![q] = to]

(* HistoryBounds: the version of the snapshot, ... *)
ReadVersion(q, d) ==
  /\ Step(q, "idle", "max")
  /\ doc' = [doc EXCEPT ![q] = d]
  /\ seq' = [seq EXCEPT ![q] = snapshot[d].version]
  /\ UNCHANGED <<base, built, points>>

clampHistorySequence(s, minSeq, maxSeq) ==
  CASE s < minSeq -> minSeq [] s > maxSeq -> maxSeq [] OTHER -> s

(* ... and MAX(sequence) of the rows; the number asked for is put between  *)
(* the bounds.                                                             *)
ReadMax(q) ==
  /\ Step(q, "max", "lookup")
  /\ LET maxSeq == Max({seq[q], Len(log[doc[q]])})
     IN  \E requestedSeq \in 0..MaxOps + 1 :
           seq' = [seq EXCEPT ![q] = clampHistorySequence(requestedSeq, 0, maxSeq)]
  /\ UNCHANGED <<doc, base, built, points>>

HasKey(p, q) == p.doc = doc[q] /\ p.seq = seq[q]

(* points.Get *)
Hit(q) ==
  /\ Step(q, "lookup", "answered")
  /\ \E p \in points : HasKey(p, q) /\ built' = [built EXCEPT ![q] = p]
  /\ UNCHANGED <<doc, seq, base, points>>

(* Mutant: the version of the snapshot is not compared with the number. *)
SnapshotBeforeSeq_Any(d, s) == snapshot[d]

SnapshotBeforeSeq(d, s) ==
  IF snapshot[d].version > s THEN NoSnapshot ELSE snapshot[d]

ReadSnapshot(q) ==
  /\ Step(q, "lookup", "rows")
  /\ ~ \E p \in points : HasKey(p, q)
  /\ base' = [base EXCEPT ![q] = SnapshotBeforeSeq(doc[q], seq[q])]
  /\ UNCHANGED <<doc, seq, built, points>>

OperationsInRange(d, fromSeq, toSeq) ==
  SubSeq(log[d], fromSeq + 1, Min({toSeq, Len(log[d])}))

(* BuildAt: an operation that names a character the document lacks is an   *)
(* error.                                                                  *)
Replayable(chars, rows) ==
  \A i \in DOMAIN rows :
    rows[i].needs \in {0} \cup chars \cup Numbers(SubSeq(rows, 1, i - 1))

ReadRows(q) ==
  LET rows == OperationsInRange(doc[q], base[q].version, seq[q])
  IN  /\ at[q] = "rows"
      /\ \/ /\ Replayable(base[q].content, rows)
            /\ at' = [at EXCEPT ![q] = "set"]
            /\ built' = [built EXCEPT ![q] =
                 Point(doc[q], seq[q], base[q].content \cup Numbers(rows),
                       seq[q] <= Max({base[q].version, Len(log[doc[q]])}))]
         \/ /\ ~Replayable(base[q].content, rows)
            /\ at' = [at EXCEPT ![q] = "failed"]
            /\ UNCHANGED built
      /\ UNCHANGED <<doc, seq, base, points>>

(* points.Set; a reader that was slower replaces what was there. *)
SetPoint(q) ==
  /\ Step(q, "set", "answered")
  /\ points' = {p \in points : ~HasKey(p, q)} \cup {built[q]}
  /\ UNCHANGED <<doc, seq, base, built>>

(* The entry expires or is evicted. *)
Expire(p) ==
  /\ points' = points \ {p}
  /\ UNCHANGED <<at, doc, seq, base, built>>

(* The answer has been written. *)
Answer(q) ==
  /\ at[q] \in {"answered", "failed"}
  /\ at' = [at EXCEPT ![q] = "idle"]
  /\ seq' = [seq EXCEPT ![q] = 0]
  /\ base' = [base EXCEPT ![q] = NoSnapshot]
  /\ built' = [built EXCEPT ![q] = Point(doc[q], 0, {}, TRUE)]
  /\ UNCHANGED <<doc, points>>

ReaderStep ==
  \/ \E q \in Readers : \/ \E d \in Documents : ReadVersion(q, d)
                        \/ ReadMax(q) \/ Hit(q) \/ ReadSnapshot(q) \/ ReadRows(q)
                        \/ SetPoint(q) \/ Answer(q)
  \/ \E p \in points : Expire(p)

(* The cache and the requests are only in memory. *)
ForgetReaders ==
  /\ at' = [q \in Readers |-> "idle"]
  /\ seq' = [q \in Readers |-> 0]
  /\ base' = [q \in Readers |-> NoSnapshot]
  /\ built' = [q \in Readers |-> Point(doc[q], 0, {}, TRUE)]
  /\ points' = {}
  /\ UNCHANGED doc

Rebooted == crashes' # crashes \/ (phase = "stopped" /\ phase' # "stopped")

HistoryNext ==
  \/ Next /\ IF Rebooted THEN ForgetReaders ELSE UNCHANGED readers
  \/ ReaderStep /\ UNCHANGED vars

HistorySpec == HistoryInit /\ [][HistoryNext]_<<vars, readers>>
-----------------------------------------------------------------------------
Intact(d) == crashes = 0 /\ lost[d] = {}

(***************************************************************************)
(* Unless an operation was dropped or the server crashed, a point shows    *)
(* the first edits of the document and none after its number, and all of   *)
(* them when their rows had been written as they were read, whatever the   *)
(* writer saves between the reads; also when it comes from the cache.  No  *)
(* request finds rows that it cannot replay on the snapshot it read.       *)
(***************************************************************************)
PointsAreTrue ==
  /\ \A p \in points \cup {built[q] : q \in Readers} :
       Intact(p.doc) => \E k \in 0..p.seq : /\ p.content = 1..k
                                            /\ p.complete => k = p.seq
  /\ \A q \in Readers : Intact(doc[q]) => at[q] # "failed"
=============================================================================
