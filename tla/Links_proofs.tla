---------------------------- MODULE Links_proofs ----------------------------
(***************************************************************************)
(* What the steps of Collaboration do to one connection, for any number of *)
(* tabs, sites, edits and snapshots: the room refuses an operation or      *)
(* forgets characters, a tab connects, handles a message or makes          *)
(* operations of an input event.                                           *)
(***************************************************************************)
EXTENDS Collaboration, RgaOrder_proofs

LEMMA MessageFacts ==
  ErrorMsg \in Messages /\ ErrorMsg.type = "error" /\ \A op : OpMsg(op) = Carrying(op)
  BY DEF Messages, ErrorMsg, OpMsg, Carrying

(***************************************************************************)
(* The room refuses an operation.                                          *)
(***************************************************************************)
LEMMA RoomRefuses ==
  \A s : \A U \in Seq(Ops) : \A c, K, N :
    U # <<>> /\ Queue(s, U, c, K, N) /\ DOMAIN c \subseteq K /\ ~Accepts(c, Head(U))
    => N # {} /\ (U[1].type = "delete" => U[1].id \notin DOMAIN c)
(* What is first in U refers to the document of the room. *)
<1>1. ASSUME NEW U, NEW c, NEW T, IsTail(U, T), RefsUp(U, c)
      PROVE  /\ U[1].type = "insert" => U[1].leftID \in DOMAIN c \cup {NoID}
             /\ U[1].type = "delete" => U[1].id \in DOMAIN c
  <2> USE <1>1
  <2>1. 1 \in DOMAIN U /\ \A i \in DOMAIN U : ~(i < 1)
    BY Zenon DEF IsTail
  <2>2. \A id : id \notin EarlierUp(U, 1)
    BY <2>1, Zenon DEF EarlierUp
  <2>3. RefUp(U, c, 1)
    BY <2>1, Zenon DEF RefsUp
  <2>4. QED
    BY <2>2, <2>3, Zenon DEF RefUp
<1> TAKE s
<1> TAKE U \in Seq(Ops)
<1> TAKE c, K, N
<1> HAVE U # <<>> /\ Queue(s, U, c, K, N) /\ DOMAIN c \subseteq K /\ ~Accepts(c, Head(U))
<1>2. IsTail(U, Tail(U)) /\ Head(U) = U[1] /\ U[1] \in Ops
  BY TailFacts, Zenon
<1>3. Own(s, U, K) /\ (N = {} => RefsUp(U, c))
  BY Zenon DEF Queue
<1>4. ValidID(U[1].id)
  BY <1>2, OpFacts, Zenon DEF Ops
<1>5. U[1].type = "delete" => U[1].id \notin DOMAIN c
  BY <1>2, <1>4, DeleteAccepted, Zenon
<1>6. ASSUME N = {} PROVE FALSE
  <2>1. /\ U[1].type = "insert" => U[1].leftID \in DOMAIN c \cup {NoID}
        /\ U[1].type = "delete" => U[1].id \in DOMAIN c
    BY <1>2, <1>3, <1>6, <1>1, Zenon
  <2>2. U[1].type = "insert" /\ U[1] \in Inserts
    BY <1>2, <1>5, <2>1, OpFacts, Zenon DEF Ops
  <2>3. U[1].id \notin DOMAIN c
    BY <1>2, <1>3, <2>2, OwnNew, Zenon DEF IsTail
  <2>4. ~LeftInvalid(U[1]) /\ ~RightInvalid(U[1])
    BY <2>2, OpFacts, Zenon
  <2>5. Accepts(c, U[1])
    BY <1>4, <2>1, <2>2, <2>3, <2>4, NewInsertAccepted, Zenon
  <2>6. QED
    BY <1>2, <2>5, Zenon
<1>7. QED
  BY <1>5, <1>6, Zenon

LEMMA QueueRefused ==
  ASSUME NEW s, NEW U \in Seq(Ops), NEW c, NEW K, NEW N, U # <<>>, Queue(s, U, c, K, N), N # {}
  PROVE  Queue(s, Tail(U), c, K, N)
<1>1. IsTail(U, Tail(U))
  BY TailFacts, Zenon
<1>2. Own(s, Tail(U), K)
  BY <1>1, OwnTaken, Zenon DEF Queue
<1>3. QED
  BY <1>2, Zenon DEF Queue

LEMMA ConnRefused ==
  \A rd, s, d, n : \A U \in Seq(Ops), Q \in Seq(Messages) : \A c, K, N :
    U # <<>> /\ Conn(rd, s, d, n, U, Q, c, K, N) /\ N # {} /\
    (U[1].type = "delete" => U[1].id \notin DOMAIN c)
    => Conn(rd, s, d, n, Tail(U), Append(Q, ErrorMsg), c, K, N)
<1>1. ASSUME NEW s, NEW n, NEW V, NEW U, NEW T, NEW D, NEW E, NEW k, NEW c, NEW K,
             Link(s, n, V, U, D, c, K), IsTail(U, T), IsAppend(D, E, ErrorMsg, k),
             U[1].type = "delete" => U[1].id \notin DOMAIN c
      PROVE  Link(s, n, V, T, E, c, K)
  <2> USE <1>1
  <2> USE Kinds
  <2>1. ErrorMsg.type = "error"
    BY DEF ErrorMsg
  <2>2. /\ DOMAIN E = DOMAIN D \cup {k} /\ E[k].type # "op"
        /\ \A i \in DOMAIN D : E[i] = D[i] /\ i < k /\ ~(k < i)
    BY <2>1, Zenon DEF IsAppend
  <2>3. /\ Fresh(s, n, V, U, K) /\ Known(s, V, K) /\ Sent(V, U)
        /\ Coming(s, V, D, c, K) /\ Agree(V, U, D, c) /\ Reach(V, D, c)
    BY Zenon DEF Link
  <2>4. /\ 1 \in DOMAIN U /\ \A i \in DOMAIN T : i + 1 \in DOMAIN U /\ T[i] = U[i + 1]
    BY UpTaken, Zenon
  <2>5. Fresh(s, n, V, T, K)
    BY <2>3, <2>4, Zenon DEF Fresh
  <2>6. Sent(V, T)
    <3>1. SUFFICES ASSUME NEW i \in DOMAIN T PROVE SentOne(V, T, i)
      BY Zenon DEF Sent
    <3>2. SentOne(V, U, i + 1) /\ T[i] = U[i + 1] /\ (AfterUp(U, i + 1) => AfterUp(T, i))
      BY <2>3, <2>4, UpTaken, Zenon DEF Sent
    <3>3. QED
      BY <3>2, Zenon DEF SentOne
  <2>7. /\ \A i : InsIn(E, i) <=> InsIn(D, i)
        /\ \A i : DelIn(E, i) <=> DelIn(D, i)
    BY <2>2, Zenon DEF InsIn, DelIn
  <2>8. Coming(s, V, E, c, K)
    <3>1. SUFFICES ASSUME NEW i \in DOMAIN E, E[i].type = "op" PROVE ComingOne(s, V, E, c, K, i)
      BY Zenon DEF Coming
    <3>2. i \in DOMAIN D /\ E[i] = D[i]
      BY <2>2, <3>1, Zenon
    <3>3. ComingOne(s, V, D, c, K, i)
      BY <2>3, <3>1, <3>2, Zenon DEF Coming
    <3>4. AfterDown(D, i) => AfterDown(E, i)
      BY <2>2, <2>7, <3>2, Zenon DEF AfterDown
    <3>5. D[i].op.type = "insert" => \A j \in DOMAIN E : InsIn(E, j) /\ E[j].op.id = D[i].op.id => j = i
      BY <2>2, <2>7, <3>3, ZenonT(60) DEF ComingOne, InsIn
    <3>6. QED
      BY <3>2, <3>3, <3>4, <3>5, Zenon DEF ComingOne
  <2>9. Agree(V, T, E, c)
    <3>1. SUFFICES ASSUME NEW id \in DOMAIN V \cap DOMAIN c PROVE AgreeOne(V, T, E, c, id)
      BY Zenon DEF Agree
    <3>2. AgreeOne(V, U, D, c, id)
      BY <2>3, <3>1, Zenon DEF Agree
    <3>3. DelUp(U, id) => DelUp(T, id)
      BY <3>1, UpTaken
    <3>4. DelDown(D, id) => DelDown(E, id)
      BY <2>2, <2>7, Zenon DEF DelDown
    <3>5. QED
      BY <3>2, <3>3, <3>4, Zenon DEF AgreeOne
  <2>10. Reach(V, E, c)
    <3>1. \A id : InsDown(D, id) => InsDown(E, id)
      BY <2>2, <2>7, Zenon DEF InsDown
    <3>2. \A i \in DOMAIN D : Earlier(D, i) \subseteq Earlier(E, i)
      BY <2>2, <2>7, Zenon DEF Earlier
    <3>3. ASSUME NEW i \in DOMAIN E, InsIn(E, i), E[i].op.id \in Reachable(c)
          PROVE  ReachOne(V, E, i)
      <4>1. i \in DOMAIN D /\ InsIn(D, i) /\ E[i] = D[i]
        BY <2>2, <2>7, <3>3, Zenon DEF InsIn
      <4>2. ReachOne(V, D, i)
        BY <2>3, <3>3, <4>1, Zenon DEF Reach
      <4>3. QED
        BY <3>2, <4>1, <4>2, Zenon DEF ReachOne
    <3>4. QED
      BY <2>3, <3>1, <3>3, Zenon DEF Reach
  <2>11. QED
    BY <2>3, <2>5, <2>6, <2>8, <2>9, <2>10, ZenonT(60) DEF Link
<1> TAKE rd, s, d, n
<1> TAKE U \in Seq(Ops), Q \in Seq(Messages)
<1> TAKE c, K, N
<1> HAVE U # <<>> /\ Conn(rd, s, d, n, U, Q, c, K, N) /\ N # {} /\
         (U[1].type = "delete" => U[1].id \notin DOMAIN c)
<1>2. IsTail(U, Tail(U))
  BY TailFacts, Zenon
<1>3. PICK E, k : E = Append(Q, ErrorMsg) /\ k = Len(Q) + 1
  BY Zenon
<1>4. IsAppend(Q, E, ErrorMsg, k)
  BY <1>3, AppendFacts, MessageFacts, Zenon
<1>5. rd /\ Live(s, n, d, U, Q, c, K, N)
  BY Zenon DEF Conn
<1>6. Link(s, n, d, U, Q, c, K) /\ \A i \in DOMAIN Q : Q[i].type # "sync"
  BY <1>5, Zenon DEF Live
<1>7. Link(s, n, d, Tail(U), E, c, K)
  BY <1>2, <1>4, <1>6, <1>1, Zenon
<1>8. \A i \in DOMAIN E : E[i].type # "sync"
  <2>1. ErrorMsg.type # "sync"
    BY DEF ErrorMsg
  <2>2. QED
    BY <1>4, <1>6, <2>1, Zenon DEF IsAppend
<1>9. QED
  BY <1>3, <1>5, <1>7, <1>8, Zenon DEF Conn, Live

(***************************************************************************)
(* The room forgets the characters outside S.                              *)
(***************************************************************************)
Rest(c, S) == [id \in S |-> c[id]]

LEMMA RestAll ==
  ASSUME NEW c \in Docs, NEW S, S \subseteq DOMAIN c, NEW N
  PROVE  N \cup (DOMAIN c \ S) = {} => N = {} /\ Rest(c, S) = c
<1>1. c = [id \in DOMAIN c |-> c[id]]
  BY DocsFacts, Zenon DEF Sound
<1>2. SUFFICES ASSUME N \cup (DOMAIN c \ S) = {} PROVE N = {} /\ Rest(c, S) = c
  BY Zenon
<1>3. S = DOMAIN c /\ N = {}
  BY <1>2, Zenon
<1>4. QED
  BY <1>1, <1>3, Zenon DEF Rest

LEMMA RoomForgot ==
  ASSUME NEW c \in Docs, NEW K, NEW N, NEW sites, NEW S, S \subseteq DOMAIN c, Room(c, K, N, sites)
  PROVE  Room(Rest(c, S), K, N \cup (DOMAIN c \ S), sites)
<1>1. /\ N \cap DOMAIN c = {} /\ K = DOMAIN c \cup N
      /\ \A id \in DOMAIN c : c[id].leftID \in K \cup {NoID}
      /\ \A id \in K : id.siteID \in sites
      /\ N = {} => Reachable(c) = DOMAIN c
  BY Zenon DEF Room
<1>2. PICK e, M : e = Rest(c, S) /\ M = N \cup (DOMAIN c \ S)
  BY Zenon
<1>3. DOMAIN e = S /\ \A id \in S : e[id] = c[id]
  BY <1>2, Zenon DEF Rest
<1>4. M = {} => N = {} /\ e = c
  BY <1>2, RestAll, Zenon
<1>5. M \cap DOMAIN e = {} /\ K = DOMAIN e \cup M
  BY <1>1, <1>2, <1>3, Zenon
<1>6. \A id \in DOMAIN e : e[id].leftID \in K \cup {NoID}
  BY <1>1, <1>3, Zenon
<1>7. M = {} => Reachable(e) = DOMAIN e
  BY <1>1, <1>4, Zenon
<1>8. Room(e, K, M, sites)
  BY <1>1, <1>5, <1>6, <1>7, Zenon DEF Room
<1>9. QED
  BY <1>2, <1>8, Zenon

LEMMA ConnForgot ==
  \A rd, s, d, n, U, Q : \A c \in Docs : \A K, N, S :
    S \subseteq DOMAIN c /\ Conn(rd, s, d, n, U, Q, c, K, N)
    => Conn(rd, s, d, n, U, Q, Rest(c, S), K, N \cup (DOMAIN c \ S))
<1>1. ASSUME NEW c, NEW S, S \subseteq DOMAIN c, NEW e, e = [id \in S |-> c[id]]
      PROVE  Reachable(e) \subseteq Reachable(c)
  <2> USE <1>1
  <2>1. DOMAIN e = S /\ \A id \in S : e[id] = c[id]
    BY Zenon
  <2>2. SUFFICES ASSUME NEW T \in SUBSET DOMAIN c, ClosedUnderChildren(c, T)
                 PROVE  Reachable(e) \subseteq T
    BY <2>1, Zenon DEF Reachable
  <2>3. ClosedUnderChildren(e, T \cap S) /\ T \cap S \in SUBSET DOMAIN e
    BY <2>1, <2>2, Zenon DEF ClosedUnderChildren
  <2>4. QED
    BY <2>3, Zenon DEF Reachable
<1>2. ASSUME NEW s, NEW n, NEW V, NEW U, NEW D, NEW c, NEW e, NEW K, NEW S,
             Link(s, n, V, U, D, c, K), S \subseteq DOMAIN c, e = [id \in S |-> c[id]]
      PROVE  Link(s, n, V, U, D, e, K)
  <2> USE <1>2
  <2>1. DOMAIN e = S /\ \A id \in S : e[id] = c[id]
    BY Zenon
  <2>2. Reachable(e) \subseteq Reachable(c)
    BY <1>1, Zenon
  <2>3. /\ Fresh(s, n, V, U, K) /\ Known(s, V, K) /\ Sent(V, U)
        /\ Coming(s, V, D, c, K) /\ Agree(V, U, D, c) /\ Reach(V, D, c)
    BY Zenon DEF Link
  <2>4. Coming(s, V, D, e, K)
    <3>1. SUFFICES ASSUME NEW i \in DOMAIN D, D[i].type = "op" PROVE ComingOne(s, V, D, e, K, i)
      BY Zenon DEF Coming
    <3>2. ComingOne(s, V, D, c, K, i)
      BY <2>3, <3>1, Zenon DEF Coming
    <3>3. D[i].op.id \in DOMAIN e => D[i].op.id \in DOMAIN c /\ e[D[i].op.id] = c[D[i].op.id]
      BY <2>1, Zenon
    <3>4. QED
      BY <3>2, <3>3, Zenon DEF ComingOne
  <2>5. Agree(V, U, D, e)
    <3>1. SUFFICES ASSUME NEW id \in DOMAIN V \cap DOMAIN e PROVE AgreeOne(V, U, D, e, id)
      BY Zenon DEF Agree
    <3>2. AgreeOne(V, U, D, c, id) /\ e[id] = c[id]
      BY <2>1, <2>3, <3>1, Zenon DEF Agree
    <3>3. QED
      BY <3>2, Zenon DEF AgreeOne
  <2>6. Reach(V, D, e)
    BY <2>2, <2>3, Zenon DEF Reach
  <2>7. QED
    BY <2>3, <2>4, <2>5, <2>6, ZenonT(60) DEF Link
<1>3. ASSUME NEW s, NEW n, NEW V, NEW U, NEW D, NEW c \in Docs, NEW K, NEW N, NEW S, S \subseteq DOMAIN c,
             Live(s, n, V, U, D, c, K, N)
      PROVE  Live(s, n, V, U, D, Rest(c, S), K, N \cup (DOMAIN c \ S))
  <2> USE <1>3
  <2>1. PICK e, M : e = Rest(c, S) /\ M = N \cup (DOMAIN c \ S)
    BY Zenon
  <2>2. M = {} => N = {} /\ e = c
    BY <2>1, RestAll, Zenon
  <2>3. /\ Link(s, n, V, U, D, c, K) /\ (N = {} => Lossless(V, U, D, c))
        /\ \A i \in DOMAIN D : D[i].type # "sync"
    BY Zenon DEF Live
  <2>4. e = [id \in S |-> c[id]]
    BY <2>1, Zenon DEF Rest
  <2>5. Link(s, n, V, U, D, e, K)
    BY <2>3, <2>4, <1>2, Zenon
  <2>6. Live(s, n, V, U, D, e, K, M)
    BY <2>2, <2>3, <2>5, Zenon DEF Live
  <2>7. QED
    BY <2>1, <2>6, ZenonT(60)
<1> TAKE rd, s, d, n, U, Q
<1> TAKE c \in Docs
<1> TAKE K, N, S
<1> HAVE S \subseteq DOMAIN c /\ Conn(rd, s, d, n, U, Q, c, K, N)
<1>4. CASE rd
  BY <1>4, <1>3, Zenon DEF Conn
<1>5. CASE ~rd
  BY <1>5, <1>3, Zenon DEF Conn
<1>6. QED
  BY <1>4, <1>5, Zenon

LEMMA QueueForgot ==
  ASSUME NEW s, NEW U, NEW c \in Docs, NEW K, NEW N, NEW S, S \subseteq DOMAIN c, Queue(s, U, c, K, N)
  PROVE  Queue(s, U, Rest(c, S), K, N \cup (DOMAIN c \ S))
<1>1. PICK e, M : e = Rest(c, S) /\ M = N \cup (DOMAIN c \ S)
  BY Zenon
<1>2. M = {} => N = {} /\ e = c
  BY <1>1, RestAll, Zenon
<1>3. Queue(s, U, e, K, M)
  BY <1>2, Zenon DEF Queue
<1>4. QED
  BY <1>1, <1>3, Zenon

(***************************************************************************)
(* A connection is opened, and closed with part of what it carries.        *)
(***************************************************************************)
LEMMA ReachDocs ==
  ASSUME NEW c \in Docs
  PROVE  SnapshotChars(c) \in Docs
<1>1. Reachable(c) \subseteq DOMAIN c /\ SnapshotChars(c) = [id \in Reachable(c) |-> c[id]]
  BY ReachClosed, Zenon DEF SnapshotChars
<1>2. QED
  BY <1>1, RestrictDocs, Zenon

LEMMA ConnJoined ==
  \A s, d, n : \A c \in Docs : \A K, N, sites :
    Room(c, K, N, sites) /\ s \notin sites
    => Conn(FALSE, s, d, n, <<>>, <<SyncMsg(SnapshotChars(c))>>, c, K, N)
<1>1. ASSUME NEW s, NEW n, NEW V, NEW c, NEW K, V = SnapshotChars(c), DOMAIN c \subseteq K,
             \A id \in K : id.siteID # s
      PROVE  Link(s, n, V, <<>>, <<>>, c, K)
  <2> USE <1>1
  <2>1. DOMAIN <<>> = {}
    OBVIOUS
  <2>2. DOMAIN V = Reachable(c) /\ (\A id \in DOMAIN V : V[id] = c[id]) /\ Reachable(c) \subseteq DOMAIN c
    BY ReachClosed, Zenon DEF SnapshotChars
  <2>3. Fresh(s, n, V, <<>>, K) /\ Known(s, V, K) /\ Sent(V, <<>>) /\ Coming(s, V, <<>>, c, K)
    BY <2>1, <2>2, ZenonT(60) DEF Fresh, Known, Sent, Coming
  <2>4. Agree(V, <<>>, <<>>, c)
    BY <2>2, Zenon DEF Agree, AgreeOne, SameEntry
  <2>5. Reach(V, <<>>, c)
    BY <2>1, <2>2, Zenon DEF Reach
  <2>6. QED
    BY <2>3, <2>4, <2>5, ZenonT(60) DEF Link
<1> TAKE s, d, n
<1> TAKE c \in Docs
<1> TAKE K, N, sites
<1> HAVE Room(c, K, N, sites) /\ s \notin sites
<1>2. PICK V, Q : V = SnapshotChars(c) /\ Q = <<SyncMsg(V)>>
  BY Zenon
<1>3. Q # <<>> /\ Q[1].type = "sync" /\ Q[1].snapshot = V /\ Tail(Q) = <<>>
  BY <1>2 DEF SyncMsg
<1>4. DOMAIN c \subseteq K /\ \A id \in K : id.siteID # s
  BY Zenon DEF Room
<1>5. Link(s, 1, V, <<>>, <<>>, c, K)
  BY <1>2, <1>4, <1>1, ZenonT(60)
<1>6. DOMAIN <<>> = {}
  OBVIOUS
<1>7. Lossless(V, <<>>, <<>>, c)
  <2>1. DOMAIN V \subseteq DOMAIN c
    BY <1>2, ReachClosed, Zenon DEF SnapshotChars
  <2>2. QED
    BY <1>6, <2>1, Zenon DEF Lossless, RefsDown, Covered
<1>8. Live(s, 1, V, <<>>, <<>>, c, K, N)
  BY <1>5, <1>6, <1>7, Zenon DEF Live
<1>9. Conn(FALSE, s, d, n, <<>>, Q, c, K, N)
  BY <1>3, <1>8, Zenon DEF Conn
<1>10. QED
  BY <1>2, <1>9, ZenonT(60)

LEMMA QueueClosed ==
  ASSUME NEW s, NEW U \in Seq(Ops), NEW c, NEW K, NEW N, NEW n \in 0..Len(U), Queue(s, U, c, K, N)
  PROVE  Queue(s, SubSeq(U, 1, n), c, K, N) /\ SubSeq(U, 1, n) \in Seq(Ops)
<1>1. PICK T : T = SubSeq(U, 1, n)
  BY Zenon
<1>2. T \in Seq(Ops) /\ DOMAIN T \subseteq DOMAIN U /\ \A i \in DOMAIN T : T[i] = U[i]
  BY <1>1
<1>3. \A i \in DOMAIN T : \A j \in DOMAIN U : j < i => j \in DOMAIN T
  BY <1>1
<1>4. Own(s, T, K)
  BY <1>2, Zenon DEF Own, Queue
<1>5. N = {} => RefsUp(T, c)
  <2>1. SUFFICES ASSUME RefsUp(U, c), NEW i \in DOMAIN T PROVE RefUp(T, c, i)
    BY Zenon DEF Queue, RefsUp
  <2>2. RefUp(U, c, i) /\ T[i] = U[i]
    BY <1>2, <2>1, Zenon DEF RefsUp
  <2>3. EarlierUp(U, i) \subseteq EarlierUp(T, i)
    BY <1>2, <1>3, <2>1, Zenon DEF EarlierUp, InsAt
  <2>4. QED
    BY <2>2, <2>3, Zenon DEF RefUp
<1>6. QED
  BY <1>1, <1>2, <1>4, <1>5, Zenon DEF Queue

(***************************************************************************)
(* The tab takes the first message of its queue.                           *)
(***************************************************************************)
LEMMA ConnSync ==
  ASSUME NEW rd, NEW s, NEW d, NEW n, NEW U, NEW Q \in Seq(Messages), NEW c, NEW K, NEW N,
         Conn(rd, s, d, n, U, Q, c, K, N), Q # <<>>, Q[1].type = "sync", rd \in BOOLEAN
  PROVE  /\ Conn(TRUE, s, Q[1].snapshot, 1, U, Tail(Q), c, K, N)
         /\ Q[1].snapshot \in Docs
<1>1. 1 \in DOMAIN Q /\ Q[1] \in Messages
  BY TailFacts DEF IsTail
<1>2. ~rd
  BY <1>1, Zenon DEF Conn, Live
<1>3. Live(s, 1, Q[1].snapshot, U, Tail(Q), c, K, N)
  BY <1>2, Zenon DEF Conn
<1>4. Q[1].snapshot \in Docs
  BY <1>1 DEF Messages, ErrorMsg
<1>5. QED
  BY <1>3, <1>4, Zenon DEF Conn

LEMMA ReadyFor ==
  ASSUME NEW rd, NEW s, NEW d, NEW n, NEW U, NEW Q \in Seq(Messages), NEW c, NEW K, NEW N,
         Conn(rd, s, d, n, U, Q, c, K, N), Q # <<>>, Q[1].type # "sync"
  PROVE  /\ rd /\ Live(s, n, d, U, Q, c, K, N) /\ IsTail(Q, Tail(Q)) /\ 1 \in DOMAIN Q
         /\ \A i \in DOMAIN Tail(Q) : Tail(Q)[i].type # "sync"
<1>1. rd
  BY Zenon DEF Conn
<1>2. Live(s, n, d, U, Q, c, K, N)
  BY <1>1, Zenon DEF Conn
<1>3. IsTail(Q, Tail(Q)) /\ 1 \in DOMAIN Q
  BY TailFacts, ZenonT(60) DEF IsTail
<1>4. \A i \in DOMAIN Tail(Q) : Tail(Q)[i].type # "sync"
  BY <1>2, <1>3, Zenon DEF Live, IsTail
<1>5. QED
  BY <1>1, <1>2, <1>3, <1>4, ZenonT(60)

LEMMA ConnError ==
  ASSUME NEW rd, NEW s, NEW d, NEW n, NEW U, NEW Q \in Seq(Messages), NEW c, NEW K, NEW N,
         Conn(rd, s, d, n, U, Q, c, K, N), Q # <<>>, Q[1].type = "error"
  PROVE  Conn(rd, s, d, n, U, Tail(Q), c, K, N)
<1>1. /\ rd /\ Live(s, n, d, U, Q, c, K, N) /\ IsTail(Q, Tail(Q)) /\ 1 \in DOMAIN Q
      /\ \A i \in DOMAIN Tail(Q) : Tail(Q)[i].type # "sync"
  BY ReadyFor, Kinds, Zenon
<1>2. ~InsIn(Q, 1) /\ ~DelIn(Q, 1)
  BY Kinds, Zenon DEF InsIn, DelIn
<1>3. Link(s, n, d, U, Tail(Q), c, K)
  BY <1>1, <1>2, TookNothing, Zenon DEF Live
<1>4. N # {}
  BY <1>1, Kinds, Zenon DEF Live, Lossless, RefsDown, RefDown
<1>5. Live(s, n, d, U, Tail(Q), c, K, N)
  BY <1>1, <1>3, <1>4, Zenon DEF Live
<1>6. QED
  BY <1>1, <1>5, Zenon DEF Conn

LEMMA OpMessage ==
  ASSUME NEW Q \in Seq(Messages), Q # <<>>, Q[1].type = "op"
  PROVE  /\ Q[1].op \in Ops
         /\ Q[1].op \in Inserts => InsIn(Q, 1)
         /\ Q[1].op \in Deletes => DelIn(Q, 1)
<1>1. 1 \in DOMAIN Q /\ Q[1] \in Messages
  BY TailFacts DEF IsTail
<1>2. Q[1].op \in Ops
  BY <1>1 DEF Messages, ErrorMsg
<1>3. QED
  BY <1>1, <1>2, OpFacts, Zenon DEF InsIn, DelIn

(* What a tab is sent it accepts, as long as nothing was compacted. *)
LEMMA TabAcceptsSent ==
  ASSUME NEW s, NEW d \in Docs, NEW n, NEW U, NEW Q \in Seq(Messages), NEW c, NEW K,
         NEW sites, Live(s, n, d, U, Q, c, K, {}), Room(c, K, {}, sites), Q # <<>>, Q[1].type = "op"
  PROVE  BrowserAccepts(d, Q[1].op)
<1>1. 1 \in DOMAIN Q /\ \A k \in DOMAIN Q : ~(k < 1)
  BY TailFacts, Zenon DEF IsTail
<1>2. Earlier(Q, 1) = {}
  BY <1>1, Zenon DEF Earlier
<1>3. PICK op : op = Q[1].op
  BY Zenon
<1>4. op \in Ops /\ (op \in Inserts => InsIn(Q, 1)) /\ (op \in Deletes => DelIn(Q, 1))
  BY <1>3, OpMessage, Zenon
<1>5. /\ Coming(s, d, Q, c, K) /\ Reach(d, Q, c) /\ RefsDown(d, Q)
  BY Zenon DEF Live, Link, Lossless
<1>6. ComingOne(s, d, Q, c, K, 1) /\ RefDown(d, Q, 1)
  BY <1>1, <1>5, ZenonT(60) DEF Coming, RefsDown
<1>7. CASE op \in Inserts
  <2>1. op.type = "insert" /\ InsIn(Q, 1)
    BY <1>4, <1>7, OpFacts, Zenon
  <2>2. op.id \in K /\ op.id \notin DOMAIN d
    BY <1>3, <1>6, <2>1, Zenon DEF ComingOne
  <2>3. op.id \in Reachable(c)
    BY <2>2, Zenon DEF Room
  <2>4. ReachOne(d, Q, 1)
    BY <1>1, <1>3, <1>5, <2>1, <2>3, ZenonT(60) DEF Reach
  <2>5. op.leftID \in DOMAIN d \cup {NoID}
    BY <1>2, <1>3, <2>4, Zenon DEF ReachOne
  <2>6. BrowserAccepts(d, op)
    BY <1>7, <2>2, <2>5, TabInserts, ZenonT(60)
  <2>7. QED
    BY <1>3, <2>6, ZenonT(60)
<1>8. CASE op \in Deletes
  <2>1. op.type = "delete"
    BY <1>8, OpFacts, Zenon
  <2>2. op.id \in DOMAIN d
    BY <1>2, <1>3, <1>6, <2>1, Zenon DEF RefDown
  <2>3. BrowserAccepts(d, op)
    BY <1>8, <2>2, TabDeletes, Zenon
  <2>4. QED
    BY <1>3, <2>3, Zenon
<1>9. QED
  BY <1>4, <1>7, <1>8, Zenon DEF Ops

LEMMA ConnTakes ==
  \A rd, s :
  \A d \in Docs :
  \A n :
  \A U \in Seq(Ops), Q \in Seq(Messages) :
  \A c, K, N, sites, W :
    Conn(rd, s, d, n, U, Q, c, K, N) /\ Queue(s, U, c, K, N) /\ Room(c, K, N, sites) /\
    Q # <<>> /\ Q[1].type = "op" /\ W = BrowserApply(d, Q[1].op)
    => Conn(rd, s, W, n, U, Tail(Q), c, K, N) /\ W \in Docs
<1>1. ASSUME NEW s, NEW n, NEW V, NEW W, NEW U, NEW D, NEW T, NEW c, NEW K, NEW op,
             Link(s, n, V, U, D, c, K), IsTail(D, T), InsIn(D, 1), op = D[1].op, Grows(V, W, op)
      PROVE  Link(s, n, W, U, T, c, K)
  <2> USE <1>1
  <2> USE Kinds
  <2>1. /\ Fresh(s, n, V, U, K) /\ Known(s, V, K) /\ Sent(V, U)
        /\ Coming(s, V, D, c, K) /\ Agree(V, U, D, c) /\ Reach(V, D, c)
    BY Zenon DEF Link
  <2>2. /\ op.id \notin DOMAIN V /\ DOMAIN W = DOMAIN V \cup {op.id}
        /\ \A id \in DOMAIN V : W[id] = V[id]
        /\ SameEntry(W[op.id], op) /\ ~W[op.id].deleted
    BY Zenon DEF Grows
  <2>3. ComingOne(s, V, D, c, K, 1) /\ D[1].op.type = "insert"
    BY <2>1, Zenon DEF Coming, InsIn
  <2>4. /\ op.id \in K /\ op.id.siteID # s
        /\ op.id \in DOMAIN c => SameEntry(c[op.id], op) /\ (c[op.id].deleted => AfterDown(D, 1))
    BY <2>3, Zenon DEF ComingOne
  <2>5. Fresh(s, n, W, U, K) /\ Known(s, W, K)
    BY <2>1, <2>2, <2>4, ZenonT(60) DEF Fresh, Known
  <2>6. Sent(W, U)
    <3>1. SUFFICES ASSUME NEW i \in DOMAIN U PROVE SentOne(W, U, i)
      BY Zenon DEF Sent
    <3>2. SentOne(V, U, i)
      BY <2>1, <3>1, Zenon DEF Sent
    <3>3. U[i].id \in DOMAIN V /\ U[i].id \in DOMAIN W /\ W[U[i].id] = V[U[i].id]
      BY <2>2, <3>2, Zenon DEF SentOne
    <3>4. QED
      BY <3>2, <3>3, ZenonT(60) DEF SentOne
  <2>7. Coming(s, W, T, c, K)
    <3>1. \A id \in DOMAIN W : id \in DOMAIN V \/ (InsIn(D, 1) /\ D[1].op.id = id)
      BY <2>2, Zenon
    <3>2. QED
      BY <2>1, <3>1, ComingTaken, Zenon
  <2>8. Agree(W, U, T, c)
    <3>1. SUFFICES ASSUME NEW id \in DOMAIN W \cap DOMAIN c PROVE AgreeOne(W, U, T, c, id)
      BY Zenon DEF Agree
    <3>2. CASE id = op.id
      <4>1. SameEntry(W[id], c[id])
        BY <2>2, <2>4, <3>1, <3>2, ZenonT(60) DEF SameEntry
      <4>2. AfterDown(D, 1) => DelDown(T, D[1].op.id)
        BY DownTaken, Zenon
      <4>3. c[id].deleted => DelDown(T, id)
        BY <2>4, <3>1, <3>2, <4>2, Zenon
      <4>4. QED
        BY <2>2, <3>2, <4>1, <4>3, ZenonT(60) DEF AgreeOne
    <3>3. CASE id # op.id
      <4>1. id \in DOMAIN V \cap DOMAIN c /\ W[id] = V[id]
        BY <2>2, <3>1, <3>3, Zenon
      <4>2. AgreeOne(V, U, D, c, id)
        BY <2>1, <4>1, Zenon DEF Agree
      <4>3. DelDown(D, id) => DelDown(T, id) \/ (DelIn(D, 1) /\ D[1].op.id = id)
        BY DownTaken, ZenonT(60)
      <4>4. DelDown(D, id) => DelDown(T, id)
        BY <3>3, <4>3, Zenon
      <4>5. QED
        BY <4>1, <4>2, <4>4, ZenonT(60) DEF AgreeOne
    <3>4. QED
      BY <3>2, <3>3, Zenon
  <2>9. Reach(W, T, c)
    <3>1. \A id \in Reachable(c) : id \in DOMAIN W \/ InsDown(T, id)
      <4>1. \A id : InsDown(D, id) => InsDown(T, id) \/ (InsIn(D, 1) /\ D[1].op.id = id)
        BY DownTaken, Zenon
      <4>2. QED
        BY <2>1, <2>2, <4>1, Zenon DEF Reach
    <3>2. ASSUME NEW i \in DOMAIN T, InsIn(T, i), T[i].op.id \in Reachable(c)
          PROVE  ReachOne(W, T, i)
      <4>1. i + 1 \in DOMAIN D /\ InsIn(D, i + 1) /\ T[i] = D[i + 1]
        BY <3>2, DownTaken, Zenon
      <4>2. ReachOne(V, D, i + 1)
        BY <2>1, <3>2, <4>1, Zenon DEF Reach
      <4>3. \A id \in Earlier(D, i + 1) : id \in Earlier(T, i) \/ (InsIn(D, 1) /\ D[1].op.id = id)
        BY <3>2, DownTaken, Zenon
      <4>4. QED
        BY <2>2, <4>1, <4>2, <4>3, Zenon DEF ReachOne
    <3>3. QED
      BY <3>1, <3>2, Zenon DEF Reach
  <2>10. QED
    BY <2>5, <2>6, <2>7, <2>8, <2>9, ZenonT(60) DEF Link
<1>2. ASSUME NEW s, NEW n, NEW V, NEW W, NEW U, NEW D, NEW T, NEW c, NEW K, NEW op,
             Own(s, U, K), Link(s, n, V, U, D, c, K), IsTail(D, T), DelIn(D, 1), op = D[1].op,
             Marks(V, W, op), \A i \in DOMAIN U : U[i].type = "insert" => U[i].id \notin K
      PROVE  Link(s, n, W, U, T, c, K)
  <2> USE <1>2
  <2> USE Kinds
  <2>1. /\ Fresh(s, n, V, U, K) /\ Known(s, V, K) /\ Sent(V, U)
        /\ Coming(s, V, D, c, K) /\ Agree(V, U, D, c) /\ Reach(V, D, c)
    BY Zenon DEF Link
  <2>2. /\ op.id \in DOMAIN V /\ DOMAIN W = DOMAIN V
        /\ \A id \in DOMAIN V : SameEntry(W[id], V[id]) /\ (id # op.id => W[id] = V[id])
        /\ W[op.id].deleted
    BY Zenon DEF Marks, SameEntry
  <2>3. ComingOne(s, V, D, c, K, 1) /\ D[1].op.type = "delete"
    BY <2>1, Zenon DEF Coming, DelIn
  <2>4. op.id \in K /\ (op.id \in DOMAIN c => c[op.id].deleted) /\ ~InsIn(D, 1)
    BY <2>3, Zenon DEF ComingOne, InsIn
  <2>5. Fresh(s, n, W, U, K) /\ Known(s, W, K)
    BY <2>1, <2>2, ZenonT(60) DEF Fresh, Known
  <2>6. Sent(W, U)
    <3>1. SUFFICES ASSUME NEW i \in DOMAIN U PROVE SentOne(W, U, i)
      BY Zenon DEF Sent
    <3>2. SentOne(V, U, i)
      BY <2>1, <3>1, Zenon DEF Sent
    <3>3. U[i].id \in DOMAIN V /\ U[i].id \in DOMAIN W
      BY <2>2, <3>2, Zenon DEF SentOne
    <3>4. CASE U[i].id = op.id
      <4>1. U[i].type # "insert"
        BY <2>4, <3>1, <3>4, Zenon
      <4>2. W[U[i].id].deleted
        BY <2>2, <3>4, Zenon
      <4>3. QED
        BY <3>3, <4>1, <4>2, Zenon DEF SentOne
    <3>5. CASE U[i].id # op.id
      <4>1. W[U[i].id] = V[U[i].id]
        BY <2>2, <3>3, <3>5, Zenon
      <4>2. QED
        BY <3>2, <3>3, <4>1, Zenon DEF SentOne
    <3>6. QED
      BY <3>4, <3>5, ZenonT(60)
  <2>7. Coming(s, W, T, c, K)
    <3>1. \A id \in DOMAIN W : id \in DOMAIN V \/ (InsIn(D, 1) /\ D[1].op.id = id)
      BY <2>2, Zenon
    <3>2. QED
      BY <2>1, <3>1, ComingTaken, Zenon
  <2>8. Agree(W, U, T, c)
    <3>1. SUFFICES ASSUME NEW id \in DOMAIN W \cap DOMAIN c PROVE AgreeOne(W, U, T, c, id)
      BY Zenon DEF Agree
    <3>2. AgreeOne(V, U, D, c, id) /\ id \in DOMAIN V /\ id \in DOMAIN c
      BY <2>1, <2>2, <3>1, Zenon DEF Agree
    <3>3. SameEntry(W[id], c[id])
      BY <2>2, <3>2, Zenon DEF AgreeOne, SameEntry
    <3>4. CASE id = op.id
      BY <2>2, <2>4, <3>2, <3>3, <3>4, ZenonT(60) DEF AgreeOne
    <3>5. CASE id # op.id
      <4>1. DelDown(D, id) => DelDown(T, id) \/ (DelIn(D, 1) /\ D[1].op.id = id)
        BY DownTaken, ZenonT(60)
      <4>2. DelDown(D, id) => DelDown(T, id)
        BY <3>5, <4>1, Zenon
      <4>3. W[id] = V[id]
        BY <2>2, <3>2, <3>5, Zenon
      <4>4. QED
        BY <3>2, <3>3, <4>2, <4>3, ZenonT(60) DEF AgreeOne
    <3>6. QED
      BY <3>4, <3>5, Zenon
  <2>9. Reach(W, T, c)
    <3>1. \A id \in Reachable(c) : id \in DOMAIN W \/ InsDown(T, id)
      <4>1. \A id : InsDown(D, id) => InsDown(T, id) \/ (InsIn(D, 1) /\ D[1].op.id = id)
        BY DownTaken, Zenon
      <4>2. QED
        BY <2>1, <2>2, <2>4, <4>1, Zenon DEF Reach
    <3>2. ASSUME NEW i \in DOMAIN T, InsIn(T, i), T[i].op.id \in Reachable(c)
          PROVE  ReachOne(W, T, i)
      <4>1. i + 1 \in DOMAIN D /\ InsIn(D, i + 1) /\ T[i] = D[i + 1]
        BY <3>2, DownTaken, Zenon
      <4>2. ReachOne(V, D, i + 1)
        BY <2>1, <3>2, <4>1, Zenon DEF Reach
      <4>3. \A id \in Earlier(D, i + 1) : id \in Earlier(T, i) \/ (InsIn(D, 1) /\ D[1].op.id = id)
        BY <3>2, DownTaken, Zenon
      <4>4. QED
        BY <2>2, <2>4, <4>1, <4>2, <4>3, Zenon DEF ReachOne
    <3>3. QED
      BY <3>1, <3>2, Zenon DEF Reach
  <2>10. QED
    BY <2>5, <2>6, <2>7, <2>8, <2>9, ZenonT(60) DEF Link
(* The tab accepts the first operation of D. *)
<1>3. ASSUME NEW V, NEW W, NEW D, NEW T, RefsDown(V, D), IsTail(D, T), DOMAIN V \subseteq DOMAIN W,
             InsIn(D, 1) => D[1].op.id \in DOMAIN W
      PROVE  RefsDown(W, T)
  <2> USE <1>3
  <2>1. SUFFICES ASSUME NEW i \in DOMAIN T PROVE RefDown(W, T, i)
    BY Zenon DEF RefsDown
  <2>2. i + 1 \in DOMAIN D /\ T[i] = D[i + 1]
    BY <2>1, Zenon DEF IsTail
  <2>3. RefDown(V, D, i + 1)
    BY <2>2, Zenon DEF RefsDown
  <2>4. \A id \in Earlier(D, i + 1) : id \in Earlier(T, i) \/ (InsIn(D, 1) /\ D[1].op.id = id)
    BY <2>1, DownTaken, Zenon
  <2>5. QED
    BY <2>2, <2>3, <2>4, Zenon DEF RefDown
<1> TAKE rd, s
<1> TAKE d \in Docs
<1> TAKE n
<1> TAKE U \in Seq(Ops), Q \in Seq(Messages)
<1> TAKE c, K, N, sites, W
<1> HAVE Conn(rd, s, d, n, U, Q, c, K, N) /\ Queue(s, U, c, K, N) /\ Room(c, K, N, sites) /\
         Q # <<>> /\ Q[1].type = "op" /\ W = BrowserApply(d, Q[1].op)
<1>4. /\ rd /\ Live(s, n, d, U, Q, c, K, N) /\ IsTail(Q, Tail(Q)) /\ 1 \in DOMAIN Q
      /\ \A i \in DOMAIN Tail(Q) : Tail(Q)[i].type # "sync"
  BY ReadyFor, Kinds, Zenon
<1>5. PICK op, T : op = Q[1].op /\ T = Tail(Q)
  BY Zenon
<1>6. /\ op \in Ops /\ (op \in Inserts => InsIn(Q, 1)) /\ (op \in Deletes => DelIn(Q, 1))
      /\ W = BrowserApply(d, op) /\ IsTail(Q, T) /\ Link(s, n, d, U, Q, c, K) /\ Own(s, U, K)
  BY <1>4, <1>5, OpMessage, Zenon DEF Live, Queue
<1>7. W \in Docs
  BY <1>6, TabApplies, Zenon
<1>8. N = {} => BrowserAccepts(d, op)
  BY <1>4, <1>5, TabAcceptsSent, ZenonT(60)
<1>9. N = {} => RefsDown(d, Q) /\ Covered(d, U, c)
  BY <1>4, Zenon DEF Live, Lossless
<1>10. CASE op \in Inserts
  <2>1. InsIn(Q, 1) /\ ~DelIn(Q, 1)
    BY <1>6, <1>10, OpFacts, Zenon DEF InsIn, DelIn
  <2>2. ComingOne(s, d, Q, c, K, 1) /\ op.type = "insert" /\ op.id # NoID
    <3>1. Coming(s, d, Q, c, K) /\ Q[1].type = "op"
      BY <1>6, Zenon DEF Link
    <3>2. QED
      BY <1>4, <1>10, <3>1, OpFacts, NoIDAssumption, ZenonT(60) DEF Coming
  <2>3. op.id \in K /\ op.id \notin DOMAIN d
    BY <1>5, <2>2, Zenon DEF ComingOne
  <2>4. /\ BrowserAccepts(d, op) <=> op.leftID \in DOMAIN d \cup {NoID}
        /\ BrowserAccepts(d, op) => Grows(d, W, op)
        /\ ~BrowserAccepts(d, op) => W = d
    BY <1>6, <1>10, <2>3, TabInserts, ZenonT(60)
  <2>5. CASE BrowserAccepts(d, op)
    <3>1. Link(s, n, W, U, T, c, K)
      BY <1>5, <1>6, <2>1, <2>4, <2>5, <1>1, ZenonT(60)
    <3>2. DOMAIN W = DOMAIN d \cup {op.id}
      BY <2>4, <2>5, Zenon DEF Grows
    <3>3. N = {} => RefsDown(W, T)
      BY <1>5, <1>6, <1>9, <3>2, <1>3, ZenonT(60)
    <3>4. N = {} => Covered(W, U, c)
      BY <1>9, <2>3, <3>2, ZenonT(60) DEF Covered, Room
    <3>5. QED
      BY <1>4, <1>5, <1>7, <3>1, <3>3, <3>4, ZenonT(60) DEF Conn, Live, Lossless
  <2>6. CASE ~BrowserAccepts(d, op)
    <3>1. Link(s, n, d, U, T, c, K)
      BY <1>5, <1>6, <2>1, <2>2, <2>4, <2>6, TookNothing, ZenonT(60)
    <3>2. QED
      BY <1>4, <1>5, <1>7, <1>8, <2>4, <2>6, <3>1, ZenonT(60) DEF Conn, Live
  <2>7. QED
    BY <2>5, <2>6, Zenon
<1>11. CASE op \in Deletes
  <2>1. DelIn(Q, 1) /\ ~InsIn(Q, 1)
    BY <1>6, <1>11, OpFacts, ZenonT(60) DEF InsIn, DelIn
  <2>2. /\ BrowserAccepts(d, op) <=> op.id \in DOMAIN d
        /\ BrowserAccepts(d, op) => Marks(d, W, op)
        /\ ~BrowserAccepts(d, op) => W = d
    BY <1>6, <1>11, TabDeletes, ZenonT(60)
  <2>3. CASE BrowserAccepts(d, op)
    <3>1. \A i \in DOMAIN U : U[i].type = "insert" => U[i].id \notin K
      BY <1>6, OwnNew, Zenon
    <3>2. Link(s, n, W, U, T, c, K)
      BY <1>5, <1>6, <2>1, <2>2, <2>3, <3>1, <1>2, ZenonT(60)
    <3>3. DOMAIN W = DOMAIN d
      BY <2>2, <2>3, Zenon DEF Marks
    <3>4. N = {} => RefsDown(W, T)
      BY <1>6, <1>9, <2>1, <3>3, <1>3, ZenonT(60)
    <3>5. N = {} => Covered(W, U, c)
      BY <1>9, <3>3, Zenon DEF Covered
    <3>6. QED
      BY <1>4, <1>5, <1>7, <3>2, <3>4, <3>5, Zenon DEF Conn, Live, Lossless
  <2>4. CASE ~BrowserAccepts(d, op)
    <3>1. Link(s, n, d, U, T, c, K)
      BY <1>5, <1>6, <2>1, <2>2, <2>4, TookNothing, ZenonT(60)
    <3>2. QED
      BY <1>4, <1>5, <1>7, <1>8, <2>2, <2>4, <3>1, ZenonT(60) DEF Conn, Live
  <2>5. QED
    BY <2>3, <2>4, Zenon
<1>12. QED
  BY <1>6, <1>10, <1>11, Zenon DEF Ops

(* The operations of an input event: a deletions of characters of the      *)
(* document and then b new characters, each after the one before.          *)
IsBatch(d, s, n, ops, a, b) ==
  /\ a \in Nat /\ b \in Nat /\ ops \in Seq(Ops) /\ Len(ops) = a + b
  /\ \A j \in 1..a : ops[j] \in Deletes /\ ops[j].id \in DOMAIN d
  /\ \A i \in 1..b :
       /\ ops[a + i] \in Inserts /\ ops[a + i].id = [siteID |-> s, counter |-> n + i - 1]
       /\ ops[a + i].leftID \in DOMAIN d \cup {NoID}
            \/ (i > 1 /\ ops[a + i].leftID = [siteID |-> s, counter |-> n + i - 2])

LEMMA RunesList ==
  ASSUME NEW d \in Docs
  PROVE  /\ Text(d) \in Seq(DOMAIN d) /\ Distinct(Text(d))
         /\ RunesOf(d, Text(d)) \in Seq(Nat) /\ Len(RunesOf(d, Text(d))) = Len(Text(d))
         /\ Runes(d) \in Seq(Nat)
<1>1. PICK v : v = Text(d)
  BY Zenon
<1>2. IsTree(d) /\ \A id \in DOMAIN d : d[id] \in Entry
  BY DocsFacts, Zenon DEF Sound
<1>3. v \in Seq(DOMAIN d) /\ Distinct(v)
  BY <1>1, <1>2, TextList, Zenon
<1>4. \A id \in DOMAIN d : d[id].value \in Nat
  BY <1>2 DEF Entry
<1>5. PICK l \in Nat : l = Len(v) /\ DOMAIN v = 1..l /\ \A i \in 1..l : v[i] \in DOMAIN d
  BY <1>3, ListFacts
<1>6. RunesOf(d, v) = [i \in 1..l |-> d[v[i]].value]
  BY <1>5, Zenon DEF RunesOf
<1>7. \A i \in 1..l : d[v[i]].value \in Nat
  BY <1>4, <1>5, Zenon
<1>8. RunesOf(d, v) \in Seq(Nat) /\ Len(RunesOf(d, v)) = l
  BY <1>6, <1>7, SMTT(30)
<1>9. QED
  BY <1>1, <1>3, <1>5, <1>8, Zenon DEF Runes

IsChain(d, s, n, chain, b) ==
  /\ chain \in Seq(Inserts) /\ Len(chain) = b
  /\ \A i \in 1..b :
       /\ chain[i].id = [siteID |-> s, counter |-> n + i - 1]
       /\ chain[i].leftID \in DOMAIN d \cup {NoID}
            \/ (i > 1 /\ chain[i].leftID = [siteID |-> s, counter |-> n + i - 2])

IsMade(made, d, next, s, n) ==
  made = CreateTextOperations(Text(d), RunesOf(d, Text(d)), next, s, n)

IsBelow(d, s, n) == \A id \in DOMAIN d : id.siteID = s => id.counter < n

HasBatch(d, s, n, made) ==
  \E a, b : IsBatch(d, s, n, made.operations, a, b) /\ made.nextCounter = n + b

(* The tab of a connection shows W after part of an input event on d; N is *)
(* what compaction has removed.                                            *)
Done(d, W, s, m, U, D, c, K, N) ==
  /\ W \in Docs /\ U \in Seq(Ops) /\ DOMAIN d \subseteq DOMAIN W
  /\ Own(s, U, K) /\ Link(s, m, W, U, D, c, K)
  /\ N = {} => RefsUp(U, c) /\ Lossless(W, U, D, c)

NextID(op, s, m) == op.id = [siteID |-> s, counter |-> m]

(* The tab after j of the operations. *)
Batched(d, f, s, m, U, D, c, K, N, ops, a, j) ==
  /\ Done(d, f[j], s, m, U \o SubSeq(ops, 1, j), D, c, K, N)
  /\ j > a => ops[j].id \in DOMAIN f[j]
  /\ j > 0 => BrowserAccepts(f[j - 1], ops[j])

CounterAt(n, a, j) == IF j <= a THEN n ELSE n + (j - a)

(* The input handler makes a batch of next: what becomes of the connection. *)
Typed(d, W, s, n, U, D, c, K, N, made) ==
  /\ made.operations \in Seq(Ops) /\ made.nextCounter \in Nat \ {0} /\ made.nextCounter - n \in Nat
  /\ \A i \in 1..Len(made.operations) :
       BrowserAccepts(ApplyBatch(d, made.operations)[i - 1], made.operations[i])
  /\ W \in Docs /\ U \o made.operations \in Seq(Ops)
  /\ Conn(TRUE, s, W, made.nextCounter, U \o made.operations, D, c, K, N)
  /\ Queue(s, U \o made.operations, c, K, N)

LEMMA ConnTyped ==
  \A s \in Nat \ {0}, d \in Docs, n \in Nat \ {0}, U \in Seq(Ops) :
  \A D, c, K, N, sites :
  \A next \in Seq(Nat) :
  \A made :
    Conn(TRUE, s, d, n, U, D, c, K, N) /\ Queue(s, U, c, K, N) /\ Room(c, K, N, sites) /\
    K \subseteq CharID /\ IsMade(made, d, next, s, n)
    => Typed(d, ApplyBatch(d, made.operations)[Len(made.operations)], s, n, U, D, c, K, N, made)
<1>1. ASSUME NEW d \in Docs, NEW ops \in Seq(Ops), NEW l, l = Len(ops)
      PROVE  /\ ApplyBatch(d, ops)[0] = d
             /\ \A i \in 1..l : ApplyBatch(d, ops)[i] = BrowserApply(ApplyBatch(d, ops)[i - 1], ops[i])
  <2> USE <1>1
  <2>1. l \in Nat /\ \A i \in 1..l : ops[i] \in Ops
    OBVIOUS
  <2>2. PICK G : G = [i \in 1..l |-> [v \in Docs |-> BrowserApply(v, ops[i])]]
    BY Zenon
  <2>3. \A i \in 1..l : \A v \in Docs : G[i][v] \in Docs
    BY <2>1, <2>2, TabApplies, ZenonT(60)
  <2>4. PICK f : IsLoop(f, l, Docs, d, G)
    BY <2>1, <2>3, Recursion, ZenonT(60)
  <2>5. \A i \in 0..l : (i = 0 \/ i \in 1..l) /\ (i \in 1..l => i # 0 /\ i - 1 \in 0..l)
    BY <2>1, SMTT(30)
  <2>6. \A i \in 0..l : f[i] = IF i = 0 THEN d ELSE BrowserApply(f[i - 1], ops[i])
    BY <2>2, <2>4, <2>5, ZenonT(60) DEF IsLoop
  <2>7. f = [i \in 0..l |-> IF i = 0 THEN d ELSE BrowserApply(f[i - 1], ops[i])]
    BY <2>4, <2>6, Zenon DEF IsLoop
  <2>8. PICK g : /\ g = [i \in 0..l |-> IF i = 0 THEN d ELSE BrowserApply(g[i - 1], ops[i])]
                 /\ ApplyBatch(d, ops) = g
    BY <2>7, Zenon DEF ApplyBatch
  <2>9. 0 \in 0..l /\ \A i \in 1..l : i \in 0..l /\ i # 0
    BY <2>1
  <2>10. QED
    BY <2>8, <2>9, ZenonT(60)
<1>2.   \A d \in Docs, s, n \in Nat \ {0}, next \in Seq(Nat) : \A made :
          IsBelow(d, s, n) /\ IsMade(made, d, next, s, n)
          => HasBatch(d, s, n, made)
      (* The common prefix and suffix are in bounds. *)
  <2>1. ASSUME NEW X, NEW a \in Seq(X), NEW b \in Seq(X)
        PROVE  Prefix(a, b) \in 0..Len(a) /\ Prefix(a, b) <= Len(b)
    <3>1. PICK l \in Nat, k \in Nat : l = Len(a) /\ k = Len(b)
      BY ListFacts
    <3>2. PICK S : S = {n \in Nat : n = l \/ n = k \/ a[n + 1] # b[n + 1]}
      BY Zenon
    <3>3. S \subseteq Nat /\ S # {}
      BY <3>2, Zenon
    <3>4. PICK n \in S : \A m \in S : n <= m
      BY <3>3, LeastNumber, Zenon
    <3>5. n \in Nat /\ n <= l /\ n <= k /\ l \in S /\ k \in S
      BY <3>2, <3>4, Zenon
    <3>6. ASSUME NEW i \in 1..n PROVE a[i] = b[i]
      <4>1. i - 1 \in Nat /\ ~(n <= i - 1) /\ (i - 1) + 1 = i
        BY <3>5, <3>6, SMTT(30)
      <4>2. i - 1 \notin S
        BY <3>4, <4>1, Zenon
      <4>3. QED
        BY <3>2, <4>1, <4>2, SMTT(30)
    <3>7. n < l /\ n < k => a[n + 1] # b[n + 1]
      BY <3>2, <3>4, <3>5, SMTT(30)
    <3>8. /\ n \in 0..l /\ n <= k
          /\ (\A i \in 1..n : a[i] = b[i])
          /\ (n < l /\ n < k => a[n + 1] # b[n + 1])
      BY <3>5, <3>6, <3>7, SMTT(30)
    <3>9. Prefix(a, b) \in 0..l /\ Prefix(a, b) <= k
      BY <3>1, <3>8, Zenon DEF Prefix
    <3>10. QED
      BY <3>1, <3>9, Zenon
  <2>2. ASSUME NEW X, NEW a \in Seq(X), NEW b \in Seq(X), NEW p \in Nat, p <= Len(a), p <= Len(b)
        PROVE  Suffix(a, b, p) \in 0..(Len(a) - p) /\ Suffix(a, b, p) <= Len(b) - p
    <3> USE <2>2
    <3>1. PICK l \in Nat, k \in Nat : l = Len(a) /\ k = Len(b)
      BY ListFacts
    <3>2. PICK S : S = {n \in Nat : n = l - p \/ n = k - p \/ a[l - n] # b[k - n]}
      BY Zenon
    <3>3. l - p \in S /\ k - p \in S /\ S \subseteq Nat
      BY <3>1, <3>2
    <3>4. PICK n \in S : \A m \in S : n <= m
      <4>1. S # {}
        BY <3>3, Zenon
      <4>2. QED
        BY <3>3, <4>1, LeastNumber, Zenon
    <3>5. n \in Nat /\ n <= l - p /\ n <= k - p
      BY <3>3, <3>4, SMTT(30)
    <3>6. ASSUME NEW i \in 0..(n - 1) PROVE a[l - i] = b[k - i]
      <4>1. i \in Nat /\ ~(n <= i)
        BY <3>5, <3>6
      <4>2. i \notin S
        BY <3>4, <4>1, Zenon
      <4>3. QED
        BY <3>2, <4>1, <4>2, Zenon
    <3>7. n < l - p /\ n < k - p => a[l - n] # b[k - n]
      BY <3>1, <3>2, <3>4, <3>5, SMTT(30)
    <3>8. /\ n \in 0..(l - p) /\ n <= k - p
          /\ (\A i \in 0..(n - 1) : a[l - i] = b[k - i])
          /\ (n < l - p /\ n < k - p => a[l - n] # b[k - n])
      BY <3>1, <3>5, <3>6, <3>7, SMTT(30)
    <3>9. Suffix(a, b, p) \in 0..(l - p) /\ Suffix(a, b, p) <= k - p
      BY <3>1, <3>8, Zenon DEF Suffix
    <3>10. QED
      BY <3>1, <3>9, Zenon
  <2>3. ASSUME NEW d \in Docs, NEW s \in Nat \ {0}, NEW n \in Nat \ {0},
               \A id \in DOMAIN d : id.siteID = s => id.counter < n,
               NEW added \in Seq(Nat), NEW left \in DOMAIN d \cup {NoID}, NEW right \in DOMAIN d \cup {NoID},
               right = NoID \/ left # right, NEW chain, chain = InsertChain(s, n, added, left, right)
        PROVE  IsChain(d, s, n, chain, Len(added))
    <3> USE <2>3
    <3>1. PICK l \in Nat : l = Len(added) /\ \A i \in 1..l : added[i] \in Nat
      BY ListFacts
    <3>2. \A id \in DOMAIN d : id \in CharID /\ ValidID(id)
      BY DocsFacts, Zenon DEF Sound
    <3>3. ASSUME NEW i \in 1..l
          PROVE  /\ chain[i] \in Inserts
                 /\ chain[i].id = [siteID |-> s, counter |-> n + i - 1]
                 /\ chain[i].leftID \in DOMAIN d \cup {NoID}
                      \/ (i > 1 /\ chain[i].leftID = [siteID |-> s, counter |-> n + i - 2])
      <4>1. PICK x, y, op : /\ x = [siteID |-> s, counter |-> n + i - 1]
                            /\ y = IF i = 1 THEN left ELSE [siteID |-> s, counter |-> n + i - 2]
                            /\ op = [type |-> "insert", id |-> x, value |-> added[i], rightID |-> right, leftID |-> y]
        BY Zenon
      <4>2. chain[i] = op
        BY <3>1, <3>3, <4>1, Zenon DEF InsertChain
      <4>3. n + i - 1 \in Nat /\ n + i - 1 # 0 /\ n + i - 1 >= n
        BY <3>1, <3>3, SMTT(30)
      <4>4. x \in CharID /\ x.siteID = s /\ x.counter = n + i - 1 /\ ValidID(x)
        BY <4>1, <4>3, SMTT(30) DEF CharID, ValidID
      <4>5. \A id \in DOMAIN d : id # x
        <5>1. SUFFICES ASSUME x \in DOMAIN d PROVE FALSE
          BY Zenon
        <5>2. n + i - 1 < n
          BY <4>4, <5>1, Zenon
        <5>3. QED
          BY <3>1, <3>3, <5>2, SMTT(30)
      <4>6. CASE i = 1
        <5>1. y = left
          BY <4>1, <4>6, Zenon
        <5>2. left # x /\ right # x /\ left \in Anchor /\ right \in Anchor
          <6>1. NoID # x
            BY <4>4, NoIDAssumption, ZenonT(60)
          <6>2. QED
            BY <3>2, <4>5, <6>1, ZenonT(60) DEF Anchor
        <5>3. op \in [type : {"insert"}, id : CharID, value : Nat, leftID : Anchor, rightID : Anchor]
          BY <3>1, <3>3, <4>1, <4>4, <5>1, <5>2, SMTT(30)
        <5>4. op.id = x /\ op.leftID = left /\ op.rightID = right
          BY <4>1, <5>1, SMTT(30)
        <5>5. ~LeftInvalid(op) /\ ~RightInvalid(op) /\ ValidID(op.id)
          BY <3>2, <4>4, <5>2, <5>4, ZenonT(60) DEF LeftInvalid, RightInvalid
        <5>6. QED
          BY <4>1, <4>2, <5>3, <5>4, <5>5, ZenonT(60) DEF Inserts
      <4>7. CASE i # 1
        <5>1. y = [siteID |-> s, counter |-> n + i - 2]
          BY <4>1, <4>7, Zenon
        <5>2. n + i - 2 \in Nat /\ n + i - 2 # 0 /\ n + i - 2 # n + i - 1 /\ ~(n + i - 2 < n) /\ i > 1
          BY <3>1, <3>3, <4>7, SMTT(30)
        <5>3. y \in CharID /\ ValidID(y) /\ y # x /\ y.siteID = s /\ y.counter = n + i - 2
          BY <4>4, <5>1, <5>2, SMTT(30) DEF CharID, ValidID
        <5>4. right # x /\ right # y /\ right \in Anchor /\ y \in Anchor
          <6>1. NoID # x /\ NoID # y
            BY <4>4, <5>3, NoIDAssumption, ZenonT(60)
          <6>2. y \notin DOMAIN d
            BY <5>2, <5>3, ZenonT(60)
          <6>3. QED
            BY <3>2, <4>5, <5>3, <6>1, <6>2, ZenonT(60) DEF Anchor
        <5>5. op \in [type : {"insert"}, id : CharID, value : Nat, leftID : Anchor, rightID : Anchor]
          BY <3>1, <3>3, <4>1, <4>4, <5>4, SMTT(30)
        <5>6. op.id = x /\ op.leftID = y /\ op.rightID = right
          BY <4>1
        <5>7. ~LeftInvalid(op) /\ ~RightInvalid(op) /\ ValidID(op.id)
          BY <3>2, <4>4, <5>3, <5>4, <5>6, ZenonT(60) DEF LeftInvalid, RightInvalid
        <5>8. QED
          BY <4>1, <4>2, <5>1, <5>2, <5>5, <5>6, <5>7, ZenonT(60) DEF Inserts
      <4>8. QED
        BY <4>6, <4>7, Zenon
    <3>4. chain \in Seq(Inserts) /\ Len(chain) = l
      <4>1. chain = [i \in 1..l |-> chain[i]] /\ DOMAIN chain = 1..l
        BY <3>1, Zenon DEF InsertChain
      <4>2. PICK f : f = [i \in 1..l |-> chain[i]]
        BY Zenon
      <4>3. \A i \in 1..l : chain[i] \in Inserts
        BY <3>3, Zenon
      <4>4. f \in Seq(Inserts) /\ Len(f) = l
        BY <3>1, <4>2, <4>3, SMTT(30)
      <4>5. QED
        BY <4>1, <4>2, <4>4, ZenonT(60)
    <3>5. QED
      BY <3>1, <3>3, <3>4, ZenonT(60) DEF IsChain
  <2>4. ASSUME NEW X, NEW s \in Seq(X), NEW m \in Nat, NEW n \in Nat, m <= n, n <= Len(s)
        PROVE  SubSeq(s, m + 1, n) \in Seq(X) /\ Len(SubSeq(s, m + 1, n)) = n - m
    BY <2>4
  <2>5. ASSUME NEW d \in Docs, NEW s \in Nat \ {0}, NEW n \in Nat \ {0}, IsBelow(d, s, n),
               NEW next \in Seq(Nat), NEW made, IsMade(made, d, next, s, n)
        PROVE  HasBatch(d, s, n, made)
    <3> USE <2>5
    <3>1. PICK v, prev : v = Text(d) /\ prev = RunesOf(d, Text(d))
      BY Zenon
    <3>2. v \in Seq(DOMAIN d) /\ Distinct(v) /\ prev \in Seq(Nat) /\ Len(prev) = Len(v)
      BY <3>1, RunesList, Zenon
    <3>3. PICK l \in Nat, k \in Nat : l = Len(v) /\ k = Len(next) /\ l = Len(prev)
      BY <3>2, ListFacts, SMTT(30)
    <3>4. PICK p, q : p = Prefix(prev, next) /\ q = Suffix(prev, next, p)
      BY Zenon
    <3>5. p \in Nat /\ p <= l /\ p <= k
      <4>1. Prefix(prev, next) \in 0..Len(prev) /\ Prefix(prev, next) <= Len(next)
        BY <3>2, <2>1, Zenon
      <4>2. p \in 0..l /\ p <= k
        BY <3>3, <3>4, <4>1, ZenonT(60)
      <4>3. QED
        BY <4>2
    <3>6. q \in Nat /\ p <= l - q /\ p <= k - q /\ l - q \in Nat /\ k - q \in Nat /\ l - q <= l /\ k - q <= k
      <4>1. p <= Len(prev) /\ p <= Len(next) /\ p \in Nat
        BY <3>3, <3>5, ZenonT(60)
      <4>2. Suffix(prev, next, p) \in 0..(Len(prev) - p) /\ Suffix(prev, next, p) <= Len(next) - p
        BY <3>2, <4>1, <2>2, ZenonT(60)
      <4>3. q \in 0..(l - p) /\ q <= k - p
        BY <3>3, <3>4, <4>2, ZenonT(60)
      <4>4. QED
        BY <3>5, <4>3, SMTT(30)
    <3>7. PICK removed, added, left, right :
            /\ removed = SubSeq(v, p + 1, l - q) /\ added = SubSeq(next, p + 1, k - q)
            /\ left = IF p = 0 THEN NoID ELSE v[p]
            /\ right = IF p = l THEN NoID ELSE v[p + 1]
      BY Zenon
    <3>8. PICK dels, chain : /\ dels = [i \in DOMAIN removed |-> DeleteOf(removed[i])]
                             /\ chain = InsertChain(s, n, added, left, right)
      BY Zenon
    <3>9. made = [operations |-> dels \o chain, nextCounter |-> n + Len(added)]
      BY <3>1, <3>3, <3>4, <3>7, <3>8, ZenonT(60) DEF CreateTextOperations, IsMade
    <3>10. removed \in Seq(DOMAIN d) /\ added \in Seq(Nat)
      <4>1. l - q <= Len(v) /\ k - q <= Len(next)
        BY <3>3, <3>6, Zenon
      <4>2. SubSeq(v, p + 1, l - q) \in Seq(DOMAIN d) /\ SubSeq(next, p + 1, k - q) \in Seq(Nat)
        BY <3>2, <3>5, <3>6, <4>1, <2>4, ZenonT(60)
      <4>3. QED
        BY <3>7, <4>2, ZenonT(60)
    <3>11. /\ left \in DOMAIN d \cup {NoID} /\ right \in DOMAIN d \cup {NoID}
           /\ right = NoID \/ left # right
      <4>1. DOMAIN v = 1..l /\ \A i \in 1..l : v[i] \in DOMAIN d
        BY <3>2, <3>3, SMTT(30)
      <4>2. (p # 0 => p \in 1..l) /\ (p # l => p + 1 \in 1..l) /\ p # p + 1
        BY <3>5
      <4>3. left \in DOMAIN d \cup {NoID} /\ right \in DOMAIN d \cup {NoID}
        BY <3>7, <4>1, <4>2, Zenon
      <4>4. NoID \notin DOMAIN d
        BY DocsFacts, NoIDAssumption, Zenon
      <4>5. ASSUME p # l PROVE left # right
        <5>1. right = v[p + 1] /\ v[p + 1] \in DOMAIN d
          BY <3>7, <4>1, <4>2, <4>5, ZenonT(60)
        <5>2. CASE p = 0
          BY <3>7, <4>4, <5>1, <5>2, ZenonT(60)
        <5>3. CASE p # 0
          BY <3>2, <3>7, <4>1, <4>2, <4>5, <5>1, <5>3, ZenonT(60) DEF Distinct
        <5>4. QED
          BY <5>2, <5>3, Zenon
      <4>6. p = l => right = NoID
        BY <3>7, Zenon
      <4>7. QED
        BY <4>3, <4>5, <4>6, ZenonT(60)
    <3>12. PICK a \in Nat, b \in Nat : a = Len(removed) /\ b = Len(added)
      <4>1. Len(removed) \in Nat /\ Len(added) \in Nat
        BY <3>10
      <4>2. QED
        BY <4>1, Zenon
    <3>13. /\ chain \in Seq(Inserts) /\ Len(chain) = b
           /\ \A i \in 1..b :
                /\ chain[i].id = [siteID |-> s, counter |-> n + i - 1]
                /\ chain[i].leftID \in DOMAIN d \cup {NoID}
                     \/ (i > 1 /\ chain[i].leftID = [siteID |-> s, counter |-> n + i - 2])
      <4>1. chain = InsertChain(s, n, added, left, right)
        BY <3>8, Zenon
      <4>2. IsChain(d, s, n, chain, Len(added))
        BY <3>10, <3>11, <4>1, <2>3, ZenonT(60) DEF IsBelow
      <4>3. QED
        BY <3>12, <4>2, Zenon DEF IsChain
    <3>14. /\ dels \in Seq(Deletes) /\ Len(dels) = a
           /\ \A i \in 1..a : dels[i].id \in DOMAIN d
      <4>1. DOMAIN removed = 1..a /\ \A i \in 1..a : removed[i] \in DOMAIN d
        BY <3>10, <3>12, SMTT(30)
      <4>2. \A x \in DOMAIN d : DeleteOf(x) \in Deletes /\ DeleteOf(x).id = x
        <5>1. \A x \in DOMAIN d : x \in CharID /\ ValidID(x)
          BY DocsFacts, Zenon DEF Sound
        <5>2. QED
          BY <5>1 DEF DeleteOf, Deletes
      <4>3. dels = [i \in 1..a |-> DeleteOf(removed[i])]
        BY <3>8, <4>1, Zenon
      <4>4. \A i \in 1..a : DeleteOf(removed[i]) \in Deletes /\ DeleteOf(removed[i]).id \in DOMAIN d
        BY <4>1, <4>2, Zenon
      <4>5. \A i \in 1..a : dels[i] \in Deletes /\ dels[i].id \in DOMAIN d
        BY <4>3, <4>4, Zenon
      <4>6. PICK f : f = [i \in 1..a |-> dels[i]]
        BY Zenon
      <4>7. f \in Seq(Deletes) /\ Len(f) = a
        BY <4>5, <4>6, SMTT(30)
      <4>8. f = dels
        BY <4>3, <4>6, Zenon
      <4>9. QED
        BY <4>5, <4>7, <4>8, ZenonT(60)
    <3>15. PICK ops : ops = dels \o chain
      BY Zenon
    <3>16. dels \in Seq(Ops) /\ chain \in Seq(Ops)
      BY <3>13, <3>14, SMTT(30) DEF Ops
    <3>17. /\ ops \in Seq(Ops) /\ Len(ops) = a + b
           /\ \A i \in 1..a : ops[i] = dels[i]
           /\ \A i \in 1..b : ops[a + i] = chain[i]
      <4>1. /\ dels \o chain \in Seq(Ops) /\ Len(dels \o chain) = Len(dels) + Len(chain)
            /\ \A i \in 1..Len(dels) : (dels \o chain)[i] = dels[i]
            /\ \A i \in 1..Len(chain) : (dels \o chain)[Len(dels) + i] = chain[i]
        BY <3>16, ConcatList, SMTT(30)
      <4>2. QED
        BY <3>13, <3>14, <3>15, <4>1, ZenonT(60)
    <3>18. (\A i \in 1..a : dels[i] \in Deletes) /\ (\A i \in 1..b : chain[i] \in Inserts)
      BY <3>13, <3>14, SMTT(30)
    <3>19. IsBatch(d, s, n, ops, a, b)
      BY <3>12, <3>13, <3>14, <3>17, <3>18, ZenonT(60) DEF IsBatch
    <3>20. made.operations = ops /\ made.nextCounter = n + b
      BY <3>9, <3>12, <3>15, SMTT(30)
    <3>21. QED
      BY <3>19, <3>20, ZenonT(60) DEF HasBatch
  <2>6. QED
    BY <2>5, Zenon
<1>3. \A d, s : \A n \in Nat \ {0}, U \in Seq(Ops) : \A D, c, K, N, ops, a, b : \A l \in Nat : \A f :
        IsBatch(d, s, n, ops, a, b) /\ l = a + b /\ f[0] = d /\
        (\A i \in 1..l : f[i] = BrowserApply(f[i - 1], ops[i])) /\
        Done(d, d, s, n, U, D, c, K, N) /\ DOMAIN c \subseteq K /\ K \subseteq CharID
        => \A j \in 0..l : Batched(d, f, s, CounterAt(n, a, j), U, D, c, K, N, ops, a, j)
  <2>1. ASSUME NEW U, NEW T, NEW k, NEW op, IsAppend(U, T, op, k)
        PROVE  /\ \A id : DelUp(U, id) => DelUp(T, id)
               /\ \A i \in DOMAIN U : AfterUp(U, i) => AfterUp(T, i)
               /\ op.type = "delete" => /\ DelUp(T, op.id)
                                        /\ \A i \in DOMAIN U : U[i].id = op.id => AfterUp(T, i)
    <3> USE <2>1
    <3>1. /\ DOMAIN T = DOMAIN U \cup {k} /\ T[k] = op
          /\ \A i \in DOMAIN U : T[i] = U[i] /\ i < k
      BY Zenon DEF IsAppend
    <3>2. \A j \in DOMAIN U : DelAt(U, j) => DelAt(T, j)
      BY <3>1, Zenon DEF DelAt
    <3>3. op.type = "delete" => DelAt(T, k)
      BY <3>1, Zenon DEF DelAt
    <3>4. QED
      BY <3>1, <3>2, <3>3, Zenon DEF DelUp, AfterUp
  <2>2. ASSUME NEW s, NEW n, NEW m, NEW V, NEW W, NEW U, NEW T, NEW k, NEW D, NEW c, NEW K, NEW op,
               Own(s, U, K), Link(s, n, V, U, D, c, K), IsAppend(U, T, op, k), DOMAIN c \subseteq K,
               op.type = "insert", op.id.siteID = s, op.id.counter = n, ~(n < n), n < m,
               Fresh(s, m, V, U, K), Grows(V, W, op)
        PROVE  Own(s, T, K) /\ Link(s, m, W, T, D, c, K)
    <3> USE <2>2
    <3> USE Kinds
    <3>1. /\ k \notin DOMAIN U /\ DOMAIN T = DOMAIN U \cup {k} /\ T[k] = op /\ ~(k < k)
          /\ \A i \in DOMAIN U : T[i] = U[i] /\ i < k /\ ~(k < i)
      BY Zenon DEF IsAppend
    <3>2. /\ op.id \notin DOMAIN V /\ DOMAIN W = DOMAIN V \cup {op.id}
          /\ \A id \in DOMAIN V : W[id] = V[id]
          /\ SameEntry(W[op.id], op) /\ ~W[op.id].deleted
      BY Zenon DEF Grows
    <3>3. /\ Fresh(s, n, V, U, K) /\ Known(s, V, K) /\ Sent(V, U)
          /\ Coming(s, V, D, c, K) /\ Agree(V, U, D, c) /\ Reach(V, D, c)
      BY Zenon DEF Link
    <3>4. op.id \notin K
      BY <3>3, Zenon DEF Fresh
    <3>5. Own(s, T, K)
      BY <3>1, <3>3, Zenon DEF Own, Fresh
    <3>6. Fresh(s, m, W, T, K)
      BY <3>1, <3>2, Zenon DEF Fresh
    <3>7. Known(s, W, K)
      BY <3>2, <3>3, Zenon DEF Known
    <3>8. Sent(W, T)
      <4>1. ASSUME NEW i \in DOMAIN U PROVE SentOne(W, T, i)
        <5>1. SentOne(V, U, i) /\ T[i] = U[i] /\ (AfterUp(U, i) => AfterUp(T, i))
          BY <3>1, <3>3, <2>1, Zenon DEF Sent
        <5>2. U[i].id \in DOMAIN V /\ W[U[i].id] = V[U[i].id] /\ U[i].id \in DOMAIN W
          BY <3>2, <5>1, Zenon DEF SentOne
        <5>3. QED
          BY <5>1, <5>2, Zenon DEF SentOne
      <4>2. SentOne(W, T, k)
        BY <3>1, <3>2, Zenon DEF SentOne
      <4>3. QED
        BY <3>1, <4>1, <4>2, Zenon DEF Sent
    <3>9. Coming(s, W, D, c, K)
      BY <3>2, <3>3, Zenon DEF Coming, ComingOne
    <3>10. Agree(W, T, D, c)
      <4>1. SUFFICES ASSUME NEW id \in DOMAIN W \cap DOMAIN c PROVE AgreeOne(W, T, D, c, id)
        BY Zenon DEF Agree
      <4>2. id \in DOMAIN V \cap DOMAIN c /\ W[id] = V[id]
        BY <3>2, <3>4, <4>1, Zenon
      <4>3. QED
        BY <3>3, <4>2, <2>1, Zenon DEF Agree, AgreeOne
    <3>11. Reach(W, D, c)
      BY <3>2, <3>3, Zenon DEF Reach, ReachOne
    <3>12. QED
      BY <3>5, <3>6, <3>7, <3>8, <3>9, <3>10, <3>11, ZenonT(60) DEF Link
  <2>3. ASSUME NEW s, NEW n, NEW V, NEW W, NEW U, NEW T, NEW k, NEW D, NEW c, NEW K, NEW op,
               Own(s, U, K), Link(s, n, V, U, D, c, K), IsAppend(U, T, op, k),
               op.type = "delete", Marks(V, W, op)
        PROVE  Own(s, T, K) /\ Link(s, n, W, T, D, c, K)
    <3> USE <2>3
    <3> USE Kinds
    <3>1. /\ k \notin DOMAIN U /\ DOMAIN T = DOMAIN U \cup {k} /\ T[k] = op /\ ~(k < k)
          /\ \A i \in DOMAIN U : T[i] = U[i] /\ i < k /\ ~(k < i)
      BY Zenon DEF IsAppend
    <3>2. /\ op.id \in DOMAIN V /\ DOMAIN W = DOMAIN V
          /\ \A id \in DOMAIN V : SameEntry(W[id], V[id]) /\ (id # op.id => W[id] = V[id])
          /\ W[op.id].deleted
      BY Zenon DEF Marks, SameEntry
    <3>3. /\ Fresh(s, n, V, U, K) /\ Known(s, V, K) /\ Sent(V, U)
          /\ Coming(s, V, D, c, K) /\ Agree(V, U, D, c) /\ Reach(V, D, c)
      BY Zenon DEF Link
    <3>4. Own(s, T, K)
      BY <3>1, <3>3, Zenon DEF Own
    <3>5. Fresh(s, n, W, T, K)
      BY <3>1, <3>2, <3>3, Zenon DEF Fresh
    <3>6. Known(s, W, K)
      BY <3>2, <3>3, Zenon DEF Known
    <3>7. Sent(W, T)
      <4>1. ASSUME NEW i \in DOMAIN U PROVE SentOne(W, T, i)
        <5>1. SentOne(V, U, i) /\ T[i] = U[i]
          BY <3>1, <3>3, Zenon DEF Sent
        <5>2. U[i].id \in DOMAIN V /\ U[i].id \in DOMAIN W
          BY <3>2, <5>1, Zenon DEF SentOne
        <5>3. U[i].type = "insert" => SameEntry(W[U[i].id], U[i])
          BY <3>2, <5>1, <5>2, Zenon DEF SentOne, SameEntry
        <5>4. CASE U[i].id = op.id
          <6>1. AfterUp(T, i)
            BY <5>4, <2>1, Zenon
          <6>2. QED
            BY <3>2, <5>1, <5>2, <5>3, <5>4, <6>1, ZenonT(60) DEF SentOne
        <5>5. CASE U[i].id # op.id
          <6>1. W[U[i].id] = V[U[i].id] /\ (AfterUp(U, i) => AfterUp(T, i))
            BY <3>2, <5>2, <5>5, <2>1, Zenon
          <6>2. QED
            BY <5>1, <5>2, <5>3, <6>1, Zenon DEF SentOne
        <5>6. QED
          BY <5>4, <5>5, Zenon
      <4>2. SentOne(W, T, k)
        BY <3>1, <3>2, Zenon DEF SentOne
      <4>3. QED
        BY <3>1, <4>1, <4>2, Zenon DEF Sent
    <3>8. Coming(s, W, D, c, K)
      BY <3>2, <3>3, Zenon DEF Coming, ComingOne
    <3>9. Agree(W, T, D, c)
      <4>1. SUFFICES ASSUME NEW id \in DOMAIN W \cap DOMAIN c PROVE AgreeOne(W, T, D, c, id)
        BY Zenon DEF Agree
      <4>2. AgreeOne(V, U, D, c, id) /\ id \in DOMAIN V
        BY <3>2, <3>3, <4>1, Zenon DEF Agree
      <4>3. SameEntry(W[id], c[id])
        BY <3>2, <4>2, Zenon DEF AgreeOne, SameEntry
      <4>4. CASE id = op.id
        BY <3>2, <4>3, <4>4, <2>1, Zenon DEF AgreeOne
      <4>5. CASE id # op.id
        <5>1. W[id] = V[id] /\ (DelUp(U, id) => DelUp(T, id))
          BY <3>2, <4>2, <4>5, <2>1, Zenon
        <5>2. QED
          BY <4>2, <4>3, <5>1, Zenon DEF AgreeOne
      <4>6. QED
        BY <4>4, <4>5, Zenon
    <3>10. Reach(W, D, c)
      BY <3>2, <3>3, Zenon DEF Reach, ReachOne
    <3>11. QED
      BY <3>4, <3>5, <3>6, <3>7, <3>8, <3>9, <3>10, ZenonT(60) DEF Link
  <2>4. ASSUME NEW V, NEW W, NEW U, NEW T, NEW k, NEW D, NEW c, NEW op,
               RefsUp(U, c), Lossless(V, U, D, c), IsAppend(U, T, op, k),
               \/ op.type = "insert" /\ Grows(V, W, op) /\ op.leftID \in DOMAIN V \cup {NoID}
               \/ op.type = "delete" /\ Marks(V, W, op)
        PROVE  RefsUp(T, c) /\ Lossless(W, T, D, c)
    <3> USE <2>4
    <3> USE Kinds
    <3>1. /\ k \notin DOMAIN U /\ DOMAIN T = DOMAIN U \cup {k} /\ T[k] = op
          /\ \A i \in DOMAIN U : T[i] = U[i] /\ i < k
      BY Zenon DEF IsAppend
    <3>2. RefsDown(V, D) /\ Covered(V, U, c)
      BY Zenon DEF Lossless
    <3>3. \A i \in DOMAIN U : InsAt(U, i) => InsAt(T, i)
      BY <3>1, Zenon DEF InsAt
    <3>4. \A i \in DOMAIN U : EarlierUp(U, i) \subseteq EarlierUp(T, i)
      BY <3>1, <3>3, Zenon DEF EarlierUp
    <3>5. \A id : InsUp(U, id) => id \in EarlierUp(T, k) /\ InsUp(T, id)
      BY <3>1, <3>3, Zenon DEF EarlierUp, InsUp
    <3>6. ASSUME NEW i \in DOMAIN U PROVE RefUp(T, c, i)
      <4>1. RefUp(U, c, i) /\ T[i] = U[i] /\ EarlierUp(U, i) \subseteq EarlierUp(T, i)
        BY <3>1, <3>4, <3>6, Zenon DEF RefsUp
      <4>2. QED
        BY <4>1, Zenon DEF RefUp
    <3>7. \A id \in DOMAIN V : id \in DOMAIN c \/ id \in EarlierUp(T, k)
      BY <3>2, <3>5, Zenon DEF Covered
    <3>8. CASE op.type = "insert" /\ Grows(V, W, op) /\ op.leftID \in DOMAIN V \cup {NoID}
      <4>1. RefUp(T, c, k)
        BY <3>1, <3>7, <3>8, Zenon DEF RefUp
      <4>2. DOMAIN W = DOMAIN V \cup {op.id}
        BY <3>8, Zenon DEF Grows
      <4>3. InsUp(T, op.id)
        BY <3>1, <3>8, Zenon DEF InsUp, InsAt
      <4>4. Covered(W, T, c) /\ RefsDown(W, D)
        BY <3>2, <3>5, <4>2, <4>3, ZenonT(60) DEF Covered, RefsDown, RefDown
      <4>5. QED
        BY <3>1, <3>6, <4>1, <4>4, Zenon DEF RefsUp, Lossless
    <3>9. CASE op.type = "delete" /\ Marks(V, W, op)
      <4>1. DOMAIN W = DOMAIN V /\ op.id \in DOMAIN V
        BY <3>9, Zenon DEF Marks
      <4>2. RefUp(T, c, k)
        BY <3>1, <3>7, <3>9, <4>1, Zenon DEF RefUp
      <4>3. Covered(W, T, c) /\ RefsDown(W, D)
        BY <3>2, <3>5, <4>1, Zenon DEF Covered, RefsDown, RefDown
      <4>4. QED
        BY <3>1, <3>6, <4>2, <4>3, Zenon DEF RefsUp, Lossless
    <3>10. QED
      BY <3>8, <3>9, Zenon
  <2>5. ASSUME NEW s, NEW m \in Nat, NEW W \in Docs, NEW U \in Seq(Ops), NEW K, K \subseteq CharID,
               Fresh(s, m, W, U, K)
        PROVE  Fresh(s, m + 1, W, U, K)
    <3> USE <2>5
    <3>1. \A x \in CharID : x.counter \in Nat
      BY DEF CharID
    <3>2. DOMAIN W \subseteq CharID
      BY DocsFacts, Zenon
    <3>3. \A i \in DOMAIN U : U[i] \in Ops
      OBVIOUS
    <3>4. \A i \in DOMAIN U : U[i].id \in CharID
      BY <3>3, OpFacts, Zenon DEF Ops
    <3>5. \A x \in Nat : x < m => x < m + 1
      OBVIOUS
    <3>6. QED
      BY <3>1, <3>2, <3>4, <3>5, ZenonT(60) DEF Fresh
  <2>6. ASSUME NEW d, NEW W, NEW s, NEW m \in Nat, NEW U, NEW D, NEW c, NEW K, NEW N, NEW op \in Inserts,
               Done(d, W, s, m, U, D, c, K, N), DOMAIN c \subseteq K, K \subseteq CharID,
               NextID(op, s, m), op.leftID \in DOMAIN W \cup {NoID}
        PROVE  /\ BrowserAccepts(W, op) /\ op.id \in DOMAIN BrowserApply(W, op)
               /\ Done(d, BrowserApply(W, op), s, m + 1, Append(U, op), D, c, K, N)
    <3> USE <2>6
    <3>1. PICK e, T, k : e = BrowserApply(W, op) /\ T = Append(U, op) /\ k = Len(U) + 1
      BY Zenon
    <3>2. /\ W \in Docs /\ U \in Seq(Ops) /\ DOMAIN d \subseteq DOMAIN W
          /\ Own(s, U, K) /\ Link(s, m, W, U, D, c, K)
          /\ N = {} => RefsUp(U, c) /\ Lossless(W, U, D, c)
      BY Zenon DEF Done
    <3>3. op.id.siteID = s /\ op.id.counter = m /\ ~(m < m) /\ m < m + 1
      BY DEF NextID
    <3>4. op.type = "insert" /\ op \in Ops
      BY OpFacts, Zenon DEF Ops
    <3>5. T \in Seq(Ops) /\ IsAppend(U, T, op, k)
      BY <3>1, <3>2, <3>4, AppendFacts, ZenonT(60)
    <3>6. Fresh(s, m, W, U, K)
      BY <3>2, Zenon DEF Link
    <3>7. op.id \notin DOMAIN W
      BY <3>3, <3>6, Zenon DEF Fresh
    <3>8. BrowserAccepts(W, op) /\ e \in Docs /\ Grows(W, e, op)
      BY <3>1, <3>2, <3>7, TabInserts, ZenonT(60)
    <3>9. Fresh(s, m + 1, W, U, K)
      BY <3>2, <3>6, <2>5, Zenon
    <3>10. Own(s, T, K) /\ Link(s, m + 1, e, T, D, c, K)
      BY <3>2, <3>3, <3>4, <3>5, <3>8, <3>9, <2>2, ZenonT(60)
    <3>11. N = {} => RefsUp(T, c) /\ Lossless(e, T, D, c)
      BY <3>2, <3>4, <3>5, <3>8, <2>4, ZenonT(60)
    <3>12. DOMAIN d \subseteq DOMAIN e /\ op.id \in DOMAIN e
      BY <3>2, <3>8, Zenon DEF Grows
    <3>13. Done(d, e, s, m + 1, T, D, c, K, N)
      BY <3>5, <3>8, <3>10, <3>11, <3>12, ZenonT(60) DEF Done
    <3>14. QED
      BY <3>1, <3>8, <3>12, <3>13, ZenonT(60)
  <2>7. ASSUME NEW d, NEW W, NEW s, NEW m, NEW U, NEW D, NEW c, NEW K, NEW N, NEW op \in Deletes,
               Done(d, W, s, m, U, D, c, K, N), op.id \in DOMAIN d
        PROVE  /\ BrowserAccepts(W, op)
               /\ Done(d, BrowserApply(W, op), s, m, Append(U, op), D, c, K, N)
    <3> USE <2>7
    <3>1. PICK e, T, k : e = BrowserApply(W, op) /\ T = Append(U, op) /\ k = Len(U) + 1
      BY Zenon
    <3>2. /\ W \in Docs /\ U \in Seq(Ops) /\ DOMAIN d \subseteq DOMAIN W
          /\ Own(s, U, K) /\ Link(s, m, W, U, D, c, K)
          /\ N = {} => RefsUp(U, c) /\ Lossless(W, U, D, c)
      BY Zenon DEF Done
    <3>3. op.type = "delete" /\ op \in Ops
      BY OpFacts, Zenon DEF Ops
    <3>4. T \in Seq(Ops) /\ IsAppend(U, T, op, k)
      BY <3>1, <3>2, <3>3, AppendFacts, ZenonT(60)
    <3>5. BrowserAccepts(W, op) /\ e \in Docs /\ Marks(W, e, op)
      BY <3>1, <3>2, TabDeletes, Zenon
    <3>6. Own(s, T, K) /\ Link(s, m, e, T, D, c, K)
      BY <3>2, <3>3, <3>4, <3>5, <2>3, ZenonT(60)
    <3>7. N = {} => RefsUp(T, c) /\ Lossless(e, T, D, c)
      BY <3>2, <3>3, <3>4, <3>5, <2>4, ZenonT(60)
    <3>8. DOMAIN d \subseteq DOMAIN e
      BY <3>2, <3>5, Zenon DEF Marks
    <3>9. Done(d, e, s, m, T, D, c, K, N)
      BY <3>4, <3>5, <3>6, <3>7, <3>8, ZenonT(60) DEF Done
    <3>10. QED
      BY <3>1, <3>5, <3>9, ZenonT(60)
  <2>8. ASSUME NEW X, NEW u \in Seq(X), NEW s \in Seq(X), NEW j \in Nat, j + 1 <= Len(s)
        PROVE  u \o SubSeq(s, 1, j + 1) = Append(u \o SubSeq(s, 1, j), s[j + 1])
    <3> USE <2>8
    <3>1. SubSeq(s, 1, j) \in Seq(X) /\ s[j + 1] \in X
      OBVIOUS
    <3>2. SubSeq(s, 1, j + 1) = Append(SubSeq(s, 1, j), s[j + 1])
      OBVIOUS
    <3>3. u \o Append(SubSeq(s, 1, j), s[j + 1]) = Append(u \o SubSeq(s, 1, j), s[j + 1])
      BY <3>1, ConcatAppend, SMTT(30)
    <3>4. QED
      BY <3>2, <3>3, Zenon
  <2> TAKE d, s
  <2> TAKE n \in Nat \ {0}, U \in Seq(Ops)
  <2> TAKE D, c, K, N, ops, a, b
  <2> TAKE l \in Nat
  <2> TAKE f
  <2> HAVE IsBatch(d, s, n, ops, a, b) /\ l = a + b /\ f[0] = d /\
           (\A i \in 1..l : f[i] = BrowserApply(f[i - 1], ops[i])) /\
           Done(d, d, s, n, U, D, c, K, N) /\ DOMAIN c \subseteq K /\ K \subseteq CharID
  <2>9. /\ a \in Nat /\ b \in Nat /\ ops \in Seq(Ops) /\ Len(ops) = l
        /\ \A j \in 1..a : ops[j] \in Deletes /\ ops[j].id \in DOMAIN d
    BY Zenon DEF IsBatch
  <2>10. PICK S : S = {j \in 0..l : Batched(d, f, s, CounterAt(n, a, j), U, D, c, K, N, ops, a, j)}
    BY Zenon
  <2>11. 0 \in S
    <3>1. U \o SubSeq(ops, 1, 0) = U
      BY <2>9, SMTT(30)
    <3>2. CounterAt(n, a, 0) = n /\ ~(0 > a) /\ ~(0 > 0) /\ 0 \in 0..l
      BY <2>9 DEF CounterAt
    <3>3. QED
      BY <2>10, <3>1, <3>2, ZenonT(60) DEF Batched
  <2>12. ASSUME NEW j \in 0..(l - 1), j \in S PROVE j + 1 \in S
    <3>1. PICK k, op, T, m : /\ k = j + 1 /\ op = ops[k] /\ T = U \o SubSeq(ops, 1, j)
                             /\ m = CounterAt(n, a, j)
      BY Zenon
    <3>2. /\ k \in 1..l /\ k \in 0..l /\ k - 1 = j /\ k > 0 /\ j \in Nat /\ k \in Nat /\ k = j + 1
          /\ m \in Nat
      BY <2>9, <2>12, <3>1, SMTT(30) DEF CounterAt
    <3>3. j + 1 <= Len(ops)
      BY <2>9, <3>2, SMTT(30)
    <3>4. U \o SubSeq(ops, 1, k) = Append(T, op)
      <4>1. U \o SubSeq(ops, 1, j + 1) = Append(U \o SubSeq(ops, 1, j), ops[j + 1])
        BY <2>9, <3>2, <3>3, <2>8, ZenonT(60)
      <4>2. QED
        BY <3>1, <4>1, Zenon
    <3>5. /\ Done(d, f[j], s, m, T, D, c, K, N) /\ (j > a => ops[j].id \in DOMAIN f[j])
          /\ f[k] = BrowserApply(f[j], op)
      BY <2>10, <2>12, <3>1, <3>2, ZenonT(60) DEF Batched
    <3>6. CASE k <= a
      <4>1. k \in 1..a /\ CounterAt(n, a, k) = m /\ ~(k > a)
        BY <2>9, <3>1, <3>2, <3>6, SMTT(30) DEF CounterAt
      <4>2. op \in Deletes /\ op.id \in DOMAIN d
        BY <2>9, <3>1, <4>1, ZenonT(60)
      <4>3. BrowserAccepts(f[j], op) /\ Done(d, BrowserApply(f[j], op), s, m, Append(T, op), D, c, K, N)
        BY <3>5, <4>2, <2>7, ZenonT(60)
      <4>4. Batched(d, f, s, m, U, D, c, K, N, ops, a, k)
        BY <3>1, <3>2, <3>4, <3>5, <4>1, <4>3, ZenonT(60) DEF Batched
      <4>5. QED
        BY <2>10, <3>1, <3>2, <4>1, <4>4, ZenonT(60)
    <3>7. CASE ~(k <= a)
      <4>1. PICK i : i = k - a
        BY Zenon
      <4>2. /\ i \in 1..b /\ k = a + i /\ m = n + i - 1 /\ CounterAt(n, a, k) = m + 1 /\ i \in Nat
            /\ i > 1 => i - 1 \in 1..b /\ j = a + (i - 1) /\ j > a /\ n + (i - 1) - 1 = n + i - 2
        BY <2>9, <3>1, <3>2, <3>7, <4>1, SMTT(30) DEF CounterAt
      <4>3. /\ op \in Inserts /\ op.id = [siteID |-> s, counter |-> n + i - 1]
            /\ op.leftID \in DOMAIN d \cup {NoID}
                 \/ (i > 1 /\ op.leftID = [siteID |-> s, counter |-> n + i - 2])
        BY <3>1, <4>2, Zenon DEF IsBatch
      <4>4. NextID(op, s, m)
        BY <4>2, <4>3, Zenon DEF NextID
      <4>5. op.leftID \in DOMAIN f[j] \cup {NoID}
        <5>1. CASE op.leftID \in DOMAIN d \cup {NoID}
          BY <3>5, <5>1, Zenon DEF Done
        <5>2. CASE i > 1 /\ op.leftID = [siteID |-> s, counter |-> n + i - 2]
          <6>1. ops[a + (i - 1)].id = [siteID |-> s, counter |-> n + (i - 1) - 1]
            BY <4>2, <5>2, ZenonT(60) DEF IsBatch
          <6>2. op.leftID = ops[j].id
            BY <4>2, <5>2, <6>1, ZenonT(60)
          <6>3. QED
            BY <3>5, <4>2, <5>2, <6>2, ZenonT(60)
        <5>3. QED
          BY <4>3, <5>1, <5>2, ZenonT(60)
      <4>6. /\ BrowserAccepts(f[j], op) /\ op.id \in DOMAIN BrowserApply(f[j], op)
            /\ Done(d, BrowserApply(f[j], op), s, m + 1, Append(T, op), D, c, K, N)
        <5>1. m \in Nat /\ op \in Inserts /\ Done(d, f[j], s, m, T, D, c, K, N)
          BY <3>2, <3>5, <4>3, ZenonT(60)
        <5>2. QED
          BY <4>4, <4>5, <5>1, <2>6, ZenonT(60)
      <4>7. Batched(d, f, s, m + 1, U, D, c, K, N, ops, a, k)
        BY <3>1, <3>2, <3>4, <3>5, <4>6, ZenonT(60) DEF Batched
      <4>8. QED
        BY <2>10, <3>1, <3>2, <4>2, <4>7, ZenonT(60)
    <3>8. QED
      BY <3>6, <3>7, ZenonT(60)
  <2>13. \A j \in 0..l : j \in S
    BY <2>11, <2>12, Induction, ZenonT(60)
  <2>14. QED
    BY <2>10, <2>13, Zenon
(* A whole input event: every operation is accepted, and the connection is *)
(* in order at its end.                                                    *)
<1>4. ASSUME NEW d \in Docs, NEW s \in Nat \ {0}, NEW n \in Nat \ {0}, NEW U, NEW D, NEW c, NEW K, NEW N,
             NEW next \in Seq(Nat), NEW made, IsMade(made, d, next, s, n),
             Done(d, d, s, n, U, D, c, K, N), DOMAIN c \subseteq K, K \subseteq CharID
      PROVE  /\ made.operations \in Seq(Ops) /\ made.nextCounter \in Nat \ {0}
             /\ made.nextCounter - n \in Nat
             /\ \A i \in 1..Len(made.operations) :
                  BrowserAccepts(ApplyBatch(d, made.operations)[i - 1], made.operations[i])
             /\ Done(d, ApplyBatch(d, made.operations)[Len(made.operations)], s, made.nextCounter,
                     U \o made.operations, D, c, K, N)
  <2> USE <1>4
  <2>1. U \in Seq(Ops) /\ IsBelow(d, s, n)
    BY Zenon DEF Done, Link, Fresh, IsBelow
  <2>2. PICK a, b : IsBatch(d, s, n, made.operations, a, b) /\ made.nextCounter = n + b
    <3>1. HasBatch(d, s, n, made)
      BY <2>1, <1>2, Zenon
    <3>2. QED
      BY <3>1, Zenon DEF HasBatch
  <2>3. PICK ops, f : ops = made.operations /\ f = ApplyBatch(d, ops)
    BY Zenon
  <2>4. IsBatch(d, s, n, ops, a, b)
    BY <2>2, <2>3, Zenon
  <2>5. a \in Nat /\ b \in Nat /\ ops \in Seq(Ops) /\ Len(ops) = a + b
    BY <2>4, Zenon DEF IsBatch
  <2>6. PICK l : l = a + b
    BY Zenon
  <2>7. l \in Nat /\ l = a + b /\ l = Len(ops)
    BY <2>5, <2>6, SMTT(30)
  <2>8. f[0] = d /\ \A i \in 1..l : f[i] = BrowserApply(f[i - 1], ops[i])
    <3>1. /\ ApplyBatch(d, ops)[0] = d
          /\ \A i \in 1..l : ApplyBatch(d, ops)[i] = BrowserApply(ApplyBatch(d, ops)[i - 1], ops[i])
      BY <2>5, <2>7, <1>1, ZenonT(60)
    <3>2. QED
      BY <2>3, <3>1, Zenon
  <2>9. \A j \in 0..l : Batched(d, f, s, CounterAt(n, a, j), U, D, c, K, N, ops, a, j)
    BY <2>1, <2>4, <2>7, <2>8, <1>3, Zenon
  <2>10. \A i \in 1..l : i \in 0..l /\ i > 0
    BY <2>7
  <2>11. \A i \in 1..l : BrowserAccepts(f[i - 1], ops[i])
    BY <2>9, <2>10, Zenon DEF Batched
  <2>12. l \in 0..l /\ CounterAt(n, a, l) = n + b /\ n + b \in Nat \ {0} /\ (n + b) - n \in Nat
    BY <2>5, <2>7, SMTT(30) DEF CounterAt
  <2>13. SubSeq(ops, 1, l) = ops
    BY <2>5, <2>7, SMTT(30)
  <2>14. Done(d, f[l], s, n + b, U \o ops, D, c, K, N)
    BY <2>9, <2>12, <2>13, ZenonT(60) DEF Batched
  <2>15. QED
    BY <2>2, <2>3, <2>5, <2>7, <2>11, <2>12, <2>14, ZenonT(60)
<1> TAKE s \in Nat \ {0}, d \in Docs, n \in Nat \ {0}, U \in Seq(Ops)
<1> TAKE D, c, K, N, sites
<1> TAKE next \in Seq(Nat)
<1> TAKE made
<1> HAVE Conn(TRUE, s, d, n, U, D, c, K, N) /\ Queue(s, U, c, K, N) /\ Room(c, K, N, sites) /\
         K \subseteq CharID /\ IsMade(made, d, next, s, n)
<1>5. Live(s, n, d, U, D, c, K, N)
  BY Zenon DEF Conn
<1>6. Done(d, d, s, n, U, D, c, K, N)
  BY <1>5, Zenon DEF Live, Queue, Done
<1>7. PICK W : W = ApplyBatch(d, made.operations)[Len(made.operations)]
  BY Zenon
<1>8. DOMAIN c \subseteq K
  BY Zenon DEF Room
<1>9. /\ made.operations \in Seq(Ops) /\ made.nextCounter \in Nat \ {0}
      /\ made.nextCounter - n \in Nat
      /\ \A i \in 1..Len(made.operations) :
           BrowserAccepts(ApplyBatch(d, made.operations)[i - 1], made.operations[i])
      /\ Done(d, W, s, made.nextCounter, U \o made.operations, D, c, K, N)
  BY <1>6, <1>7, <1>8, <1>4, ZenonT(60)
<1>10. Conn(TRUE, s, W, made.nextCounter, U \o made.operations, D, c, K, N)
  BY <1>5, <1>9, Zenon DEF Conn, Live, Done
<1>11. Queue(s, U \o made.operations, c, K, N) /\ W \in Docs /\ U \o made.operations \in Seq(Ops)
  BY <1>9, Zenon DEF Done, Queue
<1>12. Typed(d, W, s, n, U, D, c, K, N, made)
  BY <1>9, <1>10, <1>11, Zenon DEF Typed
<1>13. QED
  BY <1>7, <1>12, Zenon

(* The runes of a text after an edit of it. *)
LEMMA EditedRunes ==
  ASSUME NEW text \in Seq(Nat), typed \in Nat, NEW next \in EditedTexts(text)
  PROVE  next \in Seq(Nat)
<1>1. PICK e : /\ e \in (0..Len(text)) \X (0..Len(text)) \X (0..MaxPaste) /\ e[1] + e[2] <= Len(text)
               /\ next = Spliced(text, e[1], e[2], e[3])
  BY Zenon DEF EditedTexts
<1>2. PICK p, k, m : p = e[1] /\ k = e[2] /\ m = e[3]
  BY Zenon
<1>3. p \in 0..Len(text) /\ k \in 0..Len(text) /\ m \in 0..MaxPaste /\ p + k <= Len(text)
  BY <1>1, <1>2
<1>4. SubSeq(text, 1, p) \in Seq(Nat) /\ SubSeq(text, p + k + 1, Len(text)) \in Seq(Nat)
  BY <1>3, SMTT(30)
<1>5. PICK new : new = [i \in 1..m |-> typed + i]
  BY Zenon
<1>6. m \in Nat
  BY <1>3
<1>7. new \in Seq(Nat)
  BY <1>5, <1>6, SMTT(30)
<1>8. next = SubSeq(text, 1, p) \o new \o SubSeq(text, p + k + 1, Len(text))
  BY <1>1, <1>2, <1>5, Zenon DEF Spliced
<1>9. QED
  BY <1>4, <1>7, <1>8, SMTT(30)
=============================================================================
