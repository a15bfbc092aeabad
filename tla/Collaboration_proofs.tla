------------------------ MODULE Collaboration_proofs ------------------------
(***************************************************************************)
(* What the room and the tabs of Collaboration agree on, for any number of *)
(* tabs, sites, edits and snapshots.  Links_proofs has what the steps do   *)
(* to a single connection.                                                 *)
(***************************************************************************)
EXTENDS Links_proofs

(***************************************************************************)
(* The inductive invariant.                                                *)
(***************************************************************************)
Held == DOMAIN chars \cup purged

Connected(t) == site[t] # NoSite

Types ==
  /\ chars \in Docs /\ purged \subseteq CharID
  /\ site \in [Tabs -> Sites \cup {NoSite}] /\ ready \in [Tabs -> BOOLEAN]
  /\ doc \in [Tabs -> Docs] /\ nextCounter \in [Tabs -> Nat \ {0}]
  /\ editor \in [Tabs -> Seq(Nat)] /\ typed \in Nat
  /\ up \in [Sites -> Seq(Ops)] /\ down \in [Sites -> Seq(Messages)]

Linked(t) ==
  Conn(ready[t], site[t], doc[t], nextCounter[t], up[site[t]], down[site[t]], chars, Held, purged)

Connections == \A t \in Tabs : Connected(t) => Linked(t)

Queues == \A s \in Sites : Queue(s, up[s], chars, Held, purged)

RoomInv == Room(chars, Held, purged, used)

(* A connection belongs to one tab and its site is a client of the room. *)
Sessions ==
  /\ \A t \in Tabs : Connected(t) => site[t] \in used \cap clients
  /\ \A t \in Tabs : ready[t] => Connected(t)
  /\ \A t, o \in Tabs : Connected(t) /\ site[t] = site[o] => t = o
  /\ clients \subseteq used /\ used \subseteq Sites
  /\ \A s \in Sites : s \notin used => up[s] = <<>>

(* The tombstones that were or will be forgotten. *)
Window ==
  /\ saved \in Seq(SUBSET CharID) /\ compactions \in Seq(SUBSET CharID)
  /\ previousTombs = IF saved = <<>> THEN {} ELSE saved[Len(saved)]
  /\ pendingSnapshot \subseteq SUBSET CharID
  /\ \A i \in DOMAIN compactions : \E j \in 1..(Len(saved) - 1) : compactions[i] \subseteq saved[j]
  /\ \A id \in purged : \E j \in 1..(Len(saved) - 1) : id \in saved[j]

CInv == Types /\ Sessions /\ RoomInv /\ Queues /\ Connections /\ Window

LEMMA NewIsDoc == New \in Docs /\ DOMAIN New = {} /\ Reachable(New) = {}
<1>1. DOMAIN New = {} /\ New = [id \in DOMAIN New |-> New[id]]
  BY Zenon DEF New
<1>2. Sound(New)
  BY <1>1, FS_EmptySet, Zenon DEF Sound, IsTree
<1>3. QED
  BY <1>1, <1>2, InDocs, ReachClosed, Zenon

(* The invariant is about nothing but these variables. *)
LEMMA Frame ==
  ASSUME UNCHANGED <<chars, purged, site, ready, doc, nextCounter, up, down, used, clients>>
  PROVE  /\ Sessions => Sessions'
         /\ RoomInv => RoomInv'
         /\ Queues => Queues'
         /\ Connections => Connections'
  BY Zenon DEF Sessions, RoomInv, Queues, Connections, Linked, Connected, Held

LEMMA FrameRoom ==
  ASSUME UNCHANGED <<chars, purged>>
  PROVE  /\ Held' = Held
         /\ (used \subseteq used') => (RoomInv => RoomInv')
<1>1. Held' = Held
  BY Zenon DEF Held
<1>2. ASSUME used \subseteq used', RoomInv PROVE RoomInv'
  <2>1. Room(chars, Held, purged, used')
    BY <1>2, Zenon DEF RoomInv, Room
  <2>2. QED
    BY <1>1, <2>1, Zenon DEF RoomInv
<1>3. QED
  BY <1>1, <1>2, Zenon

LEMMA FrameQueue ==
  ASSUME UNCHANGED <<chars, purged>>, NEW s \in Sites, Queues, up'[s] = up[s]
  PROVE  Queue(s, up'[s], chars', Held', purged')
  BY FrameRoom, Zenon DEF Queues

LEMMA FrameTab ==
  ASSUME UNCHANGED <<chars, purged>>, NEW t \in Tabs, Connections, Connected(t),
         site'[t] = site[t], ready'[t] = ready[t], doc'[t] = doc[t], nextCounter'[t] = nextCounter[t],
         up'[site[t]] = up[site[t]], down'[site[t]] = down[site[t]]
  PROVE  Linked(t)'
<1>1. Linked(t)
  BY Zenon DEF Connections
<1>2. Held' = Held
  BY FrameRoom, Zenon
<1>3. QED
  BY <1>1, <1>2, Zenon DEF Linked

LEMMA FrameWindow ==
  ASSUME UNCHANGED <<saved, compactions, previousTombs, pendingSnapshot, purged>>
  PROVE  Window => Window'
  BY Zenon DEF Window

LEMMA CInit ==
  ASSUME Init
  PROVE  CInv
<1>1. Types
  BY NewIsDoc DEF Init, Types
<1>2. Sessions
  BY Zenon DEF Init, Sessions, Connected
<1>3. DOMAIN chars = {} /\ purged = {} /\ used = {} /\ Held = {} /\ Reachable(chars) = {}
  BY NewIsDoc, Zenon DEF Init, Held
<1>4. RoomInv
  BY <1>3, Zenon DEF RoomInv, Room
<1>5. \A s \in Sites : up[s] = <<>> /\ DOMAIN up[s] = {}
  BY DEF Init
<1>6. Queues
  BY <1>5, Zenon DEF Queues, Queue, Own, RefsUp
<1>7. Connections
  BY Zenon DEF Init, Connections, Connected
<1>8. Window
  BY DEF Init, Window
<1>9. QED
  BY <1>1, <1>2, <1>4, <1>6, <1>7, <1>8, ZenonT(60) DEF CInv

LEMMA CRegister ==
  ASSUME CInv, NEW t \in Tabs, Register(t)
  PROVE  CInv'
<1>1. Types /\ Sessions /\ RoomInv /\ Queues /\ Connections /\ Window
  BY Zenon DEF CInv
<1>2. PICK s : /\ s \in FreshSites \ clients /\ site' = [site EXCEPT ![t] = s]
               /\ used' = used \cup {s} /\ clients' = clients \cup {s}
               /\ down' = [down EXCEPT ![s] = <<SyncMsg(SnapshotChars(chars))>>]
  BY Zenon DEF Register
<1>3. /\ site[t] = NoSite
      /\ UNCHANGED <<chars, compactions, ready, doc, nextCounter, editor, up, typed, purged>>
      /\ UNCHANGED <<pendingSnapshot, previousTombs, saved>>
  BY Zenon DEF Register, typing, snapshots
<1>4. s \in Sites /\ s \notin used /\ s \notin clients /\ s # NoSite /\ s \in Nat \ {0}
  BY <1>2, SitesAssumption, Zenon DEF FreshSites
<1>5. /\ site \in [Tabs -> Sites \cup {NoSite}] /\ down \in [Sites -> Seq(Messages)]
      /\ chars \in Docs /\ ready \in [Tabs -> BOOLEAN]
  BY <1>1, Zenon DEF Types
<1>6. /\ site'[t] = s /\ \A o \in Tabs : o # t => site'[o] = site[o]
      /\ site' \in [Tabs -> Sites \cup {NoSite}]
  BY <1>2, <1>4, <1>5, SMTT(30)
<1>7. PICK m : m = SyncMsg(SnapshotChars(chars))
  BY Zenon
<1>8. m \in Messages
  BY <1>5, <1>7, ReachDocs, SMTT(30) DEF SyncMsg, Messages
<1>9. <<m>> \in Seq(Messages)
  BY <1>8
<1>10. /\ down'[s] = <<m>> /\ \A r \in Sites : r # s => down'[r] = down[r]
       /\ down' \in [Sites -> Seq(Messages)]
  BY <1>2, <1>4, <1>5, <1>7, <1>9, ZenonT(60)
<1>11. Types'
  BY <1>1, <1>3, <1>6, <1>10, ZenonT(60) DEF Types
<1>12. Sessions'
  <2>1. /\ \A o \in Tabs : Connected(o) => site[o] \in used \cap clients /\ site[o] # s
        /\ \A o \in Tabs : ready[o] => Connected(o)
        /\ \A o, p \in Tabs : Connected(o) /\ site[o] = site[p] => o = p
    BY <1>1, <1>4, Zenon DEF Sessions
  <2>2. Connected(t)' /\ \A o \in Tabs : o # t => (Connected(o)' <=> Connected(o))
    BY <1>4, <1>6, Zenon DEF Connected
  <2>3. \A o \in Tabs : Connected(o)' => site'[o] \in used' \cap clients'
    BY <1>2, <1>6, <2>1, <2>2, Zenon
  <2>4. \A o \in Tabs : ready'[o] => Connected(o)'
    BY <1>3, <2>1, <2>2, Zenon
  <2>5. \A o, p \in Tabs : Connected(o)' /\ site'[o] = site'[p] => o = p
    <3>1. \A o \in Tabs : site[o] # s
      BY <1>4, <2>1, Zenon DEF Connected
    <3>2. QED
      BY <1>6, <2>1, <2>2, <3>1, Zenon
  <2>6. clients' \subseteq used' /\ used' \subseteq Sites /\ \A r \in Sites : r \notin used' => up'[r] = <<>>
    BY <1>1, <1>2, <1>3, <1>4, Zenon DEF Sessions
  <2>7. QED
    BY <2>3, <2>4, <2>5, <2>6, Zenon DEF Sessions
<1>13. RoomInv'
  BY <1>1, <1>2, <1>3, FrameRoom, Zenon
<1>14. Queues'
  BY <1>1, <1>3, FrameQueue, Zenon DEF Queues
<1>15. ASSUME NEW o \in Tabs, Connected(o)' PROVE Linked(o)'
  <2>1. CASE o = t
    <3>1. up[s] = <<>> /\ ready[t] = FALSE
      BY <1>1, <1>3, <1>4, <1>5, Zenon DEF Sessions, Connected
    <3>2. Conn(FALSE, s, doc[t], nextCounter[t], <<>>, <<m>>, chars, Held, purged)
      BY <1>1, <1>4, <1>5, <1>7, ConnJoined, Zenon DEF RoomInv
    <3>3. Held' = Held
      BY <1>3, FrameRoom, Zenon
    <3>4. QED
      BY <1>3, <1>6, <1>10, <2>1, <3>1, <3>2, <3>3, ZenonT(60) DEF Linked
  <2>2. CASE o # t
    <3>1. site'[o] = site[o] /\ Connected(o)
      BY <1>6, <1>15, <2>2, Zenon DEF Connected
    <3>2. site[o] \in clients /\ site[o] \in Sites
      BY <1>1, <3>1, Zenon DEF Sessions
    <3>3. site[o] # s
      BY <1>4, <3>2, Zenon
    <3>4. QED
      BY <1>1, <1>3, <1>10, <3>1, <3>2, <3>3, FrameTab, ZenonT(60)
  <2>3. QED
    BY <2>1, <2>2, Zenon
<1>16. Connections'
  BY <1>15, Zenon DEF Connections
<1>17. Window'
  BY <1>1, <1>3, FrameWindow, Zenon
<1>18. QED
  BY <1>11, <1>12, <1>13, <1>14, <1>16, <1>17, ZenonT(60) DEF CInv

LEMMA SiteFacts ==
  ASSUME Types, NEW t \in Tabs, Connected(t)
  PROVE  /\ site[t] \in Sites /\ site[t] \in Nat \ {0} /\ up[site[t]] \in Seq(Ops)
         /\ down[site[t]] \in Seq(Messages) /\ doc[t] \in Docs /\ nextCounter[t] \in Nat \ {0}
         /\ editor[t] \in Seq(Nat) /\ ready[t] \in BOOLEAN
<1>1. /\ site \in [Tabs -> Sites \cup {NoSite}] /\ ready \in [Tabs -> BOOLEAN]
      /\ doc \in [Tabs -> Docs] /\ nextCounter \in [Tabs -> Nat \ {0}]
      /\ editor \in [Tabs -> Seq(Nat)]
      /\ up \in [Sites -> Seq(Ops)] /\ down \in [Sites -> Seq(Messages)]
  BY Zenon DEF Types
<1>2. site[t] \in Sites
  BY <1>1, ZenonT(60) DEF Connected
<1>3. QED
  BY <1>1, <1>2, SitesAssumption, Zenon

LEMMA HeldFacts ==
  ASSUME Types
  PROVE  chars \in Docs /\ Held \subseteq CharID /\ DOMAIN chars \subseteq Held
  BY DocsFacts, Zenon DEF Types, Held

(* A step of one tab on its connection. *)
LEMMA TabStep ==
  ASSUME Sessions, RoomInv, Queues, Connections, NEW t \in Tabs, Connected(t),
         UNCHANGED <<chars, purged, site, used, clients>>,
         \A o \in Tabs : o # t => ready'[o] = ready[o] /\ doc'[o] = doc[o] /\ nextCounter'[o] = nextCounter[o],
         \A r \in Sites : r # site[t] => up'[r] = up[r] /\ down'[r] = down[r],
         Queue(site[t], up'[site[t]], chars, Held, purged),
         Conn(ready'[t], site[t], doc'[t], nextCounter'[t], up'[site[t]], down'[site[t]], chars, Held, purged)
  PROVE  Sessions' /\ RoomInv' /\ Queues' /\ Connections'
<1>1. /\ \A o \in Tabs : Connected(o) => site[o] \in used \cap clients
      /\ \A o \in Tabs : ready[o] => Connected(o)
      /\ \A o, p \in Tabs : Connected(o) /\ site[o] = site[p] => o = p
      /\ clients \subseteq used /\ used \subseteq Sites
      /\ \A r \in Sites : r \notin used => up[r] = <<>>
  BY Zenon DEF Sessions
<1>2. Held' = Held /\ RoomInv' /\ \A o \in Tabs : Connected(o)' <=> Connected(o)
  BY FrameRoom, Zenon DEF Connected
<1>3. Sessions'
  <2>1. \A o \in Tabs : ready'[o] => Connected(o)'
    BY <1>1, <1>2, Zenon
  <2>2. \A r \in Sites : r \notin used => up'[r] = <<>>
    BY <1>1, Zenon
  <2>3. QED
    BY <1>1, <1>2, <2>1, <2>2, ZenonT(60) DEF Sessions
<1>4. ASSUME NEW r \in Sites PROVE Queue(r, up'[r], chars', Held', purged')
  <2>1. CASE r = site[t]
    BY <1>2, <2>1, Zenon
  <2>2. CASE r # site[t]
    BY <2>2, FrameQueue, Zenon
  <2>3. QED
    BY <2>1, <2>2, ZenonT(60)
<1>5. ASSUME NEW o \in Tabs, Connected(o)' PROVE Linked(o)'
  <2>1. CASE o = t
    BY <1>2, <2>1, Zenon DEF Linked
  <2>2. CASE o # t
    <3>1. Connected(o) /\ site[o] \in Sites /\ site[o] # site[t]
      BY <1>1, <1>2, <1>5, <2>2, ZenonT(60)
    <3>2. up'[site[o]] = up[site[o]] /\ down'[site[o]] = down[site[o]]
      BY <3>1, ZenonT(60)
    <3>3. QED
      BY <2>2, <3>1, <3>2, FrameTab, ZenonT(60)
  <2>3. QED
    BY <2>1, <2>2, Zenon
<1>6. QED
  BY <1>2, <1>3, <1>4, <1>5, ZenonT(60) DEF Queues, Connections

LEMMA Taken ==
  ASSUME Types, NEW t \in Tabs, NEW type, TakeMessage(t, type)
  PROVE  /\ Connected(t) /\ down[site[t]] # <<>> /\ down[site[t]][1].type = type
         /\ Message(t) = down[site[t]][1] /\ Message(t) \in Messages
         /\ down'[site[t]] = Tail(down[site[t]]) /\ down' \in [Sites -> Seq(Messages)]
         /\ \A r \in Sites : r # site[t] => down'[r] = down[r]
<1>1. Connected(t) /\ down[site[t]] # <<>> /\ Message(t).type = type
      /\ down' = [down EXCEPT ![site[t]] = Tail(@)]
  BY Zenon DEF TakeMessage, Connected
<1>2. site[t] \in Sites /\ down[site[t]] \in Seq(Messages) /\ down \in [Sites -> Seq(Messages)]
  BY <1>1, SiteFacts, ZenonT(60) DEF Types
<1>3. Message(t) = down[site[t]][1] /\ Message(t) \in Messages /\ Tail(down[site[t]]) \in Seq(Messages)
  BY <1>1, <1>2, TailFacts, ZenonT(60) DEF Message
<1>4. /\ down'[site[t]] = Tail(down[site[t]]) /\ down' \in [Sites -> Seq(Messages)]
      /\ \A r \in Sites : r # site[t] => down'[r] = down[r]
  BY <1>1, <1>2, <1>3, ZenonT(60)
<1>5. QED
  BY <1>1, <1>3, <1>4, ZenonT(60)

LEMMA CReceiveSync ==
  ASSUME CInv, NEW t \in Tabs, ReceiveSync(t)
  PROVE  CInv'
<1>1. Types /\ Sessions /\ RoomInv /\ Queues /\ Connections /\ Window
  BY Zenon DEF CInv
<1>2. PICK s, Q, d : s = site[t] /\ Q = down[s] /\ d = Q[1].snapshot
  BY Zenon
<1>3. TakeMessage(t, "sync")
  BY Zenon DEF ReceiveSync
<1>4. /\ Connected(t) /\ Q # <<>> /\ Q[1].type = "sync" /\ Message(t) = Q[1]
      /\ down'[s] = Tail(Q) /\ down' \in [Sites -> Seq(Messages)]
      /\ \A r \in Sites : r # s => down'[r] = down[r]
  BY <1>1, <1>2, <1>3, Taken, ZenonT(60)
<1>5. /\ doc' = [doc EXCEPT ![t] = d] /\ nextCounter' = [nextCounter EXCEPT ![t] = 1]
      /\ editor' = [editor EXCEPT ![t] = Runes(doc'[t])] /\ ready' = [ready EXCEPT ![t] = TRUE]
      /\ UNCHANGED <<chars, clients, compactions, site, up, used, typed, purged>>
      /\ UNCHANGED <<saved, compactions, previousTombs, pendingSnapshot, purged>>
  BY <1>2, <1>4, Zenon DEF ReceiveSync, room, typing, snapshots
<1>6. s \in Sites /\ Q \in Seq(Messages) /\ up[s] \in Seq(Ops) /\ ready[t] \in BOOLEAN
  BY <1>1, <1>2, <1>4, SiteFacts, ZenonT(60)
<1>7. Linked(t) /\ Queue(s, up[s], chars, Held, purged)
  BY <1>1, <1>4, <1>6, Zenon DEF Connections, Queues
<1>8. Conn(ready[t], s, doc[t], nextCounter[t], up[s], Q, chars, Held, purged)
  BY <1>2, <1>7, Zenon DEF Linked
<1>9. Conn(TRUE, s, d, 1, up[s], Tail(Q), chars, Held, purged) /\ d \in Docs
  BY <1>2, <1>4, <1>6, <1>8, ConnSync, ZenonT(60)
<1>10. Runes(d) \in Seq(Nat)
  BY <1>9, RunesList, Zenon
<1>11. /\ doc \in [Tabs -> Docs] /\ nextCounter \in [Tabs -> Nat \ {0}] /\ ready \in [Tabs -> BOOLEAN]
       /\ editor \in [Tabs -> Seq(Nat)]
  BY <1>1, Zenon DEF Types
<1>12. /\ doc' \in [Tabs -> Docs] /\ doc'[t] = d /\ ready' \in [Tabs -> BOOLEAN] /\ ready'[t] = TRUE
       /\ \A o \in Tabs : o # t => doc'[o] = doc[o] /\ ready'[o] = ready[o]
  BY <1>5, <1>9, <1>11, Zenon
<1>13. 1 \in Nat \ {0}
  OBVIOUS
<1>14. /\ nextCounter' \in [Tabs -> Nat \ {0}] /\ nextCounter'[t] = 1
       /\ editor' \in [Tabs -> Seq(Nat)] /\ \A o \in Tabs : o # t => nextCounter'[o] = nextCounter[o]
  BY <1>5, <1>10, <1>11, <1>12, <1>13, ZenonT(60)
<1>15. Types'
  BY <1>1, <1>4, <1>5, <1>12, <1>14, ZenonT(60) DEF Types
<1>16. Sessions' /\ RoomInv' /\ Queues' /\ Connections'
  <2>1. /\ Queue(site[t], up'[site[t]], chars, Held, purged)
        /\ Conn(ready'[t], site[t], doc'[t], nextCounter'[t], up'[site[t]], down'[site[t]],
                chars, Held, purged)
    BY <1>2, <1>4, <1>5, <1>7, <1>9, <1>12, <1>14, ZenonT(60)
  <2>2. QED
    BY <1>1, <1>2, <1>4, <1>5, <1>12, <1>14, <2>1, TabStep, ZenonT(60)
<1>17. QED
  BY <1>1, <1>5, <1>15, <1>16, FrameWindow, ZenonT(60) DEF CInv

LEMMA CReceiveOp ==
  ASSUME CInv, NEW t \in Tabs, ReceiveOp(t)
  PROVE  CInv'
<1>1. Types /\ Sessions /\ RoomInv /\ Queues /\ Connections /\ Window
  BY Zenon DEF CInv
<1>2. PICK s, Q, d : s = site[t] /\ Q = down[s] /\ d = BrowserApply(doc[t], Q[1].op)
  BY Zenon
<1>3. TakeMessage(t, "op")
  BY Zenon DEF ReceiveOp
<1>4. /\ Connected(t) /\ Q # <<>> /\ Q[1].type = "op" /\ Message(t) = Q[1]
      /\ down'[s] = Tail(Q) /\ down' \in [Sites -> Seq(Messages)]
      /\ \A r \in Sites : r # s => down'[r] = down[r]
  BY <1>1, <1>2, <1>3, Taken, ZenonT(60)
<1>5. /\ doc' = [doc EXCEPT ![t] = BrowserApply(@, Q[1].op)]
      /\ editor' = [editor EXCEPT ![t] = IF BrowserAccepts(doc[t], Q[1].op) THEN Runes(doc'[t]) ELSE @]
      /\ UNCHANGED <<chars, clients, site, ready, nextCounter, up, used, typed, purged>>
      /\ UNCHANGED <<saved, compactions, previousTombs, pendingSnapshot, purged>>
  <2>1. /\ doc' = [doc EXCEPT ![t] = BrowserApply(@, Message(t).op)]
        /\ editor' = [editor EXCEPT ![t] = IF BrowserAccepts(doc[t], Message(t).op)
                                           THEN Runes(doc'[t]) ELSE @]
    BY DEF ReceiveOp
  <2>2. QED
    BY <1>4, <2>1, SMTT(30) DEF ReceiveOp, room, typing, snapshots
<1>6. s \in Sites /\ Q \in Seq(Messages) /\ up[s] \in Seq(Ops) /\ doc[t] \in Docs
  BY <1>1, <1>2, <1>4, SiteFacts, ZenonT(60)
<1>7. Linked(t) /\ Queue(s, up[s], chars, Held, purged)
  BY <1>1, <1>4, <1>6, ZenonT(60) DEF Connections, Queues
<1>8. Conn(ready[t], s, doc[t], nextCounter[t], up[s], Q, chars, Held, purged)
  BY <1>2, <1>7, ZenonT(60) DEF Linked
<1>9. Conn(ready[t], s, d, nextCounter[t], up[s], Tail(Q), chars, Held, purged) /\ d \in Docs
  <2>1. Room(chars, Held, purged, used)
    BY <1>1, Zenon DEF RoomInv
  <2>2. PICK V : V = doc[t]
    BY Zenon
  <2>3. V \in Docs /\ Q \in Seq(Messages) /\ Q # <<>> /\ Q[1].type = "op" /\
        d = BrowserApply(V, Q[1].op)
    BY <1>2, <1>4, <1>6, <2>2, ZenonT(60)
  <2>4. \A rd, n, c, K, N, sites : \A U \in Seq(Ops) :
          Conn(rd, s, V, n, U, Q, c, K, N) /\ Queue(s, U, c, K, N) /\ Room(c, K, N, sites)
          => Conn(rd, s, d, n, U, Tail(Q), c, K, N) /\ d \in Docs
    BY <2>3, ConnTakes, SMTT(60)
  <2>5. QED
    BY <1>6, <1>7, <1>8, <2>1, <2>2, <2>4, ZenonT(60)
<1>10. Runes(d) \in Seq(Nat)
  BY <1>9, RunesList, Zenon
<1>11. doc \in [Tabs -> Docs] /\ editor \in [Tabs -> Seq(Nat)]
  BY <1>1, Zenon DEF Types
<1>12. doc' \in [Tabs -> Docs] /\ doc'[t] = d /\ \A o \in Tabs : o # t => doc'[o] = doc[o]
  BY <1>2, <1>5, <1>9, <1>11, Zenon
<1>13. editor' \in [Tabs -> Seq(Nat)]
  <2>1. PICK x : x = IF BrowserAccepts(doc[t], Q[1].op) THEN Runes(doc'[t]) ELSE editor[t]
    BY Zenon
  <2>2. x \in Seq(Nat)
    BY <1>10, <1>11, <1>12, <2>1, Zenon
  <2>3. editor' = [editor EXCEPT ![t] = x]
    BY <1>5, <2>1
  <2>4. QED
    BY <1>11, <2>2, <2>3, Zenon
<1>14. Types'
  BY <1>1, <1>4, <1>5, <1>12, <1>13, ZenonT(60) DEF Types
<1>15. Sessions' /\ RoomInv' /\ Queues' /\ Connections'
  <2>1. /\ Queue(site[t], up'[site[t]], chars, Held, purged)
        /\ Conn(ready'[t], site[t], doc'[t], nextCounter'[t], up'[site[t]], down'[site[t]],
                chars, Held, purged)
    BY <1>2, <1>4, <1>5, <1>7, <1>9, <1>12, ZenonT(60)
  <2>2. QED
    BY <1>1, <1>2, <1>4, <1>5, <1>12, <2>1, TabStep, ZenonT(60)
<1>16. QED
  BY <1>1, <1>5, <1>14, <1>15, FrameWindow, ZenonT(60) DEF CInv

LEMMA CReceiveError ==
  ASSUME CInv, NEW t \in Tabs, ReceiveError(t)
  PROVE  CInv'
<1>1. Types /\ Sessions /\ RoomInv /\ Queues /\ Connections /\ Window
  BY Zenon DEF CInv
<1>2. PICK s, Q : s = site[t] /\ Q = down[s]
  BY Zenon
<1>3. /\ TakeMessage(t, "error")
      /\ UNCHANGED <<chars, clients, site, ready, doc, nextCounter, editor, up, used, typed, purged>>
      /\ UNCHANGED <<saved, compactions, previousTombs, pendingSnapshot, purged>>
  BY Zenon DEF ReceiveError, room, tabs, typing, snapshots
<1>4. /\ Connected(t) /\ Q # <<>> /\ Q[1].type = "error"
      /\ down'[s] = Tail(Q) /\ down' \in [Sites -> Seq(Messages)]
      /\ \A r \in Sites : r # s => down'[r] = down[r]
  BY <1>1, <1>2, <1>3, Taken, Zenon
<1>5. s \in Sites /\ Q \in Seq(Messages)
  BY <1>1, <1>2, <1>4, SiteFacts, Zenon
<1>6. Linked(t) /\ Queue(s, up[s], chars, Held, purged)
  BY <1>1, <1>4, <1>5, Zenon DEF Connections, Queues
<1>7. Conn(ready[t], s, doc[t], nextCounter[t], up[s], Q, chars, Held, purged)
  BY <1>2, <1>6, Zenon DEF Linked
<1>8. Conn(ready[t], s, doc[t], nextCounter[t], up[s], Tail(Q), chars, Held, purged)
  BY <1>4, <1>5, <1>7, ConnError, ZenonT(60)
<1>9. Types'
  BY <1>1, <1>3, <1>4, ZenonT(60) DEF Types
<1>10. Sessions' /\ RoomInv' /\ Queues' /\ Connections'
  <2>1. /\ Queue(site[t], up'[site[t]], chars, Held, purged)
        /\ Conn(ready'[t], site[t], doc'[t], nextCounter'[t], up'[site[t]], down'[site[t]],
                chars, Held, purged)
    BY <1>2, <1>3, <1>4, <1>6, <1>8, ZenonT(60)
  <2>2. QED
    BY <1>1, <1>2, <1>3, <1>4, <2>1, TabStep, ZenonT(60)
<1>11. QED
  BY <1>1, <1>3, <1>9, <1>10, FrameWindow, ZenonT(60) DEF CInv

(* What a tab makes of an edited text, in a state of the program. *)
LEMMA TabTypes ==
  ASSUME CInv, NEW t \in Tabs, ready[t], NEW next \in EditedTexts(editor[t]), NEW made,
         IsMade(made, doc[t], next, site[t], nextCounter[t])
  PROVE  /\ Connected(t) /\ next \in Seq(Nat)
         /\ Typed(doc[t], ApplyBatch(doc[t], made.operations)[Len(made.operations)], site[t],
                  nextCounter[t], up[site[t]], down[site[t]], chars, Held, purged, made)
<1>1. Types /\ Sessions /\ RoomInv /\ Queues /\ Connections
  BY Zenon DEF CInv
<1>2. Connected(t)
  BY <1>1, Zenon DEF Sessions
<1>3. PICK s, d, n, U, D : /\ s = site[t] /\ d = doc[t] /\ n = nextCounter[t] /\ U = up[s] /\ D = down[s]
  BY Zenon
<1>4. /\ s \in Sites /\ s \in Nat \ {0} /\ U \in Seq(Ops) /\ d \in Docs /\ n \in Nat \ {0}
      /\ editor[t] \in Seq(Nat) /\ ready[t] = TRUE /\ typed \in Nat
  BY <1>1, <1>2, <1>3, SiteFacts, ZenonT(60) DEF Types
<1>5. next \in Seq(Nat)
  BY <1>4, EditedRunes, Zenon
<1>6. Linked(t) /\ Queue(s, U, chars, Held, purged)
  BY <1>1, <1>2, <1>3, <1>4, ZenonT(60) DEF Connections, Queues
<1>7. Conn(TRUE, s, d, n, U, D, chars, Held, purged)
  BY <1>3, <1>4, <1>6, Zenon DEF Linked
<1>8. Room(chars, Held, purged, used) /\ Held \subseteq CharID
  BY <1>1, HeldFacts, Zenon DEF RoomInv
<1>9. IsMade(made, d, next, s, n)
  BY <1>3, Zenon
<1>10. Typed(d, ApplyBatch(d, made.operations)[Len(made.operations)], s, n, U, D, chars, Held, purged, made)
  BY <1>4, <1>5, <1>6, <1>7, <1>8, <1>9, ConnTyped, ZenonT(60)
<1>11. QED
  BY <1>2, <1>3, <1>5, <1>10, ZenonT(60)

LEMMA CInput ==
  ASSUME CInv, NEW t \in Tabs, Input(t)
  PROVE  CInv'
<1>1. Types /\ Sessions /\ RoomInv /\ Queues /\ Connections /\ Window
  BY Zenon DEF CInv
<1>2. PICK next \in EditedTexts(editor[t]) :
        LET made == CreateTextOperations(Text(doc[t]), RunesOf(doc[t], Text(doc[t])), next, site[t],
                                         nextCounter[t])
            ops == made.operations
        IN  /\ editor' = [editor EXCEPT ![t] = next]
            /\ doc' = [doc EXCEPT ![t] = ApplyBatch(@, ops)[Len(ops)]]
            /\ nextCounter' = [nextCounter EXCEPT ![t] = made.nextCounter]
            /\ up' = [up EXCEPT ![site[t]] = @ \o ops]
            /\ typed' = typed + (made.nextCounter - nextCounter[t])
  BY Zenon DEF Input
<1>3. /\ ready[t] /\ UNCHANGED <<chars, clients, site, ready, down, used, purged>>
      /\ UNCHANGED <<saved, compactions, previousTombs, pendingSnapshot, purged>>
  BY Zenon DEF Input, room, snapshots
<1>4. PICK made, s, W, n : /\ made = CreateTextOperations(Text(doc[t]), RunesOf(doc[t], Text(doc[t])), next,
                                                      site[t], nextCounter[t])
                        /\ s = site[t] /\ n = nextCounter[t]
                        /\ W = ApplyBatch(doc[t], made.operations)[Len(made.operations)]
  BY Zenon
<1>5. PICK ops : ops = made.operations
  BY Zenon
<1>6. /\ editor' = [editor EXCEPT ![t] = next] /\ doc' = [doc EXCEPT ![t] = W]
      /\ nextCounter' = [nextCounter EXCEPT ![t] = made.nextCounter]
      /\ up' = [up EXCEPT ![s] = up[s] \o ops]
      /\ typed' = typed + (made.nextCounter - n)
  BY <1>2, <1>4, <1>5, Zenon
<1>7. IsMade(made, doc[t], next, site[t], nextCounter[t])
  BY <1>4, Zenon DEF IsMade
<1>8. /\ Connected(t) /\ next \in Seq(Nat)
      /\ Typed(doc[t], W, s, n, up[s], down[s], chars, Held, purged, made)
  BY <1>3, <1>4, <1>7, TabTypes, ZenonT(60)
<1>9. /\ made.nextCounter \in Nat \ {0} /\ made.nextCounter - n \in Nat /\ W \in Docs
      /\ up[s] \o ops \in Seq(Ops)
      /\ Conn(TRUE, s, W, made.nextCounter, up[s] \o ops, down[s], chars, Held, purged)
      /\ Queue(s, up[s] \o ops, chars, Held, purged)
  BY <1>5, <1>8, Zenon DEF Typed
<1>10. s \in Sites /\ ready[t] = TRUE /\ typed \in Nat
  BY <1>1, <1>3, <1>4, <1>8, SiteFacts, ZenonT(60) DEF Types
<1>11. /\ doc \in [Tabs -> Docs] /\ nextCounter \in [Tabs -> Nat \ {0}] /\ up \in [Sites -> Seq(Ops)]
       /\ editor \in [Tabs -> Seq(Nat)]
  BY <1>1, Zenon DEF Types
<1>12. /\ doc' \in [Tabs -> Docs] /\ doc'[t] = W /\ editor' \in [Tabs -> Seq(Nat)]
       /\ \A o \in Tabs : o # t => doc'[o] = doc[o]
  BY <1>6, <1>8, <1>9, <1>11, ZenonT(60)
<1>13. /\ nextCounter' \in [Tabs -> Nat \ {0}] /\ nextCounter'[t] = made.nextCounter
       /\ \A o \in Tabs : o # t => nextCounter'[o] = nextCounter[o]
  BY <1>6, <1>9, <1>11, ZenonT(60)
<1>14. /\ up' \in [Sites -> Seq(Ops)] /\ up'[s] = up[s] \o ops
       /\ \A r \in Sites : r # s => up'[r] = up[r]
  BY <1>6, <1>9, <1>10, <1>11, ZenonT(60)
<1>15. PICK more \in Nat : more = made.nextCounter - n
  BY <1>9, Zenon
<1>16. typed' \in Nat
  BY <1>6, <1>10, <1>15, SMTT(30)
<1>17. Types'
  BY <1>1, <1>3, <1>12, <1>13, <1>14, <1>16, ZenonT(60) DEF Types
<1>18. Sessions' /\ RoomInv' /\ Queues' /\ Connections'
  <2>1. /\ Queue(site[t], up'[site[t]], chars, Held, purged)
        /\ Conn(ready'[t], site[t], doc'[t], nextCounter'[t], up'[site[t]], down'[site[t]],
                chars, Held, purged)
    BY <1>3, <1>4, <1>9, <1>10, <1>12, <1>13, <1>14, ZenonT(60)
  <2>2. QED
    BY <1>1, <1>3, <1>4, <1>8, <1>12, <1>13, <1>14, <2>1, TabStep, ZenonT(60)
<1>19. QED
  BY <1>1, <1>3, <1>17, <1>18, FrameWindow, ZenonT(60) DEF CInv

LEMMA CDisconnect ==
  ASSUME CInv, NEW t \in Tabs, Disconnect(t)
  PROVE  CInv'
<1>1. Types /\ Sessions /\ RoomInv /\ Queues /\ Connections /\ Window
  BY Zenon DEF CInv
<1>2. PICK s : s = site[t]
  BY Zenon
<1>3. /\ Connected(t) /\ down' = [down EXCEPT ![s] = <<>>] /\ clients' = clients \ {s}
      /\ site' = [site EXCEPT ![t] = NoSite] /\ ready' = [ready EXCEPT ![t] = FALSE]
      /\ UNCHANGED <<chars, doc, nextCounter, editor, used, typed, purged>>
      /\ UNCHANGED <<saved, compactions, previousTombs, pendingSnapshot, purged>>
  BY <1>2, Zenon DEF Disconnect, Connected, CloseLink, Unregister, CloseTab, typing, snapshots
<1>4. PICK n \in 0..Len(up[s]) : up' = [up EXCEPT ![s] = SubSeq(up[s], 1, n)]
  BY <1>2, Zenon DEF Disconnect, CloseLink
<1>5. s \in Sites /\ up[s] \in Seq(Ops) /\ s # NoSite
  BY <1>1, <1>2, <1>3, SiteFacts, SitesAssumption, ZenonT(60)
<1>6. Queue(s, up[s], chars, Held, purged)
  BY <1>1, <1>5, Zenon DEF Queues
<1>7. Queue(s, SubSeq(up[s], 1, n), chars, Held, purged) /\ SubSeq(up[s], 1, n) \in Seq(Ops)
  BY <1>4, <1>5, <1>6, QueueClosed, ZenonT(60)
<1>8. /\ site \in [Tabs -> Sites \cup {NoSite}] /\ ready \in [Tabs -> BOOLEAN]
      /\ up \in [Sites -> Seq(Ops)] /\ down \in [Sites -> Seq(Messages)]
  BY <1>1, Zenon DEF Types
<1>9. <<>> \in Seq(Messages) /\ FALSE \in BOOLEAN
  OBVIOUS
<1>10. /\ up' \in [Sites -> Seq(Ops)] /\ up'[s] = SubSeq(up[s], 1, n)
       /\ down' \in [Sites -> Seq(Messages)]
       /\ \A r \in Sites : r # s => up'[r] = up[r] /\ down'[r] = down[r]
  BY <1>3, <1>4, <1>5, <1>7, <1>8, <1>9, ZenonT(60)
<1>11. /\ site' \in [Tabs -> Sites \cup {NoSite}] /\ site'[t] = NoSite
       /\ \A o \in Tabs : o # t => site'[o] = site[o]
  BY <1>3, <1>8, ZenonT(60)
<1>12. /\ ready' \in [Tabs -> BOOLEAN] /\ ready'[t] = FALSE
       /\ \A o \in Tabs : o # t => ready'[o] = ready[o]
  BY <1>3, <1>8, <1>9, ZenonT(60)
<1>13. Types'
  BY <1>1, <1>3, <1>10, <1>11, <1>12, ZenonT(60) DEF Types
<1>14. \A o \in Tabs : Connected(o)' => o # t /\ Connected(o) /\ site'[o] = site[o] /\ site[o] # s
  <2>1. \A o \in Tabs : Connected(o)' => o # t /\ Connected(o) /\ site'[o] = site[o]
    BY <1>11, Zenon DEF Connected
  <2>2. \A o, p \in Tabs : Connected(o) /\ site[o] = site[p] => o = p
    BY <1>1, Zenon DEF Sessions
  <2>3. QED
    BY <1>2, <2>1, <2>2, Zenon
<1>15. Sessions'
  <2>1. /\ \A o \in Tabs : Connected(o) => site[o] \in used \cap clients
        /\ \A o \in Tabs : ready[o] => Connected(o)
        /\ \A o, p \in Tabs : Connected(o) /\ site[o] = site[p] => o = p
        /\ clients \subseteq used /\ used \subseteq Sites
        /\ \A r \in Sites : r \notin used => up[r] = <<>>
    BY <1>1, Zenon DEF Sessions
  <2>2. ASSUME NEW o \in Tabs, Connected(o)' PROVE site'[o] \in used' \cap clients'
    <3>1. site'[o] = site[o] /\ site[o] # s /\ site[o] \in used \cap clients
      BY <1>14, <2>1, <2>2, ZenonT(60)
    <3>2. site[o] \in used' /\ site[o] \in clients'
      BY <1>3, <3>1, ZenonT(60)
    <3>3. QED
      BY <3>1, <3>2, ZenonT(60)
  <2>3. \A o \in Tabs : ready'[o] => Connected(o)'
    BY <1>11, <1>12, <2>1, ZenonT(60) DEF Connected
  <2>4. \A o, p \in Tabs : Connected(o)' /\ site'[o] = site'[p] => o = p
    <3>1. SUFFICES ASSUME NEW o \in Tabs, NEW p \in Tabs, Connected(o)', site'[o] = site'[p]
                   PROVE  o = p
      BY Zenon
    <3>2. Connected(p)'
      BY <3>1, Zenon DEF Connected
    <3>3. QED
      BY <1>14, <2>1, <3>1, <3>2, ZenonT(60)
  <2>5. s \in used
    BY <1>2, <1>3, <2>1, ZenonT(60)
  <2>6. clients' \subseteq used' /\ used' \subseteq Sites /\ \A r \in Sites : r \notin used' => up'[r] = <<>>
    BY <1>3, <1>10, <2>1, <2>5, ZenonT(60)
  <2>7. QED
    BY <2>2, <2>3, <2>4, <2>6, ZenonT(60) DEF Sessions
<1>16. RoomInv' /\ Held' = Held
  BY <1>1, <1>3, FrameRoom, ZenonT(60)
<1>17. ASSUME NEW r \in Sites PROVE Queue(r, up'[r], chars', Held', purged')
  <2>1. CASE r = s
    BY <1>3, <1>7, <1>10, <1>16, <2>1, ZenonT(60)
  <2>2. CASE r # s
    BY <1>1, <1>3, <1>10, <2>2, FrameQueue, ZenonT(60)
  <2>3. QED
    BY <2>1, <2>2, Zenon
<1>18. ASSUME NEW o \in Tabs, Connected(o)' PROVE Linked(o)'
  <2>1. o # t /\ Connected(o) /\ site'[o] = site[o] /\ site[o] # s
    BY <1>14, <1>18, Zenon
  <2>2. site[o] \in Sites
    BY <1>1, <2>1, SiteFacts, Zenon
  <2>3. up'[site[o]] = up[site[o]] /\ down'[site[o]] = down[site[o]] /\ ready'[o] = ready[o]
    BY <1>10, <1>12, <2>1, <2>2, ZenonT(60)
  <2>4. QED
    BY <1>1, <1>3, <2>1, <2>3, FrameTab, ZenonT(60)
<1>19. Queues' /\ Connections'
  BY <1>17, <1>18, Zenon DEF Queues, Connections
<1>20. QED
  BY <1>1, <1>3, <1>13, <1>15, <1>16, <1>19, FrameWindow, ZenonT(60) DEF CInv

LEMMA CRejectOperation ==
  ASSUME CInv, NEW s \in Sites, RejectOperation(s)
  PROVE  CInv'
<1>1. Types /\ Sessions /\ RoomInv /\ Queues /\ Connections /\ Window
  BY Zenon DEF CInv
<1>2. PICK U, m : U = up[s] /\ m = IF s \in clients THEN Append(down[s], ErrorMsg) ELSE down[s]
  BY Zenon
<1>3. /\ U # <<>> /\ ~Accepts(chars, Head(U)) /\ up' = [up EXCEPT ![s] = Tail(U)]
      /\ down' = [down EXCEPT ![s] = m]
      /\ UNCHANGED <<chars, clients, site, ready, doc, nextCounter, editor, used, typed, purged>>
      /\ UNCHANGED <<saved, compactions, previousTombs, pendingSnapshot, purged>>
  BY <1>2 DEF RejectOperation, room, tabs, typing, snapshots
<1>4. up \in [Sites -> Seq(Ops)] /\ down \in [Sites -> Seq(Messages)]
  BY <1>1, Zenon DEF Types
<1>5. U \in Seq(Ops) /\ Tail(U) \in Seq(Ops)
  BY <1>2, <1>3, <1>4, TailFacts, ZenonT(60)
<1>6. ErrorMsg \in Messages
  BY MessageFacts, Zenon
<1>7. m \in Seq(Messages)
  BY <1>2, <1>4, <1>6, AppendFacts, ZenonT(60)
<1>8. /\ up' \in [Sites -> Seq(Ops)] /\ up'[s] = Tail(U)
      /\ down' \in [Sites -> Seq(Messages)] /\ down'[s] = m
      /\ \A r \in Sites : r # s => up'[r] = up[r] /\ down'[r] = down[r]
  BY <1>3, <1>4, <1>5, <1>7, ZenonT(60)
<1>9. Types'
  BY <1>1, <1>3, <1>8, ZenonT(60) DEF Types
<1>10. Queue(s, U, chars, Held, purged) /\ DOMAIN chars \subseteq Held
  BY <1>1, <1>2, HeldFacts, ZenonT(60) DEF Queues
<1>11. purged # {} /\ (U[1].type = "delete" => U[1].id \notin DOMAIN chars)
  BY <1>3, <1>5, <1>10, RoomRefuses, ZenonT(60)
<1>12. RoomInv' /\ Held' = Held
  BY <1>1, <1>3, FrameRoom, ZenonT(60)
<1>13. ASSUME NEW r \in Sites PROVE Queue(r, up'[r], chars', Held', purged')
  <2>1. CASE r = s
    <3>1. Queue(s, Tail(U), chars, Held, purged)
      BY <1>3, <1>5, <1>10, <1>11, QueueRefused, ZenonT(60)
    <3>2. QED
      BY <1>3, <1>8, <1>12, <2>1, <3>1, ZenonT(60)
  <2>2. CASE r # s
    BY <1>1, <1>3, <1>8, <2>2, FrameQueue, ZenonT(60)
  <2>3. QED
    BY <2>1, <2>2, Zenon
<1>14. ASSUME NEW t \in Tabs, Connected(t)' PROVE Linked(t)'
  <2>1. Connected(t) /\ site[t] \in clients /\ site[t] \in Sites
    BY <1>1, <1>3, <1>14, SiteFacts, Zenon DEF Connected, Sessions
  <2>2. CASE site[t] = s
    <3>1. Conn(ready[t], s, doc[t], nextCounter[t], U, down[s], chars, Held, purged)
      BY <1>1, <1>2, <2>1, <2>2, Zenon DEF Connections, Linked
    <3>2. Conn(ready[t], s, doc[t], nextCounter[t], Tail(U), Append(down[s], ErrorMsg), chars, Held, purged)
      BY <1>3, <1>4, <1>5, <1>11, <3>1, ConnRefused, ZenonT(60)
    <3>3. m = Append(down[s], ErrorMsg)
      BY <1>2, <2>1, <2>2, Zenon
    <3>4. QED
      BY <1>3, <1>8, <1>12, <2>2, <3>2, <3>3, ZenonT(60) DEF Linked
  <2>3. CASE site[t] # s
    BY <1>1, <1>3, <1>8, <2>1, <2>3, FrameTab, ZenonT(60)
  <2>4. QED
    BY <2>2, <2>3, Zenon
<1>15. Sessions'
  <2>1. s \in used
    BY <1>1, <1>2, <1>3, ZenonT(60) DEF Sessions
  <2>2. QED
    BY <1>1, <1>3, <1>8, <2>1, ZenonT(60) DEF Sessions, Connected
<1>16. Queues' /\ Connections'
  BY <1>13, <1>14, ZenonT(60) DEF Queues, Connections
<1>17. QED
  BY <1>1, <1>3, <1>9, <1>12, <1>15, <1>16, FrameWindow, ZenonT(60) DEF CInv

LEMMA TombstoneIDs ==
  ASSUME NEW c \in Docs
  PROVE  Tombstones(SnapshotChars(c)) \in SUBSET CharID
<1>1. DOMAIN SnapshotChars(c) \subseteq CharID
  BY ReachDocs, DocsFacts, Zenon
<1>2. QED
  BY <1>1, Zenon DEF Tombstones

(* What AcceptOperation does to the connections. *)
LEMMA Accepted ==
  ASSUME CInv, NEW s \in Sites, AcceptOperation(s), NEW op, op = Head(up[s])
  PROVE  /\ op \in Ops /\ up[s] # <<>> /\ Applied(chars, chars', Held, op) /\ chars' \in Docs
         /\ Held' = Held \cup {op.id} /\ DOMAIN chars' = DOMAIN chars \cup {op.id}
         /\ op.type = "insert" => op.id.siteID = s
         /\ s \in used /\ purged' = purged
         /\ Room(chars', Held', purged, used)
<1>1. Types /\ Sessions /\ RoomInv /\ Queues
  BY Zenon DEF CInv
<1>2. up[s] # <<>> /\ Accepts(chars, op) /\ chars' = Apply(chars, op) /\ purged' = purged
  BY Zenon DEF AcceptOperation
<1>3. up[s] \in Seq(Ops) /\ chars \in Docs
  BY <1>1, Zenon DEF Types
<1>4. op \in Ops /\ op = up[s][1] /\ 1 \in DOMAIN up[s]
  BY <1>2, <1>3, TailFacts, Zenon DEF IsTail
<1>5. Own(s, up[s], Held) /\ Room(chars, Held, purged, used)
  BY <1>1, Zenon DEF Queues, Queue, RoomInv
<1>6. op.type = "insert" => op.id.siteID = s /\ op.id \notin Held
  <2>1. \A i \in DOMAIN up[s] : up[s][i].type = "insert" => up[s][i].id \notin Held
    BY <1>3, <1>5, OwnNew, ZenonT(60)
  <2>2. QED
    BY <1>4, <1>5, <2>1, ZenonT(60) DEF Own
<1>7. s \in used
  BY <1>1, <1>2, ZenonT(60) DEF Sessions
<1>8. Apply(chars, op) \in Docs /\ Applied(chars, Apply(chars, op), Held, op)
  BY <1>2, <1>3, <1>4, <1>5, <1>6, RoomAccepts, ZenonT(60)
<1>9. chars' \in Docs /\ Applied(chars, chars', Held, op)
  BY <1>2, <1>8, ZenonT(60)
<1>10. /\ Room(chars', Held \cup {op.id}, purged, used) /\ Held \cup {op.id} = DOMAIN chars' \cup purged
       /\ DOMAIN chars' = DOMAIN chars \cup {op.id}
  <2>1. op.type = "insert" => op.id.siteID \in used
    BY <1>6, <1>7, ZenonT(60)
  <2>2. PICK c, e, K, N, sites : c = chars /\ e = chars' /\ K = Held /\ N = purged /\ sites = used
    BY Zenon
  <2>3. Room(c, K, N, sites) /\ Applied(c, e, K, op) /\ (op.type = "insert" => op.id.siteID \in sites)
    BY <1>5, <1>9, <2>1, <2>2, ZenonT(60)
  <2>4. Room(e, K \cup {op.id}, N, sites)
    BY <2>3, RoomApplied, ZenonT(60)
  <2>5. K \cup {op.id} = DOMAIN e \cup N
    BY <2>4, Zenon DEF Room
  <2>6. DOMAIN e = DOMAIN c \cup {op.id}
    BY <2>3, Zenon DEF Applied, Grows, Marks
  <2>7. QED
    BY <2>2, <2>4, <2>5, <2>6, ZenonT(60)
<1>11. Held' = Held \cup {op.id}
  BY <1>2, <1>10, Zenon DEF Held
<1>12. QED
  BY <1>2, <1>4, <1>6, <1>7, <1>9, <1>10, <1>11, ZenonT(60)

LEMMA SnapshotRequested ==
  ASSUME Window, chars' \in Docs, UNCHANGED <<saved, compactions, previousTombs, purged>>, NEW n,
         RequestSnapshot(n) \/ UNCHANGED pendingSnapshot
  PROVE  Window'
<1>1. Tombstones(SnapshotChars(chars')) \in SUBSET CharID
  BY TombstoneIDs, Zenon
<1>2. UNCHANGED pendingSnapshot \/ pendingSnapshot' = {Tombstones(SnapshotChars(chars'))}
  BY Zenon DEF RequestSnapshot
<1>3. pendingSnapshot' \subseteq SUBSET CharID
  BY <1>1, <1>2, Zenon DEF Window
<1>4. QED
  BY <1>3, Zenon DEF Window

LEMMA CAcceptOperation ==
  ASSUME CInv, NEW s \in Sites, AcceptOperation(s)
  PROVE  CInv'
<1>1. Types /\ Sessions /\ RoomInv /\ Queues /\ Connections /\ Window
  BY Zenon DEF CInv
<1>2. PICK op, U : op = Head(up[s]) /\ U = up[s]
  BY Zenon
<1>3. /\ op \in Ops /\ U # <<>> /\ Applied(chars, chars', Held, op) /\ chars' \in Docs
      /\ Held' = Held \cup {op.id} /\ DOMAIN chars' = DOMAIN chars \cup {op.id}
      /\ op.type = "insert" => op.id.siteID = s
      /\ s \in used /\ purged' = purged
      /\ Room(chars', Held', purged, used)
  BY <1>2, Accepted, Zenon
<1>4. /\ up' = [up EXCEPT ![s] = Tail(U)]
      /\ UNCHANGED <<clients, site, ready, doc, nextCounter, editor, used, typed, purged>>
      /\ UNCHANGED <<saved, compactions, previousTombs, purged>>
  BY <1>2, Zenon DEF AcceptOperation, tabs, typing
<1>5. down' = [r \in Sites |-> IF r \in Receivers(s) THEN Append(down[r], OpMsg(op)) ELSE down[r]]
  BY <1>2 DEF AcceptOperation
<1>6. up \in [Sites -> Seq(Ops)] /\ down \in [Sites -> Seq(Messages)] /\ U \in Seq(Ops)
  BY <1>1, <1>2, Zenon DEF Types
<1>7. OpMsg(op) \in Messages
  BY <1>3 DEF Messages, OpMsg
<1>8. Tail(U) \in Seq(Ops) /\ \A r \in Sites : Append(down[r], OpMsg(op)) \in Seq(Messages)
  BY <1>3, <1>6, <1>7, TailFacts, AppendFacts, ZenonT(60)
<1>9. /\ up' \in [Sites -> Seq(Ops)] /\ up'[s] = Tail(U)
      /\ \A r \in Sites : r # s => up'[r] = up[r]
  BY <1>4, <1>6, <1>8, ZenonT(60)
<1>10. down' \in [Sites -> Seq(Messages)]
  BY <1>5, <1>6, <1>8, ZenonT(60)
<1>11. Types'
  BY <1>1, <1>3, <1>4, <1>9, <1>10, ZenonT(60) DEF Types
<1>12. /\ DOMAIN chars \subseteq Held /\ (purged = {} => Reachable(chars) = DOMAIN chars)
       /\ \A r \in Sites : Queue(r, up[r], chars, Held, purged)
  BY <1>1, HeldFacts, ZenonT(60) DEF RoomInv, Room, Queues
<1>13. ASSUME NEW r \in Sites PROVE Queue(r, up'[r], chars', Held', purged')
  <2>1. CASE r = s
    <3>1. Queue(s, U, chars, Held, purged)
      BY <1>2, <1>12, Zenon
    <3>2. Queue(s, Tail(U), chars', Held \cup {op.id}, purged)
      BY <1>2, <1>3, <1>6, <1>12, <3>1, QueueOwn, ZenonT(60)
    <3>3. QED
      BY <1>3, <1>9, <2>1, <3>2, ZenonT(60)
  <2>2. CASE r # s
    <3>1. op.type = "insert" => op.id.siteID # r
      BY <1>3, <2>2, Zenon
    <3>2. Queue(r, up[r], chars', Held \cup {op.id}, purged)
      BY <1>3, <1>12, <3>1, QueueOther, ZenonT(60)
    <3>3. QED
      BY <1>3, <1>9, <2>2, <3>2, ZenonT(60)
  <2>3. QED
    BY <2>1, <2>2, Zenon
<1>14. ASSUME NEW t \in Tabs, Connected(t)' PROVE Linked(t)'
  <2>1. Connected(t) /\ site[t] \in clients /\ site[t] \in Sites
    BY <1>1, <1>4, <1>14, SiteFacts, ZenonT(60) DEF Connected, Sessions
  <2>2. PICK r, Q : r = site[t] /\ Q = down[r]
    BY Zenon
  <2>3. Conn(ready[t], r, doc[t], nextCounter[t], up[r], Q, chars, Held, purged)
    BY <1>1, <2>1, <2>2, ZenonT(60) DEF Connections, Linked
  <2>4. CASE r = s
    <3>1. Conn(ready[t], s, doc[t], nextCounter[t], U, Q, chars, Held, purged)
      BY <1>2, <2>3, <2>4, ZenonT(60)
    <3>2. Queue(s, U, chars, Held, purged)
      BY <1>2, <1>12, Zenon
    <3>3. Conn(ready[t], s, doc[t], nextCounter[t], Tail(U), Q, chars', Held \cup {op.id}, purged)
      BY <1>2, <1>3, <1>6, <1>12, <3>1, <3>2, ConnOwn, ZenonT(60)
    <3>4. s \notin Receivers(s)
      BY Zenon DEF Receivers
    <3>5. down'[s] = Q
      BY <1>5, <2>2, <2>4, <3>4, ZenonT(60)
    <3>6. QED
      BY <1>3, <1>4, <1>9, <2>2, <2>4, <3>3, <3>5, ZenonT(60) DEF Linked
  <2>5. CASE r # s
    <3>1. op.type = "insert" => op.id.siteID # r
      BY <1>3, <2>5, Zenon
    <3>2. Q \in Seq(Messages) /\ r \in Sites /\ Queue(r, up[r], chars, Held, purged)
      BY <1>6, <1>12, <2>1, <2>2, ZenonT(60)
    <3>3. Conn(ready[t], r, doc[t], nextCounter[t], up[r], Append(Q, OpMsg(op)), chars',
               Held \cup {op.id}, purged)
      <4>1. Conn(ready[t], r, doc[t], nextCounter[t], up[r], Append(Q, Carrying(op)), chars',
                 Held \cup {op.id}, purged)
        BY <1>3, <1>12, <2>3, <3>1, <3>2, ConnOther, ZenonT(60)
      <4>2. QED
        BY <4>1, MessageFacts, Zenon
    <3>4. r \in Receivers(s)
      BY <2>1, <2>2, <2>5, ZenonT(60) DEF Receivers
    <3>5. down'[r] = Append(Q, OpMsg(op))
      BY <1>5, <2>2, <3>2, <3>4, ZenonT(60)
    <3>6. up'[r] = up[r]
      BY <1>9, <2>5, <3>2, ZenonT(60)
    <3>7. QED
      BY <1>3, <1>4, <2>2, <3>3, <3>5, <3>6, ZenonT(60) DEF Linked
  <2>6. QED
    BY <2>4, <2>5, Zenon
<1>15. RoomInv'
  BY <1>3, <1>4, Zenon DEF RoomInv
<1>16. Sessions'
  BY <1>1, <1>3, <1>4, <1>9, ZenonT(60) DEF Sessions, Connected
<1>17. Window'
  <2>1. RequestSnapshot(opsSinceSnapshot + 1) \/ UNCHANGED pendingSnapshot
    BY ZenonT(60) DEF AcceptOperation
  <2>2. QED
    BY <1>1, <1>3, <1>4, <2>1, SnapshotRequested, ZenonT(60)
<1>18. Queues' /\ Connections'
  BY <1>13, <1>14, Zenon DEF Queues, Connections
<1>19. QED
  BY <1>11, <1>15, <1>16, <1>17, <1>18, ZenonT(60) DEF CInv

LEMMA CSnapshotTick ==
  ASSUME CInv, SnapshotTick
  PROVE  CInv'
<1>1. Types /\ Sessions /\ RoomInv /\ Queues /\ Connections /\ Window
  BY Zenon DEF CInv
<1>2. /\ UNCHANGED <<chars, purged, site, ready, doc, nextCounter, up, down, used, clients>>
      /\ UNCHANGED <<editor, typed>>
      /\ UNCHANGED <<saved, compactions, previousTombs, purged>> /\ RequestSnapshot(opsSinceSnapshot)
  BY Zenon DEF SnapshotTick, tabs, links, typing
<1>3. Types' /\ chars' \in Docs
  BY <1>1, <1>2, Zenon DEF Types
<1>4. Window'
  BY <1>1, <1>2, <1>3, SnapshotRequested, ZenonT(60)
<1>5. QED
  BY <1>1, <1>2, <1>3, <1>4, Frame, ZenonT(60) DEF CInv

LEMMA CSaveSnapshotFails ==
  ASSUME CInv, SaveSnapshotFails
  PROVE  CInv'
<1>1. Types /\ Sessions /\ RoomInv /\ Queues /\ Connections /\ Window
  BY Zenon DEF CInv
<1>2. /\ UNCHANGED <<chars, purged, site, ready, doc, nextCounter, up, down, used, clients>>
      /\ UNCHANGED <<editor, typed>> /\ pendingSnapshot' = {}
      /\ UNCHANGED <<saved, compactions, previousTombs, purged>>
  BY Zenon DEF SaveSnapshotFails, room, tabs, links, typing
<1>3. Types' /\ Window'
  BY <1>1, <1>2, Zenon DEF Types, Window
<1>4. QED
  BY <1>1, <1>2, <1>3, Frame, ZenonT(60) DEF CInv

LEMMA CStutter ==
  ASSUME CInv, UNCHANGED vars
  PROVE  CInv'
<1>1. Types /\ Sessions /\ RoomInv /\ Queues /\ Connections /\ Window
  BY Zenon DEF CInv
<1>2. /\ UNCHANGED <<chars, purged, site, ready, doc, nextCounter, up, down, used, clients>>
      /\ UNCHANGED <<editor, typed>>
      /\ UNCHANGED <<saved, compactions, previousTombs, pendingSnapshot, purged>>
  BY Zenon DEF vars, room, tabs, links, typing, snapshots
<1>3. Types'
  BY <1>1, <1>2, Zenon DEF Types
<1>4. QED
  BY <1>1, <1>2, <1>3, Frame, FrameWindow, ZenonT(60) DEF CInv

(* An earlier snapshot is still an earlier one when more are saved. *)
LEMMA MoreSaved ==
  ASSUME NEW l \in Seq(SUBSET CharID), NEW x \in SUBSET CharID, NEW m, m = Append(l, x)
  PROVE  /\ m \in Seq(SUBSET CharID) /\ m # <<>> /\ m[Len(m)] = x
         /\ \A j \in 1..(Len(l) - 1) : j \in 1..(Len(m) - 1) /\ m[j] = l[j]
         /\ l # <<>> => Len(l) \in 1..(Len(m) - 1) /\ m[Len(l)] = l[Len(l)]
  OBVIOUS

LEMMA CSaveSnapshot ==
  ASSUME CInv, SaveSnapshot
  PROVE  CInv'
<1>1. Types /\ Sessions /\ RoomInv /\ Queues /\ Connections /\ Window
  BY Zenon DEF CInv
<1>2. /\ UNCHANGED <<chars, purged, site, ready, doc, nextCounter, up, down, used, clients>>
      /\ UNCHANGED <<editor, typed>> /\ pendingSnapshot' = {}
  BY Zenon DEF SaveSnapshot, tabs, links, typing
<1>3. PICK tombs \in pendingSnapshot :
        /\ previousTombs' = tombs /\ saved' = Append(saved, tombs)
        /\ compactions' = compactions \/ (/\ previousTombs # {}
                                          /\ compactions' = Append(compactions, previousTombs))
  BY Zenon DEF SaveSnapshot, SubmitCompaction, CompactIDs
<1>4. /\ saved \in Seq(SUBSET CharID) /\ compactions \in Seq(SUBSET CharID)
      /\ previousTombs = IF saved = <<>> THEN {} ELSE saved[Len(saved)]
      /\ tombs \in SUBSET CharID
      /\ \A i \in DOMAIN compactions : \E j \in 1..(Len(saved) - 1) : compactions[i] \subseteq saved[j]
      /\ \A id \in purged : \E j \in 1..(Len(saved) - 1) : id \in saved[j]
  BY <1>1, <1>3, Zenon DEF Window
<1>5. /\ saved' \in Seq(SUBSET CharID) /\ saved' # <<>> /\ saved'[Len(saved')] = tombs
      /\ \A j \in 1..(Len(saved) - 1) : j \in 1..(Len(saved') - 1) /\ saved'[j] = saved[j]
      /\ saved # <<>> => Len(saved) \in 1..(Len(saved') - 1) /\ saved'[Len(saved)] = saved[Len(saved)]
  BY <1>3, <1>4, MoreSaved, SMTT(30)
<1>6. previousTombs' = IF saved' = <<>> THEN {} ELSE saved'[Len(saved')]
  BY <1>3, <1>5, Zenon
<1>7. \A id \in purged' : \E j \in 1..(Len(saved') - 1) : id \in saved'[j]
  BY <1>2, <1>4, <1>5, Zenon
<1>8. \A i \in DOMAIN compactions : \E j \in 1..(Len(saved') - 1) : compactions[i] \subseteq saved'[j]
  BY <1>4, <1>5, Zenon
<1>9. /\ compactions' \in Seq(SUBSET CharID)
      /\ \A i \in DOMAIN compactions' : \E j \in 1..(Len(saved') - 1) : compactions'[i] \subseteq saved'[j]
  <2>1. CASE compactions' = compactions
    BY <1>4, <1>8, <2>1, Zenon
  <2>2. CASE previousTombs # {} /\ compactions' = Append(compactions, previousTombs)
    <3>1. saved # <<>> /\ previousTombs = saved[Len(saved)]
      BY <1>4, <2>2, Zenon
    <3>2. \E j \in 1..(Len(saved') - 1) : previousTombs \subseteq saved'[j]
      BY <1>5, <3>1, Zenon
    <3>3. previousTombs \in SUBSET CharID
      BY <1>4, <3>1
    <3>4. IsAppend(compactions, compactions', previousTombs, Len(compactions) + 1)
          /\ compactions' \in Seq(SUBSET CharID)
      BY <1>4, <2>2, <3>3, AppendFacts, ZenonT(60)
    <3>5. QED
      BY <1>8, <3>2, <3>4, Zenon DEF IsAppend
  <2>3. QED
    BY <1>3, <2>1, <2>2, ZenonT(60)
<1>10. Types' /\ Window'
  BY <1>1, <1>2, <1>5, <1>6, <1>7, <1>9, ZenonT(60) DEF Types, Window
<1>11. QED
  BY <1>1, <1>2, <1>10, Frame, ZenonT(60) DEF CInv

LEMMA CApplyCompaction ==
  ASSUME CInv, ApplyCompaction
  PROVE  CInv'
<1>1. Types /\ Sessions /\ RoomInv /\ Queues /\ Connections /\ Window
  BY Zenon DEF CInv
<1>2. PICK ids, S : ids = Head(compactions) /\ S = {i \in DOMAIN chars : ~(i \in ids /\ chars[i].deleted)}
  BY Zenon
<1>3. /\ compactions # <<>> /\ compactions' = Tail(compactions) /\ chars' = Rest(chars, S)
      /\ purged' = purged \cup (DOMAIN chars \ DOMAIN chars')
      /\ UNCHANGED <<clients, site, ready, doc, nextCounter, editor, up, down, used, typed>>
      /\ UNCHANGED <<pendingSnapshot, previousTombs, saved>>
  BY <1>2, Zenon DEF ApplyCompaction, Compact, Rest, tabs, links, typing, snapshots
<1>4. S \subseteq DOMAIN chars /\ DOMAIN chars' = S
  BY <1>2, <1>3, Zenon DEF Rest
<1>5. chars \in Docs /\ purged \subseteq CharID /\ DOMAIN chars \subseteq CharID
  BY <1>1, DocsFacts, Zenon DEF Types
<1>6. purged' = purged \cup (DOMAIN chars \ S) /\ purged' \subseteq CharID
  BY <1>3, <1>4, <1>5, Zenon
<1>7. Held' = Held
  BY <1>4, <1>6, Zenon DEF Held
<1>8. chars' \in Docs
  BY <1>3, <1>4, <1>5, RestrictDocs, Zenon DEF Rest
<1>9. Types'
  BY <1>1, <1>3, <1>6, <1>8, Zenon DEF Types
<1>10. Sessions'
  BY <1>1, <1>3, Zenon DEF Sessions, Connected
<1>11. RoomInv'
  <2>1. Room(Rest(chars, S), Held, purged \cup (DOMAIN chars \ S), used)
    BY <1>1, <1>4, <1>5, RoomForgot, ZenonT(60) DEF RoomInv
  <2>2. QED
    BY <1>3, <1>6, <1>7, <2>1, Zenon DEF RoomInv
<1>12. ASSUME NEW s \in Sites PROVE Queue(s, up'[s], chars', Held', purged')
  <2>1. Queue(s, up[s], chars, Held, purged)
    BY <1>1, Zenon DEF Queues
  <2>2. Queue(s, up[s], Rest(chars, S), Held, purged \cup (DOMAIN chars \ S))
    BY <1>4, <1>5, <2>1, QueueForgot, Zenon
  <2>3. QED
    BY <1>3, <1>6, <1>7, <2>2, ZenonT(60)
<1>13. ASSUME NEW t \in Tabs, Connected(t)' PROVE Linked(t)'
  <2>1. Linked(t)
    BY <1>1, <1>3, <1>13, Zenon DEF Connections, Connected
  <2>2. Conn(ready[t], site[t], doc[t], nextCounter[t], up[site[t]], down[site[t]],
             Rest(chars, S), Held, purged \cup (DOMAIN chars \ S))
    BY <1>4, <1>5, <2>1, ConnForgot, Zenon DEF Linked
  <2>3. QED
    BY <1>3, <1>6, <1>7, <2>2, Zenon DEF Linked
<1>14. Window'
  <2>1. /\ saved \in Seq(SUBSET CharID) /\ compactions \in Seq(SUBSET CharID)
        /\ \A i \in DOMAIN compactions : \E j \in 1..(Len(saved) - 1) : compactions[i] \subseteq saved[j]
        /\ \A id \in purged : \E j \in 1..(Len(saved) - 1) : id \in saved[j]
    BY <1>1, Zenon DEF Window
  <2>2. /\ Tail(compactions) \in Seq(SUBSET CharID) /\ ids = compactions[1] /\ 1 \in DOMAIN compactions
        /\ IsTail(compactions, Tail(compactions))
    BY <1>2, <1>3, <2>1, TailFacts, ZenonT(60) DEF IsTail
  <2>3. \A i \in DOMAIN compactions' : \E j \in 1..(Len(saved) - 1) : compactions'[i] \subseteq saved[j]
    BY <1>3, <2>1, <2>2, Zenon DEF IsTail
  <2>4. PICK j \in 1..(Len(saved) - 1) : ids \subseteq saved[j]
    BY <2>1, <2>2, Zenon
  <2>5. \A id \in DOMAIN chars \ S : id \in ids
    BY <1>2, Zenon
  <2>6. \A id \in purged' : \E k \in 1..(Len(saved) - 1) : id \in saved[k]
    BY <1>6, <2>1, <2>4, <2>5, ZenonT(60)
  <2>7. compactions' \in Seq(SUBSET CharID)
    BY <1>3, <2>2, Zenon
  <2>8. QED
    BY <1>1, <1>3, <2>3, <2>6, <2>7, ZenonT(60) DEF Window
<1>15. Queues' /\ Connections'
  BY <1>12, <1>13, Zenon DEF Queues, Connections
<1>16. QED
  BY <1>9, <1>10, <1>11, <1>14, <1>15, ZenonT(60) DEF CInv

LEMMA CStep ==
  ASSUME CInv, [Next]_vars
  PROVE  CInv'
<1>1. CASE UNCHANGED vars
  BY <1>1, CStutter, Zenon
<1>2. ASSUME NEW t \in Tabs, Register(t) PROVE CInv'
  BY <1>2, CRegister, Zenon
<1>3. ASSUME NEW t \in Tabs, Disconnect(t) PROVE CInv'
  BY <1>3, CDisconnect, ZenonT(60)
<1>4. ASSUME NEW t \in Tabs, ReceiveSync(t) PROVE CInv'
  BY <1>4, CReceiveSync, Zenon
<1>5. ASSUME NEW t \in Tabs, ReceiveOp(t) PROVE CInv'
  BY <1>5, CReceiveOp, Zenon
<1>6. ASSUME NEW t \in Tabs, ReceiveError(t) PROVE CInv'
  BY <1>6, CReceiveError, Zenon
<1>7. ASSUME NEW t \in Tabs, Input(t) PROVE CInv'
  BY <1>7, CInput, Zenon
<1>8. ASSUME NEW s \in Sites, AcceptOperation(s) PROVE CInv'
  BY <1>8, CAcceptOperation, Zenon
<1>9. ASSUME NEW s \in Sites, RejectOperation(s) PROVE CInv'
  BY <1>9, CRejectOperation, Zenon
<1>10. CASE SnapshotTick
  BY <1>10, CSnapshotTick, Zenon
<1>11. CASE ApplyCompaction
  BY <1>11, CApplyCompaction, ZenonT(60)
<1>12. CASE SaveSnapshot
  BY <1>12, CSaveSnapshot, Zenon
<1>13. CASE SaveSnapshotFails
  BY <1>13, CSaveSnapshotFails, Zenon
<1>14. QED
  BY <1>1, <1>2, <1>3, <1>4, <1>5, <1>6, <1>7, <1>8, <1>9, <1>10, <1>11, <1>12, <1>13, ZenonT(60) DEF Next

(***************************************************************************)
(* CInv holds of every reachable state: a connection that is synced or     *)
(* about to be differs from the room in what it carries, and in nothing    *)
(* else (register, handleEnvelope, broadcast, Compact; the handlers of     *)
(* web/assets/app.js).                                                     *)
(***************************************************************************)
THEOREM CInvTheorem == Spec => []CInv
<1>1. Init => CInv
  BY CInit, Zenon
<1>2. CInv /\ [Next]_vars => CInv'
  BY CStep, Zenon
<1>3. QED
  BY <1>1, <1>2, PTL DEF Spec

(***************************************************************************)
(* A tab with nothing under way.                                           *)
(***************************************************************************)
LEMMA EqualEntries ==
  ASSUME NEW a \in Entry, NEW b \in Entry, SameEntry(a, b), a.deleted <=> b.deleted
  PROVE  a = b
  BY DEF Entry, SameEntry

LEMMA QuietTab ==
  ASSUME CInv, NEW t \in Tabs, Quiet(t)
  PROVE  /\ \A id \in DOMAIN doc[t] \cap DOMAIN chars : doc[t][id] = chars[id]
         /\ Reachable(chars) \subseteq DOMAIN doc[t] \cap DOMAIN chars
         /\ purged = {} => DOMAIN doc[t] \subseteq DOMAIN chars
<1>1. Types /\ Sessions /\ Connections
  BY Zenon DEF CInv
<1>2. PICK d, s, n : d = doc[t] /\ s = site[t] /\ n = nextCounter[t]
  BY Zenon
<1>3. ready[t] /\ up[s] = <<>> /\ down[s] = <<>> /\ Connected(t)
  BY <1>1, <1>2, Zenon DEF Quiet, Sessions
<1>4. d \in Docs /\ chars \in Docs
  BY <1>1, <1>2, <1>3, SiteFacts, ZenonT(60) DEF Types
<1>5. Live(s, n, d, <<>>, <<>>, chars, Held, purged)
  BY <1>1, <1>2, <1>3, Zenon DEF Connections, Linked, Conn
<1>6. DOMAIN <<>> = {}
  OBVIOUS
<1>7. /\ Agree(d, <<>>, <<>>, chars) /\ Reach(d, <<>>, chars)
      /\ purged = {} => Covered(d, <<>>, chars)
  BY <1>5, Zenon DEF Live, Link, Lossless
<1>8. ASSUME NEW id \in DOMAIN d \cap DOMAIN chars PROVE d[id] = chars[id]
  <2>1. AgreeOne(d, <<>>, <<>>, chars, id)
    BY <1>7, <1>8, Zenon DEF Agree
  <2>2. SameEntry(d[id], chars[id]) /\ (d[id].deleted <=> chars[id].deleted)
    BY <1>6, <2>1, ZenonT(60) DEF AgreeOne, DelUp, DelDown
  <2>3. d[id] \in Entry /\ chars[id] \in Entry
    BY <1>4, <1>8, DocsFacts, ZenonT(60)
  <2>4. QED
    BY <2>2, <2>3, EqualEntries, ZenonT(60)
<1>9. Reachable(chars) \subseteq DOMAIN d /\ Reachable(chars) \subseteq DOMAIN chars
  BY <1>6, <1>7, ReachClosed, ZenonT(60) DEF Reach, InsDown
<1>10. purged = {} => DOMAIN d \subseteq DOMAIN chars
  BY <1>6, <1>7, Zenon DEF Covered, InsUp
<1>11. QED
  BY <1>2, <1>8, <1>9, <1>10, ZenonT(60)

(***************************************************************************)
(* Convergence for any number of tabs, connections and edits: a synced tab *)
(* with nothing under way shows the room's document, as long as nothing    *)
(* was compacted (register, broadcast, handleEnvelope).                    *)
(***************************************************************************)
THEOREM ConvergenceTheorem == Spec => []Convergence
<1>1. CInv => Convergence
  <2>1. SUFFICES ASSUME CInv, purged = {}, NEW t \in Tabs, Quiet(t) PROVE doc[t] = chars
    BY Zenon DEF Convergence
  <2>2. /\ \A id \in DOMAIN doc[t] \cap DOMAIN chars : doc[t][id] = chars[id]
        /\ Reachable(chars) \subseteq DOMAIN doc[t] \cap DOMAIN chars
        /\ DOMAIN doc[t] \subseteq DOMAIN chars
    BY <2>1, QuietTab, Zenon
  <2>3. Reachable(chars) = DOMAIN chars
    BY <2>1, Zenon DEF CInv, RoomInv, Room
  <2>4. DOMAIN doc[t] = DOMAIN chars
    BY <2>2, <2>3, Zenon
  <2>5. doc[t] \in Docs /\ chars \in Docs
    BY <2>1, Zenon DEF CInv, Types
  <2>6. doc[t] = [id \in DOMAIN doc[t] |-> doc[t][id]] /\ chars = [id \in DOMAIN chars |-> chars[id]]
    BY <2>5, DocsFacts, ZenonT(60) DEF Sound
  <2>7. QED
    BY <2>2, <2>4, <2>6, ZenonT(60)
<1>2. QED
  BY <1>1, CInvTheorem, PTL

(***************************************************************************)
(* Compaction or not, a synced tab with nothing under way has what the     *)
(* room would put in a snapshot (register, Compact, broadcast).            *)
(***************************************************************************)
THEOREM RoomTextReachesTabsTheorem == Spec => []RoomTextReachesTabs
<1>1. CInv => RoomTextReachesTabs
  BY QuietTab, ZenonT(60) DEF RoomTextReachesTabs
<1>2. QED
  BY <1>1, CInvTheorem, PTL

(***************************************************************************)
(* As long as nothing was compacted, neither the room nor a tab refuses an *)
(* operation it is sent (handleEnvelope, applyRemote).                     *)
(***************************************************************************)
THEOREM NoRefusalTheorem == Spec => []NoRefusal
<1>1. CInv => NoRefusal
  <2>1. SUFFICES ASSUME CInv, purged = {}
                 PROVE  /\ \A s \in Sites : up[s] # <<>> => Accepts(chars, Head(up[s]))
                        /\ \A t \in Tabs :
                             ready[t] /\ down[site[t]] # <<>> /\ Message(t).type = "op"
                               => BrowserAccepts(doc[t], Message(t).op)
    BY Zenon DEF NoRefusal
  <2>2. Types /\ Sessions /\ RoomInv /\ Queues /\ Connections
    BY <2>1, Zenon DEF CInv
  <2>3. ASSUME NEW s \in Sites, up[s] # <<>> PROVE Accepts(chars, Head(up[s]))
    <3>1. Queue(s, up[s], chars, Held, purged) /\ up[s] \in Seq(Ops) /\ DOMAIN chars \subseteq Held
      BY <2>2, HeldFacts, Zenon DEF Queues, Types
    <3>2. QED
      BY <2>1, <2>3, <3>1, RoomRefuses, ZenonT(60)
  <2>4. ASSUME NEW t \in Tabs, ready[t], down[site[t]] # <<>>, Message(t).type = "op"
        PROVE  BrowserAccepts(doc[t], Message(t).op)
    <3>1. Connected(t) /\ doc[t] \in Docs /\ down[site[t]] \in Seq(Messages)
      BY <2>2, <2>4, SiteFacts, ZenonT(60) DEF Sessions
    <3>2. Message(t) = down[site[t]][1]
      BY <2>4, <3>1, TailFacts, ZenonT(60) DEF Message
    <3>3. PICK s, d, n, U, Q : /\ s = site[t] /\ d = doc[t] /\ n = nextCounter[t] /\ U = up[s] /\ Q = down[s]
      BY Zenon
    <3>4. Live(s, n, d, U, Q, chars, Held, {}) /\ Room(chars, Held, {}, used)
      BY <2>1, <2>2, <2>4, <3>1, <3>3, ZenonT(60) DEF Connections, Linked, Conn, RoomInv
    <3>5. Q # <<>> /\ Q[1].type = "op" /\ d \in Docs /\ Q \in Seq(Messages)
      BY <2>4, <3>1, <3>2, <3>3, ZenonT(60)
    <3>6. BrowserAccepts(d, Q[1].op)
      BY <3>4, <3>5, TabAcceptsSent, ZenonT(60)
    <3>7. QED
      BY <3>2, <3>3, <3>6, ZenonT(60)
  <2>5. QED
    BY <2>3, <2>4, Zenon
<1>2. QED
  BY <1>1, CInvTheorem, PTL

(***************************************************************************)
(* Whatever the text of the editor becomes, the tab's replica accepts      *)
(* every operation createTextOperations makes of it.                       *)
(***************************************************************************)
THEOREM LocalEditsApplyTheorem == Spec => []LocalEditsApply
<1>1. CInv => LocalEditsApply
  <2>1. ASSUME CInv, NEW t \in Tabs, ready[t], NEW next \in EditedTexts(editor[t]), NEW made,
               made = CreateTextOperations(Text(doc[t]), RunesOf(doc[t], Text(doc[t])), next, site[t],
                                           nextCounter[t])
        PROVE  \A i \in 1..Len(made.operations) :
                 BrowserAccepts(ApplyBatch(doc[t], made.operations)[i - 1], made.operations[i])
    <3>1. IsMade(made, doc[t], next, site[t], nextCounter[t])
      BY <2>1, Zenon DEF IsMade
    <3>2. Typed(doc[t], ApplyBatch(doc[t], made.operations)[Len(made.operations)], site[t],
                nextCounter[t], up[site[t]], down[site[t]], chars, Held, purged, made)
      BY <2>1, <3>1, TabTypes, ZenonT(60)
    <3>3. QED
      BY <3>2, Zenon DEF Typed
  <2>2. QED
    BY <2>1, Zenon DEF LocalEditsApply
<1>2. QED
  BY <1>1, CInvTheorem, PTL

(***************************************************************************)
(* Replaying the room's snapshot restores exactly the characters reached   *)
(* from the root, each listed once (Snapshot, replaceSnapshot).            *)
(***************************************************************************)
THEOREM SnapshotReplaysTheorem == Spec => []SnapshotReplays
<1>1. CInv => SnapshotReplays
  <2>1. SUFFICES ASSUME CInv PROVE SnapshotReplays
    BY Zenon
  <2>2. Sound(chars)
    BY <2>1, DocsFacts, ZenonT(60) DEF CInv, Types
  <2>3. QED
    BY <2>2, SnapshotRestores, ZenonT(60) DEF SnapshotReplays
<1>2. QED
  BY <1>1, CInvTheorem, PTL

(***************************************************************************)
(* What compaction removes was a tombstone in a snapshot saved before the  *)
(* last one (flushSnapshots, SnapshotSaved, submitCompaction).             *)
(***************************************************************************)
THEOREM GraceWindowTheorem == Spec => []GraceWindow
<1>1. CInv => GraceWindow
  BY Zenon DEF CInv, Window, GraceWindow
<1>2. QED
  BY <1>1, CInvTheorem, PTL

(* No step makes a deleted or forgotten character visible in the room. *)
LEMMA DeadStep ==
  ASSUME CInv, [Next]_vars, NEW id \in Tombstones(chars) \cup purged, id \in DOMAIN chars'
  PROVE  chars'[id].deleted
<1>1. RoomInv
  BY Zenon DEF CInv
<1>2. id \in Held /\ (id \in DOMAIN chars => chars[id].deleted)
  BY <1>1, Zenon DEF Held, Tombstones, RoomInv, Room
<1>3. CASE chars' = chars
  BY <1>2, <1>3, ZenonT(60)
<1>4. ASSUME NEW s \in Sites, AcceptOperation(s) PROVE chars'[id].deleted
  <2>1. PICK op : op = Head(up[s])
    BY Zenon
  <2>2. Applied(chars, chars', Held, op)
    BY <1>4, <2>1, Accepted, ZenonT(60)
  <2>3. CASE op.type = "insert" /\ op.id \notin Held /\ Grows(chars, chars', op)
    BY <1>2, <2>3, ZenonT(60) DEF Grows
  <2>4. CASE Marks(chars, chars', op)
    <3>1. CASE id = op.id
      BY <2>4, <3>1, Zenon DEF Marks
    <3>2. CASE id # op.id
      BY <1>2, <2>4, <3>2, ZenonT(60) DEF Marks
    <3>3. QED
      BY <3>1, <3>2, Zenon
  <2>5. QED
    BY <2>2, <2>3, <2>4, ZenonT(60) DEF Applied
<1>5. CASE ApplyCompaction
  <2>1. chars' = Compact(chars, Head(compactions))
    BY <1>5, Zenon DEF ApplyCompaction
  <2>2. id \in DOMAIN chars /\ chars'[id] = chars[id]
    BY <2>1, Zenon DEF Compact
  <2>3. QED
    BY <1>2, <2>2, ZenonT(60)
<1>6. chars' = chars \/ (\E s \in Sites : AcceptOperation(s)) \/ ApplyCompaction
  BY Zenon DEF Next, Register, Disconnect, ReceiveSync, ReceiveOp, ReceiveError, Input, RejectOperation,
               SnapshotTick, SaveSnapshot, SaveSnapshotFails, vars, room
<1>7. QED
  BY <1>3, <1>4, <1>5, <1>6, ZenonT(60)

(***************************************************************************)
(* A character deleted in the room is never visible there again, not even  *)
(* after compaction forgot that it was deleted (applyInsert, Compact).     *)
(***************************************************************************)
THEOREM DeadStaysDeadTheorem == Spec => DeadStaysDead
<1>1. CInv /\ [Next]_vars => [\A id \in Tombstones(chars) \cup purged :
                                id \in DOMAIN chars' => chars'[id].deleted]_vars
  BY DeadStep, Zenon
<1>2. QED
  BY <1>1, CInvTheorem, PTL DEF Spec, DeadStaysDead
-----------------------------------------------------------------------------
(***************************************************************************)
(* The clients of the room are the sites of the open connections.          *)
(***************************************************************************)
Roster == clients = {site[t] : t \in Tabs} \ {NoSite}

Counters == opsSinceSnapshot \in Nat /\ edits \in 0..MaxEdits

LEMMA RosterStep ==
  ASSUME CInv, Roster, [Next]_vars
  PROVE  Roster'
<1>1. Sessions /\ site \in [Tabs -> Sites \cup {NoSite}]
  BY Zenon DEF CInv, Types
<1>2. ASSUME clients' = clients, site' = site PROVE Roster'
  BY <1>2, Zenon DEF Roster
<1>3. ASSUME NEW t \in Tabs, Register(t) PROVE Roster'
  <2>1. PICK s \in Sites : clients' = clients \cup {s} /\ site' = [site EXCEPT ![t] = s]
    BY <1>3, Zenon DEF Register, FreshSites
  <2>2. s # NoSite /\ site[t] = NoSite
    BY <1>3, SitesAssumption, Zenon DEF Register
  <2>3. site'[t] = s /\ \A o \in Tabs : o # t => site'[o] = site[o]
    BY <1>1, <2>1, Zenon
  <2>4. QED
    BY <2>1, <2>2, <2>3, Zenon DEF Roster
<1>4. ASSUME NEW t \in Tabs, Disconnect(t) PROVE Roster'
  <2>1. /\ clients' = clients \ {site[t]} /\ site' = [site EXCEPT ![t] = NoSite] /\ site[t] # NoSite
    BY <1>4, Zenon DEF Disconnect, Unregister, CloseTab
  <2>2. site'[t] = NoSite /\ \A o \in Tabs : o # t => site'[o] = site[o] /\ site[o] # site[t]
    BY <1>1, <2>1, Zenon DEF Sessions, Connected
  <2>3. QED
    BY <2>1, <2>2, Zenon DEF Roster
<1>5. CASE UNCHANGED vars
  BY <1>2, <1>5, Zenon DEF vars, room, tabs
<1>6. ASSUME NEW t \in Tabs, ReceiveSync(t) \/ ReceiveOp(t) \/ ReceiveError(t) \/ Input(t)
      PROVE  Roster'
  BY <1>2, <1>6, Zenon DEF ReceiveSync, ReceiveOp, ReceiveError, Input, room, tabs
<1>7. ASSUME NEW s \in Sites, AcceptOperation(s) \/ RejectOperation(s) PROVE Roster'
  BY <1>2, <1>7, Zenon DEF AcceptOperation, RejectOperation, room, tabs
<1>8. ASSUME SnapshotTick \/ ApplyCompaction \/ SaveSnapshot \/ SaveSnapshotFails PROVE Roster'
  BY <1>2, <1>8, Zenon DEF SnapshotTick, ApplyCompaction, SaveSnapshot, SaveSnapshotFails, room, tabs
<1>9. QED
  BY <1>3, <1>4, <1>5, <1>6, <1>7, <1>8, Zenon DEF Next

LEMMA CountersStep ==
  ASSUME Counters, [Next]_vars
  PROVE  Counters'
<1>1. opsSinceSnapshot \in Nat /\ edits \in 0..MaxEdits /\ 0 \in Nat
  BY DEF Counters
<1>2. ASSUME opsSinceSnapshot' \in Nat, edits' = edits PROVE Counters'
  BY <1>1, <1>2, Zenon DEF Counters
<1>3. ASSUME opsSinceSnapshot' = opsSinceSnapshot, edits' = edits PROVE Counters'
  BY <1>1, <1>2, <1>3, Zenon
<1>4. ASSUME NEW n \in Nat, RequestSnapshot(n) PROVE opsSinceSnapshot' \in Nat
  <2>1. opsSinceSnapshot' \in {0, n}
    BY <1>4, Zenon DEF RequestSnapshot
  <2>2. QED
    BY <1>1, <2>1, Zenon
<1>5. ASSUME NEW s \in Sites, AcceptOperation(s) PROVE Counters'
  <2>1. PICK n : n = opsSinceSnapshot + 1
    BY Zenon
  <2>2. n \in Nat
    BY <1>1, <2>1
  <2>3. (RequestSnapshot(n) \/ opsSinceSnapshot' = n) /\ edits' = edits
    BY <1>5, <2>1, Zenon DEF AcceptOperation, typing
  <2>4. QED
    BY <1>2, <1>4, <2>2, <2>3, Zenon
<1>6. ASSUME SnapshotTick PROVE Counters'
  BY <1>1, <1>2, <1>4, <1>6, Zenon DEF SnapshotTick, typing
<1>7. ASSUME NEW t \in Tabs, Input(t) PROVE Counters'
  <2>1. edits < MaxEdits /\ edits' = edits + 1 /\ opsSinceSnapshot' = opsSinceSnapshot
    BY <1>7, Zenon DEF Input, room
  <2>2. edits' \in 0..MaxEdits
    BY <1>1, <2>1, EditsAssumption
  <2>3. QED
    BY <1>1, <2>1, <2>2, Zenon DEF Counters
<1>8. ASSUME NEW t \in Tabs, Register(t) \/ Disconnect(t) \/ ReceiveSync(t) \/ ReceiveOp(t) \/ ReceiveError(t)
      PROVE  Counters'
  BY <1>3, <1>8, Zenon DEF Register, Disconnect, ReceiveSync, ReceiveOp, ReceiveError, room, typing
<1>9. ASSUME NEW s \in Sites, RejectOperation(s) PROVE Counters'
  BY <1>3, <1>9, Zenon DEF RejectOperation, room, typing
<1>10. ASSUME ApplyCompaction \/ SaveSnapshot \/ SaveSnapshotFails PROVE Counters'
  BY <1>3, <1>10, Zenon DEF ApplyCompaction, SaveSnapshot, SaveSnapshotFails, room, typing
<1>11. CASE UNCHANGED vars
  BY <1>3, <1>11, Zenon DEF vars, room, typing
<1>12. QED
  BY <1>5, <1>6, <1>7, <1>8, <1>9, <1>10, <1>11, Zenon DEF Next

LEMMA RuneTypes ==
  ASSUME Nat \subseteq Values
  PROVE  /\ \A d \in Docs : IsDocument(d)
         /\ \A op \in Ops : IsOperation(op)
         /\ \A m \in Messages : IsMessage(m)
<1>1. ASSUME NEW d \in Docs PROVE IsDocument(d)
  <2>1. PICK S \in SUBSET CharID : d \in [S -> Entry]
    BY Zenon DEF Docs
  <2>2. Entry \subseteq Char
    BY DEF Entry, Char
  <2>3. DOMAIN d = S /\ d \in [S -> Char]
    BY <2>1, <2>2, Zenon
  <2>4. QED
    BY <2>1, <2>3, Zenon DEF IsDocument
<1>2. ASSUME NEW op \in Ops PROVE IsOperation(op)
  <2>1. CASE op \in Inserts
    BY <2>1 DEF Inserts, IsOperation, Operation, InsertOp
  <2>2. CASE op \in Deletes
    BY <2>2 DEF Deletes, IsOperation, Operation, DeleteOp
  <2>3. QED
    BY <2>1, <2>2, Zenon DEF Ops
<1>3. ASSUME NEW m \in Messages PROVE IsMessage(m)
  <2>1. CASE m \in [type : {"sync"}, snapshot : Docs]
    <3>1. DOMAIN m = {"type", "snapshot"} /\ m.type = "sync" /\ m.snapshot \in Docs
      BY <2>1
    <3>2. QED
      BY <1>1, <3>1, Zenon DEF IsMessage
  <2>2. CASE m \in [type : {"op"}, op : Ops]
    <3>1. DOMAIN m = {"type", "op"} /\ m.type = "op" /\ m.op \in Ops
      BY <2>2
    <3>2. QED
      BY <1>2, <3>1, Zenon DEF IsMessage
  <2>3. CASE m \in [type : {"error"}]
    <3>1. m = ErrorMsg
      BY <2>3 DEF ErrorMsg
    <3>2. QED
      BY <3>1, Zenon DEF IsMessage
  <2>4. QED
    BY <2>1, <2>2, <2>3, Zenon DEF Messages
<1>4. QED
  BY <1>1, <1>2, <1>3, Zenon

LEMMA InvIsTyped ==
  ASSUME CInv, Roster, Counters, Nat \subseteq Values
  PROVE  TypeOK
<1>1. Types /\ Sessions /\ Window
  BY Zenon DEF CInv
<1>2. IsDocument(chars) /\ \A t \in Tabs : IsDocument(doc[t])
  BY <1>1, RuneTypes, Zenon DEF Types
<1>3. \A s \in Sites : /\ \A i \in DOMAIN up[s] : IsOperation(up[s][i])
                       /\ \A i \in DOMAIN down[s] : IsMessage(down[s][i])
  <2>1. \A s \in Sites : up[s] \in Seq(Ops) /\ down[s] \in Seq(Messages)
    BY <1>1, Zenon DEF Types
  <2>2. \A T : \A q \in Seq(T) : \A i \in DOMAIN q : q[i] \in T
    OBVIOUS
  <2>3. QED
    BY <2>1, <2>2, RuneTypes, Zenon
<1>4. \A t \in Tabs : \A i \in DOMAIN editor[t] : editor[t][i] \in Values
  <2>1. \A t \in Tabs : editor[t] \in Seq(Nat)
    BY <1>1, Zenon DEF Types
  <2>2. \A q \in Seq(Nat) : \A i \in DOMAIN q : q[i] \in Nat
    OBVIOUS
  <2>3. QED
    BY <2>1, <2>2, Zenon
<1>5. site \in [Tabs -> used \cup {NoSite}] /\ used \subseteq Sites
  BY <1>1, Zenon DEF Types, Sessions, Connected
<1>6. /\ \A i \in DOMAIN compactions : compactions[i] \subseteq CharID
      /\ \A tombs \in pendingSnapshot \cup {previousTombs} : tombs \subseteq CharID
  <2>1. \A q \in Seq(SUBSET CharID) : /\ \A i \in DOMAIN q : q[i] \subseteq CharID
                                      /\ q # <<>> => q[Len(q)] \subseteq CharID
    OBVIOUS
  <2>2. saved \in Seq(SUBSET CharID) /\ compactions \in Seq(SUBSET CharID) /\
        pendingSnapshot \subseteq SUBSET CharID
    BY <1>1, Zenon DEF Window
  <2>3. previousTombs = {} \/ (saved # <<>> /\ previousTombs = saved[Len(saved)])
    BY <1>1, Zenon DEF Window
  <2>4. previousTombs \subseteq CharID
    <3>1. CASE previousTombs = {}
      BY <3>1, Zenon
    <3>2. CASE saved # <<>> /\ previousTombs = saved[Len(saved)]
      BY <2>1, <2>2, <3>2, Zenon
    <3>3. QED
      BY <2>3, <3>1, <3>2, Zenon
  <2>5. \A i \in DOMAIN compactions : compactions[i] \subseteq CharID
    BY <2>1, <2>2, Zenon
  <2>6. QED
    BY <2>2, <2>4, <2>5, Zenon
<1>7. QED
  BY <1>1, <1>2, <1>3, <1>4, <1>5, <1>6, Zenon
     DEF TypeOK, Types, Sessions, Connected, Roster, Counters

(***************************************************************************)
(* Whatever is typed and lost, the room, the tabs and the connections hold *)
(* well-formed documents, operations and messages only, a tab edits only   *)
(* on a connection, and the room's clients are exactly the sites of the    *)
(* open ones (register, unregister).  A rune is any number.                *)
(***************************************************************************)
THEOREM TypeOKTheorem ==
  ASSUME Nat \subseteq Values
  PROVE  Spec => []TypeOK
<1>1. Init => Roster /\ Counters
  <2>1. Init => Roster
    BY Zenon DEF Init, Roster
  <2>2. Init => Counters
    BY EditsAssumption DEF Init, Counters
  <2>3. QED
    BY <2>1, <2>2, Zenon
<1>2. CInv /\ Roster /\ Counters /\ [Next]_vars => Roster' /\ Counters'
  BY RosterStep, CountersStep, Zenon
<1>3. CInv /\ Roster /\ Counters => TypeOK
  BY InvIsTyped, Zenon
<1>4. QED
  BY <1>1, <1>2, <1>3, CInvTheorem, PTL DEF Spec
=============================================================================
