--------------------------- MODULE Collaboration ---------------------------
(***************************************************************************)
(* One document being edited: its room (internal/realtime/room.go) and the *)
(* browser tabs connected to it (web/assets/app.js, ws.js, crdt.js).       *)
(*                                                                         *)
(* The room owner handles one command at a time.  It applies an operation  *)
(* to its document and sends it on to every client but the sender; a tab   *)
(* has already applied what it sends.  A connection has a site of its own, *)
(* so a tab that reconnects writes under a new site, from a new snapshot.  *)
(* Between room and tab, each connection is two FIFO queues, up and down:  *)
(* websocket, readLoop and room queue on the way up; fan-out pool (one     *)
(* worker, the default), client queue, writeLoop and websocket on the way  *)
(* down.  The connection can be lost at any time, with whatever it carries.*)
(*                                                                         *)
(* Snapshots of the room are saved behind its back, and two saves later    *)
(* the room is asked to forget the tombstones of the earlier one.          *)
(***************************************************************************)
EXTENDS RgaOrder

CONSTANTS Tabs,                 (* the open browser tabs                   *)
          Sites,                (* the sites newSiteID can draw            *)
          NoSite,               (* the site of a tab with no connection    *)
          SnapshotOpThreshold,  (* operations after which to snapshot      *)
          MaxEdits,             (* bound: input events                     *)
          MaxPaste,             (* bound: runes one input event types      *)
          MaxSnapshots          (* bound: snapshots saved                  *)

ASSUME SitesAssumption == Sites \subseteq Nat \ {0} /\ NoSite \notin Sites

ASSUME EditsAssumption == MaxEdits \in Nat

VARIABLES chars,             (* the room's document                        *)
          opsSinceSnapshot,
          clients,           (* sites of the clients of the room           *)
          compactions,       (* commandCompact commands of the room        *)
          site,              (* per tab: the site of its connection        *)
          ready,             (* per tab: synced, so the editor is enabled  *)
          doc,               (* per tab: documentState                     *)
          nextCounter,       (* per tab                                    *)
          editor,            (* per tab: editor.value, a sequence of runes *)
          up, down,          (* per site: what its connection carries      *)
          used,              (* sites drawn so far                         *)
          edits, typed,      (* input events and runes typed so far        *)
          pendingSnapshot,   (* {} or {tombstones of the queued snapshot}  *)
          previousTombs,     (* tombstones of the last saved snapshot      *)
          saved,             (* tombstones of every saved snapshot         *)
          purged             (* characters compaction has removed          *)

room == <<chars, opsSinceSnapshot, clients, compactions>>
tabs == <<site, ready, doc, nextCounter, editor>>
links == <<up, down, used>>
typing == <<edits, typed>>
snapshots == <<pendingSnapshot, previousTombs, saved>>
vars == <<room, tabs, links, typing, snapshots, purged>>

SyncMsg(d) == [type |-> "sync", snapshot |-> d]
OpMsg(op) == [type |-> "op", op |-> op]
ErrorMsg == [type |-> "error"]

(* documentState.text(): the runes of the visible characters. *)
RunesOf(d, visible) == [i \in DOMAIN visible |-> d[visible[i]].value]

Runes(d) == RunesOf(d, Text(d))
-----------------------------------------------------------------------------
Init ==
  /\ chars = New
  /\ opsSinceSnapshot = 0
  /\ clients = {}
  /\ compactions = <<>>
  /\ site = [t \in Tabs |-> NoSite]
  /\ ready = [t \in Tabs |-> FALSE]
  /\ doc = [t \in Tabs |-> New]
  /\ nextCounter = [t \in Tabs |-> 1]
  /\ editor = [t \in Tabs |-> <<>>]
  /\ up = [s \in Sites |-> <<>>]
  /\ down = [s \in Sites |-> <<>>]
  /\ used = {}
  /\ edits = 0
  /\ typed = 0
  /\ pendingSnapshot = {}
  /\ previousTombs = {}
  /\ saved = <<>>
  /\ purged = {}
-----------------------------------------------------------------------------
(***************************************************************************)
(* The connection.                                                         *)
(***************************************************************************)
(* newSiteID: 128 random bits, never drawn twice. *)
FreshSites == Sites \ used

(* A tab opens a connection, says hello and is registered: the sync message *)
(* with the room's snapshot is the first one of its queue.                  *)
Register(t) ==
  /\ site[t] = NoSite
  /\ \E s \in FreshSites \ clients :
       /\ site' = [site EXCEPT ![t] = s]
       /\ used' = used \cup {s}
       /\ clients' = clients \cup {s}
       /\ down' = [down EXCEPT ![s] = <<SyncMsg(SnapshotChars(chars))>>]
  /\ UNCHANGED <<chars, opsSinceSnapshot, compactions, ready, doc, nextCounter,
                 editor, up, typing, snapshots, purged>>

(* Mutant: what had already been read is lost, the rest arrives. *)
CloseLink_LosesOldest(s) ==
  /\ down' = [down EXCEPT ![s] = <<>>]
  /\ \E n \in 0..Len(up[s]) : up' = [up EXCEPT ![s] = SubSeq(@, n + 1, Len(@))]

(* The connection is closed: readLoop, writeLoop and pingLoop end.  The tab *)
(* sees no more of down, the room what had already been read of up.         *)
CloseLink(s) ==
  /\ down' = [down EXCEPT ![s] = <<>>]
  /\ \E n \in 0..Len(up[s]) : up' = [up EXCEPT ![s] = SubSeq(@, 1, n)]

(* The command comes behind the operations already read, but nobody reads  *)
(* what the room sends meanwhile: it is as if the room knew at once.       *)
Unregister(s) == clients' = clients \ {s}

(* onClose disables the editor until the sync of the next connection.      *)
CloseTab(t) ==
  /\ site' = [site EXCEPT ![t] = NoSite]
  /\ ready' = [ready EXCEPT ![t] = FALSE]

(* The network or either side closes the connection: a tab that goes away,  *)
(* a client too slow for its queue, a write or ping that times out.         *)
Disconnect(t) ==
  /\ site[t] # NoSite
  /\ CloseLink(site[t])
  /\ Unregister(site[t])
  /\ CloseTab(t)
  /\ UNCHANGED <<chars, opsSinceSnapshot, compactions, doc, nextCounter, editor,
                 used, typing, snapshots, purged>>
-----------------------------------------------------------------------------
(***************************************************************************)
(* The tab.                                                                *)
(***************************************************************************)
Message(t) == Head(down[site[t]])

TakeMessage(t, type) ==
  /\ site[t] # NoSite
  /\ down[site[t]] # <<>>
  /\ Message(t).type = type
  /\ down' = [down EXCEPT ![site[t]] = Tail(@)]

ReceiveSync(t) ==
  /\ TakeMessage(t, "sync")
  /\ doc' = [doc EXCEPT ![t] = Message(t).snapshot]
  /\ nextCounter' = [nextCounter EXCEPT ![t] = 1]
  /\ editor' = [editor EXCEPT ![t] = Runes(doc'[t])]
  /\ ready' = [ready EXCEPT ![t] = TRUE]
  /\ UNCHANGED <<room, site, up, used, typing, snapshots, purged>>

(* An operation the replica refuses only sets the status line. *)
ReceiveOp(t) ==
  /\ TakeMessage(t, "op")
  /\ LET op == Message(t).op
     IN  /\ doc' = [doc EXCEPT ![t] = BrowserApply(@, op)]
         /\ editor' = [editor EXCEPT ![t] = IF BrowserAccepts(doc[t], op)
                                            THEN Runes(doc'[t]) ELSE @]
  /\ UNCHANGED <<room, site, ready, nextCounter, up, used, typing, snapshots,
                 purged>>

ReceiveError(t) ==
  /\ TakeMessage(t, "error")
  /\ UNCHANGED <<room, tabs, up, used, typing, snapshots, purged>>

(* createTextOperations: the common prefix and suffix of the two texts are *)
(* kept, the visible characters between them are deleted, and the runes    *)
(* between them inserted as a chain from the character before the prefix's *)
(* end, all with the right anchor that followed it.                        *)
Prefix(previous, next) ==
  CHOOSE n \in 0..Len(previous) :
    /\ n <= Len(next)
    /\ \A i \in 1..n : previous[i] = next[i]
    /\ n < Len(previous) /\ n < Len(next) => previous[n + 1] # next[n + 1]

Suffix(previous, next, prefix) ==
  CHOOSE n \in 0..(Len(previous) - prefix) :
    /\ n <= Len(next) - prefix
    /\ \A i \in 0..(n - 1) :
         previous[Len(previous) - i] = next[Len(next) - i]
    /\ n < Len(previous) - prefix /\ n < Len(next) - prefix =>
         previous[Len(previous) - n] # next[Len(next) - n]

(* Mutant: leftID = id is assigned before the operation is built. *)
InsertChain_SelfAnchored(s, counter, runes, left, right) ==
  [i \in 1..Len(runes) |->
     [type |-> "insert", id |-> [siteID |-> s, counter |-> counter + i - 1],
      value |-> runes[i], rightID |-> right,
      leftID |-> IF i = 1 THEN left
                 ELSE [siteID |-> s, counter |-> counter + i - 1]]]

InsertChain(s, counter, runes, left, right) ==
  [i \in 1..Len(runes) |->
     [type |-> "insert", id |-> [siteID |-> s, counter |-> counter + i - 1],
      value |-> runes[i], rightID |-> right,
      leftID |-> IF i = 1 THEN left
                 ELSE [siteID |-> s, counter |-> counter + i - 2]]]

CreateTextOperations(visible, previous, next, s, counter) ==
  LET prefix == Prefix(previous, next)
      suffix == Suffix(previous, next, prefix)
      removed == SubSeq(visible, prefix + 1, Len(previous) - suffix)
      added == SubSeq(next, prefix + 1, Len(next) - suffix)
      left == IF prefix = 0 THEN NoID ELSE visible[prefix]
      right == IF prefix = Len(visible) THEN NoID ELSE visible[prefix + 1]
  IN  [operations |-> [i \in DOMAIN removed |-> DeleteOf(removed[i])]
                      \o InsertChain(s, counter, added, left, right),
       nextCounter |-> counter + Len(added)]

(* The document after each operation of a batch. *)
ApplyBatch(d, ops) ==
  LET after[n \in 0..Len(ops)] ==
        IF n = 0 THEN d ELSE BrowserApply(after[n - 1], ops[n])
  IN  after

(* What editor.value can be after one edit of it: k runes from position p  *)
(* replaced by m new ones.  Every rune typed is a new one, as equal runes  *)
(* would only make the same text of different edits.                       *)
Spliced(text, p, k, m) ==
  SubSeq(text, 1, p) \o [i \in 1..m |-> typed + i] \o SubSeq(text, p + k + 1, Len(text))

EditedTexts(text) ==
  {Spliced(text, e[1], e[2], e[3]) :
     e \in {x \in (0..Len(text)) \X (0..Len(text)) \X (0..MaxPaste) :
              x[1] + x[2] <= Len(text) /\ x[2] + x[3] > 0}}

(* The input handler runs to completion: no message is handled between the *)
(* operations of one event.  It does not write editor.value.               *)
Input(t) ==
  /\ ready[t]
  /\ edits < MaxEdits
  /\ LET visible == Text(doc[t])
         renderedText == RunesOf(doc[t], visible)
     IN  \E next \in EditedTexts(editor[t]) :
           LET made == CreateTextOperations(visible, renderedText, next, site[t],
                                            nextCounter[t])
               ops == made.operations
           IN  /\ editor' = [editor EXCEPT ![t] = next]
               /\ doc' = [doc EXCEPT ![t] = ApplyBatch(@, ops)[Len(ops)]]
               /\ nextCounter' = [nextCounter EXCEPT ![t] = made.nextCounter]
               /\ up' = [up EXCEPT ![site[t]] = @ \o ops]
               /\ typed' = typed + (made.nextCounter - nextCounter[t])
  /\ edits' = edits + 1
  /\ UNCHANGED <<room, site, ready, down, used, snapshots, purged>>
-----------------------------------------------------------------------------
(***************************************************************************)
(* The room.                                                               *)
(***************************************************************************)
(* EnqueueSnapshot replaces the queued snapshot; it answers FALSE when its *)
(* signal finds no place in the writer's queue.                            *)
RequestSnapshot(n) ==
  IF n = 0 THEN opsSinceSnapshot' = n /\ UNCHANGED pendingSnapshot
  ELSE /\ pendingSnapshot' = {Tombstones(SnapshotChars(chars'))}
       /\ opsSinceSnapshot' \in {0, n}

(* Mutant: a client that is behind misses the message but stays. *)
Receivers_UpToDate(s) == {r \in clients \ {s} : down[r] = <<>>}

(* broadcast(data, sender) *)
Receivers(s) == clients \ {s}

AcceptOperation(s) ==
  /\ up[s] # <<>>
  /\ LET op == Head(up[s])
     IN  /\ Accepts(chars, op)
         /\ chars' = Apply(chars, op)
         /\ down' = [r \in Sites |-> IF r \in Receivers(s)
                                     THEN Append(down[r], OpMsg(op))
                                     ELSE down[r]]
  /\ up' = [up EXCEPT ![s] = Tail(@)]
  /\ IF opsSinceSnapshot + 1 >= SnapshotOpThreshold
     THEN RequestSnapshot(opsSinceSnapshot + 1)
     ELSE /\ opsSinceSnapshot' = opsSinceSnapshot + 1
          /\ UNCHANGED pendingSnapshot
  /\ UNCHANGED <<clients, compactions, tabs, used, typing, previousTombs, saved,
                 purged>>

(* A closed client cannot be told. *)
RejectOperation(s) ==
  /\ up[s] # <<>>
  /\ ~Accepts(chars, Head(up[s]))
  /\ up' = [up EXCEPT ![s] = Tail(@)]
  /\ down' = [down EXCEPT ![s] = IF s \in clients THEN Append(@, ErrorMsg) ELSE @]
  /\ UNCHANGED <<room, tabs, used, typing, snapshots, purged>>

SnapshotTick ==
  /\ Len(saved) < MaxSnapshots
  /\ opsSinceSnapshot > 0
  /\ UNCHANGED chars
  /\ RequestSnapshot(opsSinceSnapshot)
  /\ UNCHANGED <<clients, compactions, tabs, links, typing, previousTombs, saved,
                 purged>>

ApplyCompaction ==
  /\ compactions # <<>>
  /\ chars' = Compact(chars, Head(compactions))
  /\ compactions' = Tail(compactions)
  /\ purged' = purged \cup (DOMAIN chars \ DOMAIN chars')
  /\ UNCHANGED <<opsSinceSnapshot, clients, tabs, links, typing, snapshots>>
-----------------------------------------------------------------------------
(***************************************************************************)
(* The writer, as far as the room can tell.                                *)
(***************************************************************************)
(* Mutant: the tombstones of the snapshot just saved are compacted. *)
CompactIDs_Current(tombs) == tombs

(* The tombstones SnapshotSaved passes on when tombs are those of the      *)
(* snapshot just saved.                                                    *)
CompactIDs(tombs) == previousTombs

(* SnapshotSaved and submitCompaction: the command is dropped when the     *)
(* queue of the room is full.                                              *)
SubmitCompaction(ids) ==
  compactions' \in IF ids = {} THEN {compactions}
                   ELSE {compactions, Append(compactions, ids)}

(* flushSnapshots *)
SaveSnapshot ==
  /\ Len(saved) < MaxSnapshots
  /\ \E tombs \in pendingSnapshot :
       /\ previousTombs' = tombs
       /\ saved' = Append(saved, tombs)
       /\ SubmitCompaction(CompactIDs(tombs))
  /\ pendingSnapshot' = {}
  /\ UNCHANGED <<chars, opsSinceSnapshot, clients, tabs, links, typing, purged>>

(* SaveSnapshot of the store returned an error: the snapshot is dropped. *)
SaveSnapshotFails ==
  /\ pendingSnapshot # {}
  /\ pendingSnapshot' = {}
  /\ UNCHANGED <<room, tabs, links, typing, previousTombs, saved, purged>>
-----------------------------------------------------------------------------
Next ==
  \/ \E t \in Tabs : \/ Register(t)
                     \/ Disconnect(t)
                     \/ ReceiveSync(t)
                     \/ ReceiveOp(t)
                     \/ ReceiveError(t)
                     \/ Input(t)
  \/ \E s \in Sites : AcceptOperation(s) \/ RejectOperation(s)
  \/ SnapshotTick
  \/ ApplyCompaction
  \/ SaveSnapshot
  \/ SaveSnapshotFails

Spec == Init /\ [][Next]_vars
-----------------------------------------------------------------------------
IsOperation(op) == op \in Operation

IsMessage(m) ==
  \/ DOMAIN m = {"type", "snapshot"} /\ m.type = "sync" /\ IsDocument(m.snapshot)
  \/ DOMAIN m = {"type", "op"} /\ m.type = "op" /\ IsOperation(m.op)
  \/ m = ErrorMsg

(* Type invariant of the room, the tabs, the connections and the writer;   *)
(* a tab is ready only on a connection, and only its site is a client.     *)
TypeOK ==
  /\ IsDocument(chars)
  /\ opsSinceSnapshot \in Nat
  /\ clients = {site[t] : t \in Tabs} \ {NoSite}
  /\ \A i \in DOMAIN compactions : compactions[i] \subseteq CharID
  /\ site \in [Tabs -> used \cup {NoSite}]
  /\ ready \in [Tabs -> BOOLEAN]
  /\ \A t \in Tabs : ready[t] => site[t] # NoSite
  /\ \A t \in Tabs : IsDocument(doc[t])
  /\ nextCounter \in [Tabs -> Nat \ {0}]
  /\ \A t \in Tabs : \A i \in DOMAIN editor[t] : editor[t][i] \in Values
  /\ \A s \in Sites : /\ \A i \in DOMAIN up[s] : IsOperation(up[s][i])
                      /\ \A i \in DOMAIN down[s] : IsMessage(down[s][i])
  /\ used \subseteq Sites
  /\ edits \in 0..MaxEdits /\ typed \in Nat
  /\ \A tombs \in pendingSnapshot \cup {previousTombs} : tombs \subseteq CharID
  /\ purged \subseteq CharID

(* The tab is synced and its connection carries nothing. *)
Quiet(t) == ready[t] /\ up[site[t]] = <<>> /\ down[site[t]] = <<>>

(***************************************************************************)
(* Once nothing is under way, a tab shows exactly the room's document,     *)
(* whatever was typed at the same time, whichever connections broke, and   *)
(* whenever the tab joined (register, broadcast, handleEnvelope).          *)
(***************************************************************************)
Convergence == purged = {} => \A t \in Tabs : Quiet(t) => doc[t] = chars

(***************************************************************************)
(* As long as nothing was compacted, no operation is refused: the room     *)
(* accepts what every tab sends, also from a connection that is gone, and  *)
(* every tab accepts what it is sent ("Sync error" is never shown).        *)
(***************************************************************************)
NoRefusal ==
  purged = {} =>
    /\ \A s \in Sites : up[s] # <<>> => Accepts(chars, Head(up[s]))
    /\ \A t \in Tabs :
         ready[t] /\ down[site[t]] # <<>> /\ Message(t).type = "op"
           => BrowserAccepts(doc[t], Message(t).op)

(***************************************************************************)
(* Whatever the user does next to the text of the editor, the tab's own    *)
(* replica accepts every operation createTextOperations makes of it: the   *)
(* loop of the input handler never throws between two sends.               *)
(***************************************************************************)
LocalEditsApply ==
  \A t \in Tabs : ready[t] =>
    LET visible == Text(doc[t])
        renderedText == RunesOf(doc[t], visible)
    IN  \A next \in EditedTexts(editor[t]) :
          LET ops == CreateTextOperations(visible, renderedText, next, site[t],
                                          nextCounter[t]).operations
              after == ApplyBatch(doc[t], ops)
          IN  \A i \in 1..Len(ops) : BrowserAccepts(after[i - 1], ops[i])

(***************************************************************************)
(* The snapshot that sync messages and the store carry restores the        *)
(* characters reached from the root when it is replayed, and lists each of *)
(* them once: left anchors come before what hangs on them, also when       *)
(* anchors form a cycle or compaction took some away.                      *)
(***************************************************************************)
SnapshotReplays ==
  /\ ReplaySnapshot(chars, Snapshot(chars)) = {SnapshotChars(chars)}
  /\ Len(Snapshot(chars)) = Cardinality(Reachable(chars))

(***************************************************************************)
(* Compaction or not, a tab with nothing under way has every character     *)
(* the room would put in a snapshot, with the same content and flag.       *)
(***************************************************************************)
RoomTextReachesTabs ==
  \A t \in Tabs : Quiet(t) =>
    \A id \in Reachable(chars) : id \in DOMAIN doc[t] /\ doc[t][id] = chars[id]

(***************************************************************************)
(* A character that was deleted in the room is never visible there again,  *)
(* not even after compaction forgot that it was deleted.                   *)
(***************************************************************************)
DeadStaysDead ==
  [][\A id \in Tombstones(chars) \cup purged :
       id \in DOMAIN chars' => chars'[id].deleted]_vars

(***************************************************************************)
(* What compaction removes was a tombstone in a snapshot saved before the  *)
(* last one (the grace window of flushSnapshots).                          *)
(***************************************************************************)
GraceWindow ==
  \A id \in purged : \E i \in 1..(Len(saved) - 1) : id \in saved[i]
-----------------------------------------------------------------------------
(***************************************************************************)
(* docs/gopad-spec.md: the two anchors prevent "a local middle insertion   *)
(* from being reordered".  When an input event has been handled, the text  *)
(* area shows the document, so the next event is compared with what the    *)
(* user really sees.                                                       *)
(***************************************************************************)
EditorShowsDocument == \A t \in Tabs : ready[t] => editor[t] = Runes(doc[t])

(***************************************************************************)
(* docs/gopad-v1-implementation-plan.md: Text() "is byte-identical before  *)
(* and after compaction".                                                  *)
(***************************************************************************)
TextSurvivesCompaction == [][ApplyCompaction => Text(chars') = Text(chars)]_vars
=============================================================================
