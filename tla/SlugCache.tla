----------------------------- MODULE SlugCache -----------------------------
(***************************************************************************)
(* Which documents exist: the slug cache (internal/cache/cache.go), shared *)
(* by the editor page (internal/server/documents.go) and the hub           *)
(* (internal/realtime/hub.go), in front of the store.                      *)
(*                                                                         *)
(* SlugCache is two TTL caches, each with a lock of its own, so Lookup,    *)
(* SetExists and SetMissing take two steps each, and requests interleave   *)
(* between them.  A cache is a function from the slugs it holds to the     *)
(* time their entry has left; 0 is an expired entry not yet removed.       *)
(***************************************************************************)
EXTENDS Naturals, FiniteSets, Functions

CONSTANTS Slugs,
          Pages,       (* GET /d/{slug} requests, any number one by one    *)
          Sockets,     (* GET /ws/{slug} requests that find no room        *)
          FoundTTL, MissingTTL,
          MaxEntries   (* of each of the two caches                        *)

ASSUME TTLAssumption == {FoundTTL, MissingTTL, MaxEntries} \subseteq Nat \ {0}

VARIABLES documents,       (* slugs of the documents of the store          *)
          found, missing,  (* the two caches                               *)
          sweeping,        (* the sweepers run                             *)
          pc,              (* per request: where its handler is            *)
          slug             (* per request                                  *)

vars == <<documents, found, missing, sweeping, pc, slug>>

Requests == Pages \cup Sockets

Goto(r, label) == pc' = [pc EXCEPT ![r] = label]
-----------------------------------------------------------------------------
(***************************************************************************)
(* Cache: Get, Set, Delete, and removeExpiredLocked.                       *)
(***************************************************************************)
Live(cache, s) == s \in DOMAIN cache /\ cache[s] > 0

Delete(cache, s) == Restrict(cache, DOMAIN cache \ {s})

(* The entries Set may evict: those that expire first. *)
Oldest(cache) == {s \in DOMAIN cache : \A q \in DOMAIN cache : cache[s] <= cache[q]}

(* The cache without what Set evicts to make room for s. *)
Shrunk(cache, s) ==
  IF s \in DOMAIN cache \/ Cardinality(DOMAIN cache) < MaxEntries THEN {cache}
  ELSE {Delete(cache, oldest) : oldest \in Oldest(cache)}

(* Mutant: the size limit is compared with > instead of >=. *)
Set_OneTooMany(cache, s, ttl) ==
  {[q \in DOMAIN rest \cup {s} |-> IF q = s THEN ttl ELSE rest[q]] :
     rest \in IF Cardinality(DOMAIN cache) > MaxEntries THEN Shrunk(cache, s)
              ELSE {cache}}

Set(cache, s, ttl) ==
  {[q \in DOMAIN rest \cup {s} |-> IF q = s THEN ttl ELSE rest[q]] :
     rest \in Shrunk(cache, s)}

RemoveExpired(cache) == Restrict(cache, {s \in DOMAIN cache : cache[s] > 0})

Aged(cache) == [s \in DOMAIN cache |-> IF cache[s] = 0 THEN 0 ELSE cache[s] - 1]

Empty == [s \in {} |-> s]

Init == /\ documents = {}
        /\ found = Empty
        /\ missing = Empty
        /\ sweeping = TRUE
        /\ pc = [r \in Requests |-> "idle"]
        /\ slug \in [Requests -> Slugs]
-----------------------------------------------------------------------------
(***************************************************************************)
(* A request: handleEditorPage, or GetOrCreateRoom when there is no room.  *)
(***************************************************************************)
Begin(r) ==
  /\ pc[r] = "idle"
  /\ Goto(r, "lookup")
  /\ \E s \in Slugs : slug' = [slug EXCEPT ![r] = s]
  /\ UNCHANGED <<documents, found, missing, sweeping>>

(* The first half of Lookup.  The page is served at once, the hub has to   *)
(* load the document in any case.                                          *)
LookupFound(r) ==
  /\ pc[r] = "lookup"
  /\ Goto(r, IF ~Live(found, slug[r]) THEN "lookupMissing"
             ELSE IF r \in Pages THEN "idle" ELSE "load")
  /\ UNCHANGED <<documents, found, missing, sweeping, slug>>

(* Mutant: a hit refreshes the entry. *)
LookupMissing_Refreshes(r) ==
  /\ pc[r] = "lookupMissing"
  /\ Goto(r, IF Live(missing, slug[r]) THEN "idle" ELSE "load")
  /\ missing' = [s \in DOMAIN missing |-> IF s = slug[r] /\ Live(missing, s)
                                          THEN MissingTTL ELSE missing[s]]
  /\ UNCHANGED <<documents, found, sweeping, slug>>

(* The second half: a known negative result is answered with not found. *)
LookupMissing(r) ==
  /\ pc[r] = "lookupMissing"
  /\ Goto(r, IF Live(missing, slug[r]) THEN "idle" ELSE "load")
  /\ UNCHANGED <<documents, found, missing, sweeping, slug>>

(* Mutant: SetExists before the error is looked at. *)
LoadDocument_Unchecked(r) ==
  /\ pc[r] = "load"
  /\ Goto(r, "exists")
  /\ UNCHANGED <<documents, found, missing, sweeping, slug>>

LoadDocument(r) ==
  /\ pc[r] = "load"
  /\ Goto(r, IF slug[r] \in documents THEN "exists" ELSE "missing")
  /\ UNCHANGED <<documents, found, missing, sweeping, slug>>

(* Mutant: any error is taken for ErrDocumentNotFound. *)
LoadFails_CachedMissing(r) ==
  /\ pc[r] = "load"
  /\ Goto(r, "missing")
  /\ UNCHANGED <<documents, found, missing, sweeping, slug>>

(* Any other error is answered and not cached. *)
LoadFails(r) ==
  /\ pc[r] = "load"
  /\ Goto(r, "idle")
  /\ UNCHANGED <<documents, found, missing, sweeping, slug>>

(* SetExists: missing.Delete, then found.Set. *)
SetExists(r) ==
  \/ /\ pc[r] = "exists"
     /\ Goto(r, "setFound")
     /\ missing' = Delete(missing, slug[r])
     /\ UNCHANGED <<documents, found, sweeping, slug>>
  \/ /\ pc[r] = "setFound"
     /\ Goto(r, "idle")
     /\ found' \in Set(found, slug[r], FoundTTL)
     /\ UNCHANGED <<documents, missing, sweeping, slug>>

(* Mutant: the two TTLs are exchanged in NewSlugCache. *)
SetMissing_FoundTTL(r) ==
  \/ /\ pc[r] = "missing"
     /\ Goto(r, "setMissing")
     /\ found' = Delete(found, slug[r])
     /\ UNCHANGED <<documents, missing, sweeping, slug>>
  \/ /\ pc[r] = "setMissing"
     /\ Goto(r, "idle")
     /\ missing' \in Set(missing, slug[r], FoundTTL)
     /\ UNCHANGED <<documents, found, sweeping, slug>>

(* SetMissing: found.Delete, then missing.Set. *)
SetMissing(r) ==
  \/ /\ pc[r] = "missing"
     /\ Goto(r, "setMissing")
     /\ found' = Delete(found, slug[r])
     /\ UNCHANGED <<documents, missing, sweeping, slug>>
  \/ /\ pc[r] = "setMissing"
     /\ Goto(r, "idle")
     /\ missing' \in Set(missing, slug[r], MissingTTL)
     /\ UNCHANGED <<documents, found, sweeping, slug>>

Step(r) == \/ LookupFound(r) \/ LookupMissing(r)
           \/ LoadDocument(r) \/ LoadFails(r)
           \/ SetExists(r) \/ SetMissing(r)
-----------------------------------------------------------------------------
(* CreateDocument: a slug that is not taken, and no word to the cache. *)
CreateDocument ==
  /\ \E s \in Slugs \ documents : documents' = documents \cup {s}
  /\ UNCHANGED <<found, missing, sweeping, pc, slug>>

(* Time passes for what is still live. *)
Tick ==
  /\ \E s \in Slugs : Live(found, s) \/ Live(missing, s)
  /\ found' = Aged(found)
  /\ missing' = Aged(missing)
  /\ UNCHANGED <<documents, sweeping, pc, slug>>

(* sweepLoop of one cache or of the other. *)
Sweep ==
  /\ sweeping
  /\ \/ found' = RemoveExpired(found) /\ UNCHANGED missing
     \/ missing' = RemoveExpired(missing) /\ UNCHANGED found
  /\ UNCHANGED <<documents, sweeping, pc, slug>>

(* The caches still answer once they are closed. *)
Close ==
  /\ sweeping
  /\ sweeping' = FALSE
  /\ UNCHANGED <<documents, found, missing, pc, slug>>

Next == \/ \E r \in Requests : Begin(r) \/ Step(r)
        \/ CreateDocument
        \/ Tick
        \/ Sweep
        \/ Close

Spec == Init /\ [][Next]_vars

(***************************************************************************)
(* Fairness: handlers that have started go on, and time passes.  Nobody    *)
(* has to send requests, and the sweepers need not come.                   *)
(***************************************************************************)
FairSpec == Spec /\ WF_vars(Tick) /\ \A r \in Requests : WF_vars(Step(r))
-----------------------------------------------------------------------------
Labels == {"idle", "lookup", "lookupMissing", "load", "exists", "setFound",
           "missing", "setMissing"}

IsCache(cache, ttl) == /\ DOMAIN cache \subseteq Slugs
                       /\ cache \in [DOMAIN cache -> 0..ttl]

(* Type invariant of the store, the caches and the requests. *)
TypeOK == /\ documents \subseteq Slugs
          /\ IsCache(found, FoundTTL)
          /\ IsCache(missing, MissingTTL)
          /\ sweeping \in BOOLEAN
          /\ pc \in [Requests -> Labels]
          /\ slug \in [Requests -> Slugs]

(* Lookup answers that there is no such document. *)
Hidden(s) == ~Live(found, s) /\ Live(missing, s)

(* A handler has read the store before the document existed, or is going   *)
(* to say so.                                                              *)
StaleLoad(s) == \E r \in Requests :
                  slug[r] = s /\ pc[r] \in {"missing", "setMissing"}

(***************************************************************************)
(* The size limit of New holds for both caches, however many requests      *)
(* insert at the same time (Set).                                          *)
(***************************************************************************)
Bounded == /\ Cardinality(DOMAIN found) <= MaxEntries
           /\ Cardinality(DOMAIN missing) <= MaxEntries

(***************************************************************************)
(* A positive entry, or a handler on the way to make one, is about a       *)
(* document of the store: the editor page is never served for a slug that  *)
(* leads nowhere.                                                          *)
(***************************************************************************)
FoundExists ==
  /\ DOMAIN found \subseteq documents
  /\ \A r \in Requests : pc[r] \in {"exists", "setFound"} => slug[r] \in documents

(***************************************************************************)
(* Once a document exists, has no negative entry, and no handler from      *)
(* before its creation is under way, it is never hidden again, whatever    *)
(* expires, is evicted or fails to load.                                   *)
(***************************************************************************)
Settled(s) == s \in documents /\ ~Live(missing, s) /\ ~StaleLoad(s)

StaysSettled == [][\A s \in Slugs : Settled(s) => Settled(s)']_vars

(***************************************************************************)
(* Every document is found in the end, for good: a negative entry expires  *)
(* although requests keep asking for it.                                   *)
(***************************************************************************)
CreatedIsFound == \A s \in Slugs : s \in documents ~> []~Hidden(s)
=============================================================================
