---------------------------- MODULE RenameMerge ----------------------------
(***************************************************************************)
(* What a browser does at boot, and when "My keyboards" is listed, with    *)
(* the drafts that earlier releases left in localStorage: rows of one      *)
(* keyboard filed under an old and a new id are merged once                *)
(* (runBootRenameReconciliation), records without a row are adopted        *)
(* (reconcileProjectIndex).                                                *)
(*                                                                         *)
(* Each write to localStorage is a step of its own, because the tab may    *)
(* die between two of them; a tab that dies boots again.                   *)
(***************************************************************************)
EXTENDS Naturals, FiniteSets

CONSTANTS
    Keys,           \* keyboard ids
    Pending,        \* PENDING_PROJECT_KEY, the slot before instantiation
    None,           \* null: no record, no derived key, no candidate
    Broken,         \* a stored text that is not a readable envelope
    Times,          \* values of savedAt
    Profiles,       \* what earlier releases may have left in localStorage
    StorageMayFail  \* TRUE: localStorage.setItem may throw (quota)

Slots == Keys \cup {Pending}

\* Of an envelope: the key its own working copy derives to (None before
\* instantiation) and its time.
Envelope == [derived : Keys \cup {None}, savedAt : Times]
Statuses == {"none", "draft", "submitted"}

\* records: the `.v2` slots; legacy: the `.v1` slots, which this release only
\* reads and removes; rows: the index, "none" where a key has no row (the
\* pending slot never has one).
Storage == [records : [Slots -> Envelope \cup {None, Broken}],
            legacy : [Slots -> Envelope \cup {None, Broken}],
            rows : [Slots -> Statuses]]

ASSUME RenameMergeAssumption ==
    /\ Pending \notin Keys
    /\ None \notin Slots \cup Envelope
    /\ Broken \notin Envelope \cup {None}
    /\ Times \subseteq Nat
    /\ Profiles \subseteq {d \in Storage : d.rows[Pending] = "none"}
    /\ StorageMayFail \in BOOLEAN

VARIABLES
    disk,       \* localStorage: records and index
    reconciled, \* localStorage: the flag ks.draftIndex.renameReconciled.v1
    pc,         \* the step the tab is at
    todo,       \* rows, or records, that the pass has still to visit
    remaining,  \* remainingKeys: rows not merged away in this pass
    stale,      \* the row being visited
    candidate,  \* the link of the chain being looked at; then the survivor
    visited,    \* links of the chain seen so far
    found,      \* history: the storage as it was first found
    refused     \* history: the storage has refused a record or a row

vars == <<disk, reconciled, pc, todo, remaining, stale, candidate, visited,
          found, refused>>
walk == <<remaining, stale, candidate, visited>>
history == <<found, refused>>

-----------------------------------------------------------------------------
(* Reading and writing.                                                    *)

\* The current slot first, the legacy slot only when that one is empty.
Readable(d, k) ==
    LET raw == IF d.records[k] # None THEN d.records[k] ELSE d.legacy[k]
    IN  IF raw = Broken THEN None ELSE raw

DerivedKey(d, k) == IF Readable(d, k) = None THEN None ELSE Readable(d, k).derived

IsStale(d, k) == DerivedKey(d, k) \notin {None, k}

\* Some slot holds an envelope of an instantiated working copy.
Adoptable(d, k) ==
    \E e \in {d.records[k], d.legacy[k]} : e \notin {None, Broken} /\ e.derived # None

Indexed(d) == {k \in Slots : d.rows[k] # "none"}

StrongestStatus(a, b) == IF "submitted" \in {a, b} THEN "submitted" ELSE "draft"

\* The row of the survivor after the merge; a row that is missing counts as draft.
MergedStatus(d) == StrongestStatus(d.rows[candidate], d.rows[stale])

SurvivorStatus(d) == IF d.rows[candidate] = "submitted" THEN "submitted" ELSE "draft"

-----------------------------------------------------------------------------
Init ==
    /\ disk \in Profiles
    /\ reconciled = FALSE
    /\ pc = "closed"
    /\ todo = {} /\ remaining = {} /\ visited = {}
    /\ stale = None /\ candidate = None
    /\ found = disk /\ refused = FALSE

\* main.tsx: the pass runs before React mounts, unless the flag is set. With
\* fewer than two rows it merges nothing and sets the flag.
Boot ==
    /\ pc = "closed"
    /\ IF reconciled
       THEN pc' = "open" /\ UNCHANGED <<todo, remaining>>
       ELSE /\ pc' = "scan"
            /\ todo' = IF Cardinality(Indexed(disk)) < 2 THEN {} ELSE Indexed(disk)
            /\ remaining' = todo'
    /\ UNCHANGED <<disk, reconciled, stale, candidate, visited, history>>

VisitByName(k) ==
    /\ pc = "scan" /\ k \in todo
    /\ \/ /\ Readable(disk, k) # None
          /\ pc' = "chase"
          /\ stale' = k
          /\ candidate' \in todo \ {k}
          /\ visited' = {}
          /\ UNCHANGED todo
       \/ todo' = todo \ {k} /\ UNCHANGED <<pc, stale, candidate, visited>>
    /\ UNCHANGED <<disk, reconciled, remaining, history>>

\* The next row of the index; a row whose content belongs where it is filed,
\* or cannot be read, is left alone. Rows come in the order of the index,
\* which may be any: adopted rows are in the order of localStorage.
Visit(k) ==
    /\ pc = "scan" /\ k \in todo
    /\ IF IsStale(disk, k)
       THEN /\ pc' = "chase"
            /\ stale' = k
            /\ candidate' = DerivedKey(disk, k)
            /\ visited' = {}
            /\ UNCHANGED todo
       ELSE todo' = todo \ {k} /\ UNCHANGED <<pc, stale, candidate, visited>>
    /\ UNCHANGED <<disk, reconciled, remaining, history>>

NextRow ==
    /\ pc' = "scan"
    /\ todo' = todo \ {stale}
    /\ stale' = None /\ candidate' = None /\ visited' = {}

FollowWithoutTimes ==
    LET derived == DerivedKey(disk, candidate) IN
    /\ pc = "chase"
    /\ IF candidate \in remaining \ visited /\ derived = candidate
       THEN pc' = "relocate" /\ UNCHANGED <<todo, stale, candidate, visited>>
       ELSE NextRow
    /\ UNCHANGED <<disk, reconciled, remaining, history>>

FollowInCircles ==
    LET derived == DerivedKey(disk, candidate) IN
    /\ pc = "chase"
    /\ IF candidate \in remaining /\ derived \notin {None, candidate}
       THEN candidate' = derived /\ UNCHANGED <<pc, todo, stale, visited>>
       ELSE NextRow
    /\ UNCHANGED <<disk, reconciled, remaining, history>>

FollowNull ==
    LET derived == DerivedKey(disk, candidate) IN
    /\ pc = "chase"
    /\ IF candidate \in remaining \ visited /\ derived # candidate
       THEN /\ candidate' = derived
            /\ visited' = visited \cup {candidate}
            /\ UNCHANGED <<pc, todo, stale>>
       ELSE NextRow
    /\ UNCHANGED <<disk, reconciled, remaining, history>>

\* resolveSurvivorKey: one link of the chain per step, to the first key whose
\* own content belongs there; a cycle or a dead end merges nothing.
Follow ==
    LET derived == DerivedKey(disk, candidate) IN
    /\ pc = "chase"
    /\ \/ /\ candidate \notin remaining \/ candidate \in visited \/ derived = None
          /\ NextRow
       \/ /\ candidate \in remaining \ visited
          /\ derived \notin {None, candidate}
          /\ candidate' = derived
          /\ visited' = visited \cup {candidate}
          /\ UNCHANGED <<pc, todo, stale>>
       \/ /\ candidate \in remaining \ visited /\ derived = candidate
          /\ pc' = IF Readable(disk, stale).savedAt > Readable(disk, candidate).savedAt
                   THEN "relocate"
                   ELSE IF MergedStatus(disk) = "submitted" THEN "file" ELSE "erase"
          /\ UNCHANGED <<todo, stale, candidate, visited>>
    /\ UNCHANGED <<disk, reconciled, remaining, history>>

\* The stale row has the newer content: it moves under the survivor's key.
\* When it does not fit, nothing is merged.
Relocate ==
    /\ pc = "relocate"
    /\ \/ /\ disk' = [disk EXCEPT !.records[candidate] = Readable(disk, stale)]
          /\ pc' = "file"
          /\ UNCHANGED <<todo, stale, candidate, visited, refused>>
       \/ /\ StorageMayFail
          /\ refused' = TRUE
          /\ NextRow
          /\ UNCHANGED disk
    /\ UNCHANGED <<reconciled, remaining, found>>

FileWithoutStaleStatus ==
    /\ pc = "file"
    /\ disk' = [disk EXCEPT !.rows[candidate] = SurvivorStatus(disk)]
    /\ pc' = "erase"
    /\ UNCHANGED <<reconciled, todo, walk, history>>

\* upsertIndexEntry with the stronger status; a failed write is swallowed.
FileRow ==
    /\ pc = "file"
    /\ \/ /\ disk' = [disk EXCEPT !.rows[candidate] = MergedStatus(disk)]
          /\ UNCHANGED refused
       \/ /\ StorageMayFail
          /\ refused' = TRUE
          /\ UNCHANGED disk
    /\ pc' = "erase"
    /\ UNCHANGED <<reconciled, todo, walk, found>>

\* clearDraft(stale): the record, the legacy record, the row.
EraseRecord ==
    /\ pc = "erase"
    /\ disk' = [disk EXCEPT !.records[stale] = None]
    /\ pc' = "eraseLegacy"
    /\ UNCHANGED <<reconciled, todo, walk, history>>

EraseLegacy ==
    /\ pc = "eraseLegacy"
    /\ disk' = [disk EXCEPT !.legacy[stale] = None]
    /\ pc' = "eraseRow"
    /\ UNCHANGED <<reconciled, todo, walk, history>>

EraseRow ==
    /\ pc = "eraseRow"
    /\ disk' = [disk EXCEPT !.rows[stale] = "none"]
    /\ remaining' = remaining \ {stale}
    /\ NextRow
    /\ UNCHANGED <<reconciled, history>>

\* The pass is over: the flag is set (a failure is swallowed) and the app mounts.
SetFlag ==
    /\ pc = "scan" /\ todo = {}
    /\ \/ reconciled' = TRUE
       \/ StorageMayFail /\ UNCHANGED reconciled
    /\ pc' = "open"
    /\ remaining' = {}
    /\ UNCHANGED <<disk, todo, stale, candidate, visited, history>>

\* listDrafts: snapshot of the records that have no row ...
List ==
    /\ pc = "open"
    /\ pc' = "adopt"
    /\ todo' = Slots \ Indexed(disk)
    /\ UNCHANGED <<disk, reconciled, walk, history>>

\* ... and a draft row for each that can be resumed, except the pending slot.
\* The record itself is never touched.
Adopt(k) ==
    /\ pc = "adopt" /\ k \in todo
    /\ todo' = todo \ {k}
    /\ IF k # Pending /\ Adoptable(disk, k)
       THEN \/ disk' = [disk EXCEPT !.rows[k] = "draft"] /\ UNCHANGED refused
            \/ StorageMayFail /\ refused' = TRUE /\ UNCHANGED disk
       ELSE UNCHANGED <<disk, refused>>
    /\ UNCHANGED <<pc, reconciled, walk, found>>

Listed ==
    /\ pc = "adopt" /\ todo = {}
    /\ pc' = "open"
    /\ UNCHANGED <<disk, reconciled, todo, walk, history>>

\* The tab is closed or dies, between any two writes.
Close ==
    /\ pc # "closed"
    /\ pc' = "closed"
    /\ todo' = {} /\ remaining' = {} /\ visited' = {}
    /\ stale' = None /\ candidate' = None
    /\ UNCHANGED <<disk, reconciled, history>>

Next ==
    \/ Boot
    \/ \E k \in Keys : Visit(k)
    \/ Follow \/ Relocate \/ FileRow
    \/ EraseRecord \/ EraseLegacy \/ EraseRow
    \/ SetFlag
    \/ List \/ \E k \in Slots : Adopt(k)
    \/ Listed
    \/ Close

Spec == Init /\ [][Next]_vars

\* A pass is one synchronous handler: unless the tab dies it runs on.
Fairness ==
    WF_vars(\/ Boot \/ \E k \in Keys : Visit(k)
            \/ Follow \/ Relocate \/ FileRow
            \/ EraseRecord \/ EraseLegacy \/ EraseRow \/ SetFlag)

FairSpec == Spec /\ Fairness

-----------------------------------------------------------------------------
(* Correctness.                                                            *)

\* A set of ids is a family when no content found in the profile leads into
\* it or out of it: the ids one keyboard has gone through, and unions of such.
Family(G) ==
    \A k \in Keys : \A e \in {found.records[k], found.legacy[k]} :
        e \notin {None, Broken} /\ e.derived # None => (k \in G <=> e.derived \in G)

Families == {G \in SUBSET Keys : Family(G)}

\* Every variable holds a value of its kind, and a row is only chased or
\* merged while it is known which one.
TypeOK ==
    /\ disk \in Storage /\ found \in Storage
    /\ reconciled \in BOOLEAN
    /\ pc \in {"closed", "scan", "chase", "relocate", "file", "erase",
               "eraseLegacy", "eraseRow", "open", "adopt"}
    /\ todo \in SUBSET Slots
    /\ remaining \in SUBSET Slots /\ visited \in SUBSET Slots
    /\ refused \in BOOLEAN
    /\ stale \in Keys \cup {None} /\ candidate \in Keys \cup {None}
    /\ pc \in {"chase", "relocate", "file", "erase", "eraseLegacy", "eraseRow"}
          => stale # None /\ candidate # None

\* Merging keeps the newer content: for every draft that was readable, its
\* family still holds a draft at least as new, even if the tab dies half-way
\* or the storage is full.
NewestKept ==
    \A G \in Families : \A k \in G :
        Readable(found, k) # None =>
            \E j \in G : /\ Readable(disk, j) # None
                         /\ Readable(disk, j).savedAt >= Readable(found, k).savedAt

\* Two keyboards are never merged: what is stored under an id of one family was
\* found under an id of that family ("a wrong merge destroys an author's work").
FamiliesApart ==
    \A G \in Families : \A k \in G :
        disk.records[k] # None =>
            \E j \in G : disk.records[k] \in {found.records[j], found.legacy[j]}

\* A keyboard that was submitted under any of its ids is still submitted under
\* one of them ("a submission recorded under EITHER key must survive the merge"),
\* unless a write was refused: FileRow swallows that and the stale row goes.
SubmissionKept ==
    ~refused => \A G \in Families :
        (\E k \in G : found.rows[k] = "submitted")
            => \E j \in G : disk.rows[j] = "submitted"

\* The app mounts: no cycle of renamed rows keeps the chain walk, which runs
\* before React does, going for ever.
BootEnds == pc = "scan" ~> pc \in {"open", "closed"}
=============================================================================
