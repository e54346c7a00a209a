-------------------------- MODULE CloudSyncProofs --------------------------
(***************************************************************************)
(* Proofs about CloudSync for every number of keyboard ids, saves and      *)
(* requests in flight. All copies of a draft form one line, none behind    *)
(* the one before it: the server's row, the requests in flight, the local  *)
(* record. In whatever order requests are served, the line is broken only  *)
(* by a request that a later one has overtaken. When they are served one   *)
(* by one nothing is overtaken, and the content of the rows, the cards and *)
(* the hash of the sync follow.                                            *)
(***************************************************************************)
EXTENDS CloudSync, SequenceTheorems, TLAPS

IsPut(i, k) == i \in DOMAIN net /\ net[i].op = "put" /\ net[i].key = k

\* Nothing is newer than the clock.
SavedInThePast ==
    /\ \A k \in Keys : local.records[k] # None => local.records[k].at <= clock
    /\ \A k \in Keys : blob[k] # None => blob[k].at <= clock
    /\ \A k \in Keys : row[k] # None => row[k].draft.at <= clock
    /\ \A i \in DOMAIN net : net[i].op = "put" => net[i].draft.at <= clock

\* The requests in flight are in line with each other.
QueueInLine ==
    \A k \in Keys, i \in DOMAIN net, j \in DOMAIN net :
        IsPut(i, k) /\ IsPut(j, k) /\ i < j => ~Behind(net[j], net[i])

\* They are in line behind the row, unless a later one has been there.
RowInLine ==
    \A k \in Keys, i \in DOMAIN net :
        IsPut(i, k) /\ ~net[i].overtaken /\ row[k] # None => ~Behind(net[i], row[k])

\* The local record is not behind any of them.
LocalIsLatest ==
    \A k \in Keys : local.records[k] # None =>
        /\ row[k] # None => ~Behind(OwnCopy(k), row[k])
        /\ blob[k] # None => blob[k].at <= local.records[k].at
        /\ \A i \in DOMAIN net : IsPut(i, k) => ~Behind(OwnCopy(k), net[i])

\* What holds in whatever order requests are served.
Ordered == SavedInThePast /\ QueueInLine /\ RowInLine /\ LocalIsLatest

\* One request is served at a time, and overtakes none.
OneServed == \A i \in DOMAIN net : ~net[i].overtaken /\ (i # 1 => net[i].phase = "sent")

\* What the request being served has written so far.
HeadWritten ==
    net # <<>> /\ net[1].phase = "half" =>
        IF net[1].op = "put" THEN blob[net[1].key] = net[1].draft
                             ELSE row[net[1].key] = None

\* The requests in flight are in line behind the content.
BlobInLine ==
    \A k \in Keys, i \in DOMAIN net :
        IsPut(i, k) /\ blob[k] # None => blob[k].at <= net[i].draft.at

\* What holds when requests are served one by one.
Line == Ordered /\ OneServed /\ HeadWritten /\ BlobInLine

Inv == TypeOK /\ Line /\ ListingHasContent

-----------------------------------------------------------------------------
(* Types.                                                                  *)

Local == [records : [Keys -> Draft \cup {None}],
          submitted : SUBSET Keys,
          active : Keys \cup {None}]

\* None is no draft, no row and no working copy.
LEMMA NoneIsNothing ==
    None \notin Keys /\ None \notin Draft /\ None \notin Row /\ None \notin WorkingCopy
BY CloudSyncAssumption, CloudSyncNoneAssumption

\* Saving, clearing and discarding map a local store to a local store.
LEMMA SaveType ==
    ASSUME NEW d \in Local, NEW k \in Keys, NEW c \in WorkingCopy, NEW now \in Times
    PROVE  Save(d, k, c, now) \in Local
<1> DEFINE n == [work |-> c.work, name |-> c.name, at |-> now]
<1>1. n \in Draft
  BY DEF WorkingCopy, Draft
<1>2. [d.records EXCEPT ![k] = n] \in [Keys -> Draft \cup {None}]
  BY <1>1 DEF Local
<1> QED BY <1>2 DEF Save, Local

LEMMA ClearDraftType ==
    ASSUME NEW d \in Local, NEW k \in Keys
    PROVE  ClearDraft(d, k) \in Local
BY DEF ClearDraft, Local

LEMMA DiscardType ==
    ASSUME NEW d \in Local
    PROVE  Discard(d) \in Local
<1>1. CASE d.active = None
  BY <1>1 DEF Discard, Local
<1>2. CASE d.active # None
  <2>1. d.active \in Keys
    BY <1>2 DEF Local
  <2>2. ClearDraft(d, d.active) \in Local
    BY <2>1, ClearDraftType
  <2> QED BY <1>2, <2>2 DEF Discard, Local
<1> QED BY <1>1, <1>2

\* So does mounting an autosave.
LEMMA InstallType ==
    ASSUME NEW d \in Local, NEW c \in WorkingCopy \cup {None}, NEW now \in Times
    PROVE  Install(d, c, now) \in Local
<1> DEFINE k == IF c = None THEN None ELSE c.name
           pinned == [d EXCEPT !.active = k]
           saved == IF c = None THEN pinned ELSE Save(pinned, k, c, now)
<1>1. k \in Keys \cup {None}
  BY DEF WorkingCopy
<1>2. pinned \in Local
  BY <1>1 DEF Local
<1>3. saved \in Local
  <2>1. CASE c = None
    BY <2>1, <1>2
  <2>2. CASE c # None
    <3>1. k \in Keys /\ c \in WorkingCopy
      BY <2>2 DEF WorkingCopy
    <3>2. Save(pinned, k, c, now) \in Local
      BY <1>2, <3>1, SaveType
    <3> QED BY <2>2, <3>2
  <2> QED BY <2>1, <2>2
<1>4. CASE d.active \in {None, k}
  BY <1>3, <1>4 DEF Install
<1>5. CASE d.active \notin {None, k}
  <2>1. d.active \in Keys
    BY <1>5 DEF Local
  <2>2. ClearDraft(saved, d.active) \in Local
    BY <1>3, <2>1, ClearDraftType
  <2> QED BY <1>5, <2>2 DEF Install
<1> QED BY <1>4, <1>5

\* What a boot or a resume loads is a working copy.
LEMMA LoadType ==
    ASSUME NEW d \in Local, NEW k \in Keys \cup {None}
    PROVE  Load(d, k) \in WorkingCopy \cup {None}
<1>1. CASE k = None \/ d.records[k] = None
  BY <1>1 DEF Load
<1>2. CASE ~(k = None \/ d.records[k] = None)
  <2>1. d.records[k] \in Draft
    BY <1>2 DEF Local
  <2>2. [work |-> d.records[k].work, name |-> d.records[k].name] \in WorkingCopy
    BY <2>1 DEF Draft, WorkingCopy
  <2> QED BY <1>2, <2>2 DEF Load
<1> QED BY <1>1, <1>2

\* The requests the browser sends.
LEMMA PutRequestType ==
    ASSUME NEW d \in Local, NEW k \in Keys, d.records[k] # None,
           NEW status \in Statuses, NEW tracked \in BOOLEAN
    PROVE  PutRequest(d, k, status, tracked) \in Request
<1>1. d.records[k] \in Draft
  BY DEF Local
<1> QED BY <1>1 DEF PutRequest, Request, Puts, Phases

LEMMA DeleteRequestType ==
    ASSUME NEW k \in Keys
    PROVE  DeleteRequest(k) \in Request
BY DEF DeleteRequest, Request, Deletes, Phases

LEMMA FlushType ==
    ASSUME NEW q \in Seq(Request), NEW d \in Local, NEW pushed, NEW tracked \in BOOLEAN
    PROVE  Flush(q, d, pushed, tracked) \in Seq(Request)
<1>1. CASE \/ d.active = None \/ d.active \in d.submitted
           \/ d.records[d.active] = None \/ d.records[d.active].at = pushed
  BY <1>1 DEF Flush
<1>2. CASE ~(\/ d.active = None \/ d.active \in d.submitted
             \/ d.records[d.active] = None \/ d.records[d.active].at = pushed)
  <2>1. d.active \in Keys
    BY <1>2 DEF Local
  <2>2. StatusOf(d, d.active) \in Statuses
    BY DEF StatusOf, Statuses
  <2>3. PutRequest(d, d.active, StatusOf(d, d.active), tracked) \in Request
    BY <1>2, <2>1, <2>2, PutRequestType
  <2> QED BY <1>2, <2>3 DEF Flush
<1> QED BY <1>1, <1>2

LEMMA UntrackType ==
    ASSUME NEW q \in Seq(Request)
    PROVE  /\ Untrack(q) \in Seq(Request)
           /\ Len(Untrack(q)) = Len(q)
           /\ \A i \in 1..Len(q) : Untrack(q)[i] = [q[i] EXCEPT !.tracked = FALSE]
<1>1. \A i \in 1..Len(q) : [q[i] EXCEPT !.tracked = FALSE] \in Request
  <2> SUFFICES ASSUME NEW i \in 1..Len(q)
               PROVE  [q[i] EXCEPT !.tracked = FALSE] \in Request
    OBVIOUS
  <2>1. q[i] \in Puts \/ q[i] \in Deletes
    BY DEF Request
  <2>2. CASE q[i] \in Puts
    BY <2>2 DEF Puts, Request
  <2>3. CASE q[i] \in Deletes
    BY <2>3 DEF Deletes, Request
  <2> QED BY <2>1, <2>2, <2>3
<1>2. Untrack(q) = [i \in 1..Len(q) |-> [q[i] EXCEPT !.tracked = FALSE]]
  BY DEF Untrack
<1> QED BY <1>1, <1>2

\* Two requests say the same; they are served alike, too.
SameMessage(a, b) ==
    /\ a.op = b.op
    /\ a.key = b.key
    /\ a.draft = b.draft
    /\ a.status = b.status

SameRequest(a, b) == SameMessage(a, b) /\ a.phase = b.phase /\ a.overtaken = b.overtaken

\* A request that is answered or dies leaves the others in their order:
\* where the j-th request after request i has gone was before.
Before(i, j) == IF j < i THEN j ELSE j + 1

LEMMA RemoveAtType ==
    ASSUME NEW q \in Seq(Request), NEW i \in 1..Len(q)
    PROVE  /\ RemoveAt(q, i) \in Seq(Request)
           /\ Len(RemoveAt(q, i)) = Len(q) - 1
           /\ \A j \in 1..(Len(q) - 1) : RemoveAt(q, i)[j] = q[Before(i, j)]
<1> DEFINE before == SubSeq(q, 1, i - 1)
           after == SubSeq(q, i + 1, Len(q))
<1>1. Len(q) \in Nat /\ i \in Nat /\ 1 <= i /\ i <= Len(q)
  OBVIOUS
<1>2. /\ before \in Seq(Request)
      /\ Len(before) = i - 1
      /\ \A j \in 1..(i - 1) : before[j] = q[j]
  <2>1. \A j \in 1..(i - 1) : q[j] \in Request
    BY <1>1
  <2>2. /\ before \in Seq(Request)
        /\ Len(before) = IF 1 <= i - 1 THEN (i - 1) - 1 + 1 ELSE 0
        /\ \A j \in 1..((i - 1) - 1 + 1) : before[j] = q[1 + j - 1]
    BY <1>1, <2>1, SubSeqProperties
  <2> HIDE DEF before
  <2> QED BY <1>1, <2>2
<1>3. /\ after \in Seq(Request)
      /\ Len(after) = Len(q) - i
      /\ \A j \in 1..(Len(q) - i) : after[j] = q[i + j]
  <2>1. \A j \in (i + 1)..Len(q) : q[j] \in Request
    BY <1>1
  <2>2. /\ after \in Seq(Request)
        /\ Len(after) = IF i + 1 <= Len(q) THEN Len(q) - (i + 1) + 1 ELSE 0
        /\ \A j \in 1..(Len(q) - (i + 1) + 1) : after[j] = q[(i + 1) + j - 1]
    BY <1>1, <2>1, SubSeqProperties
  <2> HIDE DEF after
  <2>3. \A j \in 1..(Len(q) - i) : (i + 1) + j - 1 = i + j
    BY <1>1
  <2> QED BY <1>1, <2>2, <2>3
<1>4. RemoveAt(q, i) = before \o after
  BY DEF RemoveAt
<1> HIDE DEF before, after
<1>5. /\ before \o after \in Seq(Request)
      /\ Len(before \o after) = Len(before) + Len(after)
      /\ \A j \in 1..(Len(before) + Len(after)) : (before \o after)[j] =
            IF j <= Len(before) THEN before[j] ELSE after[j - Len(before)]
  BY <1>2, <1>3, ConcatProperties
<1>6. Len(before) + Len(after) = Len(q) - 1
  BY <1>1, <1>2, <1>3
<1>7. ASSUME NEW j \in 1..(Len(q) - 1)
      PROVE  (before \o after)[j] = q[Before(i, j)]
  <2>1. CASE j < i
    <3>1. j \in 1..(i - 1) /\ j <= Len(before)
      BY <1>1, <1>2, <2>1
    <3>2. (before \o after)[j] = before[j]
      BY <1>5, <1>6, <3>1
    <3> QED BY <1>2, <2>1, <3>1, <3>2 DEF Before
  <2>2. CASE ~(j < i)
    <3>1. /\ j - (i - 1) \in 1..(Len(q) - i)
          /\ i + (j - (i - 1)) = j + 1
          /\ ~(j <= Len(before))
      BY <1>1, <1>2, <2>2
    <3>2. (before \o after)[j] = after[j - Len(before)]
      BY <1>5, <1>6, <3>1
    <3>3. after[j - (i - 1)] = q[i + (j - (i - 1))]
      BY <1>3, <3>1
    <3> QED BY <1>2, <2>2, <3>1, <3>2, <3>3 DEF Before
  <2> QED BY <2>1, <2>2
<1> QED BY <1>4, <1>5, <1>6, <1>7

-----------------------------------------------------------------------------
(* Every handler and every step of the API keeps the types.                *)

LEMMA InitType == Init => TypeOK
<1> SUFFICES ASSUME Init PROVE TypeOK
  OBVIOUS
<1>1. local \in [records : [Keys -> Draft \cup {None}], submitted : SUBSET Keys,
                 active : Keys \cup {None}]
  BY DEF Init
<1>2. net \in Seq(Request)
  BY DEF Init
<1>3. lastPushed \in 0..MaxSaves /\ clock \in 0..MaxSaves
  BY CloudSyncAssumption DEF Init
<1> QED BY <1>1, <1>2, <1>3 DEF Init, TypeOK, Pages, Bases

\* A tick is a time at which a save can be made.
LEMMA TickType ==
    ASSUME TypeOK, Tick
    PROVE  clock' \in Times /\ clock' \in 0..MaxSaves /\ clock' = clock + 1
BY CloudSyncAssumption DEF TypeOK, Tick, Times

\* The screens.
LEMMA ScreenTypes ==
    ASSUME TypeOK, OpenSurvey \/ OpenOutput \/ LeavePage \/ Unload \/ BeforeUnload \/ Crash
    PROVE  TypeOK'
<1>1. local \in Local /\ net \in Seq(Request) /\ live \in WorkingCopy \cup {None}
  BY DEF TypeOK, Local
<1>2. Load(local, local.active) \in WorkingCopy \cup {None}
  BY <1>1, LoadType DEF Local
<1>3. lastPushed \in 0..MaxSaves /\ 0 \in 0..MaxSaves
  BY CloudSyncAssumption DEF TypeOK
<1>4. CASE OpenSurvey
  <2>1. clock' \in Times /\ clock' \in 0..MaxSaves
    BY <1>4, TickType DEF OpenSurvey
  <2>2. local' \in Local
    BY <1>1, <1>4, <2>1, InstallType DEF OpenSurvey
  <2>3. net' \in Seq(Request)
    BY <1>1, <1>4, <2>2, FlushType DEF OpenSurvey
  <2> QED BY <1>3, <1>4, <2>1, <2>2, <2>3 DEF OpenSurvey, TypeOK, Local, Pages, server, Bases
<1>5. CASE OpenOutput
  <2>1. clock' \in Times /\ clock' \in 0..MaxSaves
    BY <1>5, TickType DEF OpenOutput
  <2>2. local' \in Local
    BY <1>1, <1>5, <2>1, InstallType DEF OpenOutput
  <2> QED BY <1>5, <2>1, <2>2 DEF OpenOutput, TypeOK, Local, Pages, server
<1>6. CASE LeavePage
  <2>1. net' \in Seq(Request)
    BY <1>1, <1>6, UntrackType DEF LeavePage, SyncEnds
  <2> QED BY <1>3, <1>6, <2>1 DEF LeavePage, SyncEnds, TypeOK, Pages, server, Bases
<1>7. CASE Unload
  <2>1. Flush(net, local, lastPushed, FALSE) \in Seq(Request)
    BY <1>1, FlushType
  <2>2. net' \in Seq(Request)
    BY <1>1, <1>7, <2>1, UntrackType DEF Unload, SyncEnds
  <2> QED BY <1>2, <1>3, <1>7, <2>2 DEF Unload, SyncEnds, TypeOK, Pages, server, Bases
<1>8. CASE Crash
  <2>1. net' \in Seq(Request)
    BY <1>1, <1>8, UntrackType DEF Crash, SyncEnds
  <2> QED BY <1>2, <1>3, <1>8, <2>1 DEF Crash, SyncEnds, TypeOK, Pages, server, Bases
<1>9. CASE BeforeUnload
  <2>1. Flush(net, local, lastPushed, FALSE) \in Seq(Request)
    BY <1>1, FlushType
  <2>2. net' # net => local.active \in Keys /\ local.records[local.active] \in Draft
    BY <1>1, <1>9 DEF BeforeUnload, Flush, Local
  <2>3. net' # net => local.records[local.active].at \in 0..MaxSaves
    BY <2>2, CloudSyncAssumption DEF Draft, Times
  <2>4. lastPushed' \in 0..MaxSaves
    BY <1>3, <1>9, <2>3 DEF BeforeUnload
  <2> QED BY <1>9, <2>1, <2>4 DEF BeforeUnload, TypeOK, server, Bases
<1> QED BY <1>4, <1>5, <1>6, <1>7, <1>8, <1>9

\* The sync and the author's edits.
LEMMA EditingTypes ==
    ASSUME TypeOK,
           \/ SyncTimerFires \/ Hide \/ Edit \/ EditElsewhere
           \/ \E k \in Keys : CommitBase(k) \/ RenameInSurvey(k) \/ RenameOnOutput(k)
    PROVE  TypeOK'
<1>1. local \in Local /\ net \in Seq(Request) /\ live \in WorkingCopy \cup {None}
  BY DEF TypeOK, Local
<1>2. local.active \in Keys \cup {None}
  BY <1>1 DEF Local
<1>3. Flush(net, local, lastPushed, TRUE) \in Seq(Request)
  BY <1>1, FlushType
<1>4. CASE SyncTimerFires
  BY <1>3, <1>4 DEF SyncTimerFires, TypeOK, server
<1>5. CASE Hide
  BY <1>3, <1>5 DEF Hide, TypeOK, server
<1>6. CASE Edit
  <2>1. clock' \in Times /\ clock' \in 0..MaxSaves
    BY <1>6, TickType DEF Edit
  <2>2. local' \in Local
    BY <1>1, <1>2, <1>6, <2>1, SaveType DEF Edit, Editing
  <2> QED BY <1>6, <2>1, <2>2 DEF Edit, TypeOK, Local, server
<1>7. CASE EditElsewhere
  <2>1. clock' \in Times /\ clock' \in 0..MaxSaves
    BY <1>7, TickType DEF EditElsewhere
  <2>2. local' \in Local
    BY <1>1, <1>2, <1>7, <2>1, SaveType DEF EditElsewhere, Editing
  <2> QED BY <1>7, <2>1, <2>2 DEF EditElsewhere, TypeOK, Local, server
<1>8. ASSUME NEW k \in Keys, CommitBase(k)
      PROVE  TypeOK'
  <2>1. clock' \in Times /\ clock' \in 0..MaxSaves
    BY <1>8, TickType DEF CommitBase
  <2>2. live' \in WorkingCopy
    BY <1>1, <1>8, <2>1 DEF CommitBase, WorkingCopy
  <2>3. local' \in Local
    BY <1>1, <1>8, <2>1, <2>2, InstallType DEF CommitBase
  <2> QED BY <1>8, <2>1, <2>2, <2>3 DEF CommitBase, TypeOK, Local, server
<1>9. ASSUME NEW k \in Keys, RenameInSurvey(k)
      PROVE  TypeOK'
  <2>1. clock' \in Times /\ clock' \in 0..MaxSaves
    BY <1>9, TickType DEF RenameInSurvey
  <2>2. live' \in WorkingCopy
    BY <1>1, <1>9 DEF RenameInSurvey, Editing, WorkingCopy
  <2>3. local' \in Local
    BY <1>1, <1>2, <1>9, <2>1, <2>2, SaveType DEF RenameInSurvey, Editing
  <2> QED BY <1>9, <2>1, <2>2, <2>3 DEF RenameInSurvey, TypeOK, Local, server
<1>10. ASSUME NEW k \in Keys, RenameOnOutput(k)
       PROVE  TypeOK'
  <2>1. clock' \in Times /\ clock' \in 0..MaxSaves
    BY <1>10, TickType DEF RenameOnOutput
  <2>2. live' \in WorkingCopy
    BY <1>1, <1>10 DEF RenameOnOutput, WorkingCopy
  <2>3. local' \in Local
    BY <1>1, <1>10, <2>1, <2>2, InstallType DEF RenameOnOutput
  <2> QED BY <1>10, <2>1, <2>2, <2>3 DEF RenameOnOutput, TypeOK, Local, server
<1> QED BY <1>4, <1>5, <1>6, <1>7, <1>8, <1>9, <1>10

\* The handlers of a whole project.
LEMMA ProjectTypes ==
    ASSUME TypeOK,
           \/ \E k \in Keys : Resume(k) \/ DeleteProject(k)
           \/ StartOver \/ StartFreshSession \/ Publish
    PROVE  TypeOK'
<1>1. local \in Local /\ net \in Seq(Request) /\ live \in WorkingCopy \cup {None}
  BY DEF TypeOK, Local
<1>2. local.active \in Keys \cup {None}
  BY <1>1 DEF Local
<1>3. Discard(local) \in Local
  BY <1>1, DiscardType
<1>4. ASSUME NEW k \in Keys, Resume(k)
      PROVE  TypeOK'
  <2>1. live' \in WorkingCopy \cup {None}
    BY <1>1, <1>4, LoadType DEF Resume
  <2> QED BY <1>1, <1>4, <2>1 DEF Resume, TypeOK, Local, server
<1>5. ASSUME NEW k \in Keys, DeleteProject(k)
      PROVE  TypeOK'
  <2>1. ClearDraft(local, k) \in Local
    BY <1>1, ClearDraftType
  <2>2. local' \in Local
    BY <1>5, <2>1 DEF DeleteProject, Local
  <2>3. net' \in Seq(Request)
    BY <1>1, <1>5, DeleteRequestType DEF DeleteProject
  <2> QED BY <1>5, <2>2, <2>3 DEF DeleteProject, TypeOK, Local, server
<1>6. CASE StartOver
  <2>1. net' \in Seq(Request)
    BY <1>1, <1>2, <1>6, DeleteRequestType DEF StartOver
  <2> QED BY <1>3, <1>6, <2>1 DEF StartOver, TypeOK, Local, server
<1>7. CASE StartFreshSession
  BY <1>3, <1>7 DEF StartFreshSession, TypeOK, Local, server
<1>8. CASE Publish
  <2> DEFINE k == local.active
             marked == [local EXCEPT !.submitted = @ \cup {k}]
             request == PutRequest(marked, k, "submitted", FALSE)
  <2>1. k \in Keys /\ local.records[k] # None
    BY <1>2, <1>8 DEF Publish
  <2>2. marked \in Local /\ marked.records[k] # None
    BY <1>1, <2>1 DEF Local
  <2>3. request \in Request
    BY <2>1, <2>2, PutRequestType DEF Statuses
  <2>4. net' \in Seq(Request)
    <3>1. net' = Append(net, request)
      BY <1>8 DEF Publish
    <3> HIDE DEF request
    <3> QED BY <1>1, <2>3, <3>1
  <2>5. local' \in Local
    BY <1>8, <2>2 DEF Publish, Local
  <2> QED BY <1>8, <2>4, <2>5 DEF Publish, TypeOK, Local, server
<1> QED BY <1>4, <1>5, <1>6, <1>7, <1>8

\* A request moves on, is overtaken or loses its client.
LEMMA RequestChanges ==
    ASSUME NEW r \in Request
    PROVE  /\ [r EXCEPT !.phase = IF @ = "sent" THEN "half" ELSE "done"] \in Request
           /\ [r EXCEPT !.tracked = FALSE] \in Request
           /\ [r EXCEPT !.overtaken = TRUE] \in Request
<1>1. CASE r \in Puts
  BY <1>1 DEF Puts, Request, Phases
<1>2. CASE r \in Deletes
  BY <1>2 DEF Deletes, Request, Phases
<1> QED BY <1>1, <1>2 DEF Request

LEMMA AdvancedType ==
    ASSUME net \in Seq(Request), NEW i \in 1..Len(net)
    PROVE  /\ Advanced(i) \in Seq(Request)
           /\ Len(Advanced(i)) = Len(net)
           /\ \A j \in 1..Len(net) : j # i => Advanced(i)[j] = net[j]
           /\ SameMessage(Advanced(i)[i], net[i])
           /\ Advanced(i)[i].overtaken = net[i].overtaken
           /\ Advanced(i)[i].phase = IF net[i].phase = "sent" THEN "half" ELSE "done"
<1> DEFINE r == [net[i] EXCEPT !.phase = IF @ = "sent" THEN "half" ELSE "done"]
<1>1. net[i] \in Request
  OBVIOUS
<1>2. r \in Request
  BY <1>1, RequestChanges
<1>3. Advanced(i) = [net EXCEPT ![i] = r]
  BY DEF Advanced
<1>4. /\ SameMessage(r, net[i]) /\ r.overtaken = net[i].overtaken
      /\ r.phase = IF net[i].phase = "sent" THEN "half" ELSE "done"
  BY <1>1 DEF SameMessage, Request, Puts, Deletes
<1> HIDE DEF r
<1> QED BY <1>2, <1>3, <1>4

LEMMA OvertakenType ==
    ASSUME NEW q \in Seq(Request), NEW i \in 1..Len(q)
    PROVE  /\ Overtaken(q, i) \in Seq(Request)
           /\ Len(Overtaken(q, i)) = Len(q)
           /\ \A j \in 1..Len(q) :
                 /\ SameMessage(Overtaken(q, i)[j], q[j])
                 /\ Overtaken(q, i)[j].phase = q[j].phase
                 /\ IF j < i /\ q[j].key = q[i].key
                    THEN Overtaken(q, i)[j].overtaken
                    ELSE Overtaken(q, i)[j] = q[j]
<1> DEFINE o(j) == IF j < i /\ q[j].key = q[i].key
                  THEN [q[j] EXCEPT !.overtaken = TRUE] ELSE q[j]
<1>1. ASSUME NEW j \in 1..Len(q)
      PROVE  /\ o(j) \in Request
             /\ SameMessage(o(j), q[j])
             /\ o(j).phase = q[j].phase
             /\ IF j < i /\ q[j].key = q[i].key THEN o(j).overtaken ELSE o(j) = q[j]
  <2>1. q[j] \in Request
    OBVIOUS
  <2>2. [q[j] EXCEPT !.overtaken = TRUE] \in Request
    BY <2>1, RequestChanges
  <2>3. /\ SameMessage([q[j] EXCEPT !.overtaken = TRUE], q[j])
        /\ [q[j] EXCEPT !.overtaken = TRUE].phase = q[j].phase
        /\ [q[j] EXCEPT !.overtaken = TRUE].overtaken
    BY <2>1 DEF SameMessage, Request, Puts, Deletes
  <2> QED BY <2>1, <2>2, <2>3 DEF SameMessage
<1>2. Overtaken(q, i) = [j \in 1..Len(q) |-> o(j)]
  BY DEF Overtaken
<1> HIDE DEF o
<1> QED BY <1>1, <1>2

\* What a write of request i changes in the queue.
LEMMA WritesMove ==
    ASSUME TypeOK, NEW i \in DOMAIN net,
           net' = Advanced(i) \/ net' = Overtaken(Advanced(i), i)
    PROVE  /\ net' \in Seq(Request)
           /\ DOMAIN net' = DOMAIN net
           /\ \A j \in DOMAIN net : SameMessage(net'[j], net[j])
           /\ \A j \in DOMAIN net : j # i => net'[j].phase = net[j].phase
           /\ net'[i].phase = IF net[i].phase = "sent" THEN "half" ELSE "done"
           /\ \A j \in DOMAIN net : ~net'[j].overtaken => ~net[j].overtaken
           /\ \A j \in DOMAIN net : i = 1 /\ ~net[j].overtaken => ~net'[j].overtaken
           /\ net' = Overtaken(Advanced(i), i) =>
                 \A j \in DOMAIN net : j < i /\ net[j].key = net[i].key => net'[j].overtaken
           /\ \A k, j : IsPut(j, k)' <=> IsPut(j, k)
<1> DEFINE a == Advanced(i)
           o == Overtaken(a, i)
<1>1. net \in Seq(Request) /\ DOMAIN net = 1..Len(net) /\ Len(net) \in Nat /\ i \in 1..Len(net)
  BY DEF TypeOK
<1>2. /\ a \in Seq(Request) /\ Len(a) = Len(net)
      /\ \A j \in 1..Len(net) : j # i => a[j] = net[j]
      /\ SameMessage(a[i], net[i])
      /\ a[i].overtaken = net[i].overtaken
      /\ a[i].phase = IF net[i].phase = "sent" THEN "half" ELSE "done"
  BY <1>1, AdvancedType
<1>3. \A j \in 1..Len(net) : /\ SameMessage(a[j], net[j])
                             /\ a[j].overtaken = net[j].overtaken
  BY <1>2 DEF SameMessage
<1> HIDE DEF a
<1>4. /\ o \in Seq(Request) /\ Len(o) = Len(a)
      /\ \A j \in 1..Len(a) :
            /\ SameMessage(o[j], a[j])
            /\ o[j].phase = a[j].phase
            /\ IF j < i /\ a[j].key = a[i].key THEN o[j].overtaken ELSE o[j] = a[j]
  BY <1>1, <1>2, OvertakenType
<1>5. /\ \A j \in 1..Len(net) : SameMessage(o[j], net[j]) /\ o[j].phase = a[j].phase
      /\ \A j \in 1..Len(net) : j < i /\ net[j].key = net[i].key => o[j].overtaken
      /\ \A j \in 1..Len(net) : ~o[j].overtaken => ~net[j].overtaken
      /\ i = 1 => \A j \in 1..Len(net) : o[j].overtaken = net[j].overtaken
  BY <1>1, <1>2, <1>3, <1>4 DEF SameMessage
<1>6. net' = a \/ net' = o
  BY DEF a
<1>7. net' = Overtaken(Advanced(i), i) => net' = o
  BY DEF a
<1> HIDE DEF o
<1>8. /\ net' \in Seq(Request) /\ Len(net') = Len(net)
      /\ \A j \in 1..Len(net) : SameMessage(net'[j], net[j])
  BY <1>2, <1>3, <1>4, <1>5, <1>6
<1>9. /\ \A j \in 1..Len(net) : j # i => net'[j].phase = net[j].phase
      /\ net'[i].phase = IF net[i].phase = "sent" THEN "half" ELSE "done"
  BY <1>1, <1>2, <1>5, <1>6
<1>10. /\ \A j \in 1..Len(net) : ~net'[j].overtaken => ~net[j].overtaken
       /\ \A j \in 1..Len(net) : i = 1 /\ ~net[j].overtaken => ~net'[j].overtaken
  BY <1>3, <1>5, <1>6
<1>11. DOMAIN net' = DOMAIN net
  BY <1>1, <1>8
<1>12. \A k, j : IsPut(j, k)' <=> IsPut(j, k)
  BY <1>1, <1>8, <1>11 DEF IsPut, SameMessage
<1> QED BY <1>1, <1>5, <1>7, <1>8, <1>9, <1>10, <1>11, <1>12

\* The API and the network.
LEMMA ServiceTypes ==
    ASSUME TypeOK, NEW i \in 1..MaxInFlight,
           ServerStep(i) \/ RequestDies(i) \/ AnswerLost(i)
    PROVE  TypeOK'
<1>1. net \in Seq(Request) /\ DOMAIN net = 1..Len(net)
  BY DEF TypeOK
<1>2. i \in 1..Len(net) /\ net[i] \in Request
  BY <1>1 DEF ServerStep, RequestDies, AnswerLost, WriteBlob, WriteRow, Answer, Turn, Served
<1>3. /\ net[i].key \in Keys
      /\ net[i].draft \in Draft \cup {None}
      /\ net[i].op = "put" \/ net[i].op = "delete"
      /\ net[i].op = "put" => [draft |-> net[i].draft, status |-> net[i].status] \in Row
      /\ net[i].tracked => net[i].draft.at \in Times
  <2>1. CASE net[i] \in Puts
    BY <2>1 DEF Puts, Row, Draft
  <2>2. CASE net[i] \in Deletes
    BY <2>2 DEF Deletes
  <2> QED BY <1>2, <2>1, <2>2 DEF Request
<1>4. CASE WriteBlob(i)
  <2>1. blob' \in [Keys -> Draft \cup {None}]
    BY <1>3, <1>4 DEF WriteBlob, TypeOK
  <2>2. net' \in Seq(Request)
    BY <1>1, <1>2, <1>4, WritesMove DEF WriteBlob
  <2> QED BY <1>4, <2>1, <2>2 DEF WriteBlob, ClientKeeps, TypeOK
<1>5. CASE WriteRow(i)
  <2>1. row' \in [Keys -> Row \cup {None}]
    BY <1>3, <1>5 DEF WriteRow, TypeOK
  <2>2. net' \in Seq(Request)
    BY <1>1, <1>2, <1>5, WritesMove DEF WriteRow
  <2> QED BY <1>5, <2>1, <2>2 DEF WriteRow, ClientKeeps, TypeOK
<1>6. CASE Answer(i)
  <2>1. net' \in Seq(Request)
    BY <1>1, <1>2, <1>6, RemoveAtType DEF Answer
  <2>2. lastPushed' \in 0..MaxSaves
    BY <1>3, <1>6, CloudSyncAssumption DEF Answer, TypeOK, Times
  <2> QED BY <1>6, <2>1, <2>2 DEF Answer, TypeOK, server, Bases
<1>7. CASE RequestDies(i)
  <2>1. net' \in Seq(Request)
    BY <1>1, <1>2, <1>7, RemoveAtType DEF RequestDies
  <2> QED BY <1>7, <2>1 DEF RequestDies, TypeOK, server, Bases
<1>8. CASE AnswerLost(i)
  <2> DEFINE r == [net[i] EXCEPT !.tracked = FALSE]
  <2>1. r \in Request
    BY <1>2, RequestChanges
  <2>2. net' = [net EXCEPT ![i] = r]
    BY <1>1, <1>8 DEF AnswerLost
  <2>3. net' \in Seq(Request)
    <3> HIDE DEF r
    <3> QED BY <1>1, <1>2, <2>1, <2>2
  <2> QED BY <1>8, <2>3 DEF AnswerLost, ClientKeeps, TypeOK, server
<1> QED BY <1>4, <1>5, <1>6, <1>7, <1>8 DEF ServerStep

\* Every step keeps the types.
LEMMA NextType ==
    ASSUME TypeOK, [Next]_vars
    PROVE  TypeOK'
<1>1. CASE Next
  BY <1>1, ScreenTypes, EditingTypes, ProjectTypes, ServiceTypes DEF Next
<1>2. CASE UNCHANGED vars
  BY <1>2 DEF vars, TypeOK
<1> QED BY <1>1, <1>2

\* Every reachable state of the sync, the requests and the server is well
\* typed: no request without a key, no put without content, no row without
\* a draft, however requests are lost and reordered.
THEOREM CloudTypeCorrect == Spec => []TypeOK
<1>1. Init => TypeOK
  BY InitType
<1>2. TypeOK /\ [Next]_vars => TypeOK'
  BY NextType
<1> QED BY <1>1, <1>2, PTL DEF Spec

-----------------------------------------------------------------------------
(* What the browser does to the line: it files newer records or none, and  *)
(* sends what it has filed.                                                *)

\* Store e files under k what store d does not.
Saved(d, e, k) == e.records[k] \notin {None, d.records[k]}

\* Store e refiles store d between two clock readings: it keeps drafts,
\* clears them, and saves at most one.
Refiled(d, e, now, later) ==
    /\ \A k \in Keys :
          \/ e.records[k] = None
          \/ e.records[k] = d.records[k] /\ (k \in d.submitted => k \in e.submitted)
          \/ Saved(d, e, k) /\ e.records[k].at = later /\ now < later /\ k \notin d.submitted
    /\ \A k, l \in Keys : Saved(d, e, k) /\ Saved(d, e, l) => k = l

\* A request that store d has just sent.
Fresh(r, d) ==
    /\ r.phase = "sent" /\ ~r.overtaken
    /\ r.op = "put" =>
          /\ d.records[r.key] # None
          /\ r.draft = d.records[r.key]
          /\ r.status = StatusOf(d, r.key)
    /\ r.op = "delete" => d.records[r.key] = None

\* Queue q is queue p, perhaps with one request of store d behind it.
Grows(p, q, d) ==
    /\ Len(q) = Len(p) \/ Len(q) = Len(p) + 1
    /\ \A i \in 1..Len(p) : SameRequest(q[i], p[i])
    /\ \A i \in 1..Len(q) : i > Len(p) => Fresh(q[i], d)

\* The hash of the sync is forgotten, kept, or stands for the record that a
\* beacon has just taken along.
Remembers ==
    \/ lastPushed' = 0
    \/ lastPushed' = lastPushed /\ basis' = basis
    \/ /\ basis' = "beacon"
       /\ \E k \in Keys, i \in DOMAIN net' :
             /\ local'.records[k] # None
             /\ local'.records[k].at = lastPushed'
             /\ IsPut(i, k)'
             /\ net'[i].draft = local'.records[k]

ClientStep ==
    /\ UNCHANGED server
    /\ clock <= clock'
    /\ Refiled(local, local', clock, clock')
    /\ Grows(net, net', local')
    /\ Remembers

\* Saving, clearing and discarding refile a store.
LEMMA RefiledSame ==
    ASSUME NEW d, NEW now, NEW later
    PROVE  Refiled(d, d, now, later)
BY DEF Refiled, Saved

LEMMA SaveRefiles ==
    ASSUME NEW d \in Local, NEW k \in Keys, NEW c \in WorkingCopy,
           NEW now \in Nat, NEW later \in Times, now < later
    PROVE  Refiled(d, Save(d, k, c, later), now, later)
<1>1. CASE k \in d.submitted
  BY <1>1 DEF Save, Refiled, Saved
<1>2. CASE k \notin d.submitted
  <2> DEFINE n == [work |-> c.work, name |-> c.name, at |-> later]
  <2>1. n # None
    BY NoneIsNothing DEF WorkingCopy, Draft
  <2>2. /\ Save(d, k, c, later).records = [d.records EXCEPT ![k] = n]
        /\ Save(d, k, c, later).submitted = d.submitted
    BY <1>2 DEF Save, Local
  <2>3. n.at = later
    OBVIOUS
  <2> HIDE DEF n
  <2>4. \A l \in Keys : l # k => Save(d, k, c, later).records[l] = d.records[l]
    BY <2>2 DEF Local
  <2>5. Save(d, k, c, later).records[k] = n
    BY <2>2 DEF Local
  <2> QED BY <1>2, <2>1, <2>2, <2>3, <2>4, <2>5 DEF Refiled, Saved
<1> QED BY <1>1, <1>2

LEMMA ClearRefiles ==
    ASSUME NEW d \in Local, NEW e \in Local, NEW k \in Keys,
           NEW now, NEW later, Refiled(d, e, now, later)
    PROVE  Refiled(d, ClearDraft(e, k), now, later)
<1>1. /\ ClearDraft(e, k).records = [e.records EXCEPT ![k] = None]
      /\ ClearDraft(e, k).submitted = e.submitted \ {k}
  BY DEF ClearDraft, Local
<1> QED BY <1>1 DEF Refiled, Saved, Local

LEMMA DiscardRefiles ==
    ASSUME NEW d \in Local, NEW now, NEW later
    PROVE  Refiled(d, Discard(d), now, later)
<1>1. CASE d.active = None
  BY <1>1 DEF Discard, Local, Refiled, Saved
<1>2. CASE d.active # None
  <2>1. d.active \in Keys
    BY <1>2 DEF Local
  <2>2. Refiled(d, ClearDraft(d, d.active), now, later)
    BY <2>1, RefiledSame, ClearRefiles
  <2>3. /\ Discard(d).records = ClearDraft(d, d.active).records
        /\ Discard(d).submitted = ClearDraft(d, d.active).submitted
    BY <1>2, <2>1, ClearDraftType DEF Discard, Local
  <2> QED BY <2>2, <2>3 DEF Refiled, Saved
<1> QED BY <1>1, <1>2

LEMMA InstallRefiles ==
    ASSUME NEW d \in Local, NEW c \in WorkingCopy \cup {None},
           NEW now \in Nat, NEW later \in Times, now < later
    PROVE  Refiled(d, Install(d, c, later), now, later)
<1> DEFINE k == IF c = None THEN None ELSE c.name
           pinned == [d EXCEPT !.active = k]
           saved == IF c = None THEN pinned ELSE Save(pinned, k, c, later)
<1>1. /\ pinned \in Local
      /\ pinned.records = d.records
      /\ pinned.submitted = d.submitted
  BY DEF Local, WorkingCopy
<1>2. saved \in Local /\ Refiled(d, saved, now, later)
  <2>1. CASE c = None
    BY <1>1, <2>1 DEF Refiled, Saved
  <2>2. CASE c # None
    <3>1. k \in Keys /\ c \in WorkingCopy
      BY <2>2 DEF WorkingCopy
    <3>2. Save(pinned, k, c, later) \in Local
      BY <1>1, <3>1, SaveType
    <3>3. Refiled(pinned, Save(pinned, k, c, later), now, later)
      BY <1>1, <3>1, SaveRefiles
    <3> QED BY <1>1, <2>2, <3>2, <3>3 DEF Refiled, Saved
  <2> QED BY <2>1, <2>2
<1>3. CASE d.active \in {None, k}
  BY <1>2, <1>3 DEF Install
<1>4. CASE d.active \notin {None, k}
  <2>1. d.active \in Keys
    BY <1>4 DEF Local
  <2>2. Refiled(d, ClearDraft(saved, d.active), now, later)
    BY <1>2, <2>1, ClearRefiles
  <2> QED BY <1>4, <2>2 DEF Install
<1> QED BY <1>3, <1>4

\* Sending appends a fresh request, a lost client changes none.
LEMMA GrowsSame ==
    ASSUME NEW p \in Seq(Request), NEW d
    PROVE  Grows(p, p, d)
BY DEF Grows, SameRequest, SameMessage

LEMMA AppendGrows ==
    ASSUME NEW p \in Seq(Request), NEW d, NEW r \in Request, Fresh(r, d)
    PROVE  Grows(p, Append(p, r), d)
BY DEF Grows, SameRequest, SameMessage

LEMMA FlushGrows ==
    ASSUME NEW p \in Seq(Request), NEW d \in Local, NEW pushed, NEW tracked \in BOOLEAN
    PROVE  Grows(p, Flush(p, d, pushed, tracked), d)
<1> DEFINE r == PutRequest(d, d.active, StatusOf(d, d.active), tracked)
<1>1. CASE \/ d.active = None \/ d.active \in d.submitted
           \/ d.records[d.active] = None \/ d.records[d.active].at = pushed
  BY <1>1, GrowsSame DEF Flush
<1>2. CASE ~(\/ d.active = None \/ d.active \in d.submitted
             \/ d.records[d.active] = None \/ d.records[d.active].at = pushed)
  <2>1. d.active \in Keys
    BY <1>2 DEF Local
  <2>2. r \in Request
    BY <1>2, <2>1, PutRequestType DEF StatusOf, Statuses
  <2>3. Fresh(r, d)
    BY <1>2 DEF Fresh, PutRequest
  <2>4. Flush(p, d, pushed, tracked) = Append(p, r)
    BY <1>2 DEF Flush
  <2> HIDE DEF r
  <2> QED BY <2>2, <2>3, <2>4, AppendGrows
<1> QED BY <1>1, <1>2

LEMMA UntrackGrows ==
    ASSUME NEW p \in Seq(Request), NEW q \in Seq(Request), NEW d, Grows(p, q, d)
    PROVE  Grows(p, Untrack(q), d)
<1> DEFINE u == Untrack(q)
<1>1. Len(u) = Len(q)
  BY UntrackType
<1>2. \A i \in 1..Len(q) : u[i] = [q[i] EXCEPT !.tracked = FALSE] /\ q[i] \in Request
  BY UntrackType
<1>3. \A i \in 1..Len(q) : SameRequest(u[i], q[i])
  BY <1>2 DEF SameRequest, SameMessage, Request, Puts, Deletes
<1> HIDE DEF u
<1>4. \A i \in 1..Len(p) : SameRequest(u[i], p[i])
  BY <1>1, <1>3 DEF Grows, SameRequest, SameMessage
<1>5. \A i \in 1..Len(u) : i > Len(p) => Fresh(u[i], d)
  BY <1>1, <1>3 DEF Grows, SameRequest, SameMessage, Fresh
<1>6. Grows(p, u, d)
  BY <1>1, <1>4, <1>5 DEF Grows
<1> QED BY <1>6 DEF u

-----------------------------------------------------------------------------
(* Every handler of the browser is such a step.                            *)

LEMMA ScreensAreClientSteps ==
    ASSUME TypeOK, OpenSurvey \/ OpenOutput \/ LeavePage \/ Unload \/ BeforeUnload \/ Crash
    PROVE  ClientStep
<1>1. /\ local \in Local /\ net \in Seq(Request) /\ live \in WorkingCopy \cup {None}
      /\ clock \in Nat
  BY CloudSyncAssumption DEF TypeOK, Local
<1>2. Refiled(local, local, clock, clock) /\ Grows(net, net, local)
  BY <1>1, RefiledSame, GrowsSame
<1>3. Grows(net, Untrack(net), local)
  BY <1>1, <1>2, UntrackGrows
<1>4. CASE OpenSurvey
  <2>1. clock' \in Times /\ clock < clock'
    BY <1>1, <1>4, TickType DEF OpenSurvey
  <2>2. local' \in Local /\ Refiled(local, local', clock, clock')
    BY <1>1, <1>4, <2>1, InstallType, InstallRefiles DEF OpenSurvey
  <2>3. Grows(net, net', local')
    BY <1>1, <1>4, <2>2, FlushGrows DEF OpenSurvey
  <2>4. UNCHANGED server
    BY <1>4 DEF OpenSurvey
  <2>5. clock <= clock' /\ Remembers
    BY <1>1, <1>4, <2>1 DEF OpenSurvey, Times, Remembers
  <2> QED BY <2>2, <2>3, <2>4, <2>5 DEF ClientStep
<1>5. CASE OpenOutput
  <2>1. clock' \in Times /\ clock < clock'
    BY <1>1, <1>5, TickType DEF OpenOutput
  <2>2. Refiled(local, local', clock, clock')
    BY <1>1, <1>5, <2>1, InstallRefiles DEF OpenOutput
  <2>3. Grows(net, net', local')
    BY <1>1, <1>5, GrowsSame DEF OpenOutput
  <2> QED BY <1>1, <1>5, <2>1, <2>2, <2>3 DEF OpenOutput, ClientStep, Times, Remembers
<1>6. CASE LeavePage
  BY <1>1, <1>2, <1>3, <1>6 DEF LeavePage, SyncEnds, ClientStep, Remembers
<1>7. CASE Unload
  <2> DEFINE q == IF page = "survey" THEN Flush(net, local, lastPushed, FALSE) ELSE net
  <2>1. q \in Seq(Request) /\ Grows(net, q, local)
    BY <1>1, <1>2, FlushType, FlushGrows
  <2>2. Grows(net, Untrack(q), local)
    BY <1>1, <2>1, UntrackGrows
  <2>3. /\ net' = Untrack(q) /\ local' = local /\ clock' = clock
        /\ UNCHANGED server /\ lastPushed' = 0
    BY <1>7 DEF Unload, SyncEnds
  <2> HIDE DEF q
  <2>4. Refiled(local, local', clock, clock') /\ Grows(net, net', local')
    BY <1>2, <2>2, <2>3
  <2> QED BY <1>1, <2>3, <2>4 DEF ClientStep, Remembers
<1>8. CASE Crash
  BY <1>1, <1>2, <1>3, <1>8 DEF Crash, SyncEnds, ClientStep, Remembers
<1>9. CASE BeforeUnload
  <2> DEFINE k == local.active
             r == PutRequest(local, k, StatusOf(local, k), FALSE)
  <2>1. /\ net' = Flush(net, local, lastPushed, FALSE) /\ local' = local /\ clock' = clock
        /\ UNCHANGED server
    BY <1>9 DEF BeforeUnload
  <2>2. Refiled(local, local', clock, clock') /\ Grows(net, net', local')
    BY <1>1, <1>2, <2>1, FlushGrows
  <2>3. CASE net' = net
    <3>1. lastPushed' = lastPushed /\ basis' = basis
      BY <1>9, <2>3 DEF BeforeUnload
    <3>2. Remembers /\ clock <= clock'
      BY <1>1, <2>1, <3>1 DEF Remembers
    <3> QED BY <2>1, <2>2, <3>2 DEF ClientStep
  <2>4. CASE net' # net
    <3>1. lastPushed' = local.records[k].at /\ basis' = "beacon"
      BY <1>9, <2>4 DEF BeforeUnload
    <3>2. /\ k \in Keys /\ local.records[k] # None
          /\ net' = Append(net, r)
      BY <1>1, <2>1, <2>4 DEF Flush, Local
    <3>3. r.op = "put" /\ r.key = k /\ r.draft = local.records[k]
      BY DEF PutRequest
    <3> HIDE DEF r
    <3>4. PICK i \in DOMAIN net' : net'[i] = r
      BY <1>1, <3>2
    <3>5. net'[i].op = "put" /\ net'[i].key = k /\ net'[i].draft = local'.records[k]
      BY <2>1, <3>3, <3>4
    <3>6. PICK l \in Keys : l = k
      BY <3>2
    <3>7. Remembers
      BY <2>1, <3>1, <3>2, <3>5, <3>6 DEF Remembers, IsPut
    <3>8. clock <= clock'
      BY <1>1, <2>1
    <3> QED BY <2>1, <2>2, <3>7, <3>8 DEF ClientStep
  <2> QED BY <2>3, <2>4
<1> QED BY <1>4, <1>5, <1>6, <1>7, <1>8, <1>9

\* A push that waits for its answer.
LEMMA PushIsClientStep ==
    ASSUME TypeOK, net' = Flush(net, local, lastPushed, TRUE),
           local' = local, clock' = clock, UNCHANGED server,
           lastPushed' = lastPushed, basis' = basis
    PROVE  ClientStep
<1>1. local \in Local /\ net \in Seq(Request) /\ clock \in Nat
  BY CloudSyncAssumption DEF TypeOK, Local
<1>2. Refiled(local, local', clock, clock')
  BY RefiledSame
<1>3. Grows(net, net', local')
  BY <1>1, FlushGrows
<1>4. clock <= clock'
  BY <1>1
<1>5. Remembers
  BY DEF Remembers
<1> QED BY <1>2, <1>3, <1>4, <1>5 DEF ClientStep

LEMMA EditingIsClientSteps ==
    ASSUME TypeOK,
           \/ SyncTimerFires \/ Hide \/ Edit \/ EditElsewhere
           \/ \E k \in Keys : CommitBase(k) \/ RenameInSurvey(k) \/ RenameOnOutput(k)
    PROVE  ClientStep
<1>1. /\ local \in Local /\ net \in Seq(Request) /\ live \in WorkingCopy \cup {None}
      /\ clock \in Nat /\ local.active \in Keys \cup {None}
  BY CloudSyncAssumption DEF TypeOK, Local
<1>4. Grows(net, net, local')
  BY <1>1, GrowsSame
<1>5. CASE SyncTimerFires
  BY <1>5, PushIsClientStep DEF SyncTimerFires
<1>10. CASE Hide
  BY <1>10, PushIsClientStep DEF Hide
<1>6. CASE Edit \/ EditElsewhere
  <2>1. clock' \in Times /\ clock < clock'
    BY <1>1, <1>6, TickType DEF Edit, EditElsewhere
  <2>2. Refiled(local, local', clock, clock')
    BY <1>1, <1>6, <2>1, SaveRefiles DEF Edit, EditElsewhere, Editing
  <2> QED BY <1>1, <1>4, <1>6, <2>1, <2>2 DEF Edit, EditElsewhere, ClientStep, Times, Remembers
<1>7. ASSUME NEW k \in Keys, CommitBase(k)
      PROVE  ClientStep
  <2>1. clock' \in Times /\ clock < clock'
    BY <1>1, <1>7, TickType DEF CommitBase
  <2>2. live' \in WorkingCopy
    BY <1>1, <1>7, <2>1 DEF CommitBase, WorkingCopy
  <2>3. Refiled(local, local', clock, clock')
    BY <1>1, <1>7, <2>1, <2>2, InstallRefiles DEF CommitBase
  <2> QED BY <1>1, <1>4, <1>7, <2>1, <2>3 DEF CommitBase, ClientStep, Times, Remembers
<1>8. ASSUME NEW k \in Keys, RenameInSurvey(k)
      PROVE  ClientStep
  <2>1. clock' \in Times /\ clock < clock'
    BY <1>1, <1>8, TickType DEF RenameInSurvey
  <2>2. live' \in WorkingCopy
    BY <1>1, <1>8 DEF RenameInSurvey, Editing, WorkingCopy
  <2>3. Refiled(local, local', clock, clock')
    BY <1>1, <1>8, <2>1, <2>2, SaveRefiles DEF RenameInSurvey, Editing
  <2> QED BY <1>1, <1>4, <1>8, <2>1, <2>3 DEF RenameInSurvey, ClientStep, Times, Remembers
<1>9. ASSUME NEW k \in Keys, RenameOnOutput(k)
      PROVE  ClientStep
  <2>1. clock' \in Times /\ clock < clock'
    BY <1>1, <1>9, TickType DEF RenameOnOutput
  <2>2. live' \in WorkingCopy
    BY <1>1, <1>9 DEF RenameOnOutput, WorkingCopy
  <2>3. Refiled(local, local', clock, clock')
    BY <1>1, <1>9, <2>1, <2>2, InstallRefiles DEF RenameOnOutput
  <2> QED BY <1>1, <1>4, <1>9, <2>1, <2>3 DEF RenameOnOutput, ClientStep, Times, Remembers
<1> QED BY <1>5, <1>6, <1>7, <1>8, <1>9, <1>10

LEMMA ProjectsAreClientSteps ==
    ASSUME TypeOK,
           \/ \E k \in Keys : Resume(k) \/ DeleteProject(k)
           \/ StartOver \/ StartFreshSession \/ Publish
    PROVE  ClientStep
<1>1. /\ local \in Local /\ net \in Seq(Request) /\ clock \in Nat
      /\ local.active \in Keys \cup {None}
  BY CloudSyncAssumption DEF TypeOK, Local
<1>2. Grows(net, net, local')
  BY <1>1, GrowsSame
<1>3. Refiled(local, Discard(local), clock, clock)
  BY <1>1, DiscardRefiles
<1>4. ASSUME NEW k \in Keys, local'.records[k] = None
      PROVE  Grows(net, Append(net, DeleteRequest(k)), local')
  <2>1. Fresh(DeleteRequest(k), local')
    BY <1>4 DEF Fresh, DeleteRequest
  <2> QED BY <1>1, <2>1, AppendGrows, DeleteRequestType
<1>5. ASSUME NEW k \in Keys, Resume(k)
      PROVE  ClientStep
  <2>1. Refiled(local, local', clock, clock)
    BY <1>1, <1>5 DEF Resume, Refiled, Saved, Local
  <2> QED BY <1>1, <1>2, <1>5, <2>1 DEF Resume, ClientStep, Remembers
<1>6. ASSUME NEW k \in Keys, DeleteProject(k)
      PROVE  ClientStep
  <2>1. Refiled(local, ClearDraft(local, k), clock, clock)
    BY <1>1, RefiledSame, ClearRefiles
  <2>2. ClearDraft(local, k) \in Local
    BY <1>1, ClearDraftType
  <2>3. Refiled(local, local', clock, clock)
    BY <1>6, <2>1, <2>2 DEF DeleteProject, Refiled, Saved, Local
  <2>4. local'.records[k] = None
    <3>1. local'.records = ClearDraft(local, k).records
      BY <1>6, <2>2 DEF DeleteProject, Local
    <3>2. ClearDraft(local, k).records[k] = None
      BY <1>1 DEF ClearDraft, Local
    <3> QED BY <3>1, <3>2
  <2>5. net' = Append(net, DeleteRequest(k)) /\ clock' = clock
    BY <1>6 DEF DeleteProject
  <2>6. UNCHANGED server
    BY <1>6 DEF DeleteProject
  <2>7. Remembers
    BY <1>6 DEF DeleteProject, Remembers
  <2>8. Grows(net, net', local')
    BY <1>4, <2>4, <2>5
  <2>9. Refiled(local, local', clock, clock') /\ clock <= clock'
    BY <1>1, <2>3, <2>5
  <2> QED BY <2>6, <2>7, <2>8, <2>9 DEF ClientStep
<1>7. CASE StartOver
  <2>1. local' = Discard(local) /\ clock' = clock /\ UNCHANGED server
        /\ lastPushed' = lastPushed /\ basis' = basis
    BY <1>7 DEF StartOver
  <2>2. net' = IF local.active = None THEN net ELSE Append(net, DeleteRequest(local.active))
    BY <1>7 DEF StartOver
  <2>3. local.active # None => local.active \in Keys /\ local'.records[local.active] = None
    BY <1>1, <2>1 DEF Discard, ClearDraft, Local
  <2>4. Grows(net, net', local')
    BY <1>2, <1>4, <2>2, <2>3
  <2> QED BY <1>1, <1>3, <2>1, <2>4 DEF ClientStep, Remembers
<1>8. CASE StartFreshSession
  BY <1>1, <1>2, <1>3, <1>8 DEF StartFreshSession, ClientStep, Remembers
<1>9. CASE Publish
  <2> DEFINE k == local.active
             marked == [local EXCEPT !.submitted = @ \cup {k}]
             request == PutRequest(marked, k, "submitted", FALSE)
  <2>1. k \in Keys /\ local.records[k] # None
    BY <1>1, <1>9 DEF Publish
  <2>2. /\ marked \in Local
        /\ marked.records = local.records
        /\ marked.submitted = local.submitted \cup {k}
    BY <1>1, <2>1 DEF Local
  <2>3. local'.records = local.records /\ local'.submitted = local.submitted \cup {k}
    BY <1>9, <2>2 DEF Publish, Local
  <2>4. request \in Request
    BY <2>1, <2>2, PutRequestType DEF Statuses
  <2>5. Fresh(request, local')
    BY <2>1, <2>2, <2>3 DEF Fresh, PutRequest, StatusOf
  <2>6. net' = Append(net, request)
    BY <1>9 DEF Publish
  <2>7. Grows(net, net', local')
    <3> HIDE DEF request
    <3> QED BY <1>1, <2>4, <2>5, <2>6, AppendGrows
  <2>8. Refiled(local, local', clock, clock)
    BY <2>3 DEF Refiled, Saved
  <2>9. clock' = clock /\ UNCHANGED server
        /\ lastPushed' = lastPushed /\ basis' = basis
    BY <1>9 DEF Publish
  <2>10. Refiled(local, local', clock, clock')
    BY <2>8, <2>9
  <2> HIDE DEF k, marked, request
  <2> QED BY <1>1, <2>7, <2>9, <2>10 DEF ClientStep, Remembers
<1> QED BY <1>5, <1>6, <1>7, <1>8, <1>9

-----------------------------------------------------------------------------
(* Steps of the browser keep the line.                                     *)

LEMMA PutsAreTyped ==
    ASSUME NEW r \in Request, r.op = "put"
    PROVE  r \in Puts /\ r.key \in Keys /\ r.draft \in Draft /\ r.draft.at \in Nat
<1>1. r \in Puts
  BY DEF Request, Deletes
<1>2. r.key \in Keys /\ r.draft \in Draft
  BY <1>1 DEF Puts
<1>3. \A d \in Draft : d.at \in Nat
  BY DEF Draft, Times
<1> QED BY <1>1, <1>2, <1>3

\* The local record stays at the end of the line.
LEMMA LocalStaysLatest ==
    ASSUME TypeOK, TypeOK', Ordered, ClientStep, NEW k \in Keys, local'.records[k] # None
    PROVE  /\ local'.records[k].at <= clock'
           /\ row[k] # None => ~Behind(OwnCopy(k)', row[k])
           /\ blob[k] # None => blob[k].at <= local'.records[k].at
           /\ \A i \in DOMAIN net : IsPut(i, k) => ~Behind(OwnCopy(k)', net[i])
<1>1. /\ clock \in Nat /\ clock' \in Nat /\ clock <= clock'
      /\ local.records[k] \in Draft \cup {None}
      /\ local'.records[k] \in Draft
      /\ row[k] \in Row \cup {None}
      /\ blob[k] \in Draft \cup {None}
      /\ \A i \in DOMAIN net : net[i] \in Request
  BY CloudSyncAssumption DEF TypeOK, ClientStep
<1>2. /\ local'.records[k].at \in Nat
      /\ local.records[k] # None => local.records[k].at \in Nat
      /\ row[k] # None => row[k].draft.at \in Nat
      /\ blob[k] # None => blob[k].at \in Nat
      /\ \A i \in DOMAIN net : IsPut(i, k) => net[i].draft.at \in Nat
  <2>1. \A d \in Draft : d.at \in Nat
    BY DEF Draft, Times
  <2>2. \A i \in DOMAIN net : IsPut(i, k) => net[i].draft \in Draft
    BY <1>1, PutsAreTyped DEF IsPut
  <2>3. row[k] # None => row[k].draft \in Draft
    BY <1>1 DEF Row
  <2> QED BY <1>1, <2>1, <2>2, <2>3
<1>3. /\ OwnCopy(k)'.draft = local'.records[k]
      /\ OwnCopy(k)'.status = IF k \in local'.submitted THEN "submitted" ELSE "draft"
      /\ OwnCopy(k).draft = local.records[k]
      /\ OwnCopy(k).status = IF k \in local.submitted THEN "submitted" ELSE "draft"
  BY DEF OwnCopy, StatusOf
<1>4. CASE /\ local'.records[k] = local.records[k]
           /\ k \in local.submitted => k \in local'.submitted
  <2>1. \A a : ~Behind(OwnCopy(k), a) => ~Behind(OwnCopy(k)', a)
    BY <1>3, <1>4 DEF Behind
  <2>2. local.records[k] # None
    BY <1>4
  <2>3. local'.records[k].at <= clock'
    BY <1>1, <1>2, <1>4, <2>2 DEF Ordered, SavedInThePast
  <2> QED BY <1>4, <2>1, <2>2, <2>3 DEF Ordered, LocalIsLatest
<1>5. CASE local'.records[k].at = clock' /\ clock < clock'
  <2>1. \A a : a.draft.at \in Nat /\ a.draft.at <= clock => ~Behind(OwnCopy(k)', a)
    BY <1>1, <1>3, <1>5 DEF Behind
  <2>2. row[k] # None => row[k].draft.at <= clock
    BY DEF Ordered, SavedInThePast
  <2>3. blob[k] # None => blob[k].at <= clock
    BY DEF Ordered, SavedInThePast
  <2>4. \A i \in DOMAIN net : IsPut(i, k) => net[i].draft.at <= clock
    BY DEF Ordered, SavedInThePast, IsPut
  <2>5. blob[k] # None => blob[k].at <= local'.records[k].at
    BY <1>1, <1>2, <1>5, <2>3
  <2> QED BY <1>1, <1>2, <1>5, <2>1, <2>2, <2>4, <2>5
<1> QED BY <1>4, <1>5 DEF ClientStep, Refiled, Saved

\* A request in flight after the step was in flight before it, or holds
\* what the local store holds now.
LEMMA OldOrFresh ==
    ASSUME TypeOK, TypeOK', ClientStep, NEW k \in Keys, NEW i \in DOMAIN net'
    PROVE  \/ i \in DOMAIN net /\ SameRequest(net'[i], net[i]) /\ (IsPut(i, k)' <=> IsPut(i, k))
           \/ /\ i = Len(net) + 1
              /\ i = Len(net')
              /\ net'[i].phase = "sent"
              /\ IsPut(i, k)' =>
                    /\ local'.records[k] # None
                    /\ net'[i].draft = OwnCopy(k)'.draft
                    /\ net'[i].status = OwnCopy(k)'.status
<1>1. /\ net \in Seq(Request) /\ net' \in Seq(Request)
      /\ DOMAIN net = 1..Len(net) /\ DOMAIN net' = 1..Len(net')
      /\ Len(net) \in Nat /\ Len(net') \in Nat
      /\ i \in 1..Len(net')
  BY DEF TypeOK
<1>g. Grows(net, net', local')
  BY DEF ClientStep
<1>2. CASE i <= Len(net)
  <2>1. i \in 1..Len(net)
    BY <1>1, <1>2
  <2>2. SameRequest(net'[i], net[i])
    BY <1>g, <2>1 DEF Grows
  <2> QED BY <1>1, <2>1, <2>2 DEF SameRequest, SameMessage, IsPut
<1>3. CASE i > Len(net)
  <2>1. i = Len(net) + 1 /\ i = Len(net')
    <3>1. Len(net') = Len(net) \/ Len(net') = Len(net) + 1
      BY <1>g DEF Grows
    <3>2. i \in Nat /\ i <= Len(net') /\ Len(net) \in Nat /\ Len(net') \in Nat
      BY <1>1
    <3> QED BY <1>3, <3>1, <3>2
  <2>2. Fresh(net'[i], local')
    <3>1. \A j \in 1..Len(net') : j > Len(net) => Fresh(net'[j], local')
      BY <1>g DEF Grows
    <3> QED BY <1>1, <1>3, <3>1
  <2>3. IsPut(i, k)' => net'[i].op = "put" /\ net'[i].key = k
    BY DEF IsPut
  <2>4. OwnCopy(k)'.draft = local'.records[k] /\ OwnCopy(k)'.status = StatusOf(local', k)
    BY DEF OwnCopy
  <2> QED BY <2>1, <2>2, <2>3, <2>4 DEF Fresh
<1> QED BY <1>1, <1>2, <1>3

\* Every request in flight is in the past after a step of the browser, too.
LEMMA ClientKeepsPast ==
    ASSUME TypeOK, TypeOK', Ordered, ClientStep
    PROVE  SavedInThePast'
<1>1. /\ clock \in Nat /\ clock' \in Nat /\ clock <= clock'
      /\ row' = row /\ blob' = blob
      /\ net \in Seq(Request) /\ net' \in Seq(Request)
  BY CloudSyncAssumption DEF TypeOK, ClientStep, server
<1>2. \A k \in Keys : local'.records[k] # None => local'.records[k].at <= clock'
  BY LocalStaysLatest
<1>3. \A k \in Keys : blob'[k] # None => blob'[k].at <= clock'
  <2> SUFFICES ASSUME NEW k \in Keys, blob[k] # None PROVE blob[k].at <= clock'
    BY <1>1
  <2>1. blob[k].at \in Nat
    BY DEF TypeOK, Draft, Times
  <2> QED BY <1>1, <2>1 DEF Ordered, SavedInThePast
<1>4. \A k \in Keys : row'[k] # None => row'[k].draft.at <= clock'
  <2> SUFFICES ASSUME NEW k \in Keys, row[k] # None PROVE row[k].draft.at <= clock'
    BY <1>1
  <2>1. row[k].draft.at \in Nat
    BY DEF TypeOK, Row, Draft, Times
  <2> QED BY <1>1, <2>1 DEF Ordered, SavedInThePast
<1>5. ASSUME NEW i \in DOMAIN net', net'[i].op = "put", NEW k \in Keys, k = net'[i].key
      PROVE  net'[i].draft.at <= clock'
  <2>1. net'[i].draft.at \in Nat
    BY <1>1, <1>5, PutsAreTyped
  <2>2. IsPut(i, k)'
    BY <1>5 DEF IsPut
  <2>3. CASE i \in DOMAIN net /\ SameRequest(net'[i], net[i])
    <3>1. net[i].draft.at <= clock /\ net[i].draft = net'[i].draft
      BY <1>5, <2>3 DEF Ordered, SavedInThePast, SameRequest, SameMessage
    <3> QED BY <1>1, <2>1, <3>1
  <2>4. CASE local'.records[k] # None /\ net'[i].draft = OwnCopy(k)'.draft
    <3>1. net'[i].draft = local'.records[k]
      BY <2>4 DEF OwnCopy
    <3> QED BY <1>2, <2>4, <3>1
  <2> QED BY <2>2, <2>3, <2>4, OldOrFresh
<1>6. \A i \in DOMAIN net' : net'[i].op = "put" => net'[i].draft.at <= clock'
  <2> SUFFICES ASSUME NEW i \in DOMAIN net', net'[i].op = "put"
               PROVE  net'[i].draft.at <= clock'
    OBVIOUS
  <2>1. net'[i].key \in Keys
    BY <1>1, PutsAreTyped
  <2> QED BY <1>5, <2>1
<1> QED BY <1>2, <1>3, <1>4, <1>6 DEF SavedInThePast

\* A put that is sent goes to the end of the line.
LEMMA ClientKeepsOrder ==
    ASSUME TypeOK, TypeOK', Ordered, ClientStep
    PROVE  Ordered'
<1>1. row' = row /\ blob' = blob /\ DOMAIN net' = 1..Len(net') /\ Len(net') \in Nat
  BY DEF TypeOK, ClientStep, server
<1>2. SavedInThePast'
  BY ClientKeepsPast
<1>3. QueueInLine'
  <2> SUFFICES ASSUME NEW k \in Keys, NEW i \in DOMAIN net', NEW j \in DOMAIN net',
                      IsPut(i, k)', IsPut(j, k)', i < j
               PROVE  ~Behind(net'[j], net'[i])
    BY DEF QueueInLine
  <2>1. i \in DOMAIN net /\ SameRequest(net'[i], net[i]) /\ IsPut(i, k)
    BY <1>1, OldOrFresh
  <2>2. CASE j \in DOMAIN net /\ SameRequest(net'[j], net[j]) /\ IsPut(j, k)
    <3>1. ~Behind(net[j], net[i])
      BY <2>1, <2>2 DEF Ordered, QueueInLine
    <3> QED BY <2>1, <2>2, <3>1 DEF SameRequest, SameMessage, Behind
  <2>3. CASE /\ local'.records[k] # None
             /\ net'[j].draft = OwnCopy(k)'.draft
             /\ net'[j].status = OwnCopy(k)'.status
    <3>1. ~Behind(OwnCopy(k)', net[i])
      BY <2>1, <2>3, LocalStaysLatest
    <3> QED BY <2>1, <2>3, <3>1 DEF SameRequest, SameMessage, Behind
  <2> QED BY <2>2, <2>3, OldOrFresh
<1>4. RowInLine'
  <2> SUFFICES ASSUME NEW k \in Keys, NEW i \in DOMAIN net',
                      IsPut(i, k)', ~net'[i].overtaken, row[k] # None
               PROVE  ~Behind(net'[i], row[k])
    BY <1>1 DEF RowInLine
  <2>1. CASE i \in DOMAIN net /\ SameRequest(net'[i], net[i]) /\ IsPut(i, k)
    <3>1. ~net[i].overtaken
      BY <2>1 DEF SameRequest
    <3>2. ~Behind(net[i], row[k])
      BY <2>1, <3>1 DEF Ordered, RowInLine
    <3> QED BY <2>1, <3>2 DEF SameRequest, SameMessage, Behind
  <2>2. CASE /\ local'.records[k] # None
             /\ net'[i].draft = OwnCopy(k)'.draft
             /\ net'[i].status = OwnCopy(k)'.status
    <3>1. ~Behind(OwnCopy(k)', row[k])
      BY <2>2, LocalStaysLatest
    <3> QED BY <2>2, <3>1 DEF Behind
  <2> QED BY <2>1, <2>2, OldOrFresh
<1>5. LocalIsLatest'
  <2> SUFFICES ASSUME NEW k \in Keys, local'.records[k] # None
               PROVE  /\ row'[k] # None => ~Behind(OwnCopy(k)', row'[k])
                      /\ blob'[k] # None => blob'[k].at <= local'.records[k].at
                      /\ \A i \in DOMAIN net' : IsPut(i, k)' => ~Behind(OwnCopy(k)', net'[i])
    BY DEF LocalIsLatest
  <2>1. ASSUME NEW i \in DOMAIN net', IsPut(i, k)'
        PROVE  ~Behind(OwnCopy(k)', net'[i])
    <3>1. CASE i \in DOMAIN net /\ SameRequest(net'[i], net[i]) /\ IsPut(i, k)
      <4>1. ~Behind(OwnCopy(k)', net[i])
        BY <3>1, LocalStaysLatest
      <4> QED BY <3>1, <4>1 DEF SameRequest, SameMessage, Behind
    <3>2. CASE net'[i].draft = OwnCopy(k)'.draft /\ net'[i].status = OwnCopy(k)'.status
      <4>1. OwnCopy(k)'.draft.at \in Nat
        BY DEF OwnCopy, TypeOK, Draft, Times
      <4> QED BY <3>2, <4>1 DEF Behind
    <3> QED BY <2>1, <3>1, <3>2, OldOrFresh
  <2> QED BY <1>1, <2>1, LocalStaysLatest
<1> QED BY <1>2, <1>3, <1>4, <1>5 DEF Ordered

LEMMA ClientKeepsLine ==
    ASSUME TypeOK, TypeOK', Line, ClientStep
    PROVE  Line'
<1>1. /\ row' = row /\ blob' = blob
      /\ DOMAIN net = 1..Len(net) /\ DOMAIN net' = 1..Len(net')
      /\ Len(net) \in Nat /\ Len(net') \in Nat
      /\ Ordered
  BY DEF TypeOK, ClientStep, server, Line
<1>2. Ordered'
  BY <1>1, ClientKeepsOrder
<1>g. Grows(net, net', local')
  BY DEF ClientStep
<1>3. OneServed'
  <2> SUFFICES ASSUME NEW i \in DOMAIN net'
               PROVE  ~net'[i].overtaken /\ (i # 1 => net'[i].phase = "sent")
    BY DEF OneServed
  <2>1. CASE i <= Len(net)
    <3>1. i \in 1..Len(net)
      BY <1>1, <2>1
    <3>2. SameRequest(net'[i], net[i])
      BY <1>g, <3>1 DEF Grows
    <3> QED BY <1>1, <3>1, <3>2 DEF SameRequest, Line, OneServed
  <2>2. CASE i > Len(net)
    <3>1. \A j \in 1..Len(net') : j > Len(net) => Fresh(net'[j], local')
      BY <1>g DEF Grows
    <3>2. Fresh(net'[i], local')
      BY <1>1, <2>2, <3>1
    <3> QED BY <1>1, <2>2, <3>2 DEF Fresh
  <2> QED BY <1>1, <2>1, <2>2
<1>4. HeadWritten'
  <2> SUFFICES ASSUME net' # <<>>, net'[1].phase = "half"
               PROVE  IF net'[1].op = "put" THEN blob'[net'[1].key] = net'[1].draft
                                            ELSE row'[net'[1].key] = None
    BY DEF HeadWritten
  <2>1. 1 \in DOMAIN net'
    BY DEF TypeOK
  <2>2. CASE Len(net) = 0
    BY <1>1, <1>g, <2>1, <2>2 DEF Grows, Fresh
  <2>3. CASE Len(net) # 0
    <3>1. 1 \in 1..Len(net) /\ net # <<>>
      BY <1>1, <2>3
    <3>2. SameRequest(net'[1], net[1])
      BY <1>g, <3>1 DEF Grows
    <3> QED BY <1>1, <3>1, <3>2 DEF SameRequest, SameMessage, Line, HeadWritten
  <2> QED BY <2>2, <2>3
<1>5. BlobInLine'
  <2> SUFFICES ASSUME NEW k \in Keys, NEW i \in DOMAIN net', IsPut(i, k)', blob[k] # None
               PROVE  blob[k].at <= net'[i].draft.at
    BY <1>1 DEF BlobInLine
  <2>1. CASE i \in DOMAIN net /\ SameRequest(net'[i], net[i]) /\ IsPut(i, k)
    BY <2>1 DEF Line, BlobInLine, SameRequest, SameMessage
  <2>2. CASE local'.records[k] # None /\ net'[i].draft = OwnCopy(k)'.draft
    <3>1. blob[k].at <= local'.records[k].at
      BY <1>1, <2>2, LocalStaysLatest
    <3> QED BY <2>2, <3>1 DEF OwnCopy
  <2> QED BY <2>1, <2>2, OldOrFresh
<1> QED BY <1>2, <1>3, <1>4, <1>5 DEF Line

LEMMA ClientKeepsListing ==
    ASSUME ListingHasContent, ClientStep
    PROVE  ListingHasContent'
BY DEF ListingHasContent, ClientStep, server

\* A lost answer changes who waits, not what is in flight.
LEMMA AnswerLostIsClientStep ==
    ASSUME TypeOK, NEW i \in 1..MaxInFlight, AnswerLost(i)
    PROVE  ClientStep
<1>1. /\ net \in Seq(Request) /\ clock \in Nat /\ i \in 1..Len(net)
      /\ net' = [net EXCEPT ![i] = [net[i] EXCEPT !.tracked = FALSE]]
      /\ local' = local /\ clock' = clock /\ UNCHANGED server /\ lastPushed' = lastPushed
  BY CloudSyncAssumption DEF TypeOK, AnswerLost, ClientKeeps
<1>2. \A j \in 1..Len(net) : net[j] \in Request
  BY <1>1
<1>3. \A j \in 1..Len(net) : SameRequest([net[j] EXCEPT !.tracked = FALSE], net[j])
  BY <1>2 DEF SameRequest, SameMessage, Request, Puts, Deletes
<1>4. Len(net') = Len(net)
  BY <1>1
<1>5. \A j \in 1..Len(net) : SameRequest(net'[j], net[j])
  <2> SUFFICES ASSUME NEW j \in 1..Len(net) PROVE SameRequest(net'[j], net[j])
    OBVIOUS
  <2>1. CASE j = i
    BY <1>1, <1>3, <2>1
  <2>2. CASE j # i
    BY <1>1, <2>2 DEF SameRequest, SameMessage
  <2> QED BY <2>1, <2>2
<1>6. \A j \in 1..Len(net') : ~(j > Len(net))
  BY <1>1, <1>4
<1>7. Grows(net, net', local')
  BY <1>4, <1>5, <1>6 DEF Grows
<1>8. Refiled(local, local', clock, clock')
  BY <1>1, RefiledSame
<1>9. clock <= clock'
  BY <1>1
<1>10. Remembers
  BY DEF AnswerLost, ClientKeeps, Remembers
<1>11. UNCHANGED server
  BY DEF AnswerLost
<1> QED BY <1>7, <1>8, <1>9, <1>10, <1>11 DEF ClientStep

-----------------------------------------------------------------------------
(* Steps of the API keep what holds in any order: a request that has been  *)
(* overtaken is the only one that can be behind the row.                   *)

\* What the API knows of a put it works for.
LEMMA PutInOrder ==
    ASSUME TypeOK, Ordered, NEW i \in DOMAIN net, net[i].op = "put",
           NEW k \in Keys, k = net[i].key
    PROVE  /\ IsPut(i, k)
           /\ net[i].draft \in Draft /\ net[i].draft.at \in Nat
           /\ net[i].draft.at <= clock
           /\ ~net[i].overtaken /\ row[k] # None => ~Behind(net[i], row[k])
           /\ \A j \in DOMAIN net : IsPut(j, k) /\ i <= j =>
                 ~Behind(net[j], net[i]) /\ net[i].draft.at <= net[j].draft.at
           /\ local.records[k] # None =>
                 /\ ~Behind(OwnCopy(k), net[i])
                 /\ net[i].draft.at <= local.records[k].at
<1>1. net \in Seq(Request) /\ DOMAIN net = 1..Len(net) /\ Len(net) \in Nat
  BY DEF TypeOK
<1>2. \A j \in DOMAIN net : IsPut(j, k) => net[j].draft \in Draft /\ net[j].draft.at \in Nat
  BY <1>1, PutsAreTyped DEF IsPut
<1>3. IsPut(i, k)
  BY DEF IsPut
<1>4. ASSUME NEW j \in DOMAIN net, IsPut(j, k), i <= j
      PROVE  ~Behind(net[j], net[i]) /\ net[i].draft.at <= net[j].draft.at
  <2>1. CASE i = j
    BY <1>2, <1>3, <2>1 DEF Behind
  <2>2. CASE i < j
    <3>1. ~Behind(net[j], net[i])
      BY <1>3, <1>4, <2>2 DEF Ordered, QueueInLine
    <3> QED BY <1>2, <1>3, <1>4, <3>1 DEF Behind
  <2> QED BY <1>1, <1>4, <2>1, <2>2
<1>5. local.records[k] # None => local.records[k].at \in Nat
  BY DEF TypeOK, Draft, Times
<1>6. local.records[k] # None => ~Behind(OwnCopy(k), net[i])
  BY <1>3 DEF Ordered, LocalIsLatest
<1>7. local.records[k] # None => net[i].draft.at <= local.records[k].at
  BY <1>2, <1>3, <1>5, <1>6 DEF Behind, OwnCopy
<1>8. ~net[i].overtaken /\ row[k] # None => ~Behind(net[i], row[k])
  BY <1>3 DEF Ordered, RowInLine
<1>9. net[i].draft.at <= clock
  BY DEF Ordered, SavedInThePast
<1> QED BY <1>2, <1>3, <1>4, <1>6, <1>7, <1>8, <1>9

\* The two writes of the API.
LEMMA BlobIsWritten ==
    ASSUME TypeOK, NEW i, WriteBlob(i)
    PROVE  /\ i \in DOMAIN net /\ net[i] \in Request /\ net[i].key \in Keys
           /\ Turn(i, "blob") /\ net' = Advanced(i)
           /\ row' = row /\ local' = local /\ clock' = clock
           /\ net[i].op = "put" \/ (net[i].op = "delete" /\ net[i].draft = None)
           /\ \A k \in Keys : \/ blob'[k] = blob[k]
                              \/ k = net[i].key /\ blob'[k] = net[i].draft
<1>1. i \in DOMAIN net /\ Turn(i, "blob") /\ net' = Advanced(i) /\ row' = row
  BY DEF WriteBlob, Turn, Served
<1>2. local' = local /\ clock' = clock
  BY DEF WriteBlob, ClientKeeps
<1>3. net[i] \in Request
  BY <1>1 DEF TypeOK
<1>4. net[i].key \in Keys /\ (net[i].op = "put" \/ (net[i].op = "delete" /\ net[i].draft = None))
  BY <1>3 DEF Request, Puts, Deletes
<1>5. blob' = [blob EXCEPT ![net[i].key] = net[i].draft] \/ blob' = blob
  BY DEF WriteBlob
<1>6. \A k \in Keys : blob'[k] = blob[k] \/ (k = net[i].key /\ blob'[k] = net[i].draft)
  BY <1>5 DEF TypeOK
<1> QED BY <1>1, <1>2, <1>3, <1>4, <1>6

LEMMA RowIsWritten ==
    ASSUME TypeOK, NEW i, WriteRow(i)
    PROVE  /\ i \in DOMAIN net /\ net[i] \in Request /\ net[i].key \in Keys
           /\ Turn(i, "row") /\ net' = Overtaken(Advanced(i), i)
           /\ blob' = blob /\ local' = local /\ clock' = clock
           /\ \A k \in Keys : k # net[i].key => row'[k] = row[k]
           /\ \/ /\ net[i].op = "put"
                 /\ row'[net[i].key] = [draft |-> net[i].draft, status |-> net[i].status]
              \/ net[i].op = "delete" /\ row'[net[i].key] = None
<1>1. /\ i \in DOMAIN net /\ Turn(i, "row") /\ net' = Overtaken(Advanced(i), i)
      /\ blob' = blob
  BY DEF WriteRow, Turn, Served
<1>2. local' = local /\ clock' = clock
  BY DEF WriteRow, ClientKeeps
<1>3. net[i] \in Request
  BY <1>1 DEF TypeOK
<1>4. net[i].key \in Keys /\ (net[i].op = "put" \/ net[i].op = "delete")
  BY <1>3 DEF Request, Puts, Deletes
<1>5. row' = [row EXCEPT ![net[i].key] =
                 IF net[i].op = "delete" THEN None
                 ELSE [draft |-> net[i].draft, status |-> net[i].status]]
  BY DEF WriteRow
<1>6. /\ \A k \in Keys : k # net[i].key => row'[k] = row[k]
      /\ \/ /\ net[i].op = "put"
            /\ row'[net[i].key] = [draft |-> net[i].draft, status |-> net[i].status]
         \/ net[i].op = "delete" /\ row'[net[i].key] = None
  BY <1>4, <1>5 DEF TypeOK
<1> QED BY <1>1, <1>2, <1>3, <1>4, <1>6

LEMMA WriteBlobKeepsOrder ==
    ASSUME TypeOK, Ordered, NEW i, WriteBlob(i)
    PROVE  Ordered'
<1>1. /\ i \in DOMAIN net /\ net[i] \in Request
      /\ row' = row /\ local' = local /\ clock' = clock
      /\ net[i].op = "put" \/ (net[i].op = "delete" /\ net[i].draft = None)
      /\ \A k \in Keys : \/ blob'[k] = blob[k]
                         \/ k = net[i].key /\ blob'[k] = net[i].draft
  BY BlobIsWritten
<1>2. /\ DOMAIN net' = DOMAIN net
      /\ \A j \in DOMAIN net : SameMessage(net'[j], net[j])
      /\ \A j \in DOMAIN net : ~net'[j].overtaken => ~net[j].overtaken
      /\ \A k, j : IsPut(j, k)' <=> IsPut(j, k)
  BY <1>1, BlobIsWritten, WritesMove
<1>3. ASSUME NEW k \in Keys, blob'[k] # None
      PROVE  /\ blob'[k].at <= clock
             /\ local.records[k] # None => blob'[k].at <= local.records[k].at
  <2>1. CASE blob'[k] = blob[k]
    BY <1>3, <2>1 DEF Ordered, SavedInThePast, LocalIsLatest
  <2>2. CASE net[i].op = "put" /\ k = net[i].key /\ blob'[k] = net[i].draft
    BY <1>1, <2>2, PutInOrder
  <2> QED BY <1>1, <1>3, <2>1, <2>2
<1>4. SavedInThePast'
  BY <1>1, <1>2, <1>3 DEF Ordered, SavedInThePast, SameMessage
<1>5. QueueInLine'
  BY <1>2 DEF Ordered, QueueInLine, SameMessage, Behind
<1>6. RowInLine'
  BY <1>1, <1>2 DEF Ordered, RowInLine, SameMessage, Behind
<1>7. LocalIsLatest'
  <2> SUFFICES ASSUME NEW k \in Keys, local.records[k] # None
               PROVE  /\ row[k] # None => ~Behind(OwnCopy(k)', row[k])
                      /\ blob'[k] # None => blob'[k].at <= local.records[k].at
                      /\ \A j \in DOMAIN net : IsPut(j, k) => ~Behind(OwnCopy(k)', net'[j])
    BY <1>1, <1>2 DEF LocalIsLatest
  <2>1. OwnCopy(k)' = OwnCopy(k)
    BY <1>1 DEF OwnCopy, StatusOf
  <2>2. \A j \in DOMAIN net : IsPut(j, k) => ~Behind(OwnCopy(k)', net'[j])
    BY <1>2, <2>1 DEF Ordered, LocalIsLatest, SameMessage, Behind
  <2> QED BY <1>3, <2>1, <2>2 DEF Ordered, LocalIsLatest
<1> QED BY <1>4, <1>5, <1>6, <1>7 DEF Ordered

\* A row goes back only by a request that has been overtaken.
LEMMA WriteRowKeepsOrder ==
    ASSUME TypeOK, Ordered, NEW i, WriteRow(i)
    PROVE  /\ Ordered'
           /\ \A k \in Keys : row[k] # None /\ row'[k] # None /\ Behind(row'[k], row[k]) =>
                 net[i].key = k /\ net[i].op = "put" /\ net[i].overtaken
<1> DEFINE listed == [draft |-> net[i].draft, status |-> net[i].status]
<1>1. /\ i \in DOMAIN net /\ net[i] \in Request
      /\ blob' = blob /\ local' = local /\ clock' = clock
      /\ net' = Overtaken(Advanced(i), i)
  BY RowIsWritten
<1>2. /\ DOMAIN net' = DOMAIN net
      /\ \A j \in DOMAIN net : SameMessage(net'[j], net[j])
      /\ \A j \in DOMAIN net : ~net'[j].overtaken => ~net[j].overtaken
      /\ \A j \in DOMAIN net : j < i /\ net[j].key = net[i].key => net'[j].overtaken
      /\ \A k, j : IsPut(j, k)' <=> IsPut(j, k)
  BY <1>1, WritesMove
<1>3. ASSUME NEW k \in Keys, row'[k] # None
      PROVE  \/ row'[k] = row[k]
             \/ net[i].op = "put" /\ k = net[i].key /\ row'[k] = listed
  BY <1>3, RowIsWritten
<1>4. /\ \A a : Behind(a, listed) <=> Behind(a, net[i])
      /\ \A a : Behind(listed, a) <=> Behind(net[i], a)
      /\ listed.draft = net[i].draft
  BY DEF Behind
<1> HIDE DEF listed
<1>5. \A k \in Keys : row[k] # None => ~Behind(row[k], row[k])
  BY DEF TypeOK, Row, Draft, Times, Behind
<1>6. ASSUME NEW k \in Keys, row'[k] # None
      PROVE  /\ row'[k].draft.at <= clock
             /\ Behind(row'[k], row[k]) /\ row[k] # None =>
                   net[i].key = k /\ net[i].op = "put" /\ net[i].overtaken
             /\ \A j \in DOMAIN net : IsPut(j, k) /\ ~net'[j].overtaken => ~Behind(net[j], row'[k])
             /\ local.records[k] # None => ~Behind(OwnCopy(k), row'[k])
  <2>1. CASE row'[k] = row[k]
    BY <1>2, <1>5, <1>6, <2>1 DEF Ordered, SavedInThePast, RowInLine, LocalIsLatest
  <2>2. CASE net[i].op = "put" /\ k = net[i].key /\ row'[k] = listed
    <3>1. /\ net[i].draft.at <= clock
          /\ ~net[i].overtaken /\ row[k] # None => ~Behind(net[i], row[k])
          /\ \A j \in DOMAIN net : IsPut(j, k) /\ i <= j => ~Behind(net[j], net[i])
          /\ local.records[k] # None => ~Behind(OwnCopy(k), net[i])
      BY <1>1, <2>2, PutInOrder
    <3>2. ASSUME NEW j \in DOMAIN net, IsPut(j, k), ~net'[j].overtaken
          PROVE  i <= j
      <4>1. net[j].key = net[i].key
        BY <2>2, <3>2 DEF IsPut
      <4>2. ~(j < i)
        BY <1>2, <3>2, <4>1
      <4>3. i \in Nat /\ j \in Nat
        BY <1>1 DEF TypeOK
      <4> QED BY <4>2, <4>3
    <3> QED BY <1>4, <2>2, <3>1, <3>2
  <2> QED BY <1>3, <1>6, <2>1, <2>2
<1>7. SavedInThePast'
  BY <1>1, <1>2, <1>6 DEF Ordered, SavedInThePast, SameMessage
<1>8. QueueInLine'
  BY <1>2 DEF Ordered, QueueInLine, SameMessage, Behind
<1>9. RowInLine'
  BY <1>2, <1>6 DEF RowInLine, SameMessage, Behind
<1>10. LocalIsLatest'
  <2> SUFFICES ASSUME NEW k \in Keys, local.records[k] # None
               PROVE  /\ row'[k] # None => ~Behind(OwnCopy(k)', row'[k])
                      /\ blob[k] # None => blob[k].at <= local.records[k].at
                      /\ \A j \in DOMAIN net : IsPut(j, k) => ~Behind(OwnCopy(k)', net'[j])
    BY <1>1, <1>2 DEF LocalIsLatest
  <2>1. OwnCopy(k)' = OwnCopy(k)
    BY <1>1 DEF OwnCopy, StatusOf
  <2>2. \A j \in DOMAIN net : IsPut(j, k) => ~Behind(OwnCopy(k)', net'[j])
    BY <1>2, <2>1 DEF Ordered, LocalIsLatest, SameMessage, Behind
  <2> QED BY <1>6, <2>1, <2>2 DEF Ordered, LocalIsLatest
<1> QED BY <1>6, <1>7, <1>8, <1>9, <1>10 DEF Ordered

\* How the requests move when one of them leaves.
LEMMA Leaves ==
    ASSUME TypeOK, NEW i, Answer(i) \/ RequestDies(i)
    PROVE  /\ i \in DOMAIN net /\ net[i] \in Request /\ Served(i)
           /\ row' = row /\ blob' = blob /\ local' = local /\ clock' = clock
           /\ \A j \in DOMAIN net' : /\ Before(i, j) \in DOMAIN net
                                     /\ Before(i, j) # i
                                     /\ net'[j] = net[Before(i, j)]
           /\ \A j, l \in DOMAIN net' : j < l => Before(i, j) < Before(i, l)
           /\ \A l \in DOMAIN net : l # i => \E j \in DOMAIN net' : l = Before(i, j)
           /\ \A k : \A j \in DOMAIN net' : IsPut(j, k)' => IsPut(Before(i, j), k)
<1>1. /\ net' = RemoveAt(net, i) /\ Served(i)
      /\ row' = row /\ blob' = blob /\ local' = local /\ clock' = clock
  BY DEF Answer, RequestDies, server
<1>2. /\ i \in 1..Len(net) /\ net \in Seq(Request) /\ Len(net) \in Nat
      /\ DOMAIN net = 1..Len(net) /\ net[i] \in Request
  BY <1>1 DEF Served, TypeOK
<1>3. /\ net' \in Seq(Request) /\ Len(net') = Len(net) - 1
      /\ \A j \in 1..(Len(net) - 1) : net'[j] = net[Before(i, j)]
  <2>1. /\ RemoveAt(net, i) \in Seq(Request)
        /\ Len(RemoveAt(net, i)) = Len(net) - 1
        /\ \A j \in 1..(Len(net) - 1) : RemoveAt(net, i)[j] = net[Before(i, j)]
    BY <1>2, RemoveAtType, Zenon
  <2> QED BY <1>1, <2>1
<1>4. DOMAIN net' = 1..(Len(net) - 1)
  BY <1>2, <1>3
<1>5. /\ \A j \in DOMAIN net' : Before(i, j) \in DOMAIN net /\ Before(i, j) # i
      /\ \A j, l \in DOMAIN net' : j < l => Before(i, j) < Before(i, l)
  BY <1>2, <1>4 DEF Before
<1>6. ASSUME NEW l \in DOMAIN net, l # i
      PROVE  \E j \in DOMAIN net' : l = Before(i, j)
  <2>1. CASE l < i
    BY <1>2, <1>4, <2>1 DEF Before
  <2>2. CASE i < l
    <3>1. l - 1 \in DOMAIN net' /\ ~(l - 1 < i) /\ (l - 1) + 1 = l
      BY <1>2, <1>4, <2>2
    <3>2. l = Before(i, l - 1)
      BY <3>1 DEF Before
    <3> QED BY <3>1, <3>2
  <2> QED BY <1>2, <1>6, <2>1, <2>2
<1>7. \A k : \A j \in DOMAIN net' : IsPut(j, k)' => IsPut(Before(i, j), k)
  BY <1>3, <1>4, <1>5 DEF IsPut
<1> QED BY <1>1, <1>2, <1>3, <1>4, <1>5, <1>6, <1>7

LEMMA LeavingKeepsOrder ==
    ASSUME TypeOK, Ordered, NEW i, Answer(i) \/ RequestDies(i)
    PROVE  Ordered'
<1>1. /\ row' = row /\ blob' = blob /\ local' = local /\ clock' = clock
      /\ \A j \in DOMAIN net' : Before(i, j) \in DOMAIN net /\ net'[j] = net[Before(i, j)]
      /\ \A j, l \in DOMAIN net' : j < l => Before(i, j) < Before(i, l)
      /\ \A k : \A j \in DOMAIN net' : IsPut(j, k)' => IsPut(Before(i, j), k)
  BY Leaves
<1>2. SavedInThePast'
  BY <1>1 DEF Ordered, SavedInThePast
<1>3. QueueInLine'
  <2> SUFFICES ASSUME NEW k \in Keys, NEW j \in DOMAIN net', NEW l \in DOMAIN net',
                      IsPut(j, k)', IsPut(l, k)', j < l
               PROVE  ~Behind(net'[l], net'[j])
    BY DEF QueueInLine
  <2>1. /\ IsPut(Before(i, j), k) /\ IsPut(Before(i, l), k)
        /\ Before(i, j) < Before(i, l)
        /\ Before(i, j) \in DOMAIN net /\ Before(i, l) \in DOMAIN net
    BY <1>1
  <2>2. ~Behind(net[Before(i, l)], net[Before(i, j)])
    BY <2>1 DEF Ordered, QueueInLine
  <2> QED BY <1>1, <2>2
<1>4. RowInLine'
  BY <1>1 DEF Ordered, RowInLine
<1>5. LocalIsLatest'
  <2> SUFFICES ASSUME NEW k \in Keys, local.records[k] # None
               PROVE  /\ row[k] # None => ~Behind(OwnCopy(k)', row[k])
                      /\ blob[k] # None => blob[k].at <= local.records[k].at
                      /\ \A j \in DOMAIN net' : IsPut(j, k)' => ~Behind(OwnCopy(k)', net'[j])
    BY <1>1 DEF LocalIsLatest
  <2>1. OwnCopy(k)' = OwnCopy(k)
    BY <1>1 DEF OwnCopy, StatusOf
  <2>2. \A j \in DOMAIN net' : IsPut(j, k)' => ~Behind(OwnCopy(k)', net'[j])
    BY <1>1, <2>1 DEF Ordered, LocalIsLatest
  <2> QED BY <2>1, <2>2 DEF Ordered, LocalIsLatest
<1> QED BY <1>2, <1>3, <1>4, <1>5 DEF Ordered

LEMMA InitOrdered == Init => Ordered
<1> SUFFICES ASSUME Init PROVE Ordered
  OBVIOUS
<1>1. /\ local = [records |-> [k \in Keys |-> None], submitted |-> {}, active |-> None]
      /\ net = <<>>
      /\ row = [k \in Keys |-> None]
      /\ blob = [k \in Keys |-> None]
  BY DEF Init
<1>2. DOMAIN net = {}
  BY <1>1
<1>3. \A k \in Keys : local.records[k] = None /\ row[k] = None /\ blob[k] = None
  BY <1>1
<1> QED BY <1>2, <1>3 DEF Ordered, SavedInThePast, QueueInLine, RowInLine, LocalIsLatest

\* A step of the API.
ApiStep ==
    \E i \in 1..MaxInFlight : WriteBlob(i) \/ WriteRow(i) \/ Answer(i) \/ RequestDies(i)

\* A step is one of the browser or one of the API.
LEMMA StepKinds ==
    ASSUME TypeOK, [Next]_vars
    PROVE  ClientStep \/ ApiStep
<1>1. CASE Next
  BY <1>1, ScreensAreClientSteps, EditingIsClientSteps, ProjectsAreClientSteps,
     AnswerLostIsClientStep DEF Next, ServerStep, ApiStep
<1>2. CASE UNCHANGED vars
  <2>1. local' = local /\ net' = net /\ clock' = clock /\ UNCHANGED server
    BY <1>2 DEF vars, server
  <2>2. clock <= clock'
    BY <2>1, CloudSyncAssumption DEF TypeOK
  <2>3. Refiled(local, local', clock, clock')
    BY <2>1, RefiledSame
  <2>4. Grows(net, net', local')
    BY <2>1, GrowsSame DEF TypeOK
  <2>5. Remembers
    BY <1>2 DEF vars, Remembers
  <2> QED BY <2>1, <2>2, <2>3, <2>4, <2>5 DEF ClientStep
<1> QED BY <1>1, <1>2

LEMMA NextOrdered ==
    ASSUME TypeOK, Ordered, [Next]_vars
    PROVE  TypeOK' /\ Ordered'
<1>1. TypeOK'
  BY NextType
<1> QED BY <1>1, StepKinds, ClientKeepsOrder, WriteBlobKeepsOrder, WriteRowKeepsOrder,
        LeavingKeepsOrder DEF ApiStep

\* The server's copy of a draft goes back to older content, or from submitted
\* to draft, only by a request that a later one about that draft has overtaken
\* on its way: never through the flush, the freeze of a submitted draft, retries,
\* reloads or beacons (startCloudSync, putDraft), in whatever order requests are
\* served, for any number of drafts and of requests in flight.
THEOREM CloudMovesForward == Spec => CloudNeverGoesBack
<1> DEFINE Forward == \A k \in Keys :
              row[k] # None /\ row'[k] # None /\ Behind(row'[k], row[k])
              => \E i \in DOMAIN net : /\ net[i].key = k /\ net[i].overtaken
                                       /\ net'[i].phase # net[i].phase
<1>1. Init => TypeOK /\ Ordered
  BY InitType, InitOrdered
<1>2. TypeOK /\ Ordered /\ [Next]_vars => TypeOK' /\ Ordered'
  BY NextOrdered
<1>3. TypeOK /\ Ordered /\ [Next]_vars => [Forward]_vars
  <2> SUFFICES ASSUME TypeOK, Ordered, [Next]_vars,
                      NEW k \in Keys, row[k] # None, row'[k] # None, Behind(row'[k], row[k])
               PROVE  \E i \in DOMAIN net : /\ net[i].key = k /\ net[i].overtaken
                                            /\ net'[i].phase # net[i].phase
    OBVIOUS
  <2>1. row'[k] # row[k]
    BY DEF TypeOK, Row, Draft, Times, Behind
  <2>2. PICK i \in 1..MaxInFlight : WriteRow(i)
    BY <2>1, StepKinds DEF ClientStep, ApiStep, server, WriteBlob, Answer, RequestDies
  <2>3. net[i].key = k /\ net[i].op = "put" /\ net[i].overtaken
    BY <2>2, WriteRowKeepsOrder
  <2>4. i \in DOMAIN net /\ Turn(i, "row") /\ net' = Overtaken(Advanced(i), i)
    BY <2>2, RowIsWritten
  <2>5. net[i].phase = "half"
    BY <2>3, <2>4 DEF Turn, Writes
  <2>6. net'[i].phase = "done"
    BY <2>4, <2>5, WritesMove
  <2> QED BY <2>3, <2>4, <2>5, <2>6
<1>4. [][Forward]_vars <=> CloudNeverGoesBack
  BY DEF CloudNeverGoesBack
<1> HIDE DEF Forward
<1> QED BY <1>1, <1>2, <1>3, <1>4, PTL DEF Spec

-----------------------------------------------------------------------------
(* Steps of the API keep the line when requests are served in order: it    *)
(* works for the first one, which is the oldest behind the row.            *)

\* The turns of a put and of a delete are as the API orders its writes.
LEMMA FirstTurn ==
    ASSUME TypeOK, InOrder, NEW i, NEW part, Turn(i, part)
    PROVE  /\ i = 1 /\ 1 \in DOMAIN net /\ net # <<>> /\ net[1] \in Request
           /\ part = "blob" =>
                 \/ net[1].op = "put" /\ net[1].phase = "sent"
                 \/ net[1].op = "delete" /\ net[1].phase = "half" /\ net[1].draft = None
           /\ part = "row" =>
                 \/ net[1].op = "put" /\ net[1].phase = "half"
                 \/ net[1].op = "delete" /\ net[1].phase = "sent"
<1>1. i = 1 /\ 1 \in DOMAIN net /\ net \in Seq(Request)
  BY DEF Turn, Served, TypeOK
<1>2. net # <<>> /\ net[1] \in Request
  BY <1>1
<1>3. \/ net[1].op = "put"
      \/ net[1].op = "delete" /\ net[1].draft = None
  BY <1>2 DEF Request, Puts, Deletes
<1>4. CASE net[1].op = "put"
  BY <1>1, <1>2, <1>4 DEF Turn, Writes
<1>5. CASE net[1].op = "delete" /\ net[1].draft = None
  BY <1>1, <1>2, <1>5 DEF Turn, Writes
<1> QED BY <1>3, <1>4, <1>5

\* What a write of the first request leaves as it was.
LEMMA FirstWrite ==
    ASSUME TypeOK, InOrder, OneServed, NEW i, WriteBlob(i) \/ WriteRow(i)
    PROVE  /\ i = 1 /\ 1 \in DOMAIN net /\ net # <<>> /\ net[1] \in Request
           /\ net[1].key \in Keys
           /\ net[1].op = "put" \/ (net[1].op = "delete" /\ net[1].draft = None)
           /\ local' = local /\ clock' = clock
           /\ lastPushed' = lastPushed /\ basis' = basis
           /\ DOMAIN net' = DOMAIN net
           /\ \A j \in DOMAIN net : SameMessage(net'[j], net[j])
           /\ net'[1].phase = IF net[1].phase = "sent" THEN "half" ELSE "done"
           /\ \A k, j : IsPut(j, k)' <=> IsPut(j, k)
           /\ OneServed'
<1>1. /\ Turn(i, "blob") \/ Turn(i, "row")
      /\ net' = Advanced(i) \/ net' = Overtaken(Advanced(i), i)
  BY DEF WriteBlob, WriteRow
<1>2. i = 1 /\ 1 \in DOMAIN net /\ net # <<>> /\ net[1] \in Request
  BY <1>1, FirstTurn
<1>3. /\ net[1].key \in Keys
      /\ net[1].op = "put" \/ (net[1].op = "delete" /\ net[1].draft = None)
  BY <1>2 DEF Request, Puts, Deletes
<1>4. local' = local /\ clock' = clock /\ lastPushed' = lastPushed /\ basis' = basis
  BY DEF WriteBlob, WriteRow, ClientKeeps
<1>5. net' = Advanced(1) \/ net' = Overtaken(Advanced(1), 1)
  BY <1>1, <1>2
<1>6. /\ DOMAIN net' = DOMAIN net
      /\ \A j \in DOMAIN net : SameMessage(net'[j], net[j])
      /\ \A j \in DOMAIN net : j # 1 => net'[j].phase = net[j].phase
      /\ net'[1].phase = IF net[1].phase = "sent" THEN "half" ELSE "done"
      /\ \A j \in DOMAIN net : 1 = 1 /\ ~net[j].overtaken => ~net'[j].overtaken
      /\ \A k, j : IsPut(j, k)' <=> IsPut(j, k)
  BY <1>2, <1>5, WritesMove
<1>7. OneServed'
  BY <1>6 DEF OneServed
<1> QED BY <1>2, <1>3, <1>4, <1>6, <1>7

\* The request at the head, when it is a put, is in line.
LEMMA HeadInLine ==
    ASSUME TypeOK, Line, 1 \in DOMAIN net, net[1].op = "put",
           NEW k \in Keys, k = net[1].key
    PROVE  /\ net[1].draft \in Draft /\ net[1].draft.at \in Nat
           /\ row[k] # None => ~Behind(net[1], row[k])
           /\ blob[k] # None => blob[k].at <= net[1].draft.at
           /\ \A i \in DOMAIN net : IsPut(i, k) => net[1].draft.at <= net[i].draft.at
           /\ local.records[k] # None => net[1].draft.at <= local.records[k].at
<1>1. \A i \in DOMAIN net : 1 <= i
  BY DEF TypeOK
<1>2. Ordered /\ ~net[1].overtaken
  BY DEF Line, OneServed
<1>3. /\ IsPut(1, k)
      /\ net[1].draft \in Draft /\ net[1].draft.at \in Nat
      /\ row[k] # None => ~Behind(net[1], row[k])
      /\ \A i \in DOMAIN net : IsPut(i, k) /\ 1 <= i => net[1].draft.at <= net[i].draft.at
      /\ local.records[k] # None => net[1].draft.at <= local.records[k].at
  BY <1>2, PutInOrder
<1>4. blob[k] # None => blob[k].at <= net[1].draft.at
  BY <1>3 DEF Line, BlobInLine
<1> QED BY <1>1, <1>3, <1>4

LEMMA WriteBlobKeepsLine ==
    ASSUME TypeOK, InOrder, Line, ListingHasContent, NEW i, WriteBlob(i)
    PROVE  Line' /\ ListingHasContent'
<1>1. /\ i = 1 /\ 1 \in DOMAIN net /\ net[1].key \in Keys
      /\ DOMAIN net' = DOMAIN net
      /\ \A j \in DOMAIN net : SameMessage(net'[j], net[j])
      /\ net'[1].phase = IF net[1].phase = "sent" THEN "half" ELSE "done"
      /\ \A k, j : IsPut(j, k)' <=> IsPut(j, k)
      /\ OneServed'
  BY FirstWrite DEF Line
<1>2. \/ net[1].op = "put" /\ net[1].phase = "sent"
      \/ net[1].op = "delete" /\ net[1].phase = "half" /\ net[1].draft = None
  BY FirstTurn DEF WriteBlob
<1>3. /\ row' = row
      /\ \A k \in Keys : blob'[k] = blob[k] \/ (k = net[1].key /\ blob'[k] = net[1].draft)
      /\ net[1].op = "put" => blob'[net[1].key] = net[1].draft
  BY <1>1, <1>2 DEF WriteBlob, TypeOK
<1>4. Ordered'
  BY WriteBlobKeepsOrder DEF Line
<1>5. HeadWritten'
  BY <1>1, <1>2, <1>3 DEF HeadWritten, SameMessage
<1>6. BlobInLine'
  <2> SUFFICES ASSUME NEW k \in Keys, NEW j \in DOMAIN net, IsPut(j, k), blob'[k] # None
               PROVE  blob'[k].at <= net[j].draft.at
    BY <1>1 DEF BlobInLine, SameMessage
  <2>1. CASE blob'[k] = blob[k]
    BY <2>1 DEF Line, BlobInLine
  <2>2. CASE k = net[1].key /\ blob'[k] = net[1].draft
    BY <1>1, <1>2, <2>2, HeadInLine
  <2> QED BY <1>3, <2>1, <2>2
<1>7. ListingHasContent'
  <2> SUFFICES ASSUME NEW k \in Keys, row[k] # None
               PROVE  blob'[k] # None /\ row[k].draft.at <= blob'[k].at
    BY <1>3 DEF ListingHasContent
  <2>1. CASE blob'[k] = blob[k]
    BY <2>1 DEF ListingHasContent
  <2>2. CASE net[1].op = "put" /\ k = net[1].key /\ blob'[k] = net[1].draft
    <3>1. /\ net[1].draft \in Draft /\ net[1].draft.at \in Nat
          /\ ~Behind(net[1], row[k])
      BY <1>1, <2>2, HeadInLine
    <3>2. row[k].draft.at \in Nat
      BY DEF TypeOK, Row, Draft, Times
    <3> QED BY <2>2, <3>1, <3>2, NoneIsNothing DEF Behind
  <2>3. CASE net[1].op = "delete" /\ net[1].phase = "half" /\ k = net[1].key
    BY <1>1, <2>3 DEF Line, HeadWritten
  <2> QED BY <1>2, <1>3, <2>1, <2>2, <2>3
<1> QED BY <1>1, <1>4, <1>5, <1>6, <1>7 DEF Line

LEMMA WriteRowKeepsLine ==
    ASSUME TypeOK, InOrder, Line, ListingHasContent, NEW i, WriteRow(i)
    PROVE  Line' /\ ListingHasContent'
<1>1. /\ i = 1 /\ 1 \in DOMAIN net /\ net # <<>> /\ net[1].key \in Keys
      /\ DOMAIN net' = DOMAIN net
      /\ \A j \in DOMAIN net : SameMessage(net'[j], net[j])
      /\ net'[1].phase = IF net[1].phase = "sent" THEN "half" ELSE "done"
      /\ \A k, j : IsPut(j, k)' <=> IsPut(j, k)
      /\ OneServed'
  BY FirstWrite DEF Line
<1>2. \/ net[1].op = "put" /\ net[1].phase = "half"
      \/ net[1].op = "delete" /\ net[1].phase = "sent"
  BY FirstTurn DEF WriteRow
<1>3. /\ blob' = blob
      /\ \A k \in Keys : k # net[1].key => row'[k] = row[k]
      /\ \/ /\ net[1].op = "put"
            /\ row'[net[1].key] = [draft |-> net[1].draft, status |-> net[1].status]
         \/ net[1].op = "delete" /\ row'[net[1].key] = None
  BY <1>1, RowIsWritten
<1>4. Ordered'
  BY WriteRowKeepsOrder DEF Line
<1>5. HeadWritten'
  BY <1>1, <1>2, <1>3 DEF HeadWritten, SameMessage
<1>6. BlobInLine'
  BY <1>1, <1>3 DEF Line, BlobInLine, SameMessage
<1>7. ListingHasContent'
  <2> SUFFICES ASSUME NEW k \in Keys, row'[k] # None
               PROVE  blob[k] # None /\ row'[k].draft.at <= blob[k].at
    BY <1>3 DEF ListingHasContent
  <2>1. CASE k # net[1].key
    BY <1>3, <2>1 DEF ListingHasContent
  <2>2. CASE net[1].op = "put" /\ k = net[1].key
    <3>1. net[1].draft \in Draft /\ net[1].draft.at \in Nat
      BY <1>1, <2>2, HeadInLine
    <3>2. blob[k] = net[1].draft
      BY <1>1, <1>2, <2>2 DEF Line, HeadWritten
    <3>3. row'[k].draft = net[1].draft
      BY <1>3, <2>2
    <3> QED BY <3>1, <3>2, <3>3, NoneIsNothing
  <2> QED BY <1>3, <2>1, <2>2
<1> QED BY <1>1, <1>4, <1>5, <1>6, <1>7 DEF Line

\* How the requests move up when the first of them leaves.
LEMMA FirstLeaves ==
    ASSUME TypeOK, InOrder, NEW i, Answer(i) \/ RequestDies(i)
    PROVE  /\ i = 1 /\ 1 \in DOMAIN net /\ net # <<>> /\ net[1] \in Request
           /\ row' = row /\ blob' = blob /\ local' = local /\ clock' = clock
           /\ \A j \in DOMAIN net' : /\ j + 1 \in DOMAIN net /\ j + 1 # 1 /\ 1 < j + 1
                                     /\ j \in Nat
                                     /\ net'[j] = net[j + 1]
           /\ \A l \in DOMAIN net : l # 1 => l - 1 \in DOMAIN net' /\ net'[l - 1] = net[l]
           /\ \A k : \A j \in DOMAIN net' : IsPut(j, k)' => IsPut(j + 1, k)
           /\ net' # <<>> => 1 \in DOMAIN net'
<1>1. /\ i \in DOMAIN net /\ net[i] \in Request /\ Served(i)
      /\ row' = row /\ blob' = blob /\ local' = local /\ clock' = clock
      /\ \A j \in DOMAIN net' : Before(i, j) \in DOMAIN net /\ net'[j] = net[Before(i, j)]
      /\ \A l \in DOMAIN net : l # i => \E j \in DOMAIN net' : l = Before(i, j)
      /\ \A k : \A j \in DOMAIN net' : IsPut(j, k)' => IsPut(Before(i, j), k)
  BY Leaves
<1>2. i = 1 /\ net \in Seq(Request) /\ net # <<>>
  BY <1>1 DEF Served, TypeOK
<1>3. net' \in Seq(Request)
  BY <1>2, RemoveAtType DEF Answer, RequestDies
<1>4. \A j \in DOMAIN net' : j \in Nat /\ 1 <= j
  BY <1>3
<1>5. \A j \in DOMAIN net' : Before(i, j) = j + 1 /\ j + 1 # 1 /\ 1 < j + 1 /\ (j + 1) - 1 = j
  BY <1>2, <1>4 DEF Before
<1>6. \A l \in DOMAIN net : l # 1 => l - 1 \in DOMAIN net' /\ net'[l - 1] = net[l]
  BY <1>1, <1>2, <1>4, <1>5
<1>7. net' # <<>> => 1 \in DOMAIN net'
  BY <1>3
<1> QED BY <1>1, <1>2, <1>4, <1>5, <1>6, <1>7

LEMMA LeavingKeepsLine ==
    ASSUME TypeOK, InOrder, Line, ListingHasContent, NEW i, Answer(i) \/ RequestDies(i)
    PROVE  Line' /\ ListingHasContent'
<1>1. /\ row' = row /\ blob' = blob
      /\ \A j \in DOMAIN net' : j + 1 \in DOMAIN net /\ j + 1 # 1 /\ net'[j] = net[j + 1]
      /\ \A k : \A j \in DOMAIN net' : IsPut(j, k)' => IsPut(j + 1, k)
      /\ net' # <<>> => 1 \in DOMAIN net'
  BY FirstLeaves
<1>2. Ordered'
  BY LeavingKeepsOrder DEF Line
<1>3. OneServed'
  BY <1>1 DEF Line, OneServed
<1>4. HeadWritten'
  BY <1>1 DEF Line, OneServed, HeadWritten
<1>5. BlobInLine'
  BY <1>1 DEF Line, BlobInLine
<1>6. ListingHasContent'
  BY <1>1 DEF ListingHasContent
<1> QED BY <1>2, <1>3, <1>4, <1>5, <1>6 DEF Line

LEMMA InitInv == Init => Inv
<1> SUFFICES ASSUME Init PROVE Inv
  OBVIOUS
<1>1. net = <<>> /\ DOMAIN net = {} /\ \A k \in Keys : row[k] = None
  BY DEF Init
<1>2. OneServed /\ HeadWritten /\ BlobInLine
  BY <1>1 DEF OneServed, HeadWritten, BlobInLine, IsPut
<1>3. ListingHasContent
  BY <1>1 DEF ListingHasContent
<1> QED BY <1>2, <1>3, InitType, InitOrdered DEF Inv, Line

LEMMA NextInv ==
    ASSUME InOrder, Inv, [Next]_vars
    PROVE  Inv'
<1>1. TypeOK /\ TypeOK' /\ Line /\ ListingHasContent
  BY NextType DEF Inv
<1>2. Line' /\ ListingHasContent'
  BY <1>1, StepKinds, ClientKeepsLine, ClientKeepsListing, WriteBlobKeepsLine,
     WriteRowKeepsLine, LeavingKeepsLine DEF ApiStep
<1> QED BY <1>1, <1>2 DEF Inv

\* A listed draft has its content, at least as new as the row says: through
\* failures, lost requests, crashes and publishing, for any number of drafts
\* and requests, when requests are served in order (putDraft, deleteDraft).
THEOREM ListedDraftsHaveContent ==
    ASSUME InOrder
    PROVE  Spec => []ListingHasContent
<1>1. Init => Inv
  BY InitInv
<1>2. Inv /\ [Next]_vars => Inv'
  BY NextInv
<1>3. Inv => ListingHasContent
  BY DEF Inv
<1> QED BY <1>1, <1>2, <1>3, PTL DEF Spec

-----------------------------------------------------------------------------
(* The cards: the local copy is never behind the row, so the row is shown  *)
(* in its place only when it is a submission and the local copy a draft.   *)

\* The copies of a draft are copies.
LEMMA CopiesAreTyped ==
    ASSUME TypeOK, NEW k \in Keys
    PROVE  /\ local.records[k] # None => OwnCopy(k).draft.at \in Nat
           /\ row[k] # None => row[k].draft.at \in Nat
           /\ OwnCopy(k).status \in Statuses
<1>1. \A d \in Draft : d.at \in Nat
  BY DEF Draft, Times
<1>2. row[k] # None => row[k] \in Row
  BY DEF TypeOK
<1>3. local.records[k] # None => local.records[k] \in Draft
  BY DEF TypeOK
<1> QED BY <1>1, <1>2, <1>3 DEF Row, OwnCopy, StatusOf, Statuses

\* What a card of a project this browser holds shows.
CardsShown ==
    \A k \in Keys : local.records[k] # None =>
        /\ Card(k) = IF /\ row[k] # None /\ row[k].status = "submitted"
                        /\ OwnCopy(k).status = "draft"
                     THEN row[k] ELSE OwnCopy(k)
        /\ OwnCopy(k).draft.at \in Nat /\ OwnCopy(k).status \in Statuses
        /\ row[k] # None => row[k].draft.at \in Nat

LEMMA CardOfListed ==
    ASSUME TypeOK, Line
    PROVE  CardsShown
<1> SUFFICES ASSUME NEW k \in Keys, local.records[k] # None
             PROVE  Card(k) = IF /\ row[k] # None /\ row[k].status = "submitted"
                                 /\ OwnCopy(k).status = "draft"
                              THEN row[k] ELSE OwnCopy(k)
  BY CopiesAreTyped DEF CardsShown
<1>1. CASE row[k] = None
  BY <1>1 DEF Card
<1>2. CASE row[k] # None
  <2>1. ~Behind(OwnCopy(k), row[k])
    BY <1>2 DEF Line, Ordered, LocalIsLatest
  <2>2. ~(local.records[k].at < row[k].draft.at)
    BY <2>1 DEF Behind, OwnCopy
  <2>3. CloudWins(k) <=> row[k].status = "submitted" /\ OwnCopy(k).status = "draft"
    BY <2>2 DEF CloudWins
  <2> QED BY <1>2, <2>3 DEF Card
<1> QED BY <1>1, <1>2

\* A step of the browser changes a local copy to one that is ahead of it.
LEMMA OwnCopyMovesForward ==
    ASSUME TypeOK, TypeOK', Line, ClientStep, NEW k \in Keys,
           local.records[k] # None, local'.records[k] # None
    PROVE  /\ ~Behind(OwnCopy(k)', OwnCopy(k))
           /\ OwnCopy(k)'.status = "draft" => OwnCopy(k).status = "draft"
<1>1. /\ OwnCopy(k)'.draft = local'.records[k]
      /\ OwnCopy(k)'.status = IF k \in local'.submitted THEN "submitted" ELSE "draft"
      /\ OwnCopy(k).draft = local.records[k]
      /\ OwnCopy(k).status = IF k \in local.submitted THEN "submitted" ELSE "draft"
  BY DEF OwnCopy, StatusOf
<1>2. OwnCopy(k).draft.at \in Nat /\ OwnCopy(k)'.draft.at \in Nat
  BY <1>1 DEF TypeOK, Draft, Times
<1>3. CASE local'.records[k] = local.records[k] /\ (k \in local.submitted => k \in local'.submitted)
  BY <1>1, <1>2, <1>3 DEF Behind
<1>4. CASE local'.records[k].at = clock' /\ clock < clock' /\ k \notin local.submitted
  <2>1. local.records[k].at <= clock
    BY DEF Line, Ordered, SavedInThePast
  <2>2. clock \in Nat /\ clock' \in Nat
    BY CloudSyncAssumption DEF TypeOK
  <2> QED BY <1>1, <1>2, <1>4, <2>1, <2>2 DEF Behind
<1> QED BY <1>3, <1>4 DEF ClientStep, Refiled, Saved

\* What "My keyboards" shows of a project this browser holds never goes back
\* to older content, nor from Submitted to draft, whichever of the two copies
\* mergeProjectEntries takes it from, when requests are served in order and
\* none about an earlier project of that id is on its way.
THEOREM CardsMoveForward ==
    ASSUME InOrder
    PROVE  Spec => CardNeverGoesBack
<1> DEFINE Forward == \A k \in Keys :
              /\ local.records[k] # None /\ local'.records[k] # None
              /\ \A i \in DOMAIN net' : net'[i].key = k => ~OfEarlierProject(net[i])'
              => ~Behind(Card(k)', Card(k))
<1>1. Init => Inv
  BY InitInv
<1>2. Inv /\ [Next]_vars => Inv'
  BY NextInv
<1>3. Inv => CardsShown
  BY CardOfListed DEF Inv
<1>4. Inv /\ CardsShown /\ Inv' /\ CardsShown' /\ [Next]_vars => [Forward]_vars
  <2> SUFFICES ASSUME Inv, CardsShown, Inv', CardsShown', [Next]_vars,
                      NEW k \in Keys, local.records[k] # None, local'.records[k] # None,
                      \A i \in DOMAIN net' : net'[i].key = k => ~OfEarlierProject(net[i])'
               PROVE  ~Behind(Card(k)', Card(k))
    OBVIOUS
  <2>1. TypeOK /\ TypeOK' /\ Line /\ Line' /\ ListingHasContent
    BY DEF Inv
  <2>2. /\ Card(k) = IF /\ row[k] # None /\ row[k].status = "submitted"
                        /\ OwnCopy(k).status = "draft"
                     THEN row[k] ELSE OwnCopy(k)
        /\ Card(k)' = IF /\ row'[k] # None /\ row'[k].status = "submitted"
                         /\ OwnCopy(k)'.status = "draft"
                      THEN row'[k] ELSE OwnCopy(k)'
    BY DEF CardsShown
  <2>3. /\ OwnCopy(k).draft.at \in Nat /\ OwnCopy(k)'.draft.at \in Nat
        /\ row[k] # None => row[k].draft.at \in Nat
        /\ row'[k] # None => row'[k].draft.at \in Nat
        /\ OwnCopy(k).status \in Statuses /\ OwnCopy(k)'.status \in Statuses
    BY DEF CardsShown
\* The local copy after the step is behind neither copy before it.
  <2>4. /\ ~Behind(OwnCopy(k)', OwnCopy(k))
        /\ OwnCopy(k)'.status = "draft" => OwnCopy(k).status = "draft"
    <3>1. CASE ClientStep
      BY <2>1, <3>1, OwnCopyMovesForward
    <3>2. CASE local' = local
      BY <2>3, <3>2 DEF OwnCopy, StatusOf, Behind
    <3> QED BY <2>1, <3>1, <3>2, StepKinds
            DEF ApiStep, WriteBlob, WriteRow, ClientKeeps, Answer, RequestDies
  <2>5. row[k] # None => ~Behind(OwnCopy(k), row[k])
    BY <2>1 DEF Line, Ordered, LocalIsLatest
  <2>6. ~Behind(OwnCopy(k)', Card(k))
    <3>1. CASE Card(k) = OwnCopy(k)
      BY <2>4, <3>1
    <3>2. CASE Card(k) = row[k] /\ row[k] # None
      BY <2>3, <2>4, <2>5, <3>2 DEF Behind, Statuses
    <3> QED BY <2>2, <3>1, <3>2
  <2>7. CASE Card(k)' = OwnCopy(k)'
    BY <2>6, <2>7
\* The row after the step is shown: it is a submission of an earlier project.
  <2>8. CASE /\ Card(k)' = row'[k] /\ row'[k] # None
             /\ row'[k].status = "submitted" /\ OwnCopy(k)'.status = "draft"
    <3>1. CASE row'[k] = row[k]
      <4>1. Card(k) = row[k] /\ Card(k)' = row[k]
        BY <2>2, <2>4, <2>8, <3>1
      <4> QED BY <2>3, <2>8, <3>1, <4>1 DEF Behind
    <3>2. ASSUME NEW i \in 1..MaxInFlight, WriteRow(i), row'[k] # row[k]
          PROVE  FALSE
      <4>1. /\ i = 1 /\ 1 \in DOMAIN net /\ DOMAIN net' = DOMAIN net
            /\ \A j \in DOMAIN net : SameMessage(net'[j], net[j])
        BY <2>1, <3>2, FirstWrite DEF Line
      <4>2. /\ \A l \in Keys : l # net[1].key => row'[l] = row[l]
            /\ \/ row'[net[1].key] = [draft |-> net[1].draft, status |-> net[1].status]
               \/ row'[net[1].key] = None
        BY <2>1, <3>2, <4>1, RowIsWritten
      <4>3. /\ 1 \in DOMAIN net' /\ net'[1].key = net[1].key
            /\ net'[1].status = net[1].status
        BY <4>1 DEF SameMessage
      <4>4. net[1].key = k /\ net[1].status = "submitted"
        BY <2>8, <3>2, <4>2
      <4>5. k \notin local'.submitted
        BY <2>8 DEF OwnCopy, StatusOf
      <4>6. OfEarlierProject(net[1])'
        BY <4>3, <4>4, <4>5 DEF OfEarlierProject
      <4> QED BY <4>3, <4>4, <4>6
    <3>3. row' = row \/ \E i \in 1..MaxInFlight : WriteRow(i)
      BY <2>1, StepKinds DEF ClientStep, ApiStep, server, WriteBlob, Answer, RequestDies
    <3> QED BY <3>1, <3>2, <3>3
  <2> QED BY <2>2, <2>7, <2>8
<1>5. [][Forward]_vars <=> CardNeverGoesBack
  BY DEF CardNeverGoesBack
<1> HIDE DEF Forward
<1> QED BY <1>1, <1>2, <1>3, <1>4, <1>5, PTL DEF Spec

-----------------------------------------------------------------------------
(* What the hash stands for. A time of a save belongs to one draft of one  *)
(* id, so a push that was answered and the record that still has its time  *)
(* are the same content; and a DELETE is sent only when the record is      *)
(* gone, so none is left behind the push of a record that is still there.  *)

IsDelete(i, k) == i \in DOMAIN net /\ net[i].op = "delete" /\ net[i].key = k

\* Somewhere, d is kept as a draft of k.
IsCopy(k, d) ==
    \/ d = local.records[k]
    \/ d = blob[k]
    \/ row[k] # None /\ d = row[k].draft
    \/ \E i \in DOMAIN net : IsPut(i, k) /\ d = net[i].draft

\* A time belongs to one draft.
OneStamp ==
    \A k, l \in Keys, a, b \in Draft :
        IsCopy(k, a) /\ IsCopy(l, b) /\ a.at = b.at => k = l /\ a = b

\* The server holds d as k, listed and with its content.
Holds(k, d) == row[k] # None /\ row[k].draft = d /\ blob[k] = d

\* A put that is about to be answered is stored.
HeadStored ==
    net # <<>> /\ net[1].op = "put" /\ net[1].phase = "done" =>
        Holds(net[1].key, net[1].draft)

\* A push of what is still filed has no DELETE behind it.
FiledOutlivesDeletes ==
    \A k \in Keys : local.records[k] # None =>
        \A i \in DOMAIN net : IsPut(i, k) /\ net[i].draft = local.records[k] =>
            \A j \in DOMAIN net : i < j => ~IsDelete(j, k)

\* What was pushed is stored, unless it was taken for pushed on the word of a
\* beacon that is on its way or was lost.
PushedIsStored ==
    \A k \in Keys : local.records[k] # None /\ local.records[k].at = lastPushed =>
        \/ Holds(k, local.records[k]) /\ \A j \in DOMAIN net : ~IsDelete(j, k)
        \/ /\ basis = "beacon"
           /\ \E i \in DOMAIN net : IsPut(i, k) /\ net[i].draft = local.records[k]
        \/ basis = "lost"

Stored ==
    /\ OneStamp
    /\ HeadStored
    /\ FiledOutlivesDeletes
    /\ PushedIsStored
    /\ lastPushed <= clock

\* No copy is newer than the clock.
LEMMA CopiesInThePast ==
    ASSUME TypeOK, Line, NEW k \in Keys, NEW d \in Draft, IsCopy(k, d)
    PROVE  d.at <= clock /\ d.at \in Nat
<1>1. d # None /\ d.at \in Nat
  BY NoneIsNothing DEF Draft, Times
<1>2. CASE d = local.records[k] \/ d = blob[k] \/ (row[k] # None /\ d = row[k].draft)
  BY <1>1, <1>2 DEF Line, Ordered, SavedInThePast
<1>3. CASE \E i \in DOMAIN net : IsPut(i, k) /\ d = net[i].draft
  BY <1>1, <1>3 DEF Line, Ordered, SavedInThePast, IsPut
<1> QED BY <1>2, <1>3 DEF IsCopy

\* Every copy is one that was there, or the one draft just saved.
LEMMA CopiesMove ==
    ASSUME TypeOK, TypeOK', InOrder, Line, ClientStep \/ ApiStep,
           NEW k \in Keys, NEW d \in Draft, IsCopy(k, d)'
    PROVE  \/ IsCopy(k, d)
           \/ Saved(local, local', k) /\ d = local'.records[k] /\ d.at = clock' /\ clock < clock'
<1>0. d # None
  BY NoneIsNothing
<1>1. CASE ClientStep
  <2>1. row' = row /\ blob' = blob
    BY <1>1 DEF ClientStep, server
  <2>2. CASE d = local'.records[k]
    <3>1. \/ local'.records[k] = local.records[k]
          \/ Saved(local, local', k) /\ local'.records[k].at = clock' /\ clock < clock'
      BY <1>0, <1>1, <2>2 DEF ClientStep, Refiled
    <3> QED BY <2>2, <3>1 DEF IsCopy
  <2>3. CASE d = blob'[k] \/ (row'[k] # None /\ d = row'[k].draft)
    BY <2>1, <2>3 DEF IsCopy
  <2>4. ASSUME NEW i \in DOMAIN net', IsPut(i, k)', d = net'[i].draft
        PROVE  IsCopy(k, d) \/ d = local'.records[k]
    <3>1. CASE i \in DOMAIN net /\ SameRequest(net'[i], net[i]) /\ IsPut(i, k)
      BY <2>4, <3>1 DEF IsCopy, SameRequest, SameMessage
    <3>2. CASE net'[i].draft = OwnCopy(k)'.draft
      BY <2>4, <3>2 DEF OwnCopy
    <3> QED BY <1>1, <2>4, <3>1, <3>2, OldOrFresh
  <2>5. \/ d = local'.records[k]
        \/ d = blob'[k] \/ (row'[k] # None /\ d = row'[k].draft)
        \/ \E i \in DOMAIN net' : IsPut(i, k)' /\ d = net'[i].draft
    BY DEF IsCopy
  <2> QED BY <2>2, <2>3, <2>4, <2>5
<1>2. ASSUME NEW i \in 1..MaxInFlight, WriteBlob(i) \/ WriteRow(i)
      PROVE  IsCopy(k, d)
  <2>1. /\ i = 1 /\ 1 \in DOMAIN net /\ local' = local
        /\ net[1].op = "put" \/ (net[1].op = "delete" /\ net[1].draft = None)
        /\ DOMAIN net' = DOMAIN net
        /\ \A j \in DOMAIN net : SameMessage(net'[j], net[j])
        /\ \A l, j : IsPut(j, l)' <=> IsPut(j, l)
    BY <1>2, FirstWrite DEF Line
  <2>2. 1 \in DOMAIN net
    BY <2>1
  <2>3. /\ DOMAIN net' = DOMAIN net
        /\ \A j \in DOMAIN net : net'[j].draft = net[j].draft
        /\ \A j : IsPut(j, k)' <=> IsPut(j, k)
    BY <2>1 DEF SameMessage
  <2>5. net[1].op = "put" \/ (net[1].op = "delete" /\ net[1].draft = None)
    BY <2>1
  <2>6. CASE d = local'.records[k]
    BY <2>1, <2>6 DEF IsCopy
  <2>7. CASE d = blob'[k]
    <3>1. blob'[k] = blob[k] \/ (k = net[1].key /\ blob'[k] = net[1].draft)
      BY <1>2, <2>1 DEF WriteBlob, WriteRow, TypeOK
    <3> QED BY <1>0, <2>2, <2>5, <2>7, <3>1 DEF IsCopy, IsPut
  <2>8. CASE row'[k] # None /\ d = row'[k].draft
    <3>1. \/ row'[k] = row[k]
          \/ /\ k = net[1].key /\ net[1].op # "delete"
             /\ row'[k] = [draft |-> net[1].draft, status |-> net[1].status]
      BY <1>2, <2>1, <2>8 DEF WriteBlob, WriteRow, TypeOK
    <3>2. CASE row'[k] = row[k]
      BY <2>8, <3>2 DEF IsCopy
    <3>3. CASE k = net[1].key /\ net[1].op # "delete" /\ d = net[1].draft
      BY <2>2, <2>5, <3>3 DEF IsCopy, IsPut
    <3> QED BY <2>8, <3>1, <3>2, <3>3
  <2>9. CASE \E j \in DOMAIN net' : IsPut(j, k)' /\ d = net'[j].draft
    BY <2>3, <2>9 DEF IsCopy
  <2>10. \/ d = local'.records[k]
         \/ d = blob'[k] \/ (row'[k] # None /\ d = row'[k].draft)
         \/ \E j \in DOMAIN net' : IsPut(j, k)' /\ d = net'[j].draft
    BY DEF IsCopy
  <2> QED BY <2>6, <2>7, <2>8, <2>9, <2>10
<1>3. ASSUME NEW i \in 1..MaxInFlight, Answer(i) \/ RequestDies(i)
      PROVE  IsCopy(k, d)
  <2>1. /\ row' = row /\ blob' = blob /\ local' = local
        /\ \A j \in DOMAIN net' : j + 1 \in DOMAIN net /\ net'[j] = net[j + 1]
    BY <1>3, FirstLeaves
  <2>2. \A j \in DOMAIN net' : IsPut(j, k)' => IsPut(j + 1, k)
    BY <2>1 DEF IsPut
  <2> QED BY <2>1, <2>2 DEF IsCopy
<1> QED BY <1>1, <1>2, <1>3 DEF ApiStep

LEMMA OneStampStays ==
    ASSUME TypeOK, TypeOK', InOrder, Line, ClientStep \/ ApiStep, OneStamp
    PROVE  OneStamp'
<1> SUFFICES ASSUME NEW k \in Keys, NEW l \in Keys, NEW a \in Draft, NEW b \in Draft,
                    IsCopy(k, a)', IsCopy(l, b)', a.at = b.at
             PROVE  k = l /\ a = b
  BY DEF OneStamp
<1>1. /\ IsCopy(k, a) => a.at <= clock /\ a.at \in Nat
      /\ IsCopy(l, b) => b.at <= clock /\ b.at \in Nat
  BY CopiesInThePast
<1>2. clock \in Nat /\ clock' \in Nat
  BY CloudSyncAssumption DEF TypeOK
<1>3. \/ IsCopy(k, a)
      \/ Saved(local, local', k) /\ a = local'.records[k] /\ a.at = clock' /\ clock < clock'
  BY CopiesMove
<1>4. \/ IsCopy(l, b)
      \/ Saved(local, local', l) /\ b = local'.records[l] /\ b.at = clock' /\ clock < clock'
  BY CopiesMove
<1>5. CASE IsCopy(k, a) /\ IsCopy(l, b)
  BY <1>5 DEF OneStamp
<1>6. CASE Saved(local, local', k) /\ a = local'.records[k] /\ clock < clock'
           /\ Saved(local, local', l) /\ b = local'.records[l]
  <2>1. ClientStep
    <3>1. ApiStep => local' = local /\ clock' = clock
      BY DEF ApiStep, WriteBlob, WriteRow, ClientKeeps, Answer, RequestDies
    <3> QED BY <1>2, <1>6, <3>1
  <2> QED BY <1>6, <2>1 DEF ClientStep, Refiled
<1> QED BY <1>1, <1>2, <1>3, <1>4, <1>5, <1>6

\* Two copies of one id with the same time are the same draft.
LEMMA SameTimeSameDraft ==
    ASSUME OneStamp, NEW k \in Keys, NEW l \in Keys, NEW a \in Draft, NEW b \in Draft,
           IsCopy(k, a), IsCopy(l, b), a.at = b.at
    PROVE  k = l /\ a = b
BY DEF OneStamp

\* The browser leaves what the server holds alone.
LEMMA ClientKeepsStored ==
    ASSUME TypeOK, TypeOK', InOrder, Line, ClientStep, Stored
    PROVE  Stored'
<1>1. /\ clock \in Nat /\ clock' \in Nat /\ clock <= clock'
      /\ lastPushed \in Nat /\ lastPushed <= clock
      /\ row' = row /\ blob' = blob
      /\ DOMAIN net = 1..Len(net) /\ DOMAIN net' = 1..Len(net')
      /\ Len(net) \in Nat /\ Len(net') \in Nat
      /\ net \in Seq(Request) /\ net' \in Seq(Request)
  BY CloudSyncAssumption DEF TypeOK, ClientStep, server, Stored
<1>g. Grows(net, net', local')
  BY DEF ClientStep
<1>2. OneStamp'
  BY OneStampStays DEF Stored
\* A record keeps its draft, or has a time that no push has.
<1>3. ASSUME NEW k \in Keys, local'.records[k] # None
      PROVE  /\ local'.records[k] \in Draft /\ local'.records[k].at \in Nat
             /\ local'.records[k].at # 0
             /\ \/ local'.records[k] = local.records[k]
                \/ local'.records[k].at = clock' /\ clock < clock'
  <2>1. local'.records[k] \in Draft
    BY <1>3 DEF TypeOK
  <2>2. local'.records[k].at \in Nat /\ local'.records[k].at # 0
    BY <2>1 DEF Draft, Times
  <2> QED BY <1>3, <2>1, <2>2 DEF ClientStep, Refiled
\* A DELETE in flight was in flight, if its id is filed.
<1>4. ASSUME NEW k \in Keys, local'.records[k] # None, NEW j, IsDelete(j, k)'
      PROVE  j \in 1..Len(net) /\ IsDelete(j, k)
  <2>1. j \in 1..Len(net') /\ net'[j].op = "delete" /\ net'[j].key = k
    BY <1>1, <1>4 DEF IsDelete
  <2>2. CASE j > Len(net)
    BY <1>g, <1>4, <2>1, <2>2 DEF Grows, Fresh
  <2>3. CASE j <= Len(net)
    <3>1. j \in 1..Len(net)
      BY <1>1, <2>1, <2>3
    <3>2. SameRequest(net'[j], net[j])
      BY <1>g, <3>1 DEF Grows
    <3> QED BY <1>1, <2>1, <3>1, <3>2 DEF SameRequest, SameMessage, IsDelete
  <2> QED BY <1>1, <2>1, <2>2, <2>3
<1>5. HeadStored'
  <2> SUFFICES ASSUME net' # <<>>, net'[1].op = "put", net'[1].phase = "done"
               PROVE  Holds(net[1].key, net[1].draft)'
    BY DEF HeadStored
  <2>1. 1 \in 1..Len(net')
    BY <1>1
  <2>2. CASE Len(net) = 0
    BY <1>1, <1>g, <2>1, <2>2 DEF Grows, Fresh
  <2>3. CASE Len(net) # 0
    <3>1. 1 \in 1..Len(net) /\ net # <<>>
      BY <1>1, <2>3
    <3>2. SameRequest(net'[1], net[1])
      BY <1>g, <3>1 DEF Grows
    <3>3. Holds(net[1].key, net[1].draft)
      BY <3>1, <3>2 DEF SameRequest, SameMessage, Stored, HeadStored
    <3> QED BY <1>1, <3>2, <3>3 DEF SameRequest, SameMessage, Holds
  <2> QED BY <2>2, <2>3
<1>6. FiledOutlivesDeletes'
  <2> SUFFICES ASSUME NEW k \in Keys, local'.records[k] # None,
                      NEW i \in DOMAIN net', IsPut(i, k)', net'[i].draft = local'.records[k],
                      NEW j \in DOMAIN net', i < j, IsDelete(j, k)'
               PROVE  FALSE
    BY DEF FiledOutlivesDeletes
  <2>1. j \in 1..Len(net) /\ IsDelete(j, k)
    BY <1>4
  <2>2. i \in 1..Len(net)
    BY <1>1, <2>1
  <2>3. IsPut(i, k) /\ net[i].draft = local'.records[k]
    <3>1. SameRequest(net'[i], net[i])
      BY <1>g, <2>2 DEF Grows
    <3> QED BY <1>1, <2>2, <3>1 DEF SameRequest, SameMessage, IsPut
  <2>4. CASE local'.records[k] = local.records[k]
    BY <1>1, <2>1, <2>2, <2>3, <2>4 DEF Stored, FiledOutlivesDeletes
  <2>5. CASE local'.records[k].at = clock' /\ clock < clock'
    <3>1. IsCopy(k, local'.records[k])
      BY <1>1, <2>2, <2>3 DEF IsCopy
    <3>2. local'.records[k].at <= clock
      BY <1>3, <3>1, CopiesInThePast
    <3> QED BY <1>1, <2>5, <3>2
  <2> QED BY <1>3, <2>4, <2>5
\* The hash is kept or forgotten.
<1>7. CASE lastPushed' = 0 \/ (lastPushed' = lastPushed /\ basis' = basis)
  <2>1. PushedIsStored'
    <3> SUFFICES ASSUME NEW k \in Keys, local'.records[k] # None,
                        local'.records[k].at = lastPushed'
                 PROVE  \/ Holds(k, local.records[k])' /\ \A j \in DOMAIN net' : ~IsDelete(j, k)'
                        \/ /\ basis' = "beacon"
                           /\ \E i \in DOMAIN net' : /\ IsPut(i, k)'
                                                     /\ net'[i].draft = local'.records[k]
                        \/ basis' = "lost"
      BY DEF PushedIsStored
    <3>1. lastPushed' = lastPushed /\ basis' = basis /\ local'.records[k] = local.records[k]
      BY <1>1, <1>3, <1>7
    <3>2. CASE Holds(k, local.records[k]) /\ \A j \in DOMAIN net : ~IsDelete(j, k)
      BY <1>1, <1>4, <3>1, <3>2 DEF Holds
    <3>3. CASE /\ basis = "beacon"
               /\ \E i \in DOMAIN net : IsPut(i, k) /\ net[i].draft = local.records[k]
      <4>1. PICK i \in DOMAIN net : IsPut(i, k) /\ net[i].draft = local.records[k]
        BY <3>3
      <4>2. i \in 1..Len(net)
        BY <1>1
      <4>3. SameRequest(net'[i], net[i])
        BY <1>g, <4>2 DEF Grows
      <4>4. Len(net') = Len(net) \/ Len(net') = Len(net) + 1
        BY <1>g DEF Grows
      <4>5. i \in DOMAIN net'
        <5>1. Len(net) \in Nat /\ Len(net') \in Nat
          BY <1>1
        <5>2. i \in 1..Len(net')
          BY <4>2, <4>4, <5>1
        <5> QED BY <1>1, <5>2
      <4>6. IsPut(i, k)' /\ net'[i].draft = local'.records[k]
        BY <3>1, <4>1, <4>3, <4>5 DEF SameRequest, SameMessage, IsPut
      <4> QED BY <3>1, <3>3, <4>5, <4>6
    <3>4. CASE basis = "lost"
      BY <3>1, <3>4
    <3> QED BY <3>1, <3>2, <3>3, <3>4 DEF Stored, PushedIsStored
  <2>2. lastPushed' <= clock'
    BY <1>1, <1>7
  <2> QED BY <1>2, <1>5, <1>6, <2>1, <2>2 DEF Stored
\* A beacon has taken a record along, which the hash now stands for.
<1>8. CASE /\ basis' = "beacon"
           /\ \E k \in Keys, i \in DOMAIN net' :
                 /\ local'.records[k] # None
                 /\ local'.records[k].at = lastPushed'
                 /\ IsPut(i, k)'
                 /\ net'[i].draft = local'.records[k]
  <2>1. PICK l \in Keys, i \in DOMAIN net' :
           /\ local'.records[l] # None
           /\ local'.records[l].at = lastPushed'
           /\ IsPut(i, l)'
           /\ net'[i].draft = local'.records[l]
    BY <1>8
  <2>2. ASSUME NEW k \in Keys, local'.records[k] # None, local'.records[k].at = lastPushed'
        PROVE  k = l
    <3>1. local'.records[k] \in Draft /\ local'.records[l] \in Draft
      BY <1>3, <2>1, <2>2
    <3>2. IsCopy(k, local.records[k])' /\ IsCopy(l, local.records[l])'
      BY DEF IsCopy
    <3> QED BY <1>2, <2>1, <2>2, <3>1, <3>2 DEF OneStamp
  <2>3. PushedIsStored'
    BY <1>8, <2>1, <2>2 DEF PushedIsStored
  <2>4. lastPushed' <= clock'
    BY <2>1, ClientKeepsOrder DEF Line, Ordered, SavedInThePast
  <2> QED BY <1>2, <1>5, <1>6, <2>3, <2>4 DEF Stored
<1> QED BY <1>7, <1>8 DEF ClientStep, Remembers

\* A write of the API for an id whose record is stored and is still there
\* writes that record once more: the first request is a put between the row
\* and the record.
LEMMA PushedAgain ==
    ASSUME TypeOK, Line, Stored, 1 \in DOMAIN net, net[1] \in Request,
           NEW k \in Keys, k = net[1].key,
           local.records[k] # None, Holds(k, local.records[k]), ~IsDelete(1, k)
    PROVE  net[1].op = "put" /\ net[1].draft = local.records[k]
<1>1. Holds(k, local.records[k]) /\ ~IsDelete(1, k)
  OBVIOUS
<1>2. net[1].op = "put"
  BY <1>1 DEF IsDelete, Request, Puts, Deletes
<1>3. /\ net[1].draft \in Draft /\ net[1].draft.at \in Nat
      /\ row[k] # None => ~Behind(net[1], row[k])
      /\ net[1].draft.at <= local.records[k].at
  BY <1>2, HeadInLine
<1>4. local.records[k] \in Draft /\ local.records[k].at \in Nat
  BY DEF TypeOK, Draft, Times
<1>5. ~(net[1].draft.at < local.records[k].at)
  BY <1>1, <1>3 DEF Holds, Behind
<1>6. net[1].draft.at = local.records[k].at
  BY <1>3, <1>4, <1>5
<1>7. IsCopy(k, net[1].draft) /\ IsCopy(k, local.records[k])
  BY <1>2 DEF IsCopy, IsPut
<1>8. net[1].draft = local.records[k]
  BY <1>3, <1>4, <1>6, <1>7, SameTimeSameDraft DEF Stored
<1> QED BY <1>2, <1>8

LEMMA WritesKeepStored ==
    ASSUME TypeOK, TypeOK', InOrder, Line, Stored, NEW i \in 1..MaxInFlight,
           WriteBlob(i) \/ WriteRow(i)
    PROVE  Stored'
<1>1. \/ Turn(i, "blob") /\ WriteBlob(i)
      \/ Turn(i, "row") /\ WriteRow(i)
  BY DEF WriteBlob, WriteRow
<1>2. /\ i = 1 /\ 1 \in DOMAIN net /\ net # <<>> /\ net[1] \in Request
      /\ net[1].key \in Keys
      /\ net[1].op = "put" \/ (net[1].op = "delete" /\ net[1].draft = None)
      /\ local' = local /\ clock' = clock
      /\ lastPushed' = lastPushed /\ basis' = basis
      /\ DOMAIN net' = DOMAIN net
      /\ \A j \in DOMAIN net : SameMessage(net'[j], net[j])
      /\ net'[1].phase = IF net[1].phase = "sent" THEN "half" ELSE "done"
      /\ \A k, j : IsPut(j, k)' <=> IsPut(j, k)
  BY FirstWrite DEF Line
<1>3. \A j \in DOMAIN net : /\ net'[j].op = net[j].op
                             /\ net'[j].key = net[j].key
                             /\ net'[j].draft = net[j].draft
  BY <1>2 DEF SameMessage
<1>4. \A k, j : IsDelete(j, k)' <=> IsDelete(j, k)
  BY <1>2, <1>3 DEF IsDelete
<1>6. DOMAIN row = Keys /\ DOMAIN blob = Keys
  BY DEF TypeOK
<1>7. /\ \A k \in Keys : k # net[1].key => row'[k] = row[k] /\ blob'[k] = blob[k]
      /\ net[1].op = "put" =>
            /\ row'[net[1].key] \in
                  {row[net[1].key], [draft |-> net[1].draft, status |-> net[1].status]}
            /\ blob'[net[1].key] \in {blob[net[1].key], net[1].draft}
  BY <1>1, <1>2, <1>6 DEF WriteBlob, WriteRow
<1>8. OneStamp'
  BY OneStampStays DEF Stored, ApiStep
<1>9. HeadStored'
  <2> SUFFICES ASSUME net'[1].op = "put", net'[1].phase = "done"
               PROVE  Holds(net[1].key, net[1].draft)'
    BY DEF HeadStored
  <2>1. net[1].op = "put" /\ net[1].phase # "sent"
    BY <1>2, <1>3
  <2>2. net[1].phase = "half" /\ WriteRow(i)
    BY <1>1, <1>2, <2>1, FirstTurn
  <2>3. blob[net[1].key] = net[1].draft
    BY <1>2, <2>1, <2>2 DEF Line, HeadWritten
  <2>4. /\ row'[net[1].key] = [draft |-> net[1].draft, status |-> net[1].status]
        /\ blob' = blob
    BY <1>2, <1>6, <2>1, <2>2 DEF WriteRow
  <2>5. [draft |-> net[1].draft, status |-> net[1].status] # None
    <3>1. net[1].draft \in Draft /\ net[1].status \in Statuses
      BY <1>2, <2>1 DEF Request, Puts, Deletes
    <3> QED BY <3>1, NoneIsNothing DEF Row
  <2>6. net'[1].key = net[1].key /\ net'[1].draft = net[1].draft
    BY <1>2, <1>3
  <2> QED BY <2>3, <2>4, <2>5, <2>6 DEF Holds
<1>10. FiledOutlivesDeletes'
  BY <1>2, <1>3, <1>4 DEF Stored, FiledOutlivesDeletes
\* What the server holds of a record that is filed, it goes on to hold.
<1>11. ASSUME NEW k \in Keys, local.records[k] # None,
              Holds(k, local.records[k]), \A j \in DOMAIN net : ~IsDelete(j, k)
       PROVE  Holds(k, local.records[k])'
  <2>1. Holds(k, local.records[k]) /\ ~IsDelete(1, k)
    BY <1>2, <1>11
  <2>2. CASE k # net[1].key
    BY <1>2, <1>7, <2>1, <2>2 DEF Holds
  <2>3. CASE k = net[1].key
    <3>1. net[1].op = "put" /\ net[1].draft = local.records[k]
      BY <1>2, <1>11, <2>1, <2>3, PushedAgain
    <3>2. net[1].draft \in Draft /\ net[1].status \in Statuses
      BY <1>2, <3>1 DEF Request, Puts, Deletes
    <3>3. [draft |-> net[1].draft, status |-> net[1].status] # None
      BY <3>2, NoneIsNothing DEF Row
    <3>4. row'[k] # None /\ row'[k].draft = local.records[k]
      BY <1>7, <2>1, <2>3, <3>1, <3>3 DEF Holds
    <3>5. blob'[k] = local.records[k]
      BY <1>7, <2>1, <2>3, <3>1 DEF Holds
    <3> QED BY <1>2, <3>4, <3>5 DEF Holds
  <2> QED BY <2>2, <2>3
<1>12. PushedIsStored'
  <2> SUFFICES ASSUME NEW k \in Keys, local.records[k] # None,
                      local.records[k].at = lastPushed
               PROVE  \/ /\ Holds(k, local.records[k])'
                         /\ \A j \in DOMAIN net : ~IsDelete(j, k)
                      \/ /\ basis = "beacon"
                         /\ \E j \in DOMAIN net : IsPut(j, k) /\ net[j].draft = local.records[k]
                      \/ basis = "lost"
    BY <1>2, <1>3, <1>4 DEF PushedIsStored
  <2> QED BY <1>11 DEF Stored, PushedIsStored
<1>13. lastPushed' <= clock'
  BY <1>2 DEF Stored
<1> QED BY <1>8, <1>9, <1>10, <1>12, <1>13 DEF Stored

LEMMA LeavingKeepsStored ==
    ASSUME TypeOK, TypeOK', InOrder, Line, Stored, NEW i \in 1..MaxInFlight,
           Answer(i) \/ RequestDies(i)
    PROVE  Stored'
<1>1. /\ i = 1 /\ 1 \in DOMAIN net /\ net # <<>> /\ net[1] \in Request
      /\ row' = row /\ blob' = blob /\ local' = local /\ clock' = clock
      /\ \A j \in DOMAIN net' : /\ j + 1 \in DOMAIN net /\ j + 1 # 1 /\ 1 < j + 1
                                /\ j \in Nat
                                /\ net'[j] = net[j + 1]
      /\ \A l \in DOMAIN net : l # 1 => l - 1 \in DOMAIN net' /\ net'[l - 1] = net[l]
  BY FirstLeaves
<1>2. \A k : \A j \in DOMAIN net' :
          /\ IsPut(j, k)' => IsPut(j + 1, k)
          /\ IsDelete(j, k)' => IsDelete(j + 1, k)
  BY <1>1 DEF IsPut, IsDelete
\* The hash changes only for a push that is answered; a beacon that dies with
\* the record it stands for is lost.
<1>3. \/ lastPushed' = lastPushed /\ basis' = basis /\ net[1].phase = "done"
      \/ /\ lastPushed' = net[1].draft.at /\ net[1].tracked /\ net[1].phase = "done"
      \/ /\ lastPushed' = lastPushed
         /\ basis' = IF basis = "beacon" /\ CarriesLastPushed(1) THEN "lost" ELSE basis
  BY <1>1 DEF Answer, RequestDies
<1>4. net[1].tracked => net[1].op = "put"
  BY <1>1 DEF Request, Puts, Deletes
<1>5. OneStamp'
  BY OneStampStays DEF Stored, ApiStep
<1>6. HeadStored'
  <2>1. net' # <<>> => 1 \in DOMAIN net'
    BY FirstLeaves
  <2>2. \A j \in DOMAIN net' : net'[j].phase = "sent"
    BY <1>1 DEF Line, OneServed
  <2> QED BY <2>1, <2>2 DEF HeadStored
<1>7. FiledOutlivesDeletes'
  <2> SUFFICES ASSUME NEW k \in Keys, local.records[k] # None,
                      NEW a \in DOMAIN net', IsPut(a, k)', net'[a].draft = local.records[k],
                      NEW b \in DOMAIN net', a < b
               PROVE  ~IsDelete(b, k)'
    BY <1>1 DEF FiledOutlivesDeletes
  <2>1. IsPut(a + 1, k) /\ net[a + 1].draft = local.records[k] /\ a + 1 \in DOMAIN net
    BY <1>1, <1>2
  <2>2. b + 1 \in DOMAIN net /\ a + 1 < b + 1
    BY <1>1
  <2>3. ~IsDelete(b + 1, k)
    BY <2>1, <2>2 DEF Stored, FiledOutlivesDeletes
  <2> QED BY <1>2, <2>3
\* A record whose put is done, and that is still filed, is held for good.
<1>8. ASSUME NEW k \in Keys, local.records[k] # None,
             net[1].op = "put", net[1].phase = "done", net[1].draft.at = local.records[k].at
      PROVE  /\ Holds(k, local.records[k])
             /\ \A j \in DOMAIN net' : ~IsDelete(j, k)'
  <2>1. Holds(net[1].key, net[1].draft)
    BY <1>1, <1>8 DEF Stored, HeadStored
  <2>2. net[1].key \in Keys /\ net[1].draft \in Draft
    BY <1>1, <1>8, PutsAreTyped
  <2>3. local.records[k] \in Draft
    BY <1>8 DEF TypeOK
  <2>4. IsCopy(k, local.records[k]) /\ IsCopy(net[1].key, net[1].draft)
    BY <1>1, <1>8 DEF IsCopy, IsPut
  <2>5. k = net[1].key /\ local.records[k] = net[1].draft
    BY <1>8, <2>2, <2>3, <2>4, SameTimeSameDraft DEF Stored
  <2>6. IsPut(1, k)
    BY <1>1, <1>8, <2>5 DEF IsPut
  <2>7. \A j \in DOMAIN net : 1 < j => ~IsDelete(j, k)
    BY <1>1, <1>8, <2>5, <2>6 DEF Stored, FiledOutlivesDeletes
  <2> QED BY <1>1, <1>2, <2>1, <2>5, <2>7
<1>9. PushedIsStored'
  <2> SUFFICES ASSUME NEW k \in Keys, local.records[k] # None,
                      local.records[k].at = lastPushed'
               PROVE  \/ /\ Holds(k, local.records[k])
                         /\ \A j \in DOMAIN net' : ~IsDelete(j, k)'
                      \/ /\ basis' = "beacon"
                         /\ \E j \in DOMAIN net' : IsPut(j, k)' /\ net'[j].draft = local.records[k]
                      \/ basis' = "lost"
    BY <1>1 DEF PushedIsStored, Holds
  <2>1. CASE lastPushed' = net[1].draft.at /\ net[1].tracked /\ net[1].phase = "done"
    BY <1>4, <1>8, <2>1
  <2>2. CASE lastPushed' = lastPushed
    <3>1. CASE Holds(k, local.records[k]) /\ \A j \in DOMAIN net : ~IsDelete(j, k)
      BY <1>1, <1>2, <3>1
    <3>2. CASE basis = "lost"
      BY <1>3, <2>1, <3>2
    <3>3. CASE /\ basis = "beacon"
               /\ \E l \in DOMAIN net : IsPut(l, k) /\ net[l].draft = local.records[k]
      <4>1. PICK l \in DOMAIN net : IsPut(l, k) /\ net[l].draft = local.records[k]
        BY <3>3
      <4>2. CASE l = 1
        <5>1. /\ net[1].op = "put" /\ net[1].draft.at = local.records[k].at
              /\ CarriesLastPushed(1)
          BY <2>2, <4>1, <4>2 DEF IsPut, CarriesLastPushed
        <5> QED BY <1>3, <1>8, <3>3, <5>1
      <4>3. CASE l # 1
        <5>1. l - 1 \in DOMAIN net' /\ net'[l - 1] = net[l]
          BY <1>1, <4>3
        <5>2. IsPut(l - 1, k)' /\ net'[l - 1].draft = local.records[k]
          BY <4>1, <5>1 DEF IsPut
        <5>3. CASE basis' = "beacon" \/ basis' = "lost"
          BY <5>1, <5>2, <5>3
        <5> QED BY <1>3, <2>1, <3>3, <5>3
      <4> QED BY <4>2, <4>3
    <3> QED BY <2>2, <3>1, <3>2, <3>3 DEF Stored, PushedIsStored
  <2> QED BY <1>3, <2>1, <2>2
<1>10. lastPushed' <= clock'
  <2>1. net[1].tracked => net[1].draft.at <= clock
    BY <1>1, <1>4 DEF Line, Ordered, SavedInThePast
  <2> QED BY <1>1, <1>3, <2>1 DEF Stored
<1> QED BY <1>5, <1>6, <1>7, <1>9, <1>10 DEF Stored

LEMMA InitStored == Init => Stored
<1> SUFFICES ASSUME Init PROVE Stored
  OBVIOUS
<1>1. /\ local = [records |-> [k \in Keys |-> None], submitted |-> {}, active |-> None]
      /\ net = <<>> /\ lastPushed = 0 /\ clock = 0
      /\ row = [k \in Keys |-> None]
      /\ blob = [k \in Keys |-> None]
  BY DEF Init
<1>2. DOMAIN net = {}
  BY <1>1
<1>3. \A k \in Keys : local.records[k] = None /\ row[k] = None /\ blob[k] = None
  BY <1>1
<1>4. \A k \in Keys, d \in Draft : ~IsCopy(k, d)
  BY <1>2, <1>3, NoneIsNothing DEF IsCopy
<1>5. OneStamp
  BY <1>4 DEF OneStamp
<1>6. HeadStored /\ FiledOutlivesDeletes /\ PushedIsStored
  BY <1>1, <1>3 DEF HeadStored, FiledOutlivesDeletes, PushedIsStored
<1> QED BY <1>1, <1>5, <1>6 DEF Stored

\* When requests are served in order: a record the sync skips because of
\* lastPushedHash (startCloudSync) is on the server, listed and with its content,
\* whatever was discarded, deleted, renamed or re-created under the same id in
\* between, whichever answers were lost. The hash that beforeunload sets for a
\* beacon promises less: that it is stored, on its way, or was lost.
THEOREM SkippedIsStored ==
    ASSUME InOrder
    PROVE  Spec => []SkipsOnlyWhatIsStored
<1>1. Init => Inv /\ Stored
  BY InitInv, InitStored
<1>2. Inv /\ Stored /\ [Next]_vars => Inv' /\ Stored'
  <2> SUFFICES ASSUME Inv, Stored, [Next]_vars PROVE Inv' /\ Stored'
    OBVIOUS
  <2>1. Inv'
    BY NextInv
  <2>2. TypeOK /\ TypeOK' /\ Line
    BY <2>1 DEF Inv
  <2>3. Stored'
    BY <2>2, StepKinds, ClientKeepsStored, WritesKeepStored, LeavingKeepsStored DEF ApiStep
  <2> QED BY <2>1, <2>3
<1>3. Stored => SkipsOnlyWhatIsStored
  BY DEF Stored, PushedIsStored, Holds, IsPut, SkipsOnlyWhatIsStored
<1> QED BY <1>1, <1>2, <1>3, PTL DEF Spec
=============================================================================
