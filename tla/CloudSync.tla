----------------------------- MODULE CloudSync -----------------------------
(***************************************************************************)
(* Cloud backup of drafts: startCloudSync and the other senders of the     *)
(* browser (draftPersistence.ts, StudioShell, My keyboards), the requests  *)
(* in flight, and the drafts API, which keeps per draft a content blob and *)
(* a metadata row and writes them one after the other (api/drafts).        *)
(*                                                                         *)
(* One signed-in author in one tab. The local store appears as far as the  *)
(* sync reads it; its own behaviour is the module DraftStore.              *)
(***************************************************************************)
EXTENDS Naturals, Sequences, SequencesExt

CONSTANTS
    Keys,         \* keyboard ids a project can be filed under
    None,         \* absent value: null pointer, missing record, row or blob
    MaxSaves,     \* bound: saves of the local store
    MaxInFlight,  \* bound: requests in flight
    InOrder,      \* TRUE: requests are served one by one, in sending order
    NetworkFails  \* TRUE: requests and answers may be lost, storage may fail

ASSUME CloudSyncAssumption ==
    /\ None \notin Keys
    /\ MaxSaves \in Nat
    /\ MaxInFlight \in Nat
    /\ InOrder \in BOOLEAN
    /\ NetworkFails \in BOOLEAN

VARIABLES
    local,      \* localStorage: records, submitted projects, active pointer
    live,       \* the working copy in the stores: its work and derived key
    page,       \* the mounted screen; the sync lives in the survey
    timer,      \* is a push scheduled (CLOUD_SYNC_DEBOUNCE_MS)
    lastPushed, \* lastPushedHash: savedAt of the record pushed last, or 0
    basis,      \* history: what lastPushed rests on, an answer, a beacon or a lost one
    net,        \* requests that are not answered yet, in sending order
    row,        \* server: metadata row per draft
    blob,       \* server: content blob per draft
    clock       \* savedAt of the latest local save

vars == <<local, live, page, timer, lastPushed, basis, net, row, blob, clock>>
server == <<row, blob>>

-----------------------------------------------------------------------------
(* Data. A piece of work is named by the time of its first save; the time  *)
(* of a save stands for the content, so it is what simpleHash tells apart. *)

Times == 1..MaxSaves
Statuses == {"draft", "submitted"}
Pages == {"away", "survey", "output"}
Phases == {"sent", "half", "done"}
Bases == {"answer", "beacon", "lost"}

WorkingCopy == [work : Times, name : Keys]
Draft == [work : Times, name : Keys, at : Times]
Row == [draft : Draft, status : Statuses]

\* tracked: somebody waits for the answer.  overtaken: history, a later request
\* about the same draft has written its row first.
Puts ==
    [op : {"put"}, key : Keys, draft : Draft, status : Statuses, phase : Phases,
     tracked : BOOLEAN, overtaken : BOOLEAN]
Deletes ==
    [op : {"delete"}, key : Keys, draft : {None}, status : {"draft"}, phase : Phases,
     tracked : {FALSE}, overtaken : BOOLEAN]
Request == Puts \cup Deletes

ASSUME CloudSyncNoneAssumption ==
    None \notin WorkingCopy \cup Draft \cup Row

-----------------------------------------------------------------------------
(* The local store, as far as the sync sees it.                            *)

Save(d, k, c, now) ==
    IF k \in d.submitted THEN d
    ELSE [d EXCEPT !.records[k] = [work |-> c.work, name |-> c.name, at |-> now]]

ClearDraft(d, k) == [d EXCEPT !.records[k] = None, !.submitted = @ \ {k}]

Discard(d) == [(IF d.active = None THEN d ELSE ClearDraft(d, d.active)) EXCEPT !.active = None]

\* installDraftAutosave: pin, save, migrate the prior filing. Without a
\* working copy it pins the pending slot, which the sync never pushes: None.
Install(d, c, now) ==
    LET k == IF c = None THEN None ELSE c.name
        pinned == [d EXCEPT !.active = k]
        saved == IF c = None THEN pinned ELSE Save(pinned, k, c, now)
    IN  IF d.active \in {None, k} THEN saved ELSE ClearDraft(saved, d.active)

\* What a boot or a resume loads.
Load(d, k) ==
    IF k = None \/ d.records[k] = None THEN None
    ELSE [work |-> d.records[k].work, name |-> d.records[k].name]

-----------------------------------------------------------------------------
(* Requests.                                                               *)

StatusOf(d, k) == IF k \in d.submitted THEN "submitted" ELSE "draft"

PutRequest(d, k, status, tracked) ==
    [op |-> "put", key |-> k, draft |-> d.records[k], status |-> status,
     phase |-> "sent", tracked |-> tracked, overtaken |-> FALSE]

DeleteRequest(k) ==
    [op |-> "delete", key |-> k, draft |-> None, status |-> "draft",
     phase |-> "sent", tracked |-> FALSE, overtaken |-> FALSE]

FlushIgnoringSubmission(q, d, pushed, tracked) ==
    IF d.active = None \/ d.records[d.active] = None THEN q
    ELSE IF d.records[d.active].at = pushed THEN q
    ELSE Append(q, PutRequest(d, d.active, "draft", tracked))

\* startCloudSync's flush: the active project's record, unless it is frozen
\* or is the one pushed last.
Flush(q, d, pushed, tracked) ==
    IF d.active = None \/ d.active \in d.submitted THEN q
    ELSE IF d.records[d.active] = None \/ d.records[d.active].at = pushed THEN q
    ELSE Append(q, PutRequest(d, d.active, StatusOf(d, d.active), tracked))

\* The closure that waits for the answers is gone.
Untrack(q) == [i \in DOMAIN q |-> [q[i] EXCEPT !.tracked = FALSE]]

Room == Len(net) < MaxInFlight
Tick == clock < MaxSaves /\ clock' = clock + 1

-----------------------------------------------------------------------------

Init ==
    /\ local = [records |-> [k \in Keys |-> None], submitted |-> {}, active |-> None]
    /\ live = None
    /\ page = "away"
    /\ timer = FALSE
    /\ lastPushed = 0
    /\ basis = "answer"
    /\ net = <<>>
    /\ row = [k \in Keys |-> None]
    /\ blob = [k \in Keys |-> None]
    /\ clock = 0

-----------------------------------------------------------------------------
(* Screens.                                                                *)

\* SurveyView mounts: autosave install, then the sync with its first flush.
OpenSurvey ==
    /\ page = "away"
    /\ Room
    /\ Tick
    /\ page' = "survey"
    /\ local' = Install(local, live, clock')
    /\ timer' = FALSE
    /\ lastPushed' = 0
    /\ basis' = "answer"
    /\ net' = Flush(net, local', 0, TRUE)
    /\ UNCHANGED <<live, server>>

OpenOutput ==
    /\ page = "away"
    /\ live # None
    /\ Tick
    /\ page' = "output"
    /\ local' = Install(local, live, clock')
    /\ UNCHANGED <<live, timer, lastPushed, basis, net, server>>

SyncEnds(q) ==
    /\ page' = "away"
    /\ timer' = FALSE
    /\ lastPushed' = 0
    /\ basis' = "answer"
    /\ net' = Untrack(q)

LeavePage ==
    /\ page # "away"
    /\ SyncEnds(net)
    /\ UNCHANGED <<local, live, server, clock>>

\* Close or reload, and the boot that follows: beforeunload pushes a beacon.
Unload ==
    /\ Room
    /\ SyncEnds(IF page = "survey" THEN Flush(net, local, lastPushed, FALSE) ELSE net)
    /\ live' = Load(local, local.active)
    /\ UNCHANGED <<local, server, clock>>

\* beforeunload of a page that stays, because the leave is called off or was a
\* download: the record of the beacon is taken for pushed, and the sync lives on.
BeforeUnload ==
    /\ page = "survey"
    /\ Room
    /\ net' = Flush(net, local, lastPushed, FALSE)
    /\ IF net' = net THEN UNCHANGED <<lastPushed, basis>>
       ELSE lastPushed' = local.records[local.active].at /\ basis' = "beacon"
    /\ UNCHANGED <<local, live, page, timer, server, clock>>

\* The process dies.
Crash ==
    /\ SyncEnds(net)
    /\ live' = Load(local, local.active)
    /\ UNCHANGED <<local, server, clock>>

-----------------------------------------------------------------------------
(* The sync.                                                               *)

TimerSkipsWhenBusy ==
    /\ timer
    /\ Room
    /\ timer' = FALSE
    /\ net' = IF net = <<>> THEN Flush(net, local, lastPushed, TRUE) ELSE net
    /\ UNCHANGED <<local, live, page, lastPushed, basis, server, clock>>

SyncTimerFires ==
    /\ timer
    /\ Room
    /\ timer' = FALSE
    /\ net' = Flush(net, local, lastPushed, TRUE)
    /\ UNCHANGED <<local, live, page, lastPushed, basis, server, clock>>

\* visibilitychange.
Hide ==
    /\ page = "survey"
    /\ Room
    /\ net' = Flush(net, local, lastPushed, TRUE)
    /\ UNCHANGED <<local, live, page, timer, lastPushed, basis, server, clock>>

-----------------------------------------------------------------------------
(* Authoring. An edit and the autosave it leads to are one step: the save  *)
(* comes half a second later, the push twenty.                             *)

Editing ==
    /\ page \in {"survey", "output"}
    /\ live # None
    /\ local.active # None

\* A change of the working copy, the session or the decisions.
Edit ==
    /\ Editing
    /\ Tick
    /\ local' = Save(local, local.active, live, clock')
    /\ timer' = (page = "survey")
    /\ UNCHANGED <<live, page, lastPushed, basis, net, server>>

\* A saved answer or a test report: stores the autosave subscribes to and
\* the sync does not.
EditElsewhere ==
    /\ Editing
    /\ Tick
    /\ local' = Save(local, local.active, live, clock')
    /\ UNCHANGED <<live, page, timer, lastPushed, basis, net, server>>

\* doCommit: a base is instantiated under an id that no draft uses; the work
\* is new, or the one at hand on another base.
CommitBase(k) ==
    /\ page = "survey"
    /\ local.records[k] = None
    /\ Tick
    /\ live' = [work |-> IF live = None THEN clock' ELSE live.work, name |-> k]
    /\ local' = Install(local, live', clock')
    /\ timer' = TRUE
    /\ UNCHANGED <<page, lastPushed, basis, net, server>>

\* A new keyboard id in the survey: filed under the old one until an install.
RenameInSurvey(k) ==
    /\ page = "survey"
    /\ Editing
    /\ k # live.name
    /\ local.records[k] = None
    /\ Tick
    /\ live' = [live EXCEPT !.name = k]
    /\ local' = Save(local, local.active, live', clock')
    /\ timer' = TRUE
    /\ UNCHANGED <<page, lastPushed, basis, net, server>>

\* On Output the hook installs under the new key at once.
RenameOnOutput(k) ==
    /\ page = "output"
    /\ live # None
    /\ k # live.name
    /\ local.records[k] = None
    /\ Tick
    /\ live' = [live EXCEPT !.name = k]
    /\ local' = Install(local, live', clock')
    /\ UNCHANGED <<page, timer, lastPushed, basis, net, server>>

-----------------------------------------------------------------------------
(* Projects.                                                               *)

Resume(k) ==
    /\ page = "away"
    /\ local.records[k] # None
    /\ k \notin local.submitted
    /\ local' = [local EXCEPT !.active = k]
    /\ live' = Load(local, k)
    /\ UNCHANGED <<page, timer, lastPushed, basis, net, server, clock>>

\* deleteProject, from a card of the merged list: local filing, then DELETE.
DeleteProject(k) ==
    /\ page = "away"
    /\ local.records[k] # None \/ row[k] # None
    /\ Room
    /\ local' = [ClearDraft(local, k) EXCEPT !.active = IF @ = k THEN None ELSE @]
    /\ net' = Append(net, DeleteRequest(k))
    /\ UNCHANGED <<live, page, timer, lastPushed, basis, server, clock>>

StartOverReadingLate ==
    /\ page = "survey"
    /\ Room
    /\ local' = Discard(local)
    /\ live' = None
    /\ timer' = TRUE
    /\ net' = IF local.active = None THEN net ELSE Append(net, DeleteRequest(local'.active))
    /\ UNCHANGED <<page, lastPushed, basis, server, clock>>

\* handleStartOver: the stores' resets arm the timer of the running sync; the
\* key of the DELETE is the pointer's before the discard clears it. (A DELETE
\* of the pending slot, which is never pushed, changes nothing: left out.)
StartOver ==
    /\ page = "survey"
    /\ Room
    /\ local' = Discard(local)
    /\ live' = None
    /\ timer' = TRUE
    /\ net' = IF local.active = None THEN net ELSE Append(net, DeleteRequest(local.active))
    /\ UNCHANGED <<page, lastPushed, basis, server, clock>>

\* startFreshSession: local only.
StartFreshSession ==
    /\ page = "away"
    /\ local' = Discard(local)
    /\ live' = None
    /\ UNCHANGED <<page, timer, lastPushed, basis, net, server, clock>>

\* recordProjectSubmission: the row is marked, the record is sent as it is
\* and nobody waits for the answer. The author is still on Output; a publish
\* answer that comes later is the subject of DraftStore.
Publish ==
    LET k == local.active
        marked == [local EXCEPT !.submitted = @ \cup {k}]
    IN  /\ page = "output"
        /\ live # None
        /\ k # None
        /\ local.records[k] # None
        /\ Room
        /\ local' = [marked EXCEPT !.active = None]
        /\ net' = Append(net, PutRequest(marked, k, "submitted", FALSE))
        /\ UNCHANGED <<live, page, timer, lastPushed, basis, server, clock>>

-----------------------------------------------------------------------------
(* The drafts API and the network.                                         *)

Served(i) == i \in DOMAIN net /\ (InOrder => i = 1)

ClientKeeps == UNCHANGED <<local, live, page, timer, lastPushed, basis, clock>>

WritesRowFirst(op) == <<"row", "blob">>

\* putDraft writes the blob, then the row; deleteDraft the other way round.
Writes(op) == IF op = "put" THEN <<"blob", "row">> ELSE <<"row", "blob">>

\* It is request i's turn to write to that part of the storage.
Turn(i, part) ==
    /\ Served(i)
    /\ \/ net[i].phase = "sent" /\ Writes(net[i].op)[1] = part
       \/ net[i].phase = "half" /\ Writes(net[i].op)[2] = part

Advanced(i) == [net EXCEPT ![i].phase = IF @ = "sent" THEN "half" ELSE "done"]

Overtaken(q, i) ==
    [j \in DOMAIN q |-> IF j < i /\ q[j].key = q[i].key
                       THEN [q[j] EXCEPT !.overtaken = TRUE] ELSE q[j]]

\* A put stores its content, a delete removes it (a failure is swallowed).
WriteBlob(i) ==
    /\ Turn(i, "blob")
    /\ \/ blob' = [blob EXCEPT ![net[i].key] = net[i].draft]
       \/ NetworkFails /\ net[i].op = "delete" /\ UNCHANGED blob
    /\ net' = Advanced(i)
    /\ UNCHANGED row
    /\ ClientKeeps

\* A put lists its draft over whatever the row says (ON CONFLICT DO UPDATE).
WriteRow(i) ==
    /\ Turn(i, "row")
    /\ row' = [row EXCEPT ![net[i].key] =
                  IF net[i].op = "delete" THEN None
                  ELSE [draft |-> net[i].draft, status |-> net[i].status]]
    /\ net' = Overtaken(Advanced(i), i)
    /\ UNCHANGED blob
    /\ ClientKeeps

AnswerTakenForSuccess(i) ==
    /\ Served(i)
    /\ net[i].phase = "done" \/ NetworkFails
    /\ net' = RemoveAt(net, i)
    /\ IF net[i].tracked THEN lastPushed' = net[i].draft.at /\ basis' = "answer"
       ELSE UNCHANGED <<lastPushed, basis>>
    /\ UNCHANGED <<local, live, page, timer, server, clock>>

\* A 200: a sync that still waits for it remembers what it pushed.
Answer(i) ==
    /\ Served(i)
    /\ net[i].phase = "done"
    /\ net' = RemoveAt(net, i)
    /\ IF net[i].tracked THEN lastPushed' = net[i].draft.at /\ basis' = "answer"
       ELSE UNCHANGED <<lastPushed, basis>>
    /\ UNCHANGED <<local, live, page, timer, server, clock>>

\* Request i carries the record the sync has taken for pushed.
CarriesLastPushed(i) == net[i].op = "put" /\ net[i].draft.at = lastPushed

\* The request is lost, or the API fails at any of its steps (502).
RequestDies(i) ==
    /\ NetworkFails
    /\ Served(i)
    /\ net' = RemoveAt(net, i)
    /\ basis' = IF basis = "beacon" /\ CarriesLastPushed(i) THEN "lost" ELSE basis
    /\ UNCHANGED <<local, live, page, timer, lastPushed, server, clock>>

\* The connection is lost and the server goes on.
AnswerLost(i) ==
    /\ NetworkFails
    /\ i \in DOMAIN net
    /\ net[i].tracked
    /\ net' = [net EXCEPT ![i].tracked = FALSE]
    /\ UNCHANGED server
    /\ ClientKeeps

ServerStep(i) == WriteBlob(i) \/ WriteRow(i) \/ Answer(i)

-----------------------------------------------------------------------------

Next ==
    \/ OpenSurvey \/ OpenOutput \/ LeavePage \/ Unload \/ BeforeUnload \/ Crash
    \/ SyncTimerFires \/ Hide
    \/ Edit \/ EditElsewhere
    \/ \E k \in Keys :
          \/ CommitBase(k) \/ RenameInSurvey(k) \/ RenameOnOutput(k)
          \/ Resume(k) \/ DeleteProject(k)
    \/ StartOver \/ StartFreshSession \/ Publish
    \/ \E i \in 1..MaxInFlight :
          ServerStep(i) \/ RequestDies(i) \/ AnswerLost(i)

\* The browser runs a due timer, the API serves what reaches it.
Fairness == WF_vars(SyncTimerFires) /\ \A i \in 1..MaxInFlight : WF_vars(ServerStep(i))

Spec == Init /\ [][Next]_vars
FairSpec == Spec /\ Fairness

-----------------------------------------------------------------------------
(* Properties.                                                             *)

\* Every variable has its type.
TypeOK ==
    /\ local \in [records : [Keys -> Draft \cup {None}],
                  submitted : SUBSET Keys,
                  active : Keys \cup {None}]
    /\ live \in WorkingCopy \cup {None}
    /\ page \in Pages
    /\ timer \in BOOLEAN
    /\ lastPushed \in 0..MaxSaves
    /\ basis \in Bases
    /\ net \in Seq(Request)
    /\ row \in [Keys -> Row \cup {None}]
    /\ blob \in [Keys -> Draft \cup {None}]
    /\ clock \in 0..MaxSaves

\* A row the author is shown has its content, and content at least as new as
\* the row says, in the middle of every put and delete and after a failure
\* of either: what _store.ts orders its two writes for.
ListingHasContent ==
    \A k \in Keys : row[k] # None => blob[k] # None /\ row[k].draft.at <= blob[k].at

\* Copy b of a draft is behind copy a: older content, or the same content
\* unpublished.
Behind(b, a) ==
    \/ b.draft.at < a.draft.at
    \/ b.draft.at = a.draft.at /\ a.status = "submitted" /\ b.status = "draft"

\* The local copy of a listed draft.
OwnCopy(k) == [draft |-> local.records[k], status |-> StatusOf(local, k)]

\* The server's copy of a draft never goes back to older content, nor from
\* submitted to draft, through retries, failures, reloads and publishing, but for
\* a request that a later one about the same draft has overtaken on the way.
CloudNeverGoesBack ==
    [][\A k \in Keys :
          row[k] # None /\ row'[k] # None /\ Behind(row'[k], row[k])
          => \E i \in DOMAIN net : /\ net[i].key = k /\ net[i].overtaken
                                   /\ net'[i].phase # net[i].phase]_vars

\* When the sync skips a push because of lastPushedHash, the server does hold the
\* record, row and content; after a beacon, unless that is still on its way or was
\* lost, which a page that stays never learns.
SkipsOnlyWhatIsStored ==
    \A k \in Keys :
        /\ local.active = k
        /\ k \notin local.submitted
        /\ local.records[k] # None
        /\ local.records[k].at = lastPushed
        => \/ /\ row[k] # None
              /\ row[k].draft = local.records[k]
              /\ blob[k] = local.records[k]
           \/ /\ basis = "beacon"
              /\ \E i \in DOMAIN net : net[i].key = k /\ net[i].draft = local.records[k]
           \/ basis = "lost"

\* A mutant: a listed cloud row replaces the local one.
CloudReplaces(k) == TRUE

\* The cards of "My keyboards": local rows and cloud rows merged by key, a
\* submission before a draft, then the newer one.
CloudWins(k) ==
    \/ local.records[k] = None
    \/ row[k].status = "submitted" /\ OwnCopy(k).status = "draft"
    \/ row[k].status = OwnCopy(k).status /\ local.records[k].at < row[k].draft.at

Card(k) ==
    IF row[k] # None /\ CloudWins(k) THEN row[k]
    ELSE IF local.records[k] = None THEN None
    ELSE OwnCopy(k)

\* Request r is about an earlier project of its id: its delete, or its
\* publication, while the id has been given to a new draft.
OfEarlierProject(r) ==
    r.op = "delete" \/ (r.status = "submitted" /\ r.key \notin local.submitted)

\* What "My keyboards" shows of a project this browser holds never goes back
\* to older content, nor from Submitted to draft, whichever side it is taken
\* from, unless a request about an earlier project of that id is on its way.
CardNeverGoesBack ==
    [][\A k \in Keys :
          /\ local.records[k] # None /\ local'.records[k] # None
          /\ \A i \in DOMAIN net' : net'[i].key = k => ~OfEarlierProject(net[i])'
          => ~Behind(Card(k)', Card(k))]_vars

\* An edit that armed the timer reaches the server, in whatever order requests
\* are served: the row comes to say so or the API answers for this record, unless
\* the author leaves the survey, the project or this version of it.
EditReachesCloud ==
    \A k \in Keys, n \in Times :
        (/\ page = "survey" /\ timer
         /\ local.active = k /\ k \notin local.submitted
         /\ local.records[k] # None /\ local.records[k].at = n)
        ~> (\/ page # "survey" \/ local.active # k
            \/ local.records[k] = None
            \/ row[k] # None /\ row[k].draft.at >= n
            \/ lastPushed = n)
=============================================================================
