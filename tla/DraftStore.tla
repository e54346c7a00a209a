----------------------------- MODULE DraftStore -----------------------------
(***************************************************************************)
(* Durable drafts of the studio (packages/studio/src/lib/draftPersistence, *)
(* StudioShell, OutputScreen, My keyboards): the localStorage of one       *)
(* browser profile, shared by its tabs, and for every tab the live stores, *)
(* the mounted screen and its debounced autosave subscription.             *)
(*                                                                         *)
(* A JavaScript handler runs to completion, so one handler is one action.  *)
(* The debounce timer, React's remount after a project switch, the publish *)
(* request and the end of a tab are the points where handlers interleave.  *)
(***************************************************************************)
EXTENDS Naturals, FiniteSets

CONSTANTS
    Tabs,           \* browser tabs that share one localStorage
    ProjectKeys,    \* keyboard ids a project can be filed under
    Works,          \* identities of pieces of authoring work (never reused)
    EarlierWorks,   \* works that may be on disk when the profile is first opened
    None,           \* absent value: null pointer, missing record, empty store
    Pending,        \* PENDING_PROJECT_KEY, the slot before instantiation
    MaxEdits,       \* bound: edits per piece of work
    StorageMayFail, \* TRUE: localStorage.setItem may throw (quota)
    AuthorWaits,    \* TRUE: the author stays on Output, without renaming or
                    \* switching, until a publish request is answered
    DistinctIds     \* TRUE: no keyboard id is chosen for a second work while
                    \* another one is filed under it or has it for its own

ASSUME DraftStoreAssumption ==
    /\ EarlierWorks \subseteq Works
    /\ None \notin Works \cup ProjectKeys \cup {Pending}
    /\ Pending \notin ProjectKeys
    /\ MaxEdits \in Nat
    /\ StorageMayFail \in BOOLEAN
    /\ AuthorWaits \in BOOLEAN
    /\ DistinctIds \in BOOLEAN

VARIABLES
    disk,      \* localStorage: draft records, project index, active pointer
    view,      \* per tab: the mounted screen
    live,      \* per tab: content of the in-memory stores
    sub,       \* per tab: key the autosave subscription was installed for
    timer,     \* per tab: is a debounced save scheduled
    inflight,  \* per tab: work whose publish request is in flight
    fate,      \* history: what the author decided about each work
    edits      \* history: edits made to each work

vars == <<disk, view, live, sub, timer, inflight, fate, edits>>
tabVars == <<view, live, sub, timer, inflight>>
history == <<fate, edits>>

-----------------------------------------------------------------------------
(* Data.                                                                   *)

Keys == ProjectKeys \cup {Pending}
Views == {"closed", "away", "survey", "output", "switching"}
Fates == {"unborn", "alive", "discarded", "deleted"}

\* What an envelope carries: the work, its version, the project key its own
\* working copy derives to (None before instantiation) and the work whose
\* decision record travels with it.
Content == [work : Works, ver : 0..MaxEdits, key : ProjectKeys \cup {None},
            trail : Works \cup {None}]

\* Stores that hold no work; only the decision log may be non-empty.
Empty(w) == [work |-> None, ver |-> 0, key |-> None, trail |-> w]
Blank == Empty(None)
LiveContent == Content \cup {Empty(w) : w \in Works \cup {None}}

NoRow == [status |-> "none", pr |-> None]
Rows == [status : {"none", "draft", "submitted"}, pr : Works \cup {None}]

Faults == IF StorageMayFail THEN {"none", "record", "index"} ELSE {"none"}

\* What "My keyboards" shows at a place that holds no project.
NoProject == None

ASSUME NoProjectAssumption ==
    /\ None \notin Content
    /\ NoProject \notin [content : Content, submitted : BOOLEAN]

Instantiated(c) == c.key # None
HasMeaningfulProgress(c) == c.work # None
FilingKey(c) == IF Instantiated(c) THEN c.key ELSE Pending

-----------------------------------------------------------------------------
(* The storage primitives: each maps a localStorage to the next one.       *)
(* A primitive may be preceded by a plausible wrong version of it, which   *)
(* the specification never uses: README.md says which property detects it. *)

IsProjectFrozen(d, k) == d.index[k].status = "submitted"

SaveDraftIntoFrozen(d, k, c, fault) ==
    IF \/ fault = "record"
       \/ ~Instantiated(c) /\ ~(k = Pending /\ HasMeaningfulProgress(c))
    THEN d
    ELSE [d EXCEPT !.records[k] = c, !.active = k,
                   !.index[k] = IF k = Pending THEN @ ELSE [NoRow EXCEPT !.status = "draft"]]

\* fault "record": the envelope does not fit, nothing after it is written;
\* fault "index": the envelope fits, the index row does not.
SaveDraft(d, k, c, fault) ==
    IF \/ IsProjectFrozen(d, k)
       \/ fault = "record"
       \/ ~Instantiated(c) /\ ~(k = Pending /\ HasMeaningfulProgress(c))
    THEN d
    ELSE [records |-> [d.records EXCEPT ![k] = c],
          active |-> k,
          index |-> IF k = Pending \/ fault = "index" \/ d.index[k] # NoRow
                    THEN d.index
                    ELSE [d.index EXCEPT ![k] = [NoRow EXCEPT !.status = "draft"]]]

ClearDraftKeepingRow(d, k) == [d EXCEPT !.records[k] = None]

ClearDraft(d, k) ==
    [d EXCEPT !.records[k] = None, !.index[k] = NoRow]

DiscardPointerOnly(d) == [d EXCEPT !.active = None]

DiscardActiveDraft(d) ==
    [(IF d.active = None THEN d ELSE ClearDraft(d, d.active)) EXCEPT !.active = None]

MigrateNothing(d, from, to) == d

MigrateProjectKeyIfChanged(d, from, to) ==
    IF from # None /\ from # to THEN ClearDraft(d, from) ELSE d

InstallWithoutSave(d, k, c, fault) ==
    MigrateProjectKeyIfChanged([d EXCEPT !.active = k], d.active, k)

\* Pin the pointer, save synchronously, drop the filing under the prior key.
InstallDraftAutosave(d, k, c, fault) ==
    MigrateProjectKeyIfChanged(SaveDraft([d EXCEPT !.active = k], k, c, fault),
                               d.active, k)

LoadDraftUnchecked(d, k) == IF k = None THEN Blank ELSE d.records[k]

LoadDraft(d, k) == IF k = None \/ d.records[k] = None THEN Blank ELSE d.records[k]

WorkAt(d, k) ==
    IF k = None \/ d.records[k] = None THEN {} ELSE {d.records[k].work}

DeleteProject(d, k) ==
    [ClearDraft(d, k) EXCEPT !.active = IF @ = k THEN None ELSE @]

\* The row of the project that is active NOW gets the status and the PR of w.
RecordProjectSubmission(d, w, fault) ==
    IF d.active = None THEN d
    ELSE [d EXCEPT !.active = None,
                   !.index[d.active] =
                       IF d.records[d.active] = None \/ fault # "none" THEN @
                       ELSE [status |-> "submitted", pr |-> w]]

-----------------------------------------------------------------------------
(* Initial state: every tab still closed, in a profile that may hold drafts *)
(* of an earlier release (the index adopts them, spec 072 US3).            *)

Placements ==
    {p \in [ProjectKeys -> EarlierWorks \cup {None}] :
        \A k1, k2 \in ProjectKeys : p[k1] = p[k2] /\ p[k1] # None => k1 = k2}

Profile(p, a) ==
    [records |-> [k \in Keys |->
                    IF k = Pending \/ p[k] = None THEN None
                    ELSE [work |-> p[k], ver |-> 0, key |-> k, trail |-> p[k]]],
     index |-> [k \in Keys |->
                  IF k = Pending \/ p[k] = None THEN NoRow
                  ELSE [NoRow EXCEPT !.status = "draft"]],
     active |-> a]

Init ==
    /\ \E p \in Placements :
          /\ \E a \in {None} \cup {k \in ProjectKeys : p[k] # None} : disk = Profile(p, a)
          /\ fate = [w \in Works |-> IF \E k \in ProjectKeys : p[k] = w
                                    THEN "alive" ELSE "unborn"]
    /\ view = [t \in Tabs |-> "closed"]
    /\ live = [t \in Tabs |-> Blank]
    /\ sub = [t \in Tabs |-> None]
    /\ timer = [t \in Tabs |-> FALSE]
    /\ inflight = [t \in Tabs |-> None]
    /\ edits = [w \in Works |-> 0]

Subscribe(t, k) ==
    /\ sub' = [sub EXCEPT ![t] = k]
    /\ timer' = [timer EXCEPT ![t] = FALSE]

\* May the author of tab t leave what is on screen?
FreeToLeave(t) == AuthorWaits => inflight[t] = None

\* The works with a draft filed under k, or that has k for its own id but was
\* saved before a screen filed it there.
WorksOf(d, k) ==
    {d.records[j].work :
        j \in {i \in Keys : d.records[i] # None /\ k \in {i, d.records[i].key}}}

\* May the author of tab t choose keyboard id k for the work at hand?
IdChoice(t, k) ==
    /\ live[t].key # k
    /\ DistinctIds => WorksOf(disk, k) \subseteq {live[t].work}

StoresChangeUnnoticed(t, c) ==
    /\ live' = [live EXCEPT ![t] = c]
    /\ UNCHANGED timer

\* A store changed: a live subscription (re)arms its debounce timer.
StoresChange(t, c) ==
    /\ live' = [live EXCEPT ![t] = c]
    /\ timer' = [timer EXCEPT ![t] = sub[t] # None]

-----------------------------------------------------------------------------
(* Life of a tab and of its screens.                                       *)

\* main.tsx mountApp: restore the active project, before React mounts.
Boot(t) ==
    /\ view[t] = "closed"
    /\ view' = [view EXCEPT ![t] = "away"]
    /\ live' = [live EXCEPT ![t] = LoadDraft(disk, disk.active)]
    /\ UNCHANGED <<disk, sub, timer, inflight, history>>

\* SurveyView's mount effect.
OpenSurvey(t) ==
    /\ view[t] \in {"away", "switching"}
    /\ \E fault \in Faults :
          disk' = InstallDraftAutosave(disk, FilingKey(live[t]), live[t], fault)
    /\ Subscribe(t, FilingKey(live[t]))
    /\ view' = [view EXCEPT ![t] = "survey"]
    /\ UNCHANGED <<live, inflight, history>>

\* useOutputAutosave: installed only for an instantiated working copy.
OpenOutput(t) ==
    /\ view[t] = "away"
    /\ view' = [view EXCEPT ![t] = "output"]
    /\ IF Instantiated(live[t])
       THEN /\ \E fault \in Faults :
                  disk' = InstallDraftAutosave(disk, live[t].key, live[t], fault)
            /\ Subscribe(t, live[t].key)
       ELSE UNCHANGED <<disk, sub, timer>>
    /\ UNCHANGED <<live, inflight, history>>

\* Unmounting tears the subscription down; a scheduled save is dropped.
LeaveView(t) ==
    /\ view[t] \in {"survey", "output"}
    /\ FreeToLeave(t)
    /\ Subscribe(t, None)
    /\ view' = [view EXCEPT ![t] = "away"]
    /\ UNCHANGED <<disk, live, inflight, history>>

\* The tab is gone: everything in memory is lost.
TabEnds(t) ==
    /\ view' = [view EXCEPT ![t] = "closed"]
    /\ live' = [live EXCEPT ![t] = Blank]
    /\ inflight' = [inflight EXCEPT ![t] = None]
    /\ Subscribe(t, None)
    /\ UNCHANGED history

FlushPending(d, t, fault) ==
    IF timer[t] /\ d.active = sub[t] THEN SaveDraft(d, sub[t], live[t], fault) ELSE d

\* Close or reload: pagehide flushes a scheduled save.
CloseTab(t) ==
    /\ view[t] # "closed"
    /\ \E fault \in Faults : disk' = FlushPending(disk, t, fault)
    /\ TabEnds(t)

\* The process dies without a pagehide event.
Crash(t) ==
    /\ view[t] # "closed"
    /\ TabEnds(t)
    /\ UNCHANGED disk

\* OAuth redirect or stale-chunk reload: flushActiveDraft, then pagehide.
FlushActiveDraft(d, t, fault) ==
    IF d.active = None THEN d ELSE SaveDraft(d, d.active, live[t], fault)

FlushAndReload(t) ==
    /\ view[t] # "closed"
    /\ \E fault \in Faults :
          disk' = FlushPending(FlushActiveDraft(disk, t, fault), t, fault)
    /\ TabEnds(t)

-----------------------------------------------------------------------------
(* The autosave timer.                                                     *)

TimerFiresUnguarded(t) ==
    /\ timer[t]
    /\ timer' = [timer EXCEPT ![t] = FALSE]
    /\ \E fault \in Faults : disk' = SaveDraft(disk, sub[t], live[t], fault)
    /\ UNCHANGED <<view, live, sub, inflight, history>>

\* The orphan guard: only a subscription the pointer still names may write.
TimerFires(t) ==
    /\ timer[t]
    /\ timer' = [timer EXCEPT ![t] = FALSE]
    /\ \E fault \in Faults :
          disk' = IF disk.active = sub[t]
                  THEN SaveDraft(disk, sub[t], live[t], fault)
                  ELSE disk
    /\ UNCHANGED <<view, live, sub, inflight, history>>

-----------------------------------------------------------------------------
(* Authoring.                                                              *)

\* First answer of a session without a keyboard.
Answer(t) ==
    /\ view[t] = "survey"
    /\ live[t].work = None
    /\ \E w \in Works :
          /\ fate[w] = "unborn"
          /\ fate' = [fate EXCEPT ![w] = "alive"]
          /\ StoresChange(t, [live[t] EXCEPT !.work = w,
                              !.trail = IF @ = None THEN w ELSE @])
    /\ UNCHANGED <<disk, view, sub, inflight, edits>>

Edit(t) ==
    LET w == live[t].work IN
    /\ \/ view[t] = "survey" /\ w # None
       \/ view[t] = "output" /\ Instantiated(live[t])
    /\ edits[w] < MaxEdits
    /\ edits' = [edits EXCEPT ![w] = @ + 1]
    /\ StoresChange(t, [live[t] EXCEPT !.ver = edits[w] + 1,
                        !.trail = IF @ = None THEN w ELSE @])
    /\ UNCHANGED <<disk, view, sub, inflight, fate>>

\* doCommit: the base keyboard is instantiated, or switched to another one;
\* the pending autosave is promoted to the real key.
CommitBase(t, k) ==
    LET c == [live[t] EXCEPT !.key = k] IN
    /\ view[t] = "survey"
    /\ live[t].work # None
    /\ IdChoice(t, k)
    /\ live' = [live EXCEPT ![t] = c]
    /\ \E fault \in Faults :
          disk' = ClearDraft(InstallDraftAutosave(disk, k, c, fault), Pending)
    /\ Subscribe(t, k)
    /\ UNCHANGED <<view, inflight, history>>

\* The author changes the keyboard id in the survey: the subscription keeps
\* the key it was installed for.
RenameInSurvey(t, k) ==
    /\ view[t] = "survey"
    /\ Instantiated(live[t])
    /\ IdChoice(t, k)
    /\ StoresChange(t, [live[t] EXCEPT !.key = k])
    /\ UNCHANGED <<disk, view, sub, inflight, history>>

\* On Output the hook re-installs under the new key.
RenameOnOutput(t, k) ==
    LET c == [live[t] EXCEPT !.key = k] IN
    /\ view[t] = "output"
    /\ FreeToLeave(t)
    /\ Instantiated(live[t])
    /\ IdChoice(t, k)
    /\ live' = [live EXCEPT ![t] = c]
    /\ \E fault \in Faults : disk' = InstallDraftAutosave(disk, k, c, fault)
    /\ Subscribe(t, k)
    /\ UNCHANGED <<view, inflight, history>>

-----------------------------------------------------------------------------
(* My keyboards, the project switcher, start over, publishing.             *)

ResumeWithoutPin(t, k) ==
    /\ FreeToLeave(t)
    /\ \/ view[t] = "away"
       \/ view[t] \in {"survey", "output"} /\ live[t].key # k
    /\ disk.index[k].status = "draft"
    /\ disk.records[k] # None
    /\ StoresChange(t, disk.records[k])
    /\ view' = [view EXCEPT ![t] = "switching"]
    /\ UNCHANGED <<disk, sub, inflight, history>>

\* switchActiveProject: the stores and the pointer move now, the survey is
\* remounted later ("switching"); a mounted subscription sees the change.
ResumeProject(t, k) ==
    /\ FreeToLeave(t)
    /\ \/ view[t] = "away"
       \/ view[t] \in {"survey", "output"} /\ live[t].key # k
    /\ disk.index[k].status = "draft"
    /\ disk.records[k] # None
    /\ StoresChange(t, disk.records[k])
    /\ disk' = [disk EXCEPT !.active = k]
    /\ view' = [view EXCEPT ![t] = "switching"]
    /\ UNCHANGED <<sub, inflight, history>>

\* handleViewTrail: reads another project's decision record into the log.
ViewTrail(t, k) ==
    /\ view[t] = "away"
    /\ disk.index[k].status # "none"
    /\ disk.records[k] # None
    /\ live' = [live EXCEPT ![t].trail = disk.records[k].trail]
    /\ UNCHANGED <<disk, view, sub, timer, inflight, history>>

Decide(ws, f) == fate' = [w \in Works |-> IF w \in ws THEN f ELSE fate[w]]

\* handleStartOver.
StartOver(t) ==
    /\ view[t] = "survey"
    /\ live' = [live EXCEPT ![t] = Blank]
    /\ \E fault \in Faults :
          disk' = InstallDraftAutosave(DiscardActiveDraft(disk), Pending, Blank, fault)
    /\ Subscribe(t, Pending)
    /\ Decide(WorkAt(disk, disk.active), "discarded")
    /\ UNCHANGED <<view, inflight, edits>>

\* startFreshSession: the decision log is not among the stores it resets.
StartFreshSession(t) ==
    /\ view[t] = "away"
    /\ live' = [live EXCEPT ![t] = Empty(live[t].trail)]
    /\ disk' = DiscardActiveDraft(disk)
    /\ Decide(WorkAt(disk, disk.active), "discarded")
    /\ UNCHANGED <<view, sub, timer, inflight, edits>>

Delete(t, k) ==
    /\ view[t] = "away"
    /\ disk.index[k].status # "none"
    /\ disk' = DeleteProject(disk, k)
    /\ Decide(WorkAt(disk, k), "deleted")
    /\ UNCHANGED <<tabVars, edits>>

\* handleSubmit: the working copy is projected and sent; the answer is awaited.
BeginPublish(t) ==
    /\ view[t] = "output"
    /\ Instantiated(live[t])
    /\ inflight[t] = None
    /\ inflight' = [inflight EXCEPT ![t] = live[t].work]
    /\ UNCHANGED <<disk, view, live, sub, timer, history>>

PublishSucceeds(t) ==
    /\ inflight[t] # None
    /\ inflight' = [inflight EXCEPT ![t] = None]
    /\ \E fault \in Faults : disk' = RecordProjectSubmission(disk, inflight[t], fault)
    /\ UNCHANGED <<view, live, sub, timer, history>>

PublishFails(t) ==
    /\ inflight[t] # None
    /\ inflight' = [inflight EXCEPT ![t] = None]
    /\ UNCHANGED <<disk, view, live, sub, timer, history>>

-----------------------------------------------------------------------------

TabNext(t) ==
    \/ Boot(t) \/ OpenSurvey(t) \/ OpenOutput(t) \/ LeaveView(t)
    \/ CloseTab(t) \/ Crash(t) \/ FlushAndReload(t)
    \/ TimerFires(t)
    \/ Answer(t) \/ Edit(t)
    \/ \E k \in ProjectKeys :
          \/ CommitBase(t, k) \/ RenameInSurvey(t, k) \/ RenameOnOutput(t, k)
          \/ ResumeProject(t, k) \/ ViewTrail(t, k) \/ Delete(t, k)
    \/ StartOver(t) \/ StartFreshSession(t)
    \/ BeginPublish(t) \/ PublishSucceeds(t) \/ PublishFails(t)

Next == \E t \in Tabs : TabNext(t)

\* The browser runs a due timer and React commits a requested remount.
Fairness == \A t \in Tabs : WF_vars(TimerFires(t)) /\ WF_vars(view[t] = "switching" /\ OpenSurvey(t))

Spec == Init /\ [][Next]_vars
FairSpec == Spec /\ Fairness

-----------------------------------------------------------------------------
(* Properties.                                                             *)

\* Every variable has its type.
TypeOK ==
    /\ disk \in [records : [Keys -> Content \cup {None}],
                  index : [Keys -> Rows],
                  active : Keys \cup {None}]
    /\ view \in [Tabs -> Views]
    /\ live \in [Tabs -> LiveContent]
    /\ sub \in [Tabs -> Keys \cup {None}]
    /\ timer \in [Tabs -> BOOLEAN]
    /\ inflight \in [Tabs -> Works \cup {None}]
    /\ fate \in [Works -> Fates]
    /\ edits \in [Works -> 0..MaxEdits]

\* A draft record of a real project and its row in "My keyboards" exist
\* together, neither an unlisted record nor a card that opens nothing; and the
\* pointer never names a real project whose record is gone, so the next boot
\* finds what it points at.
IndexLockstep ==
    /\ \A k \in ProjectKeys : disk.records[k] # None <=> disk.index[k].status # "none"
    /\ disk.active \in ProjectKeys => disk.records[disk.active] # None

\* One piece of work has one draft card: renaming, rebasing, resuming and
\* reloading in any order never leave a stale duplicate filing behind.
NoDuplicateFiling ==
    \A k1, k2 \in ProjectKeys :
        /\ disk.index[k1].status = "draft"
        /\ disk.index[k2].status = "draft"
        /\ disk.records[k1] # None
        /\ disk.records[k2] # None
        /\ disk.records[k1].work = disk.records[k2].work
        => k1 = k2

\* Work the author started over from never comes back as a draft, whatever
\* timers, remounts and reloads were pending.
DiscardedStaysGone ==
    \A k \in Keys :
        disk.records[k] # None /\ ~IsProjectFrozen(disk, k) =>
            fate[disk.records[k].work] # "discarded"

\* While a screen with an autosave is mounted, the record it saves to holds
\* the live content, or a save is scheduled, or the project is frozen.
NothingUnscheduled ==
    \A t \in Tabs :
        view[t] \in {"survey", "output"} /\ live[t].work # None /\ sub[t] # None =>
            \/ disk.records[sub[t]] = live[t]
            \/ timer[t] /\ disk.active = sub[t]
            \/ IsProjectFrozen(disk, sub[t])

\* The content of a submitted project never changes: it can only be removed.
SubmittedContentKept ==
    [][\A k \in ProjectKeys :
          IsProjectFrozen(disk, k) =>
             \/ disk'.records[k] = disk.records[k] /\ IsProjectFrozen(disk', k)
             \/ disk'.records[k] = None]_vars

Unsaved(t) ==
    /\ view[t] \in {"survey", "output"}
    /\ live[t].work # None
    /\ sub[t] # None
    /\ disk.records[sub[t]] # live[t]
    /\ ~IsProjectFrozen(disk, sub[t])

\* Once the author pauses, an edit made in a mounted screen reaches storage
\* (or the screen goes away), through timers, remounts and orphaned saves.
EditReachesDisk == \A t \in Tabs : Unsaved(t) ~> ~Unsaved(t)

-----------------------------------------------------------------------------
(* What the repository's comments and documents say of drafts.             *)

AuthorTakesAway ==
    \E t \in Tabs : StartOver(t) \/ StartFreshSession(t) \/ \E k \in ProjectKeys : Delete(t, k)

\* A draft listed in "My keyboards" stays listed under some id until the
\* author takes it away: renames, rebases, remounts and switches never delete
\* the only copy. (A storage that refuses writes breaks this: README.md, 5.)
ListedWorkKept ==
    [][~AuthorTakesAway => \A w \in Works :
          (\E k \in ProjectKeys : w \in WorkAt(disk, k)) =>
              \E k \in ProjectKeys : w \in WorkAt(disk', k)]_vars

\* One draft never overwrites another: a record is never exchanged for a
\* record of other work.
NoOverwriting ==
    [][\A k \in ProjectKeys :
          disk.records[k] # None /\ disk'.records[k] # None =>
              disk'.records[k].work = disk.records[k].work]_vars

-----------------------------------------------------------------------------
(* Refinement: the records and rows of real projects are the shelf.        *)

ShelfOf(d) ==
    [k \in ProjectKeys |->
        IF d.records[k] = None THEN NoProject
        ELSE [content |-> d.records[k], submitted |-> IsProjectFrozen(d, k)]]

Shelf == INSTANCE DraftShelf WITH shelf <- ShelfOf(disk)

\* Every behaviour of the tabs is a behaviour of the shelf.
ShelfSpec == Shelf!Spec

=============================================================================
