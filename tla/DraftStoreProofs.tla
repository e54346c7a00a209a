-------------------------- MODULE DraftStoreProofs --------------------------
(***************************************************************************)
(* Proofs about DraftStore for every number of tabs, keyboard ids, works   *)
(* and edits. First what the storage primitives do to a localStorage, then *)
(* one step per handler. Three theorems hold whatever the storage refuses  *)
(* and the author does; the lockstep of drafts and cards needs a storage   *)
(* that takes its writes; the rest is about one author with one tab, who   *)
(* gives no id twice (OneAuthor).                                          *)
(***************************************************************************)
EXTENDS DraftStore, TLAPS

Disk == [records : [Keys -> Content \cup {None}],
         index : [Keys -> Rows],
         active : Keys \cup {None}]

\* Only a live subscription has a timer: what keeps a save from having no key.
TimerSubscribed == \A t \in Tabs : timer[t] => sub[t] # None

-----------------------------------------------------------------------------
(* Types of the primitives.                                                *)

\* Content that SaveDraft accepts is the content of some work.
LEMMA SavableContent ==
    ASSUME NEW c \in LiveContent, Instantiated(c) \/ HasMeaningfulProgress(c)
    PROVE  c \in Content
BY DraftStoreAssumption DEF LiveContent, Empty, Instantiated, HasMeaningfulProgress, Content

\* Every row a primitive writes is a row.
LEMMA RowTypes ==
    /\ NoRow \in Rows
    /\ [NoRow EXCEPT !.status = "draft"] \in Rows
    /\ \A w \in Works : [status |-> "submitted", pr |-> w] \in Rows
BY DEF NoRow, Rows

\* SaveDraft maps localStorage to localStorage.
LEMMA SaveDraftType ==
    ASSUME NEW d \in Disk, NEW k \in Keys, NEW c \in LiveContent, NEW fault
    PROVE  SaveDraft(d, k, c, fault) \in Disk
<1>1. CASE \/ IsProjectFrozen(d, k)
           \/ fault = "record"
           \/ ~Instantiated(c) /\ ~(k = Pending /\ HasMeaningfulProgress(c))
  BY <1>1 DEF SaveDraft
<1>2. CASE ~(\/ IsProjectFrozen(d, k)
             \/ fault = "record"
             \/ ~Instantiated(c) /\ ~(k = Pending /\ HasMeaningfulProgress(c)))
  <2>1. c \in Content
    BY <1>2, SavableContent
  <2>2. [d.records EXCEPT ![k] = c] \in [Keys -> Content \cup {None}]
    BY <2>1 DEF Disk
  <2>3. [d.index EXCEPT ![k] = [NoRow EXCEPT !.status = "draft"]] \in [Keys -> Rows]
    BY RowTypes DEF Disk
  <2>4. d.index \in [Keys -> Rows]
    BY DEF Disk
  <2> QED BY <1>2, <2>2, <2>3, <2>4 DEF SaveDraft, Disk
<1> QED BY <1>1, <1>2

\* So do the primitives that remove a draft.
LEMMA ClearDraftType ==
    ASSUME NEW d \in Disk, NEW k \in Keys
    PROVE  ClearDraft(d, k) \in Disk
BY RowTypes DEF ClearDraft, Disk

LEMMA DiscardActiveDraftType ==
    ASSUME NEW d \in Disk
    PROVE  DiscardActiveDraft(d) \in Disk
<1>1. CASE d.active = None
  BY <1>1 DEF DiscardActiveDraft, Disk
<1>2. CASE d.active # None
  <2>1. d.active \in Keys
    BY <1>2 DEF Disk
  <2>2. ClearDraft(d, d.active) \in Disk
    BY <2>1, ClearDraftType
  <2> QED BY <1>2, <2>2 DEF DiscardActiveDraft, Disk
<1> QED BY <1>1, <1>2

LEMMA DeleteProjectType ==
    ASSUME NEW d \in Disk, NEW k \in Keys
    PROVE  DeleteProject(d, k) \in Disk
<1>1. ClearDraft(d, k) \in Disk
  BY ClearDraftType
<1> QED BY <1>1 DEF DeleteProject, Disk

\* Mounting an autosave.
LEMMA InstallType ==
    ASSUME NEW d \in Disk, NEW k \in Keys, NEW c \in LiveContent, NEW fault
    PROVE  InstallDraftAutosave(d, k, c, fault) \in Disk
<1> DEFINE e == [d EXCEPT !.active = k]
<1>1. e \in Disk
  BY DEF Disk
<1>2. SaveDraft(e, k, c, fault) \in Disk
  BY <1>1, SaveDraftType
<1>3. d.active \in Keys \cup {None}
  BY DEF Disk
<1>4. CASE d.active # None /\ d.active # k
  BY <1>2, <1>3, <1>4, ClearDraftType DEF InstallDraftAutosave, MigrateProjectKeyIfChanged
<1>5. CASE ~(d.active # None /\ d.active # k)
  BY <1>2, <1>5 DEF InstallDraftAutosave, MigrateProjectKeyIfChanged
<1> QED BY <1>4, <1>5

\* Recording a submission.
LEMMA SubmissionType ==
    ASSUME NEW d \in Disk, NEW w \in Works, NEW fault
    PROVE  RecordProjectSubmission(d, w, fault) \in Disk
<1>1. CASE d.active = None
  BY <1>1 DEF RecordProjectSubmission
<1>2. CASE d.active # None
  <2>1. d.active \in Keys
    BY <1>2 DEF Disk
  <2>2. [status |-> "submitted", pr |-> w] \in Rows
    BY RowTypes
  <2>3. [d.index EXCEPT ![d.active] =
           IF d.records[d.active] = None \/ fault # "none" THEN @
           ELSE [status |-> "submitted", pr |-> w]] \in [Keys -> Rows]
    BY <2>1, <2>2 DEF Disk
  <2> QED BY <1>2, <2>3 DEF RecordProjectSubmission, Disk
<1> QED BY <1>1, <1>2

\* What a boot restores.
LEMMA LoadDraftType ==
    ASSUME NEW d \in Disk, NEW k \in Keys \cup {None}
    PROVE  LoadDraft(d, k) \in LiveContent
BY DEF LoadDraft, Disk, LiveContent, Blank

\* The flushes before a tab ends.
LEMMA FlushTypes ==
    ASSUME TypeOK, TimerSubscribed, NEW d \in Disk, NEW t \in Tabs, NEW fault
    PROVE  /\ FlushPending(d, t, fault) \in Disk
           /\ FlushActiveDraft(d, t, fault) \in Disk
<1>1. live[t] \in LiveContent
  BY DEF TypeOK
<1>2. d.active \in Keys \cup {None}
  BY DEF Disk
<1>3. FlushPending(d, t, fault) \in Disk
  <2>1. CASE d.active = sub[t] /\ timer[t] /\ sub[t] # None
    BY <2>1, <1>1, <1>2, SaveDraftType DEF FlushPending
  <2>2. CASE ~(d.active = sub[t] /\ timer[t])
    BY <2>2 DEF FlushPending
  <2>3. CASE d.active = sub[t] /\ timer[t] /\ sub[t] = None
    BY <2>3 DEF TimerSubscribed
  <2> QED BY <2>1, <2>2, <2>3
<1>4. FlushActiveDraft(d, t, fault) \in Disk
  BY <1>1, <1>2, SaveDraftType DEF FlushActiveDraft
<1> QED BY <1>3, <1>4

-----------------------------------------------------------------------------
(* Type correctness.                                                       *)

TypeInv == TypeOK /\ TimerSubscribed

\* In a tab whose stores hold a work, the content is complete.
LEMMA LiveWork ==
    ASSUME TypeOK, NEW t \in Tabs, live[t].work # None \/ Instantiated(live[t])
    PROVE  live[t] \in Content
BY SavableContent DEF TypeOK, HasMeaningfulProgress

\* Content stays content under the changes the handlers make to it.
LEMMA ContentChanges ==
    ASSUME NEW c \in Content, NEW k \in ProjectKeys, NEW n \in 0..MaxEdits,
           NEW w \in Works \cup {None}
    PROVE  /\ [c EXCEPT !.key = k] \in Content
           /\ [c EXCEPT !.ver = n, !.trail = w] \in Content
           /\ [c EXCEPT !.trail = w] \in Content
BY DEF Content

LEMMA KeyTypes ==
    /\ Pending \in Keys
    /\ ProjectKeys \subseteq Keys
    /\ \A c \in LiveContent : FilingKey(c) \in Keys
    /\ \A c \in LiveContent : Instantiated(c) => c.key \in ProjectKeys
BY DEF Keys, LiveContent, Content, Empty, FilingKey, Instantiated

LEMMA EmptyContent ==
    /\ Blank \in LiveContent
    /\ \A w \in Works \cup {None} : Empty(w) \in LiveContent
    /\ Content \subseteq LiveContent
BY DEF Blank, LiveContent

LEMMA InitTyped == Init => TypeInv
<1> SUFFICES ASSUME Init PROVE TypeInv
  OBVIOUS
<1>1. disk \in Disk
  <2>1. PICK p \in Placements, a \in {None} \cup ProjectKeys : disk = Profile(p, a)
    BY DEF Init
  <2>2. \A k \in Keys : k # Pending => k \in ProjectKeys
    BY DEF Keys
  <2>3. \A k \in ProjectKeys : p[k] \in Works \cup {None}
    BY DraftStoreAssumption DEF Placements
  <2>4. \A k \in Keys :
          (IF k = Pending \/ p[k] = None THEN None
           ELSE [work |-> p[k], ver |-> 0, key |-> k, trail |-> p[k]]) \in Content \cup {None}
    BY <2>2, <2>3, DraftStoreAssumption DEF Content
  <2>5. \A k \in Keys :
          (IF k = Pending \/ p[k] = None THEN NoRow
           ELSE [NoRow EXCEPT !.status = "draft"]) \in Rows
    BY RowTypes
  <2>6. a \in Keys \cup {None}
    BY DEF Keys
  <2> QED BY <2>1, <2>4, <2>5, <2>6 DEF Profile, Disk
<1>2. fate \in [Works -> Fates]
  BY DEF Init, Fates
<1>3. /\ view \in [Tabs -> Views]
      /\ live \in [Tabs -> LiveContent]
      /\ sub \in [Tabs -> Keys \cup {None}]
      /\ timer \in [Tabs -> BOOLEAN]
      /\ inflight \in [Tabs -> Works \cup {None}]
  BY EmptyContent DEF Init, Views
<1>4. edits \in [Works -> 0..MaxEdits]
  BY DraftStoreAssumption DEF Init
<1>5. TimerSubscribed
  BY DEF Init, TimerSubscribed
<1> QED BY <1>1, <1>2, <1>3, <1>4, <1>5 DEF TypeInv, TypeOK, Disk

LEMMA SubscribeTyped ==
    ASSUME TypeInv, NEW t \in Tabs, NEW k \in Keys \cup {None}, Subscribe(t, k)
    PROVE  /\ sub' \in [Tabs -> Keys \cup {None}]
           /\ timer' \in [Tabs -> BOOLEAN]
           /\ TimerSubscribed'
BY DEF TypeInv, TypeOK, Subscribe, TimerSubscribed

LEMMA StoresChangeTyped ==
    ASSUME TypeInv, NEW t \in Tabs, NEW c \in LiveContent, StoresChange(t, c), sub' = sub
    PROVE  /\ live' \in [Tabs -> LiveContent]
           /\ timer' \in [Tabs -> BOOLEAN]
           /\ TimerSubscribed'
BY DEF TypeInv, TypeOK, StoresChange, TimerSubscribed

LEMMA DecideTyped ==
    ASSUME TypeInv, NEW ws, NEW f \in Fates, Decide(ws, f)
    PROVE  fate' \in [Works -> Fates]
BY DEF TypeInv, TypeOK, Decide

\* One step per handler.
LEMMA NextTyped == TypeInv /\ [Next]_vars => TypeInv'
<1> SUFFICES ASSUME TypeInv, [Next]_vars PROVE TypeInv'
  OBVIOUS
<1> USE DEF history, tabVars
<1>a. /\ TypeOK
      /\ TimerSubscribed
      /\ disk \in Disk
      /\ disk.active \in Keys \cup {None}
  BY DEF TypeInv, TypeOK, Disk
<1>b. \A t \in Tabs : live[t] \in LiveContent
  BY <1>a DEF TypeOK
<1>c. \A k \in ProjectKeys : disk.records[k] \in Content \cup {None}
  BY <1>a, KeyTypes DEF Disk
<1>1. CASE UNCHANGED vars
  BY <1>1 DEF TypeInv, TypeOK, TimerSubscribed, vars
<1>2. ASSUME NEW t \in Tabs, Boot(t) PROVE TypeInv'
  <2>1. LoadDraft(disk, disk.active) \in LiveContent
    BY <1>a, LoadDraftType
  <2> QED BY <1>2, <2>1 DEF Boot, TypeInv, TypeOK, TimerSubscribed, Views
<1>3. ASSUME NEW t \in Tabs, OpenSurvey(t) PROVE TypeInv'
  <2>1. FilingKey(live[t]) \in Keys
    BY <1>b, KeyTypes
  <2>2. disk' \in Disk
    BY <1>3, <1>a, <1>b, <2>1, InstallType DEF OpenSurvey
  <2>3. Subscribe(t, FilingKey(live[t]))
    BY <1>3 DEF OpenSurvey
  <2>4. /\ sub' \in [Tabs -> Keys \cup {None}]
        /\ timer' \in [Tabs -> BOOLEAN]
        /\ TimerSubscribed'
    BY <2>1, <2>3, SubscribeTyped
  <2> QED BY <1>3, <2>2, <2>4 DEF OpenSurvey, TypeInv, TypeOK, Disk, Views
<1>4. ASSUME NEW t \in Tabs, OpenOutput(t) PROVE TypeInv'
  <2>1. view' \in [Tabs -> Views]
    BY <1>4, <1>a DEF OpenOutput, TypeOK, Views
  <2>2. CASE Instantiated(live[t])
    <3>1. live[t].key \in Keys
      BY <2>2, <1>b, KeyTypes
    <3>2. disk' \in Disk
      BY <1>4, <2>2, <1>a, <1>b, <3>1, InstallType DEF OpenOutput
    <3>3. /\ sub' \in [Tabs -> Keys \cup {None}]
          /\ timer' \in [Tabs -> BOOLEAN]
          /\ TimerSubscribed'
      BY <1>4, <2>2, <3>1, SubscribeTyped DEF OpenOutput
    <3> QED BY <1>4, <2>1, <3>2, <3>3 DEF OpenOutput, TypeInv, TypeOK, Disk
  <2>3. CASE ~Instantiated(live[t])
    BY <1>4, <2>1, <2>3 DEF OpenOutput, TypeInv, TypeOK, TimerSubscribed
  <2> QED BY <2>2, <2>3
<1>5. ASSUME NEW t \in Tabs, LeaveView(t) PROVE TypeInv'
  <2>1. /\ sub' \in [Tabs -> Keys \cup {None}]
        /\ timer' \in [Tabs -> BOOLEAN]
        /\ TimerSubscribed'
    BY <1>5, SubscribeTyped DEF LeaveView
  <2> QED BY <1>5, <2>1 DEF LeaveView, TypeInv, TypeOK, Views
<1>6. ASSUME NEW t \in Tabs, TabEnds(t), disk' \in Disk PROVE TypeInv'
  <2>1. /\ sub' \in [Tabs -> Keys \cup {None}]
        /\ timer' \in [Tabs -> BOOLEAN]
        /\ TimerSubscribed'
    BY <1>6, SubscribeTyped DEF TabEnds
  <2> QED BY <1>6, <2>1, EmptyContent DEF TabEnds, TypeInv, TypeOK, Disk, Views
<1>7. ASSUME NEW t \in Tabs, CloseTab(t) PROVE TypeInv'
  BY <1>6, <1>7, <1>a, FlushTypes DEF CloseTab
<1>8. ASSUME NEW t \in Tabs, Crash(t) PROVE TypeInv'
  BY <1>6, <1>8, <1>a DEF Crash
<1>9. ASSUME NEW t \in Tabs, FlushAndReload(t) PROVE TypeInv'
  <2>1. PICK fault \in Faults :
          disk' = FlushPending(FlushActiveDraft(disk, t, fault), t, fault)
    BY <1>9 DEF FlushAndReload
  <2>2. FlushActiveDraft(disk, t, fault) \in Disk
    BY <1>a, FlushTypes
  <2>3. disk' \in Disk
    BY <1>a, <2>1, <2>2, FlushTypes
  <2> QED BY <1>6, <1>9, <2>3 DEF FlushAndReload
<1>10. ASSUME NEW t \in Tabs, TimerFires(t) PROVE TypeInv'
  <2>1. sub[t] \in Keys
    BY <1>10, <1>a DEF TimerFires, TimerSubscribed, TypeOK
  <2>2. disk' \in Disk
    BY <1>10, <1>a, <1>b, <2>1, SaveDraftType DEF TimerFires
  <2> QED BY <1>10, <2>2 DEF TimerFires, TypeInv, TypeOK, TimerSubscribed, Disk
<1>11. ASSUME NEW t \in Tabs, Answer(t) PROVE TypeInv'
  <2>1. PICK w \in Works :
          /\ fate' = [fate EXCEPT ![w] = "alive"]
          /\ StoresChange(t, [live[t] EXCEPT !.work = w, !.trail = IF @ = None THEN w ELSE @])
    BY <1>11 DEF Answer
  <2>2. [live[t] EXCEPT !.work = w, !.trail = IF @ = None THEN w ELSE @] \in LiveContent
    <3> DEFINE Loose == [work : Works \cup {None}, ver : 0..MaxEdits,
                         key : ProjectKeys \cup {None}, trail : Works \cup {None}]
               c == [live[t] EXCEPT !.work = w, !.trail = IF @ = None THEN w ELSE @]
    <3>1. live[t] \in Loose
      BY <1>b, DraftStoreAssumption DEF LiveContent, Empty, Content
    <3>2. c \in Loose /\ c.work = w
      BY <3>1
    <3>3. c \in Content
      BY <3>2 DEF Content
    <3> QED BY <3>3, EmptyContent
  <2>3. /\ live' \in [Tabs -> LiveContent]
        /\ timer' \in [Tabs -> BOOLEAN]
        /\ TimerSubscribed'
    BY <1>11, <2>1, <2>2, StoresChangeTyped DEF Answer
  <2>4. fate' \in [Works -> Fates]
    BY <2>1, <1>a DEF TypeOK, Fates
  <2> QED BY <1>11, <2>3, <2>4 DEF Answer, TypeInv, TypeOK
<1>12. ASSUME NEW t \in Tabs, Edit(t) PROVE TypeInv'
  <2> DEFINE w == live[t].work
  <2>1. live[t] \in Content
    BY <1>12, <1>a, LiveWork DEF Edit
  <2>2. w \in Works /\ live[t].trail \in Works \cup {None}
    BY <2>1 DEF Content
  <2>3. edits[w] \in 0..MaxEdits /\ edits[w] + 1 \in 0..MaxEdits
    BY <1>12, <1>a, <2>2, DraftStoreAssumption DEF Edit, TypeOK
  <2>4. edits' \in [Works -> 0..MaxEdits]
    BY <1>12, <1>a, <2>3 DEF Edit, TypeOK
  <2>5. [live[t] EXCEPT !.ver = edits[w] + 1, !.trail = IF @ = None THEN w ELSE @] \in Content
    BY <2>1, <2>2, <2>3 DEF Content
  <2>6. /\ live' \in [Tabs -> LiveContent]
        /\ timer' \in [Tabs -> BOOLEAN]
        /\ TimerSubscribed'
    BY <1>12, <2>5, EmptyContent, StoresChangeTyped DEF Edit
  <2> QED BY <1>12, <2>4, <2>6 DEF Edit, TypeInv, TypeOK
<1>13. ASSUME NEW t \in Tabs, NEW k \in ProjectKeys, CommitBase(t, k) PROVE TypeInv'
  <2> DEFINE c == [live[t] EXCEPT !.key = k]
  <2>1. c \in Content
    BY <1>13, <1>a, LiveWork DEF CommitBase, Content
  <2>2. PICK fault \in Faults :
          disk' = ClearDraft(InstallDraftAutosave(disk, k, c, fault), Pending)
    BY <1>13 DEF CommitBase
  <2>3. disk' \in Disk
    BY <1>a, <2>1, <2>2, InstallType, ClearDraftType, KeyTypes, EmptyContent
  <2>4. /\ sub' \in [Tabs -> Keys \cup {None}]
        /\ timer' \in [Tabs -> BOOLEAN]
        /\ TimerSubscribed'
    BY <1>13, SubscribeTyped, KeyTypes DEF CommitBase
  <2>5. live' \in [Tabs -> LiveContent]
    BY <1>13, <1>a, <2>1, EmptyContent DEF CommitBase, TypeOK
  <2> QED BY <1>13, <2>3, <2>4, <2>5 DEF CommitBase, TypeInv, TypeOK, Disk
<1>14. ASSUME NEW t \in Tabs, NEW k \in ProjectKeys, RenameInSurvey(t, k) PROVE TypeInv'
  <2>1. [live[t] EXCEPT !.key = k] \in LiveContent
    BY <1>14, <1>a, LiveWork, EmptyContent DEF RenameInSurvey, Content
  <2>2. /\ live' \in [Tabs -> LiveContent]
        /\ timer' \in [Tabs -> BOOLEAN]
        /\ TimerSubscribed'
    BY <1>14, <2>1, StoresChangeTyped DEF RenameInSurvey
  <2> QED BY <1>14, <2>2 DEF RenameInSurvey, TypeInv, TypeOK
<1>15. ASSUME NEW t \in Tabs, NEW k \in ProjectKeys, RenameOnOutput(t, k) PROVE TypeInv'
  <2> DEFINE c == [live[t] EXCEPT !.key = k]
  <2>1. c \in LiveContent
    BY <1>15, <1>a, LiveWork, EmptyContent DEF RenameOnOutput, Content
  <2>2. disk' \in Disk
    BY <1>15, <1>a, <2>1, InstallType, KeyTypes DEF RenameOnOutput
  <2>3. /\ sub' \in [Tabs -> Keys \cup {None}]
        /\ timer' \in [Tabs -> BOOLEAN]
        /\ TimerSubscribed'
    BY <1>15, SubscribeTyped, KeyTypes DEF RenameOnOutput
  <2>4. live' \in [Tabs -> LiveContent]
    BY <1>15, <1>a, <2>1 DEF RenameOnOutput, TypeOK
  <2> QED BY <1>15, <2>2, <2>3, <2>4 DEF RenameOnOutput, TypeInv, TypeOK, Disk
<1>16. ASSUME NEW t \in Tabs, NEW k \in ProjectKeys, ResumeProject(t, k) PROVE TypeInv'
  <2>1. disk.records[k] \in LiveContent
    BY <1>16, <1>c, EmptyContent DEF ResumeProject
  <2>2. /\ live' \in [Tabs -> LiveContent]
        /\ timer' \in [Tabs -> BOOLEAN]
        /\ TimerSubscribed'
    BY <1>16, <2>1, StoresChangeTyped DEF ResumeProject
  <2>3. disk' \in Disk
    BY <1>16, <1>a, KeyTypes DEF ResumeProject, Disk
  <2> QED BY <1>16, <2>2, <2>3 DEF ResumeProject, TypeInv, TypeOK, Disk, Views
<1>17. ASSUME NEW t \in Tabs, NEW k \in ProjectKeys, ViewTrail(t, k) PROVE TypeInv'
  <2>1. disk.records[k].trail \in Works \cup {None}
    BY <1>17, <1>c DEF ViewTrail, Content
  <2>2. [live[t] EXCEPT !.trail = disk.records[k].trail] \in LiveContent
    BY <1>b, <2>1 DEF LiveContent, Content, Empty
  <2>3. live' = [live EXCEPT ![t] = [live[t] EXCEPT !.trail = disk.records[k].trail]]
    BY <1>17, <1>a DEF ViewTrail, TypeOK
  <2>4. live' \in [Tabs -> LiveContent]
    BY <1>a, <2>2, <2>3 DEF TypeOK
  <2> QED BY <1>17, <2>4 DEF ViewTrail, TypeInv, TypeOK, TimerSubscribed
<1>18. ASSUME NEW t \in Tabs, NEW k \in ProjectKeys, Delete(t, k) PROVE TypeInv'
  <2>1. disk' \in Disk
    BY <1>18, <1>a, DeleteProjectType, KeyTypes DEF Delete
  <2>2. fate' \in [Works -> Fates]
    BY <1>18, DecideTyped DEF Delete, Fates
  <2> QED BY <1>18, <2>1, <2>2 DEF Delete, TypeInv, TypeOK, TimerSubscribed, Disk
<1>19. ASSUME NEW t \in Tabs, StartOver(t) PROVE TypeInv'
  <2>1. DiscardActiveDraft(disk) \in Disk
    BY <1>a, DiscardActiveDraftType
  <2>2. disk' \in Disk
    BY <1>19, <2>1, InstallType, KeyTypes, EmptyContent DEF StartOver
  <2>3. fate' \in [Works -> Fates]
    BY <1>19, DecideTyped DEF StartOver, Fates
  <2>4. /\ sub' \in [Tabs -> Keys \cup {None}]
        /\ timer' \in [Tabs -> BOOLEAN]
        /\ TimerSubscribed'
    BY <1>19, SubscribeTyped, KeyTypes DEF StartOver
  <2>5. live' \in [Tabs -> LiveContent]
    BY <1>19, <1>a, EmptyContent DEF StartOver, TypeOK
  <2> QED BY <1>19, <2>2, <2>3, <2>4, <2>5 DEF StartOver, TypeInv, TypeOK, Disk
<1>20. ASSUME NEW t \in Tabs, StartFreshSession(t) PROVE TypeInv'
  <2>1. disk' \in Disk
    BY <1>20, <1>a, DiscardActiveDraftType DEF StartFreshSession
  <2>2. fate' \in [Works -> Fates]
    BY <1>20, DecideTyped DEF StartFreshSession, Fates
  <2>3. live[t].trail \in Works \cup {None}
    BY <1>b DEF LiveContent, Content, Empty
  <2>4. live' \in [Tabs -> LiveContent]
    BY <1>20, <1>a, <2>3, EmptyContent DEF StartFreshSession, TypeOK
  <2> QED BY <1>20, <2>1, <2>2, <2>4 DEF StartFreshSession, TypeInv, TypeOK, TimerSubscribed, Disk
<1>21. ASSUME NEW t \in Tabs, BeginPublish(t) PROVE TypeInv'
  <2>1. live[t].work \in Works
    BY <1>21, <1>a, LiveWork DEF BeginPublish, Content
  <2> QED BY <1>21, <2>1 DEF BeginPublish, TypeInv, TypeOK, TimerSubscribed
<1>22. ASSUME NEW t \in Tabs, PublishSucceeds(t) PROVE TypeInv'
  <2>1. inflight[t] \in Works
    BY <1>22, <1>a DEF PublishSucceeds, TypeOK
  <2>2. disk' \in Disk
    BY <1>22, <1>a, <2>1, SubmissionType DEF PublishSucceeds
  <2> QED BY <1>22, <2>2 DEF PublishSucceeds, TypeInv, TypeOK, TimerSubscribed, Disk
<1>23. ASSUME NEW t \in Tabs, PublishFails(t) PROVE TypeInv'
  BY <1>23 DEF PublishFails, TypeInv, TypeOK, TimerSubscribed
<1> QED
  BY <1>1, <1>2, <1>3, <1>4, <1>5, <1>7, <1>8, <1>9, <1>10, <1>11, <1>12, <1>13, <1>14,
     <1>15, <1>16, <1>17, <1>18, <1>19, <1>20, <1>21, <1>22, <1>23 DEF Next, TabNext

\* Type correctness of the stores, the screens and the localStorage.
THEOREM TypeCorrect == Spec => []TypeOK
<1>1. TypeInv => TypeOK
  BY DEF TypeInv
<1> QED BY <1>1, InitTyped, NextTyped, PTL DEF Spec

-----------------------------------------------------------------------------
(* What the primitives do to the places of "My keyboards".                 *)

\* From localStorage d to e, project k is left alone, has lost its record, is
\* an unfrozen draft with new content, or has been frozen as it was.
Same(d, e, k) == e.records[k] = d.records[k] /\ e.index[k] = d.index[k]
Gone(e, k) == e.records[k] = None
Rewritten(d, e, k) ==
    ~IsProjectFrozen(d, k) /\ e.records[k] \in Content /\ ~IsProjectFrozen(e, k)
Published(d, e, k) ==
    d.records[k] # None /\ e.records[k] = d.records[k] /\ IsProjectFrozen(e, k)

\* Only k may have been written.
OneWrite(d, e, k) ==
    \A j \in ProjectKeys : Same(d, e, j) \/ (j = k /\ Rewritten(d, e, j))

\* The steps of the drafts: one write with removals, removals, one submission.
DraftStep(d, e) ==
    \/ \E k \in ProjectKeys :
          /\ Rewritten(d, e, k)
          /\ \A j \in ProjectKeys \ {k} : Same(d, e, j) \/ Gone(e, j)
    \/ \A k \in ProjectKeys : Same(d, e, k) \/ Gone(e, k)
    \/ \E k \in ProjectKeys :
          Published(d, e, k) /\ (\A j \in ProjectKeys \ {k} : Same(d, e, j))

LEMMA DraftRowNotFrozen == [NoRow EXCEPT !.status = "draft"].status # "submitted"
BY DEF NoRow

\* SaveDraft writes at most the project it is asked to, and never a frozen one.
LEMMA SaveStep ==
    ASSUME NEW d \in Disk, NEW k \in Keys, NEW c \in LiveContent, NEW fault
    PROVE  OneWrite(d, SaveDraft(d, k, c, fault), k)
<1> DEFINE e == SaveDraft(d, k, c, fault)
<1>1. CASE \/ IsProjectFrozen(d, k)
           \/ fault = "record"
           \/ ~Instantiated(c) /\ ~(k = Pending /\ HasMeaningfulProgress(c))
  BY <1>1 DEF SaveDraft, OneWrite, Same
<1>2. CASE ~(\/ IsProjectFrozen(d, k)
             \/ fault = "record"
             \/ ~Instantiated(c) /\ ~(k = Pending /\ HasMeaningfulProgress(c)))
  <2>1. c \in Content
    BY <1>2, SavableContent
  <2> DEFINE row == [NoRow EXCEPT !.status = "draft"]
             index == IF k = Pending \/ fault = "index" \/ d.index[k] # NoRow
                      THEN d.index ELSE [d.index EXCEPT ![k] = row]
  <2>2. e = [records |-> [d.records EXCEPT ![k] = c], active |-> k, index |-> index]
    BY <1>2 DEF SaveDraft
  <2>3. index[k] = d.index[k] \/ index[k] = row
    BY DEF Disk
  <2>4. Rewritten(d, e, k)
    BY <1>2, <2>1, <2>2, <2>3, DraftRowNotFrozen DEF Rewritten, IsProjectFrozen, Disk
  <2>5. \A j \in ProjectKeys : j # k => Same(d, e, j)
    BY <2>2, KeyTypes DEF Same, Disk
  <2> QED BY <2>4, <2>5 DEF OneWrite
<1> QED BY <1>1, <1>2

\* One write is a step of the drafts.
LEMMA OneWriteStep ==
    ASSUME NEW d, NEW e, NEW k, OneWrite(d, e, k)
    PROVE  DraftStep(d, e)
BY DEF OneWrite, DraftStep

\* Clearing key j leaves the other projects alone.
LEMMA ClearStep ==
    ASSUME NEW d \in Disk, NEW j \in Keys
    PROVE  \A k \in ProjectKeys :
              IF k = j THEN Gone(ClearDraft(d, j), k) ELSE Same(d, ClearDraft(d, j), k)
<1> DEFINE e == ClearDraft(d, j)
<1>1. /\ e.records = [d.records EXCEPT ![j] = None]
      /\ e.index = [d.index EXCEPT ![j] = NoRow]
  BY DEF ClearDraft, Disk
<1>2. e.records[j] = None
  BY <1>1 DEF Disk
<1>3. ASSUME NEW k \in ProjectKeys, k # j PROVE Same(d, e, k)
  BY <1>1, <1>3, KeyTypes DEF Disk, Same
<1> QED BY <1>2, <1>3 DEF Gone

\* Mounting an autosave for k writes k and removes at most the prior filing.
LEMMA InstallStep ==
    ASSUME NEW d \in Disk, NEW k \in Keys, NEW c \in LiveContent, NEW fault,
           NEW e, e = InstallDraftAutosave(d, k, c, fault)
    PROVE  \A j \in ProjectKeys :
              \/ Same(d, e, j)
              \/ j = k /\ Rewritten(d, e, j)
              \/ j # k /\ j = d.active /\ Gone(e, j)
<1> DEFINE d1 == [d EXCEPT !.active = k]
           d2 == SaveDraft(d1, k, c, fault)
<1>1. d1 \in Disk /\ d1.records = d.records /\ d1.index = d.index
  BY DEF Disk
<1>2. d2 \in Disk /\ OneWrite(d1, d2, k)
  BY <1>1, SaveDraftType, SaveStep
<1>3. OneWrite(d, d2, k)
  BY <1>1, <1>2 DEF OneWrite, Same, Rewritten, IsProjectFrozen
<1>4. CASE d.active # None /\ d.active # k
  <2>1. d.active \in Keys
    BY <1>4 DEF Disk
  <2>2. e = ClearDraft(d2, d.active)
    BY <1>4 DEF InstallDraftAutosave, MigrateProjectKeyIfChanged
  <2> HIDE DEF d2
  <2>3. \A j \in ProjectKeys : IF j = d.active THEN Gone(e, j) ELSE Same(d2, e, j)
    BY <1>2, <2>1, <2>2, ClearStep
  <2>4. ASSUME NEW j \in ProjectKeys, j # d.active
        PROVE  Same(d, e, j) \/ (j = k /\ Rewritten(d, e, j))
    BY <1>3, <2>3, <2>4 DEF OneWrite, Same, Rewritten, IsProjectFrozen
  <2> QED BY <1>4, <2>3, <2>4
<1>5. CASE ~(d.active # None /\ d.active # k)
  <2>1. e = d2
    BY <1>5 DEF InstallDraftAutosave, MigrateProjectKeyIfChanged
  <2> QED BY <1>3, <2>1 DEF OneWrite
<1> QED BY <1>4, <1>5

\* One project is written, others at most removed.
WriteAndRemovals(d, e, k) ==
    \A j \in ProjectKeys :
        \/ Same(d, e, j)
        \/ j = k /\ Rewritten(d, e, j)
        \/ j # k /\ Gone(e, j)

LEMMA WriteAndRemovalsStep ==
    ASSUME NEW d, NEW e, NEW k, WriteAndRemovals(d, e, k)
    PROVE  DraftStep(d, e)
<1>1. CASE k \in ProjectKeys /\ Rewritten(d, e, k)
  BY <1>1 DEF WriteAndRemovals, DraftStep
<1>2. CASE ~(k \in ProjectKeys /\ Rewritten(d, e, k))
  BY <1>2 DEF WriteAndRemovals, DraftStep
<1> QED BY <1>1, <1>2

LEMMA InstallDraftStep ==
    ASSUME NEW d \in Disk, NEW k \in Keys, NEW c \in LiveContent, NEW fault
    PROVE  WriteAndRemovals(d, InstallDraftAutosave(d, k, c, fault), k)
BY InstallStep DEF WriteAndRemovals

\* Discarding the active project only removes.
LEMMA DiscardStep ==
    ASSUME NEW d \in Disk, NEW e, e = DiscardActiveDraft(d)
    PROVE  /\ \A j \in ProjectKeys : Same(d, e, j) \/ Gone(e, j)
           /\ e.active = None
<1>1. CASE d.active = None
  BY <1>1 DEF DiscardActiveDraft, Same, Disk
<1>2. CASE d.active # None
  <2>1. d.active \in Keys
    BY <1>2 DEF Disk
  <2> DEFINE d1 == ClearDraft(d, d.active)
  <2>2. \A j \in ProjectKeys : IF j = d.active THEN Gone(d1, j) ELSE Same(d, d1, j)
    BY <2>1, ClearStep
  <2>3. d1 \in Disk
    BY <2>1, ClearDraftType
  <2>4. e = [d1 EXCEPT !.active = None]
    BY <1>2 DEF DiscardActiveDraft
  <2> HIDE DEF d1
  <2> QED BY <2>2, <2>3, <2>4 DEF Same, Gone, Disk
<1> QED BY <1>1, <1>2

\* A submission freezes the active project as it is.
LEMMA SubmissionStep ==
    ASSUME NEW d \in Disk, NEW w \in Works, NEW fault
    PROVE  DraftStep(d, RecordProjectSubmission(d, w, fault))
<1> DEFINE e == RecordProjectSubmission(d, w, fault)
           row == [status |-> "submitted", pr |-> w]
           a == d.active
<1>1. CASE a = None
  BY <1>1 DEF RecordProjectSubmission, DraftStep, Same
<1>2. CASE a # None
  <2>1. a \in Keys
    BY <1>2 DEF Disk
  <2>2. /\ e.records = d.records
        /\ e.index = [d.index EXCEPT ![a] =
              IF d.records[a] = None \/ fault # "none" THEN @ ELSE row]
    BY <1>2 DEF RecordProjectSubmission, Disk
  <2>3. \A j \in ProjectKeys \ {a} : Same(d, e, j)
    BY <2>2, KeyTypes DEF Same, Disk
  <2>4. CASE a = Pending \/ d.records[a] = None \/ fault # "none"
    <3>1. \A j \in ProjectKeys : Same(d, e, j)
      BY <2>1, <2>2, <2>3, <2>4, DraftStoreAssumption DEF Same, Disk
    <3> QED BY <3>1 DEF DraftStep
  <2>5. CASE ~(a = Pending \/ d.records[a] = None \/ fault # "none")
    <3>1. a \in ProjectKeys
      BY <2>1, <2>5 DEF Keys
    <3>2. e.index[a] = row
      BY <2>1, <2>2, <2>5 DEF Disk
    <3>3. Published(d, e, a)
      BY <2>2, <2>5, <3>2 DEF Published, IsProjectFrozen
    <3> QED BY <2>3, <3>1, <3>3 DEF DraftStep
  <2> QED BY <2>4, <2>5
<1> QED BY <1>1, <1>2

\* A scheduled save, if any, goes to the key of the subscription.
LEMMA FlushPendingStep ==
    ASSUME TypeInv, NEW d \in Disk, NEW t \in Tabs, NEW fault
    PROVE  /\ OneWrite(d, FlushPending(d, t, fault), sub[t])
           /\ d.active # sub[t] => FlushPending(d, t, fault) = d
<1>1. live[t] \in LiveContent /\ sub[t] \in Keys \cup {None}
  BY DEF TypeInv, TypeOK
<1>2. CASE timer[t] /\ d.active = sub[t]
  <2>1. sub[t] \in Keys
    BY <1>1, <1>2 DEF TypeInv, TimerSubscribed
  <2> QED BY <1>1, <1>2, <2>1, SaveStep DEF FlushPending
<1>3. CASE ~(timer[t] /\ d.active = sub[t])
  BY <1>3 DEF FlushPending, OneWrite, Same
<1> QED BY <1>2, <1>3

\* flushActiveDraft writes the active project and leaves the pointer alone.
LEMMA FlushActiveStep ==
    ASSUME TypeInv, NEW d \in Disk, NEW t \in Tabs, NEW fault
    PROVE  /\ OneWrite(d, FlushActiveDraft(d, t, fault), d.active)
           /\ FlushActiveDraft(d, t, fault).active = d.active
<1>1. live[t] \in LiveContent /\ d.active \in Keys \cup {None}
  BY DEF TypeInv, TypeOK, Disk
<1>2. CASE d.active = None
  BY <1>2 DEF FlushActiveDraft, OneWrite, Same
<1>3. CASE d.active # None
  <2>1. OneWrite(d, SaveDraft(d, d.active, live[t], fault), d.active)
    BY <1>1, <1>3, SaveStep
  <2>2. SaveDraft(d, d.active, live[t], fault).active = d.active
    BY DEF SaveDraft
  <2> QED BY <1>3, <2>1, <2>2 DEF FlushActiveDraft
<1> QED BY <1>2, <1>3

LEMMA TwoWrites ==
    ASSUME NEW d, NEW e, NEW f, NEW k, OneWrite(d, e, k), OneWrite(e, f, k)
    PROVE  OneWrite(d, f, k)
BY DEF OneWrite, Same, Rewritten, IsProjectFrozen

\* Every step of every tab is a step of the drafts.
LEMMA NextDraftStep == TypeInv /\ [Next]_vars => DraftStep(disk, disk')
<1> SUFFICES ASSUME TypeInv, [Next]_vars PROVE DraftStep(disk, disk')
  OBVIOUS
<1>a. /\ TypeOK
      /\ disk \in Disk
  BY DEF TypeInv, TypeOK, Disk
<1>b. \A t \in Tabs : live[t] \in LiveContent
  BY <1>a DEF TypeOK
<1>1. ASSUME disk'.records = disk.records, disk'.index = disk.index
      PROVE  DraftStep(disk, disk')
  BY <1>1 DEF DraftStep, Same
<1>2. CASE UNCHANGED vars
  BY <1>1, <1>2 DEF vars
<1>3. ASSUME NEW t \in Tabs, OpenSurvey(t) PROVE DraftStep(disk, disk')
  BY <1>3, <1>a, <1>b, KeyTypes, InstallDraftStep, WriteAndRemovalsStep DEF OpenSurvey
<1>4. ASSUME NEW t \in Tabs, OpenOutput(t) PROVE DraftStep(disk, disk')
  <2>1. CASE Instantiated(live[t])
    <3>1. live[t].key \in Keys
      BY <2>1, <1>b, KeyTypes
    <3> QED BY <1>4, <1>a, <1>b, <2>1, <3>1, InstallDraftStep, WriteAndRemovalsStep DEF OpenOutput
  <2>2. CASE ~Instantiated(live[t])
    BY <1>1, <1>4, <2>2 DEF OpenOutput
  <2> QED BY <2>1, <2>2
<1>5. ASSUME NEW t \in Tabs, CloseTab(t) PROVE DraftStep(disk, disk')
  BY <1>5, <1>a, FlushPendingStep, OneWriteStep DEF CloseTab
<1>6. ASSUME NEW t \in Tabs, FlushAndReload(t) PROVE DraftStep(disk, disk')
  <2>1. PICK fault \in Faults :
          disk' = FlushPending(FlushActiveDraft(disk, t, fault), t, fault)
    BY <1>6 DEF FlushAndReload
  <2> DEFINE e == FlushActiveDraft(disk, t, fault)
  <2>2. e \in Disk
    BY <1>a, FlushTypes DEF TypeInv
  <2>3. OneWrite(disk, e, disk.active) /\ e.active = disk.active
    BY <1>a, FlushActiveStep
  <2> HIDE DEF e
  <2>4. OneWrite(e, disk', sub[t]) /\ (e.active # sub[t] => disk' = e)
    BY <2>1, <2>2, FlushPendingStep DEF e
  <2>5. OneWrite(disk, disk', disk.active)
    BY <2>3, <2>4, TwoWrites
  <2> QED BY <2>5, OneWriteStep
<1>7. ASSUME NEW t \in Tabs, TimerFires(t) PROVE DraftStep(disk, disk')
  <2>1. sub[t] \in Keys
    BY <1>7, <1>a DEF TimerFires, TypeInv, TimerSubscribed, TypeOK
  <2>2. CASE disk.active = sub[t]
    BY <1>7, <1>a, <1>b, <2>1, <2>2, SaveStep, OneWriteStep DEF TimerFires
  <2>3. CASE disk.active # sub[t]
    BY <1>1, <1>7, <2>3 DEF TimerFires
  <2> QED BY <2>2, <2>3
<1>8. ASSUME NEW t \in Tabs, NEW k \in ProjectKeys, CommitBase(t, k)
      PROVE  DraftStep(disk, disk')
  <2> DEFINE c == [live[t] EXCEPT !.key = k]
  <2>1. c \in LiveContent
    BY <1>8, <1>a, LiveWork, EmptyContent DEF CommitBase, Content
  <2>2. PICK fault \in Faults :
          disk' = ClearDraft(InstallDraftAutosave(disk, k, c, fault), Pending)
    BY <1>8 DEF CommitBase
  <2> DEFINE e == InstallDraftAutosave(disk, k, c, fault)
  <2>3. e \in Disk /\ WriteAndRemovals(disk, e, k)
    BY <1>a, <2>1, InstallType, InstallDraftStep, KeyTypes
  <2> HIDE DEF e
  <2>4. \A j \in ProjectKeys : Same(e, disk', j)
    BY <2>2, <2>3, ClearStep, KeyTypes, DraftStoreAssumption DEF e
  <2>5. WriteAndRemovals(disk, disk', k)
    BY <2>3, <2>4 DEF WriteAndRemovals, Same, Rewritten, Gone, IsProjectFrozen
  <2> QED BY <2>5, WriteAndRemovalsStep
<1>9. ASSUME NEW t \in Tabs, NEW k \in ProjectKeys, RenameOnOutput(t, k)
      PROVE  DraftStep(disk, disk')
  <2>1. [live[t] EXCEPT !.key = k] \in LiveContent
    BY <1>9, <1>a, LiveWork, EmptyContent DEF RenameOnOutput, Content
  <2> QED
    BY <1>9, <1>a, <2>1, KeyTypes, InstallDraftStep, WriteAndRemovalsStep DEF RenameOnOutput
<1>10. ASSUME NEW t \in Tabs, NEW k \in ProjectKeys, ResumeProject(t, k)
       PROVE  DraftStep(disk, disk')
  BY <1>1, <1>10, <1>a DEF ResumeProject, Disk
<1>11. ASSUME NEW t \in Tabs, StartOver(t) PROVE DraftStep(disk, disk')
  <2> DEFINE e == DiscardActiveDraft(disk)
  <2>1. /\ e \in Disk
        /\ e.active = None
        /\ \A j \in ProjectKeys : Same(disk, e, j) \/ Gone(e, j)
    BY <1>a, DiscardActiveDraftType, DiscardStep
  <2> HIDE DEF e
  <2>2. PICK fault \in Faults : disk' = InstallDraftAutosave(e, Pending, Blank, fault)
    BY <1>11 DEF StartOver, e
  <2>3. \A j \in ProjectKeys : Same(e, disk', j)
    BY <2>1, <2>2, InstallStep, KeyTypes, EmptyContent, DraftStoreAssumption DEF Keys
  <2>4. \A j \in ProjectKeys : Same(disk, disk', j) \/ Gone(disk', j)
    BY <2>1, <2>3 DEF Same, Gone
  <2> QED BY <2>4 DEF DraftStep
<1>12. ASSUME NEW t \in Tabs, StartFreshSession(t) PROVE DraftStep(disk, disk')
  BY <1>12, <1>a, DiscardStep DEF StartFreshSession, DraftStep
<1>13. ASSUME NEW t \in Tabs, NEW k \in ProjectKeys, Delete(t, k)
       PROVE  DraftStep(disk, disk')
  <2> DEFINE e == ClearDraft(disk, k)
  <2>1. e \in Disk
    BY <1>a, ClearDraftType, KeyTypes
  <2>2. disk'.records = e.records /\ disk'.index = e.index
    BY <1>13, <2>1 DEF Delete, DeleteProject, Disk
  <2>3. \A j \in ProjectKeys : Same(disk, e, j) \/ Gone(e, j)
    BY <1>a, ClearStep, KeyTypes
  <2> HIDE DEF e
  <2> QED BY <2>2, <2>3 DEF DraftStep, Same, Gone
<1>14. ASSUME NEW t \in Tabs, PublishSucceeds(t) PROVE DraftStep(disk, disk')
  <2>1. inflight[t] \in Works
    BY <1>14, <1>a DEF PublishSucceeds, TypeOK
  <2> QED BY <1>14, <1>a, <2>1, SubmissionStep DEF PublishSucceeds
<1>15. ASSUME NEW t \in Tabs,
              \/ Boot(t) \/ LeaveView(t) \/ Crash(t) \/ Answer(t) \/ Edit(t)
              \/ \E k \in ProjectKeys : RenameInSurvey(t, k) \/ ViewTrail(t, k)
              \/ BeginPublish(t) \/ PublishFails(t)
       PROVE  DraftStep(disk, disk')
  BY <1>1, <1>15 DEF Boot, LeaveView, Crash, Answer, Edit, RenameInSurvey, ViewTrail,
                     BeginPublish, PublishFails
<1> QED
  BY <1>2, <1>3, <1>4, <1>5, <1>6, <1>7, <1>8, <1>9, <1>10, <1>11, <1>12, <1>13, <1>14,
     <1>15 DEF Next, TabNext

-----------------------------------------------------------------------------
(* The theorems.                                                           *)

\* A submitted project keeps its content until it is removed, whatever tabs,
\* timers, failed writes, colliding ids and late answers do.
THEOREM SubmittedContentIsKept == Spec => SubmittedContentKept
<1>1. TypeInv /\ [Next]_vars =>
        [\A k \in ProjectKeys :
            IsProjectFrozen(disk, k) =>
               \/ disk'.records[k] = disk.records[k] /\ IsProjectFrozen(disk', k)
               \/ disk'.records[k] = None]_vars
  BY NextDraftStep DEF DraftStep, Same, Gone, Rewritten, Published, IsProjectFrozen
<1> QED BY <1>1, InitTyped, NextTyped, PTL DEF Spec, SubmittedContentKept

LEMMA ShelfInit == Init => Shelf!Init
<1> SUFFICES ASSUME Init PROVE Shelf!Init
  OBVIOUS
<1>1. disk \in Disk
  BY InitTyped DEF TypeInv, TypeOK, Disk
<1>2. \A k \in ProjectKeys : ~IsProjectFrozen(disk, k)
  BY KeyTypes DEF Init, Profile, NoRow, IsProjectFrozen
<1>3. \A k \in ProjectKeys :
        ShelfOf(disk)[k] \in {NoProject} \cup {Shelf!Project(c, FALSE) : c \in Content}
  <2> SUFFICES ASSUME NEW k \in ProjectKeys
               PROVE  ShelfOf(disk)[k] \in
                        {NoProject} \cup {Shelf!Project(c, FALSE) : c \in Content}
    OBVIOUS
  <2>1. CASE disk.records[k] = None
    BY <2>1 DEF ShelfOf
  <2>2. CASE disk.records[k] # None
    <3>1. disk.records[k] \in Content
      BY <1>1, <2>2, KeyTypes DEF Disk
    <3>2. IsProjectFrozen(disk, k) = FALSE
      BY <1>2 DEF IsProjectFrozen
    <3>3. ShelfOf(disk)[k] = [content |-> disk.records[k], submitted |-> FALSE]
      BY <2>2, <3>2 DEF ShelfOf
    <3> QED BY <3>1, <3>3 DEF Shelf!Project
  <2> QED BY <2>1, <2>2
<1> QED BY <1>3 DEF Shelf!Init, ShelfOf

LEMMA ShelfStep == TypeInv /\ DraftStep(disk, disk') => Shelf!Next
<1> SUFFICES ASSUME TypeInv, DraftStep(disk, disk') PROVE Shelf!Next
  OBVIOUS
<1>1. /\ disk \in Disk
      /\ \A k \in ProjectKeys : disk.records[k] \in Content \cup {None}
  BY KeyTypes DEF TypeInv, TypeOK, Disk
<1>2. ASSUME NEW k \in ProjectKeys, Same(disk, disk', k) PROVE Shelf!Kept(k)
  BY <1>2 DEF Same, Shelf!Kept, ShelfOf, IsProjectFrozen
<1>3. ASSUME NEW k \in ProjectKeys, Gone(disk', k) PROVE Shelf!TakenAway(k)
  BY <1>3 DEF Gone, Shelf!TakenAway, ShelfOf
<1>4. ASSUME NEW k \in ProjectKeys, Rewritten(disk, disk', k) PROVE Shelf!Written(k)
  <2>1. ~Shelf!IsSubmitted(k)
    BY <1>4 DEF Rewritten, Shelf!IsSubmitted, ShelfOf, IsProjectFrozen
  <2>2. disk'.records[k] # None
    BY <1>4, NoProjectAssumption DEF Rewritten
  <2>3. ShelfOf(disk)'[k] = [content |-> disk'.records[k], submitted |-> FALSE]
    BY <1>4, <2>2 DEF Rewritten, ShelfOf, IsProjectFrozen
  <2> QED BY <1>4, <2>1, <2>3 DEF Rewritten, Shelf!Written, Shelf!Project
<1>5. ASSUME NEW k \in ProjectKeys, Published(disk, disk', k) PROVE Shelf!Submitted(k)
  <2>1. ShelfOf(disk)[k] = [content |-> disk.records[k], submitted |-> IsProjectFrozen(disk, k)]
    BY <1>5 DEF Published, ShelfOf
  <2>2. ShelfOf(disk)[k] \in [content : Content, submitted : BOOLEAN]
    BY <1>1, <1>5, <2>1 DEF Published, IsProjectFrozen
  <2>3. ShelfOf(disk)'[k] = [content |-> disk.records[k], submitted |-> TRUE]
    BY <1>5 DEF Published, ShelfOf, IsProjectFrozen
  <2> QED BY <2>1, <2>2, <2>3, NoProjectAssumption DEF Shelf!Submitted, Shelf!Project
<1>6. ShelfOf(disk)' = [k \in ProjectKeys |-> ShelfOf(disk)'[k]]
  BY DEF ShelfOf
<1> QED BY <1>2, <1>3, <1>4, <1>5, <1>6 DEF DraftStep, Shelf!Next

\* Tabs, screens and storage implement the shelf of "My keyboards".
THEOREM ImplementsShelf == Spec => ShelfSpec
<1>1. TypeInv /\ [Next]_vars => [Shelf!Next]_(ShelfOf(disk))
  BY NextDraftStep, ShelfStep
<1> QED BY <1>1, InitTyped, NextTyped, ShelfInit, PTL DEF Spec, ShelfSpec, Shelf!Spec
-----------------------------------------------------------------------------
(* What the primitives do to every place, when the storage takes the write. *)

DraftRow == [NoRow EXCEPT !.status = "draft"]

\* Is content c, filed under k, written at all?
Saves(d, k, c) ==
    /\ ~IsProjectFrozen(d, k)
    /\ Instantiated(c) \/ (k = Pending /\ HasMeaningfulProgress(c))

\* Place k holds c, unless c was not written.
Put(d, e, k, c) ==
    IF Saves(d, k, c)
    THEN /\ e.records[k] = c
         /\ c \in Content
         /\ e.index[k] = IF k = Pending \/ d.index[k] # NoRow THEN d.index[k] ELSE DraftRow
    ELSE Same(d, e, k)

Emptied(e, k) == e.records[k] = None /\ e.index[k] = NoRow

\* c was filed under k and the filing the pointer named was dropped.
Installed(d, e, k, c) ==
    /\ e \in Disk
    /\ e.active = k
    /\ Put(d, e, k, c)
    /\ \A j \in Keys \ {k} : IF j = d.active THEN Emptied(e, j) ELSE Same(d, e, j)

\* c was saved to k, which the pointer names.
SavedTo(d, e, k, c) ==
    /\ e \in Disk
    /\ e.active = d.active
    /\ Put(d, e, k, c)
    /\ \A j \in Keys \ {k} : Same(d, e, j)

\* Place k was emptied.
Cleared(d, e, k) ==
    /\ e \in Disk
    /\ Emptied(e, k)
    /\ \A j \in Keys \ {k} : Same(d, e, j)

LEMMA RowFacts ==
    /\ DraftRow # NoRow /\ DraftRow.status = "draft"
    /\ NoRow.status = "none"
BY DEF DraftRow, NoRow

LEMMA SaveEffect ==
    ASSUME NEW d \in Disk, NEW k \in Keys, NEW c \in LiveContent
    PROVE  LET e == SaveDraft(d, k, c, "none")
           IN  /\ e \in Disk
               /\ Put(d, e, k, c)
               /\ \A j \in Keys \ {k} : Same(d, e, j)
               /\ e.active = IF Saves(d, k, c) THEN k ELSE d.active
<1> DEFINE e == SaveDraft(d, k, c, "none")
<1>1. e \in Disk
  BY SaveDraftType
<1>2. CASE ~Saves(d, k, c)
  <2>1. e = d
    BY <1>2 DEF SaveDraft, Saves
  <2> QED BY <1>1, <1>2, <2>1 DEF Put, Same
<1>3. CASE Saves(d, k, c)
  <2>1. c \in Content
    BY <1>3, SavableContent DEF Saves
  <2> DEFINE index == IF k = Pending \/ d.index[k] # NoRow
                      THEN d.index ELSE [d.index EXCEPT ![k] = DraftRow]
  <2>2. e = [records |-> [d.records EXCEPT ![k] = c], active |-> k, index |-> index]
    BY <1>3 DEF SaveDraft, Saves, DraftRow
  <2>3. e.records[k] = c /\ e.active = k
    BY <2>2 DEF Disk
  <2>4. e.index[k] = IF k = Pending \/ d.index[k] # NoRow THEN d.index[k] ELSE DraftRow
    BY <2>2 DEF Disk
  <2>5. \A j \in Keys \ {k} : Same(d, e, j)
    BY <2>2 DEF Same, Disk
  <2> QED BY <1>1, <1>3, <2>1, <2>3, <2>4, <2>5 DEF Put
<1> QED BY <1>2, <1>3

LEMMA ClearEffect ==
    ASSUME NEW d \in Disk, NEW k \in Keys
    PROVE  Cleared(d, ClearDraft(d, k), k) /\ ClearDraft(d, k).active = d.active
<1> DEFINE e == ClearDraft(d, k)
<1>1. e \in Disk
  BY ClearDraftType
<1>2. /\ e.records = [d.records EXCEPT ![k] = None]
      /\ e.index = [d.index EXCEPT ![k] = NoRow]
      /\ e.active = d.active
  BY DEF ClearDraft, Disk
<1>3. Emptied(e, k)
  BY <1>2 DEF Emptied, Disk
<1>4. \A j \in Keys \ {k} : Same(d, e, j)
  BY <1>2 DEF Same, Disk
<1> QED BY <1>1, <1>2, <1>3, <1>4 DEF Cleared

LEMMA InstallEffect ==
    ASSUME NEW d \in Disk, NEW k \in Keys, NEW c \in LiveContent
    PROVE  Installed(d, InstallDraftAutosave(d, k, c, "none"), k, c)
<1> DEFINE e == InstallDraftAutosave(d, k, c, "none")
           d1 == [d EXCEPT !.active = k]
           d2 == SaveDraft(d1, k, c, "none")
<1>1. /\ d1 \in Disk /\ d1.active = k
      /\ d1.records = d.records /\ d1.index = d.index
  BY DEF Disk
<1>2. /\ d2 \in Disk
      /\ Put(d1, d2, k, c)
      /\ \A j \in Keys \ {k} : Same(d1, d2, j)
      /\ d2.active = k
  BY <1>1, SaveEffect
<1>3. Put(d, d2, k, c) /\ \A j \in Keys \ {k} : Same(d, d2, j)
  BY <1>1, <1>2 DEF Put, Same, Saves, IsProjectFrozen
<1>4. CASE d.active # None /\ d.active # k
  <2>1. d.active \in Keys
    BY <1>4 DEF Disk
  <2>2. e = ClearDraft(d2, d.active)
    BY <1>4 DEF InstallDraftAutosave, MigrateProjectKeyIfChanged
  <2> HIDE DEF d2
  <2>3. Cleared(d2, e, d.active) /\ e.active = k
    BY <1>2, <2>1, <2>2, ClearEffect
  <2>4. Same(d2, e, k)
    BY <1>4, <2>3 DEF Cleared
  <2>5. Put(d, e, k, c)
    BY <1>3, <2>4 DEF Put, Same
  <2>6. \A j \in Keys \ {k} : IF j = d.active THEN Emptied(e, j) ELSE Same(d, e, j)
    BY <1>3, <2>3 DEF Cleared, Same
  <2> QED BY <2>3, <2>5, <2>6 DEF Installed, Cleared
<1>5. CASE ~(d.active # None /\ d.active # k)
  <2>1. e = d2
    BY <1>5 DEF InstallDraftAutosave, MigrateProjectKeyIfChanged
  <2>2. \A j \in Keys \ {k} : j # d.active
    BY <1>5, DraftStoreAssumption DEF Keys
  <2> QED BY <1>2, <1>3, <2>1, <2>2 DEF Installed
<1> QED BY <1>4, <1>5

\* The flushes before a tab ends: at most one save, to what the pointer names.
LEMMA FlushEffects ==
    ASSUME TypeInv, NEW d \in Disk, NEW t \in Tabs
    PROVE  /\ LET e == FlushPending(d, t, "none")
              IN  e = d \/ (d.active \in Keys /\ SavedTo(d, e, d.active, live[t]))
           /\ LET e == FlushActiveDraft(d, t, "none")
              IN  e = d \/ (d.active \in Keys /\ SavedTo(d, e, d.active, live[t]))
<1>1. live[t] \in LiveContent /\ sub[t] \in Keys \cup {None} /\ d.active \in Keys \cup {None}
  BY DEF TypeInv, TypeOK, Disk
<1>2. ASSUME d.active \in Keys
      PROVE  SavedTo(d, SaveDraft(d, d.active, live[t], "none"), d.active, live[t])
  BY <1>1, <1>2, SaveEffect DEF SavedTo
<1>3. LET e == FlushPending(d, t, "none")
      IN  e = d \/ (d.active \in Keys /\ SavedTo(d, e, d.active, live[t]))
  BY <1>1, <1>2 DEF FlushPending, TypeInv, TimerSubscribed
<1>4. LET e == FlushActiveDraft(d, t, "none")
      IN  e = d \/ (d.active \in Keys /\ SavedTo(d, e, d.active, live[t]))
  BY <1>1, <1>2 DEF FlushActiveDraft
<1> QED BY <1>3, <1>4

LEMMA NoFaults == ASSUME ~StorageMayFail PROVE Faults = {"none"}
BY DEF Faults
-----------------------------------------------------------------------------
(* The index and the records, in any number of tabs.                       *)

\* Records and rows of d exist together, and an empty place has no row left
\* over from an earlier project.
Paired(d) ==
    /\ \A k \in ProjectKeys : d.records[k] # None <=> d.index[k].status # "none"
    /\ \A k \in Keys : d.index[k].status = "none" => d.index[k] = NoRow

\* The pointer names no project without a record.
PointerHolds(d) == d.active \in ProjectKeys => d.records[d.active] # None

LockstepInv == Paired(disk) /\ PointerHolds(disk)

LEMMA PutPaired ==
    ASSUME NEW d \in Disk, NEW e \in Disk, NEW k \in Keys, NEW c, Put(d, e, k, c), Paired(d)
    PROVE  /\ k \in ProjectKeys => (e.records[k] # None <=> e.index[k].status # "none")
           /\ e.index[k].status = "none" => e.index[k] = NoRow
           /\ k \in ProjectKeys /\ (Instantiated(c) \/ IsProjectFrozen(d, k)) => e.records[k] # None
<1>1. CASE ~Saves(d, k, c)
  <2>1. Same(d, e, k)
    BY <1>1 DEF Put
  <2>2. k \in ProjectKeys /\ (Instantiated(c) \/ IsProjectFrozen(d, k)) => IsProjectFrozen(d, k)
    BY <1>1 DEF Saves
  <2> QED BY <2>1, <2>2 DEF Same, Paired, IsProjectFrozen
<1>2. CASE Saves(d, k, c)
  <2>1. e.records[k] # None
    BY <1>2, NoProjectAssumption DEF Put
  <2>2. e.index[k] = IF k = Pending \/ d.index[k] # NoRow THEN d.index[k] ELSE DraftRow
    BY <1>2 DEF Put
  <2>3. k \in ProjectKeys => k # Pending
    BY DraftStoreAssumption
  <2> QED BY <2>1, <2>2, <2>3, RowFacts DEF Paired
<1> QED BY <1>1, <1>2

LEMMA InstallPaired ==
    ASSUME NEW d \in Disk, NEW e, NEW k \in Keys, NEW c, Installed(d, e, k, c), Paired(d),
           k \in ProjectKeys => Instantiated(c)
    PROVE  Paired(e) /\ PointerHolds(e)
BY PutPaired, RowFacts, KeyTypes DEF Installed, Same, Emptied, Paired, PointerHolds

LEMMA SavePaired ==
    ASSUME NEW d \in Disk, NEW e, NEW k \in Keys, NEW c, SavedTo(d, e, k, c),
           Paired(d), PointerHolds(d)
    PROVE  Paired(e) /\ PointerHolds(e)
<1>1. Paired(e)
  BY PutPaired, KeyTypes DEF SavedTo, Same, Paired
<1>2. \A j \in ProjectKeys : d.records[j] # None => e.records[j] # None
  BY PutPaired, KeyTypes, NoProjectAssumption DEF SavedTo, Same, Put
<1> QED BY <1>1, <1>2 DEF PointerHolds, SavedTo

LEMMA ClearPaired ==
    ASSUME NEW d \in Disk, NEW e, NEW k \in Keys, Cleared(d, e, k), Paired(d)
    PROVE  Paired(e) /\ (e.active \in ProjectKeys /\ e.active # k /\ d.records[e.active] # None => PointerHolds(e))
BY RowFacts, KeyTypes DEF Cleared, Emptied, Same, Paired, PointerHolds

\* Discarding the active project empties its place and unsets the pointer.
LEMMA DiscardEffect ==
    ASSUME NEW d \in Disk
    PROVE  LET e == DiscardActiveDraft(d)
           IN  /\ e \in Disk
               /\ e.active = None
               /\ \A j \in Keys : IF j = d.active THEN Emptied(e, j) ELSE Same(d, e, j)
<1> DEFINE e == DiscardActiveDraft(d)
           d1 == ClearDraft(d, d.active)
<1>1. e \in Disk
  BY DiscardActiveDraftType
<1>2. CASE d.active = None
  <2>1. e.active = None /\ e.records = d.records /\ e.index = d.index
    BY <1>2 DEF DiscardActiveDraft, Disk
  <2> QED BY <1>1, <1>2, <2>1, DraftStoreAssumption DEF Same, Keys
<1>3. CASE d.active # None
  <2>1. d.active \in Keys
    BY <1>3 DEF Disk
  <2>2. Cleared(d, d1, d.active)
    BY <2>1, ClearEffect
  <2> HIDE DEF d1
  <2>3. e.active = None /\ e.records = d1.records /\ e.index = d1.index
    BY <1>3, <2>2 DEF DiscardActiveDraft, d1, Disk, Cleared
  <2> QED BY <1>1, <2>1, <2>2, <2>3 DEF Cleared, Same, Emptied
<1> QED BY <1>2, <1>3

LEMMA DiscardPaired ==
    ASSUME NEW d \in Disk, NEW e, e = DiscardActiveDraft(d), Paired(d)
    PROVE  Paired(e) /\ PointerHolds(e)
BY DiscardEffect, RowFacts, KeyTypes, DraftStoreAssumption DEF Emptied, Same, Paired, PointerHolds

\* Deleting a project empties its place; the pointer no longer names it.
LEMMA DeleteEffect ==
    ASSUME NEW d \in Disk, NEW k \in ProjectKeys
    PROVE  LET e == DeleteProject(d, k)
           IN  Cleared(d, e, k) /\ e.active = IF d.active = k THEN None ELSE d.active
<1> DEFINE e == DeleteProject(d, k)
           d1 == ClearDraft(d, k)
<1>1. Cleared(d, d1, k) /\ d1.active = d.active
  BY ClearEffect, KeyTypes
<1> HIDE DEF d1
<1>2. /\ e.records = d1.records
      /\ e.index = d1.index
      /\ e.active = IF d.active = k THEN None ELSE d.active
  BY <1>1 DEF DeleteProject, d1, Disk, Cleared
<1>3. e \in Disk
  BY DeleteProjectType, KeyTypes
<1> QED BY <1>1, <1>2, <1>3 DEF Cleared, Same, Emptied

\* A submission marks the row of the record the pointer names, and unsets it.
LEMMA SubmissionEffect ==
    ASSUME NEW d \in Disk, NEW w \in Works
    PROVE  LET e == RecordProjectSubmission(d, w, "none")
           IN  IF d.active = None THEN e = d
               ELSE /\ e \in Disk
                    /\ e.active = None
                    /\ e.records = d.records
                    /\ \A j \in Keys \ {d.active} : e.index[j] = d.index[j]
                    /\ IF d.records[d.active] = None THEN e.index = d.index
                       ELSE IsProjectFrozen(e, d.active)
<1> DEFINE e == RecordProjectSubmission(d, w, "none")
           row == [status |-> "submitted", pr |-> w]
           a == d.active
<1>1. CASE a = None
  BY <1>1 DEF RecordProjectSubmission
<1>2. CASE a # None
  <2>1. a \in Keys
    BY <1>2 DEF Disk
  <2>2. e \in Disk
    BY SubmissionType
  <2>3. /\ e.records = d.records
        /\ e.active = None
        /\ e.index = [d.index EXCEPT ![a] = IF d.records[a] = None THEN @ ELSE row]
    BY <1>2 DEF RecordProjectSubmission, Disk
  <2>4. \A j \in Keys \ {a} : e.index[j] = d.index[j]
    BY <2>1, <2>3 DEF Disk
  <2>5. CASE d.records[a] = None
    <3>1. e.index = d.index
      BY <2>1, <2>3, <2>5 DEF Disk
    <3> QED BY <1>2, <2>2, <2>3, <2>4, <2>5, <3>1
  <2>6. CASE d.records[a] # None
    <3>1. e.index[a] = row
      BY <2>1, <2>3, <2>6 DEF Disk
    <3> QED BY <1>2, <2>2, <2>3, <2>4, <2>6, <3>1 DEF IsProjectFrozen
  <2> QED BY <2>5, <2>6
<1> QED BY <1>1, <1>2

LEMMA InitLockstep == Init => LockstepInv
<1> SUFFICES ASSUME Init PROVE LockstepInv
  OBVIOUS
<1>1. PICK p \in Placements : \E a \in {None} \cup {k \in ProjectKeys : p[k] # None} :
        disk = Profile(p, a)
  BY DEF Init
<1>p. PICK a \in {None} \cup {k \in ProjectKeys : p[k] # None} : disk = Profile(p, a)
  BY <1>1
<1>2. \A k \in ProjectKeys : k # Pending /\ k # None
  BY DraftStoreAssumption
<1>3. \A k \in Keys : disk.index[k] =
        IF k = Pending \/ p[k] = None THEN NoRow ELSE DraftRow
  BY <1>p DEF Profile, DraftRow
<1>4. \A k \in ProjectKeys : disk.records[k] # None <=> p[k] # None
  <2> SUFFICES ASSUME NEW k \in ProjectKeys PROVE disk.records[k] # None <=> p[k] # None
    OBVIOUS
  <2>1. CASE p[k] = None
    BY <1>p, <2>1, KeyTypes DEF Profile
  <2>2. CASE p[k] # None
    <3>1. p[k] \in Works
      BY <2>2, DraftStoreAssumption DEF Placements
    <3>2. [work |-> p[k], ver |-> 0, key |-> k, trail |-> p[k]] \in Content
      BY <3>1, DraftStoreAssumption DEF Content
    <3>3. disk.records[k] = [work |-> p[k], ver |-> 0, key |-> k, trail |-> p[k]]
      BY <1>p, <1>2, <2>2, KeyTypes DEF Profile
    <3> QED BY <2>2, <3>2, <3>3, NoProjectAssumption
  <2> QED BY <2>1, <2>2
<1>5. disk.active = a
  BY <1>p DEF Profile
<1> QED BY <1>2, <1>3, <1>4, <1>5, RowFacts, KeyTypes DEF LockstepInv, Paired, PointerHolds

\* Filing whatever is in the stores keeps the pairs.
LEMMA FilingKeys ==
    ASSUME NEW c \in LiveContent
    PROVE  /\ FilingKey(c) \in Keys
           /\ FilingKey(c) \in ProjectKeys => Instantiated(c)
           /\ Instantiated(c) => FilingKey(c) = c.key /\ c.key \in ProjectKeys
           /\ ~Instantiated(c) => FilingKey(c) = Pending
BY KeyTypes, DraftStoreAssumption DEF FilingKey

LEMMA NextLockstep ==
    ASSUME ~StorageMayFail, TypeInv, LockstepInv, [Next]_vars
    PROVE  LockstepInv'
<1>a. /\ TypeOK
      /\ disk \in Disk
      /\ Paired(disk)
      /\ PointerHolds(disk)
      /\ Faults = {"none"}
  BY NoFaults DEF TypeInv, TypeOK, Disk, LockstepInv
<1>b. \A t \in Tabs : live[t] \in LiveContent
  BY <1>a DEF TypeOK
<1>1. ASSUME disk' = disk PROVE LockstepInv'
  BY <1>a, <1>1 DEF LockstepInv
<1>2. CASE UNCHANGED vars
  BY <1>1, <1>2 DEF vars
<1>3. ASSUME NEW t \in Tabs, OpenSurvey(t) PROVE LockstepInv'
  <2> DEFINE k == FilingKey(live[t])
  <2>1. disk' = InstallDraftAutosave(disk, k, live[t], "none")
    BY <1>3, <1>a DEF OpenSurvey
  <2>2. k \in Keys /\ (k \in ProjectKeys => Instantiated(live[t]))
    BY <1>b, FilingKeys
  <2> HIDE DEF k
  <2>3. Installed(disk, disk', k, live[t])
    BY <1>a, <1>b, <2>1, <2>2, InstallEffect
  <2> QED BY <1>a, <2>2, <2>3, InstallPaired DEF LockstepInv
<1>4. ASSUME NEW t \in Tabs, OpenOutput(t) PROVE LockstepInv'
  <2>1. CASE Instantiated(live[t])
    <3>1. live[t].key \in Keys
      BY <2>1, <1>b, KeyTypes
    <3>2. Installed(disk, disk', live[t].key, live[t])
      BY <1>4, <1>a, <1>b, <2>1, <3>1, InstallEffect DEF OpenOutput
    <3> QED BY <1>a, <2>1, <3>1, <3>2, InstallPaired DEF LockstepInv
  <2>2. CASE ~Instantiated(live[t])
    BY <1>1, <1>4, <2>2 DEF OpenOutput
  <2> QED BY <2>1, <2>2
<1>5. ASSUME NEW t \in Tabs, CloseTab(t) PROVE LockstepInv'
  <2>1. \/ disk' = disk
        \/ disk.active \in Keys /\ SavedTo(disk, disk', disk.active, live[t])
    BY <1>5, <1>a, FlushEffects DEF CloseTab
  <2> QED BY <1>1, <1>a, <2>1, SavePaired DEF LockstepInv
<1>6. ASSUME NEW t \in Tabs, FlushAndReload(t) PROVE LockstepInv'
  <2> DEFINE e == FlushActiveDraft(disk, t, "none")
  <2>1. disk' = FlushPending(e, t, "none")
    BY <1>6, <1>a DEF FlushAndReload
  <2>2. \/ e = disk
        \/ disk.active \in Keys /\ SavedTo(disk, e, disk.active, live[t])
    BY <1>a, FlushEffects
  <2> HIDE DEF e
  <2>3. e \in Disk /\ Paired(e) /\ PointerHolds(e)
    BY <1>a, <2>2, SavePaired DEF SavedTo
  <2>4. \/ disk' = e
        \/ e.active \in Keys /\ SavedTo(e, disk', e.active, live[t])
    BY <2>1, <2>3, FlushEffects
  <2> QED BY <2>3, <2>4, SavePaired DEF LockstepInv
<1>7. ASSUME NEW t \in Tabs, TimerFires(t) PROVE LockstepInv'
  <2>1. sub[t] \in Keys
    BY <1>7, <1>a DEF TimerFires, TypeInv, TimerSubscribed, TypeOK
  <2>2. CASE disk.active = sub[t]
    <3>1. SavedTo(disk, disk', sub[t], live[t])
      BY <1>7, <1>a, <1>b, <2>1, <2>2, SaveEffect DEF TimerFires, SavedTo
    <3> QED BY <1>a, <2>1, <3>1, SavePaired DEF LockstepInv
  <2>3. CASE disk.active # sub[t]
    BY <1>1, <1>7, <1>a, <2>3 DEF TimerFires
  <2> QED BY <2>2, <2>3
<1>8. ASSUME NEW t \in Tabs, NEW k \in ProjectKeys, CommitBase(t, k) PROVE LockstepInv'
  <2> DEFINE c == [live[t] EXCEPT !.key = k]
             e == InstallDraftAutosave(disk, k, c, "none")
  <2>1. c \in LiveContent /\ Instantiated(c)
    BY <1>8, <1>a, LiveWork, EmptyContent, DraftStoreAssumption
       DEF CommitBase, Content, Instantiated
  <2>2. disk' = ClearDraft(e, Pending)
    BY <1>8, <1>a DEF CommitBase
  <2>3. Installed(disk, e, k, c)
    BY <1>a, <2>1, InstallEffect, KeyTypes
  <2> HIDE DEF c, e
  <2>4. e \in Disk /\ e.active = k /\ Paired(e) /\ PointerHolds(e)
    BY <1>a, <2>1, <2>3, InstallPaired, KeyTypes DEF Installed
  <2>5. Cleared(e, disk', Pending) /\ disk'.active = k
    BY <2>2, <2>4, ClearEffect, KeyTypes
  <2> QED BY <2>4, <2>5, ClearPaired, KeyTypes, DraftStoreAssumption DEF LockstepInv, PointerHolds
<1>9. ASSUME NEW t \in Tabs, NEW k \in ProjectKeys, RenameOnOutput(t, k) PROVE LockstepInv'
  <2> DEFINE c == [live[t] EXCEPT !.key = k]
  <2>1. c \in LiveContent /\ Instantiated(c)
    BY <1>9, <1>a, LiveWork, EmptyContent, DraftStoreAssumption
       DEF RenameOnOutput, Content, Instantiated
  <2>2. disk' = InstallDraftAutosave(disk, k, c, "none")
    BY <1>9, <1>a DEF RenameOnOutput
  <2> HIDE DEF c
  <2> QED BY <1>a, <2>1, <2>2, InstallEffect, InstallPaired, KeyTypes DEF LockstepInv
<1>10. ASSUME NEW t \in Tabs, NEW k \in ProjectKeys, ResumeProject(t, k) PROVE LockstepInv'
  <2>1. /\ disk'.records = disk.records
        /\ disk'.index = disk.index
        /\ disk'.active = k
    BY <1>10, <1>a DEF ResumeProject, Disk
  <2> QED BY <1>10, <1>a, <2>1 DEF ResumeProject, LockstepInv, Paired, PointerHolds
<1>11. ASSUME NEW t \in Tabs, StartOver(t) PROVE LockstepInv'
  <2> DEFINE e == DiscardActiveDraft(disk)
  <2>1. e \in Disk /\ Paired(e)
    BY <1>a, DiscardEffect, DiscardPaired
  <2> HIDE DEF e
  <2>2. disk' = InstallDraftAutosave(e, Pending, Blank, "none")
    BY <1>11, <1>a DEF StartOver, e
  <2> QED BY <2>1, <2>2, InstallEffect, InstallPaired, KeyTypes, EmptyContent,
             DraftStoreAssumption DEF LockstepInv
<1>12. ASSUME NEW t \in Tabs, StartFreshSession(t) PROVE LockstepInv'
  BY <1>12, <1>a, DiscardPaired DEF StartFreshSession, LockstepInv
<1>13. ASSUME NEW t \in Tabs, NEW k \in ProjectKeys, Delete(t, k) PROVE LockstepInv'
  <2>1. Cleared(disk, disk', k) /\ disk'.active = IF disk.active = k THEN None ELSE disk.active
    BY <1>13, <1>a, DeleteEffect DEF Delete
  <2> QED BY <1>a, <2>1, ClearPaired, KeyTypes, DraftStoreAssumption DEF LockstepInv, PointerHolds
<1>14. ASSUME NEW t \in Tabs, PublishSucceeds(t) PROVE LockstepInv'
  <2>1. inflight[t] \in Works
    BY <1>14, <1>a DEF PublishSucceeds, TypeOK
  <2>2. disk' = RecordProjectSubmission(disk, inflight[t], "none")
    BY <1>14, <1>a DEF PublishSucceeds
  <2>3. CASE disk.active = None
    BY <1>1, <1>a, <2>1, <2>2, <2>3, SubmissionEffect
  <2>4. CASE disk.active # None
    BY <1>a, <2>1, <2>2, <2>4, SubmissionEffect, KeyTypes, DraftStoreAssumption
       DEF LockstepInv, Paired, PointerHolds, IsProjectFrozen
  <2> QED BY <2>3, <2>4
<1>15. ASSUME NEW t \in Tabs,
              \/ Boot(t) \/ LeaveView(t) \/ Crash(t) \/ Answer(t) \/ Edit(t)
              \/ \E k \in ProjectKeys : RenameInSurvey(t, k) \/ ViewTrail(t, k)
              \/ BeginPublish(t) \/ PublishFails(t)
       PROVE  LockstepInv'
  BY <1>1, <1>15 DEF Boot, LeaveView, Crash, Answer, Edit, RenameInSurvey, ViewTrail,
                     BeginPublish, PublishFails
<1> QED
  BY <1>2, <1>3, <1>4, <1>5, <1>6, <1>7, <1>8, <1>9, <1>10, <1>11, <1>12, <1>13, <1>14,
     <1>15 DEF Next, TabNext

\* While the storage takes writes, every record of a project has its card and
\* every card its record, and the next boot finds what the pointer names:
\* with any number of tabs that switch, rename, discard, delete and publish
\* without knowing of each other.
THEOREM IndexStaysInLockstep == ASSUME ~StorageMayFail PROVE Spec => []IndexLockstep
<1>1. LockstepInv => IndexLockstep
  BY DEF LockstepInv, Paired, PointerHolds, IndexLockstep
<1>2. TypeInv /\ LockstepInv /\ [Next]_vars => (TypeInv /\ LockstepInv)'
  BY NextTyped, NextLockstep
<1> QED BY <1>1, <1>2, InitTyped, InitLockstep, PTL DEF Spec
-----------------------------------------------------------------------------
(* One author: where the work on screen is filed.                          *)

\* One tab, a storage that takes writes, an author who waits for a publish
\* request and chooses distinct ids: what DraftStoreOneTab fixes.
OneAuthor ==
    /\ \A t, u \in Tabs : t = u
    /\ ~StorageMayFail
    /\ AuthorWaits
    /\ DistinctIds

Filed(d, k, w) == d.records[k] # None /\ d.records[k].work = w
Drafted(d, k, w) == Filed(d, k, w) /\ ~IsProjectFrozen(d, k)

\* One id has one work, whether a record is filed under it or has it for its own.
OneWorkPerId(d) ==
    \A j, k \in ProjectKeys :
        /\ d.records[j] # None /\ d.records[k] # None
        /\ d.records[j].key \in {k, d.records[k].key}
        => d.records[j].work = d.records[k].work

\* One work has one draft; what is in the slot is filed nowhere else; and where
\* the pointer names a record, no other place has a draft of its work.
OneDraftPerWork(d) ==
    /\ \A j, k \in ProjectKeys, w \in Works : Drafted(d, j, w) /\ Drafted(d, k, w) => j = k
    /\ \A k \in ProjectKeys, w \in Works : ~(Filed(d, Pending, w) /\ Filed(d, k, w))
    /\ \A k \in ProjectKeys, w \in Works :
          d.active # None /\ Filed(d, d.active, w) /\ Drafted(d, k, w) => k = d.active

\* The records of projects are instantiated, that of the slot is not; nothing
\* in the slot is submitted.
SlotsApart(d) ==
    /\ \A k \in ProjectKeys : d.records[k] # None => Instantiated(d.records[k])
    /\ d.records[Pending] # None => ~Instantiated(d.records[Pending])
    /\ ~IsProjectFrozen(d, Pending)

WellFiled(d) == Paired(d) /\ PointerHolds(d) /\ SlotsApart(d) /\ OneWorkPerId(d) /\ OneDraftPerWork(d)

\* Content c may be filed under its id: no other work has that id, and a draft
\* of c's work elsewhere is the one the pointer names. Work without an id has
\* never been filed under one.
MayFile(d, c) ==
    IF Instantiated(c)
    THEN /\ \A k \in ProjectKeys :
               d.records[k] # None /\ c.key \in {k, d.records[k].key} =>
                   d.records[k].work = c.work
         /\ \A k \in ProjectKeys : Drafted(d, k, c.work) => k = d.active
         /\ Filed(d, Pending, c.work) => d.active = Pending
    ELSE \A k \in ProjectKeys : ~Filed(d, k, c.work)

\* The pointer names a filing of the work on screen.
PointsAt(d, c) ==
    d.active # None =>
        IF Instantiated(c)
        THEN d.active \in ProjectKeys /\ Filed(d, d.active, c.work)
        ELSE d.active = Pending

\* A step from d to e loses no listed work and exchanges no record for
\* another work's.
NotExchanged(d, e) ==
    \A k \in ProjectKeys :
        d.records[k] # None /\ e.records[k] # None => e.records[k].work = d.records[k].work
WorkKept(d, e) ==
    /\ \A k \in ProjectKeys, w \in Works :
          Filed(d, k, w) => \E j \in ProjectKeys : Filed(e, j, w)
    /\ NotExchanged(d, e)

\* The types of the places, spelled out for the lemmas below.
LEMMA PlaceTypes ==
    ASSUME NEW d \in Disk
    PROVE  /\ \A k \in Keys : d.records[k] \in Content \cup {None}
           /\ \A c \in Content : c # None /\ c.work \in Works /\ c.work # None
           /\ \A k \in ProjectKeys : k # Pending /\ k # None /\ k \in Keys
           /\ Pending # None /\ Pending \in Keys
           /\ \A c \in Content : c.key \in ProjectKeys \cup {None}
           /\ d.active \in Keys \cup {None}
           /\ Keys = ProjectKeys \cup {Pending}
BY DraftStoreAssumption, NoProjectAssumption DEF Disk, Keys, Content

\* What Put leaves at place k.
LEMMA PutFacts ==
    ASSUME NEW d \in Disk, NEW e \in Disk, NEW k \in Keys, NEW c \in LiveContent, Put(d, e, k, c)
    PROVE  /\ IsProjectFrozen(e, k) <=> IsProjectFrozen(d, k)
           /\ e.records[k] = c \/ e.records[k] = d.records[k]
           /\ IsProjectFrozen(d, k) => e.records[k] = d.records[k]
           /\ Instantiated(c) /\ ~IsProjectFrozen(d, k) => e.records[k] = c
           /\ e.records[k] = c => c \in Content \/ c = None
           /\ k = Pending /\ c.work # None /\ ~IsProjectFrozen(d, k) => e.records[k] = c
BY RowFacts, PlaceTypes DEF Put, Saves, Same, IsProjectFrozen, HasMeaningfulProgress

\* Filing c under its own id, where it may be, leaves everything well filed.
LEMMA InstallWell ==
    ASSUME NEW d \in Disk, NEW e, NEW c \in LiveContent,
           Installed(d, e, FilingKey(c), c), WellFiled(d), MayFile(d, c),
           d.active \in ProjectKeys => Filed(d, d.active, c.work)
    PROVE  /\ SlotsApart(e)
           /\ OneWorkPerId(e)
           /\ OneDraftPerWork(e)
           /\ MayFile(e, c)
           /\ PointsAt(e, c)
<1> DEFINE k == FilingKey(c)
<1>1. k \in Keys /\ e \in Disk /\ e.active = k
  BY FilingKeys DEF Installed
<1>2. /\ k \in ProjectKeys => Instantiated(c)
      /\ Instantiated(c) => k = c.key /\ k \in ProjectKeys
      /\ ~Instantiated(c) => k = Pending
  BY FilingKeys
<1>3. /\ IsProjectFrozen(e, k) <=> IsProjectFrozen(d, k)
      /\ e.records[k] = c \/ e.records[k] = d.records[k]
      /\ IsProjectFrozen(d, k) => e.records[k] = d.records[k]
      /\ Instantiated(c) /\ ~IsProjectFrozen(d, k) => e.records[k] = c
      /\ e.records[k] = c => c \in Content \/ c = None
  BY <1>1, PutFacts DEF Installed
<1>4. \A j \in Keys : j # k /\ j # d.active =>
        e.records[j] = d.records[j] /\ (IsProjectFrozen(e, j) <=> IsProjectFrozen(d, j))
  BY DEF Installed, Same, IsProjectFrozen
<1>5. \A j \in Keys : j # k /\ j = d.active => e.records[j] = None
  BY DEF Installed, Emptied
<1>f. \A j \in Keys : j # k /\ j = d.active => ~IsProjectFrozen(e, j)
  BY RowFacts DEF Installed, Emptied, IsProjectFrozen
<1>6. k \in ProjectKeys /\ IsProjectFrozen(d, k) => d.records[k] # None
  BY DEF WellFiled, Paired, IsProjectFrozen
<1> HIDE DEF k
<1>7. \A j \in ProjectKeys : e.records[j] # None =>
        \/ j # k /\ j # d.active /\ e.records[j] = d.records[j]
        \/ j = k /\ Instantiated(c) /\ e.records[j] \in {c, d.records[j]}
  BY <1>1, <1>2, <1>3, <1>4, <1>5, PlaceTypes
<1>8. SlotsApart(e)
  BY <1>1, <1>2, <1>3, <1>4, <1>5, <1>f, PlaceTypes DEF WellFiled, SlotsApart
<1>9. OneWorkPerId(e)
  <2>1. \A j \in ProjectKeys : Instantiated(c) /\ d.records[j] # None /\ (c.key = j \/ d.records[j].key = c.key)
           => d.records[j].work = c.work
    BY DEF MayFile
  <2> QED BY <1>2, <1>7, <2>1 DEF WellFiled, OneWorkPerId, Instantiated
<1>10. OneDraftPerWork(e)
  BY <1>1, <1>2, <1>3, <1>4, <1>5, <1>6, PlaceTypes DEF WellFiled, OneDraftPerWork, MayFile, Filed, Drafted
<1>11. MayFile(e, c)
  BY <1>1, <1>2, <1>3, <1>4, <1>5, <1>6, PlaceTypes DEF MayFile, Filed, Drafted
<1>12. PointsAt(e, c)
  BY <1>1, <1>2, <1>3, <1>6, PlaceTypes, SavableContent DEF PointsAt, Filed, MayFile
<1> QED BY <1>8, <1>9, <1>10, <1>11, <1>12

\* Nor is any listed work lost on the way.
LEMMA InstallKeepsWork ==
    ASSUME NEW d \in Disk, NEW e, NEW c \in LiveContent,
           Installed(d, e, FilingKey(c), c), WellFiled(d), MayFile(d, c), PointsAt(e, c),
           d.active \in ProjectKeys => Filed(d, d.active, c.work)
    PROVE  WorkKept(d, e)
<1> DEFINE k == FilingKey(c)
<1>1. k \in Keys /\ e \in Disk /\ e.active = k
  BY FilingKeys DEF Installed
<1>2. /\ k \in ProjectKeys => Instantiated(c)
      /\ Instantiated(c) => k = c.key /\ k \in ProjectKeys
  BY FilingKeys
<1>3. e.records[k] = c \/ e.records[k] = d.records[k]
  BY <1>1, PutFacts DEF Installed
<1>4. /\ \A j \in Keys : j # k /\ j # d.active => e.records[j] = d.records[j]
      /\ \A j \in Keys : j # k /\ j = d.active => e.records[j] = None
  BY DEF Installed, Same, Emptied
<1>5. k \in ProjectKeys => Filed(e, k, c.work) /\ (d.records[k] # None => d.records[k].work = c.work)
  BY <1>1, <1>2, PlaceTypes DEF PointsAt, MayFile
<1> HIDE DEF k
<1>6. ASSUME NEW j \in ProjectKeys, NEW w \in Works, Filed(d, j, w)
      PROVE  \E i \in ProjectKeys : Filed(e, i, w)
  <2>1. CASE j # k /\ j # d.active
    BY <1>4, <1>6, <2>1, PlaceTypes DEF Filed
  <2>2. CASE j = k
    BY <1>5, <1>6, <2>2 DEF Filed
  <2>3. CASE j # k /\ j = d.active
    <3>1. Filed(d, j, c.work)
      BY <2>3
    <3>2. Instantiated(c)
      BY <3>1 DEF MayFile
    <3> QED BY <1>2, <1>5, <1>6, <3>1, <3>2 DEF Filed
  <2> QED BY <2>1, <2>2, <2>3
<1>7. \A j \in ProjectKeys :
        d.records[j] # None /\ e.records[j] # None => e.records[j].work = d.records[j].work
  BY <1>3, <1>4, <1>5, PlaceTypes DEF Filed
<1> QED BY <1>6, <1>7 DEF WorkKept, NotExchanged

\* A save to what the pointer names does the same.
LEMMA SaveWell ==
    ASSUME NEW d \in Disk, NEW e, NEW c \in LiveContent, d.active \in Keys,
           SavedTo(d, e, d.active, c), WellFiled(d), MayFile(d, c), PointsAt(d, c)
    PROVE  /\ WellFiled(e)
           /\ MayFile(e, c)
           /\ PointsAt(e, c)
           /\ WorkKept(d, e)
<1> DEFINE k == d.active
<1>1. e \in Disk /\ e.active = k
  BY DEF SavedTo
<1>2. /\ IsProjectFrozen(e, k) <=> IsProjectFrozen(d, k)
      /\ e.records[k] = c \/ e.records[k] = d.records[k]
      /\ e.records[k] = c => c \in Content \/ c = None
  BY <1>1, PutFacts DEF SavedTo
<1>3. \A j \in Keys : j # k =>
        e.records[j] = d.records[j] /\ (IsProjectFrozen(e, j) <=> IsProjectFrozen(d, j))
  BY DEF SavedTo, Same, IsProjectFrozen
<1>4. IF Instantiated(c) THEN k \in ProjectKeys /\ Filed(d, k, c.work) ELSE k = Pending
  BY PlaceTypes DEF PointsAt
<1>5. Paired(e) /\ PointerHolds(e)
  BY SavePaired DEF WellFiled
<1> HIDE DEF k
<1>6. Instantiated(c) => c \in Content
  BY SavableContent
<1>7. k \in ProjectKeys => e.records[k] # None /\ e.records[k].work = c.work
  BY <1>2, <1>4, <1>6, PlaceTypes DEF Filed
<1>8. SlotsApart(e)
  BY <1>1, <1>2, <1>3, <1>4, PlaceTypes DEF WellFiled, SlotsApart
<1>9. OneWorkPerId(e)
  BY <1>2, <1>3, <1>4, PlaceTypes DEF WellFiled, OneWorkPerId, MayFile, Filed, Instantiated
<1>10. OneDraftPerWork(e)
  BY <1>1, <1>2, <1>3, <1>4, <1>7, PlaceTypes DEF k, WellFiled, OneDraftPerWork, MayFile, Filed, Drafted
<1>11. MayFile(e, c)
  BY <1>1, <1>2, <1>3, <1>4, <1>7, PlaceTypes DEF k, MayFile, Filed, Drafted
<1>12. PointsAt(e, c)
  BY <1>1, <1>4, <1>7 DEF PointsAt, Filed
<1>13. WorkKept(d, e)
  BY <1>2, <1>3, <1>4, <1>7, PlaceTypes DEF WorkKept, NotExchanged, Filed
<1> QED BY <1>5, <1>8, <1>9, <1>10, <1>11, <1>12, <1>13 DEF WellFiled

\* Emptying a place, which the pointer no longer names then.
LEMMA ClearWell ==
    ASSUME NEW d \in Disk, NEW e, NEW k \in Keys, Cleared(d, e, k), WellFiled(d),
           e.active = IF d.active = k THEN None ELSE d.active
    PROVE  /\ WellFiled(e)
           /\ \A c \in LiveContent : MayFile(d, c) => MayFile(e, c)
           /\ \A c \in LiveContent : PointsAt(d, c) => PointsAt(e, c)
<1>1. e \in Disk /\ e.records[k] = None
  BY DEF Cleared, Emptied
<1>2. \A j \in Keys : j # k =>
        e.records[j] = d.records[j] /\ (IsProjectFrozen(e, j) <=> IsProjectFrozen(d, j))
  BY DEF Cleared, Same, IsProjectFrozen
<1>3. Paired(e) /\ PointerHolds(e)
  BY ClearPaired, DraftStoreAssumption DEF WellFiled, PointerHolds
<1>f. ~IsProjectFrozen(e, k)
  BY RowFacts DEF Cleared, Emptied, IsProjectFrozen
<1>4. SlotsApart(e)
  BY <1>1, <1>2, <1>f, PlaceTypes DEF WellFiled, SlotsApart
<1>5. OneWorkPerId(e)
  BY <1>1, <1>2, PlaceTypes DEF WellFiled, OneWorkPerId
<1>6. OneDraftPerWork(e)
  BY <1>1, <1>2, PlaceTypes DEF WellFiled, OneDraftPerWork, Filed, Drafted
<1>7. \A c \in LiveContent : PointsAt(d, c) => PointsAt(e, c)
  BY <1>1, <1>2, PlaceTypes DEF PointsAt, Filed
<1>8. \A c \in LiveContent : MayFile(d, c) => MayFile(e, c)
  BY <1>1, <1>2, PlaceTypes DEF MayFile, Filed, Drafted
<1> QED BY <1>3, <1>4, <1>5, <1>6, <1>7, <1>8 DEF WellFiled

\* Discarding what the pointer names.
LEMMA DiscardWell ==
    ASSUME NEW d \in Disk, NEW e, e = DiscardActiveDraft(d), WellFiled(d)
    PROVE  WellFiled(e) /\ e \in Disk /\ e.active = None
<1>1. /\ e \in Disk
      /\ e.active = None
      /\ \A j \in Keys : IF j = d.active THEN Emptied(e, j) ELSE Same(d, e, j)
  BY DiscardEffect
<1>2. \A j \in Keys : j # d.active =>
        e.records[j] = d.records[j] /\ (IsProjectFrozen(e, j) <=> IsProjectFrozen(d, j))
  BY <1>1 DEF Same, IsProjectFrozen
<1>3. \A j \in Keys : j = d.active => e.records[j] = None
  BY <1>1 DEF Emptied
<1>4. Paired(e) /\ PointerHolds(e)
  BY DiscardPaired DEF WellFiled
<1>f. \A j \in Keys : j = d.active => ~IsProjectFrozen(e, j)
  BY <1>1, RowFacts DEF Emptied, IsProjectFrozen
<1>5. SlotsApart(e)
  BY <1>2, <1>3, <1>f, PlaceTypes DEF WellFiled, SlotsApart
<1>6. OneWorkPerId(e)
  BY <1>2, <1>3, PlaceTypes DEF WellFiled, OneWorkPerId
<1>7. OneDraftPerWork(e)
  BY <1>1, <1>2, <1>3, PlaceTypes DEF WellFiled, OneDraftPerWork, Filed, Drafted
<1> QED BY <1>1, <1>4, <1>5, <1>6, <1>7 DEF WellFiled

\* Stores without a work can be filed anywhere.
LEMMA EmptyMayFile ==
    ASSUME NEW d \in Disk, NEW w \in Works \cup {None}
    PROVE  MayFile(d, Empty(w)) /\ ~Instantiated(Empty(w)) /\ Empty(w).work = None
BY PlaceTypes DEF MayFile, Empty, Instantiated, Filed

\* Publishing what the pointer names leaves no draft of the work on screen.
LEMMA SubmissionWell ==
    ASSUME NEW d \in Disk, NEW e, NEW w \in Works, NEW c \in LiveContent,
           e = RecordProjectSubmission(d, w, "none"),
           WellFiled(d), MayFile(d, c), PointsAt(d, c), Instantiated(c)
    PROVE  /\ WellFiled(e)
           /\ MayFile(e, c)
           /\ e.active = None
           /\ e.records = d.records
           /\ \A k \in Keys : IsProjectFrozen(d, k) => IsProjectFrozen(e, k)
           /\ d.active # None => IsProjectFrozen(e, d.active)
<1>1. CASE d.active = None
  BY <1>1, SubmissionEffect
<1>2. CASE d.active # None
  <2>1. d.active \in ProjectKeys /\ Filed(d, d.active, c.work)
    BY <1>2 DEF PointsAt
  <2>2. /\ e \in Disk
        /\ e.active = None
        /\ e.records = d.records
        /\ \A j \in Keys \ {d.active} : e.index[j] = d.index[j]
        /\ IsProjectFrozen(e, d.active)
    BY <1>2, <2>1, SubmissionEffect DEF Filed
  <2>3. \A k \in Keys : IsProjectFrozen(d, k) => IsProjectFrozen(e, k)
    BY <2>2 DEF IsProjectFrozen
  <2>4. Paired(e) /\ PointerHolds(e)
    BY <2>1, <2>2, PlaceTypes DEF WellFiled, Paired, PointerHolds, IsProjectFrozen, Filed
  <2>5. SlotsApart(e) /\ OneWorkPerId(e)
    BY <2>1, <2>2, PlaceTypes DEF WellFiled, SlotsApart, OneWorkPerId, IsProjectFrozen
  <2>6. OneDraftPerWork(e)
    BY <2>2, <2>3, PlaceTypes DEF WellFiled, OneDraftPerWork, Filed, Drafted
  <2>7. MayFile(e, c)
    BY <2>1, <2>2, <2>3, PlaceTypes DEF MayFile, Filed, Drafted
  <2> QED BY <2>2, <2>3, <2>4, <2>5, <2>6, <2>7 DEF WellFiled
<1> QED BY <1>1, <1>2

\* A record that the pointer names, or will name, can be worked on.
LEMMA RecordMayFile ==
    ASSUME NEW d \in Disk, WellFiled(d), NEW k \in Keys, d.records[k] # None,
           NEW e \in Disk, e.records = d.records, e.index = d.index, e.active = k,
           k = d.active \/ ~IsProjectFrozen(d, k)
    PROVE  /\ WellFiled(e)
           /\ MayFile(e, d.records[k])
           /\ PointsAt(e, d.records[k])
<1>1. \A w \in Works, j \in ProjectKeys : Filed(d, k, w) /\ Drafted(d, j, w) => j = k
  BY PlaceTypes DEF WellFiled, OneDraftPerWork, Drafted, Filed
<1>2. d.records[k] \in Content /\ Filed(d, k, d.records[k].work) /\ d.records[k].work \in Works
  BY PlaceTypes DEF Filed
<1>3. IF Instantiated(d.records[k]) THEN k \in ProjectKeys ELSE k = Pending
  BY PlaceTypes DEF WellFiled, SlotsApart
<1>4. Paired(e) /\ PointerHolds(e)
  BY DEF WellFiled, Paired, PointerHolds
<1>5. SlotsApart(e) /\ OneWorkPerId(e)
  BY DEF WellFiled, SlotsApart, OneWorkPerId, IsProjectFrozen
<1>6. OneDraftPerWork(e)
  BY <1>1, PlaceTypes DEF WellFiled, OneDraftPerWork, Filed, Drafted, IsProjectFrozen
<1>7. MayFile(e, d.records[k])
  BY <1>1, <1>2, <1>3, PlaceTypes
     DEF WellFiled, OneDraftPerWork, OneWorkPerId, MayFile, Filed, Drafted, IsProjectFrozen
<1>8. PointsAt(e, d.records[k])
  BY <1>2, <1>3 DEF PointsAt, Filed
<1> QED BY <1>4, <1>5, <1>6, <1>7, <1>8 DEF WellFiled
-----------------------------------------------------------------------------
(* One author: the screen, its subscription and its timer.                 *)

\* On localStorage d: screen v with stores c, subscription s, timer tm and
\* publish request r.
ScreenOK(d, v, c, s, tm, r) ==
    /\ v = "closed" => c = Blank
    /\ v \in {"closed", "away"} => s = None
    /\ v # "closed" => PointsAt(d, c)
    /\ v = "survey" => s # None /\ d.active = s
    /\ v = "output" =>
          IF Instantiated(c)
          THEN s = c.key /\ (d.active = s \/ (d.active = None /\ IsProjectFrozen(d, s)))
          ELSE s = None
    /\ v = "switching" =>
          /\ d.active \in ProjectKeys
          /\ c = d.records[d.active]
          /\ ~IsProjectFrozen(d, d.active)
    /\ r # None => v = "output" /\ Instantiated(c)
    /\ MayFile(d, c)
    /\ v \in {"survey", "output"} /\ c.work # None /\ s # None =>
          \/ d.records[s] = c
          \/ tm /\ d.active = s
          \/ IsProjectFrozen(d, s)

Screen(t) == ScreenOK(disk, view[t], live[t], sub[t], timer[t], inflight[t])

\* Work on disk has been begun; unless it is submitted and left behind, it has
\* not been discarded. Neither has work on screen.
FateOnDisk(d, f) ==
    \A k \in Keys, w \in Works : Filed(d, k, w) =>
        /\ f[w] # "unborn"
        /\ k = d.active \/ ~IsProjectFrozen(d, k) => f[w] # "discarded"
FateOnScreen(c, f) == c.work # None => f[c.work] \notin {"unborn", "discarded"}

AuthorInv ==
    /\ TypeInv
    /\ WellFiled(disk)
    /\ FateOnDisk(disk, fate)
    /\ \A t \in Tabs : Screen(t) /\ FateOnScreen(live[t], fate)

\* Filing and saving give every place what it had or what is on screen.
LEMMA InstallFate ==
    ASSUME NEW d \in Disk, NEW e, NEW c \in LiveContent, NEW f,
           Installed(d, e, FilingKey(c), c), MayFile(d, c), SlotsApart(d),
           FateOnDisk(d, f), FateOnScreen(c, f)
    PROVE  FateOnDisk(e, f)
<1> DEFINE k == FilingKey(c)
<1>1. k \in Keys /\ e \in Disk /\ e.active = k
  BY FilingKeys DEF Installed
<1>2. /\ e.records[k] = c \/ e.records[k] = d.records[k]
      /\ IsProjectFrozen(e, k) <=> IsProjectFrozen(d, k)
      /\ Instantiated(c) => k = c.key /\ k \in ProjectKeys
      /\ ~Instantiated(c) => k = Pending
  BY <1>1, PutFacts, FilingKeys DEF Installed
<1>3. /\ \A j \in Keys : j # k /\ j # d.active =>
            e.records[j] = d.records[j] /\ (IsProjectFrozen(e, j) <=> IsProjectFrozen(d, j))
      /\ \A j \in Keys : j # k /\ j = d.active => e.records[j] = None
  BY DEF Installed, Same, Emptied, IsProjectFrozen
<1>4. Instantiated(c) /\ d.records[k] # None => d.records[k].work = c.work
  BY <1>2 DEF MayFile
<1>5. ~IsProjectFrozen(d, Pending)
  BY DEF SlotsApart
<1> HIDE DEF k
<1> QED BY <1>1, <1>2, <1>3, <1>4, <1>5, PlaceTypes DEF FateOnDisk, FateOnScreen, Filed

LEMMA SaveFate ==
    ASSUME NEW d \in Disk, NEW e, NEW c \in LiveContent, NEW f, d.active \in Keys,
           SavedTo(d, e, d.active, c), FateOnDisk(d, f), FateOnScreen(c, f)
    PROVE  FateOnDisk(e, f)
<1>1. e \in Disk /\ e.active = d.active
  BY DEF SavedTo
<1>2. /\ e.records[d.active] = c \/ e.records[d.active] = d.records[d.active]
      /\ \A j \in Keys : IsProjectFrozen(e, j) <=> IsProjectFrozen(d, j)
      /\ \A j \in Keys : j # d.active => e.records[j] = d.records[j]
  BY <1>1, PutFacts DEF SavedTo, Same, IsProjectFrozen
<1> QED BY <1>1, <1>2, PlaceTypes DEF FateOnDisk, FateOnScreen, Filed

\* Emptying places, and marking them as submitted, adds nothing to the disk.
LEMMA FewerFates ==
    ASSUME NEW d \in Disk, NEW e \in Disk, NEW f, FateOnDisk(d, f),
           e.active \in {None, d.active},
           \A k \in Keys : \/ e.records[k] = None
                           \/ /\ e.records[k] = d.records[k]
                              /\ IsProjectFrozen(d, k) => IsProjectFrozen(e, k)
    PROVE  FateOnDisk(e, f)
BY PlaceTypes DEF FateOnDisk, Filed

\* What the screen's save leaves at the place it saves to.
Settled(d, k, c) == c.work # None => d.records[k] = c \/ IsProjectFrozen(d, k)

\* Mounting an autosave for content that may be filed.
LEMMA MountWell ==
    ASSUME NEW d \in Disk, NEW c \in LiveContent, NEW f,
           WellFiled(d), MayFile(d, c), FateOnDisk(d, f), FateOnScreen(c, f),
           d.active \in ProjectKeys => Filed(d, d.active, c.work)
    PROVE  LET e == InstallDraftAutosave(d, FilingKey(c), c, "none")
           IN  /\ Installed(d, e, FilingKey(c), c)
               /\ WellFiled(e)
               /\ FateOnDisk(e, f)
               /\ MayFile(e, c)
               /\ PointsAt(e, c)
               /\ Settled(e, FilingKey(c), c)
               /\ WorkKept(d, e)
<1> DEFINE k == FilingKey(c)
           e == InstallDraftAutosave(d, k, c, "none")
<1>1. k \in Keys
  BY FilingKeys
<1>2. Installed(d, e, k, c)
  BY <1>1, InstallEffect
<1>k. /\ k \in ProjectKeys => Instantiated(c)
      /\ ~Instantiated(c) => k = Pending
      /\ ~IsProjectFrozen(d, Pending)
  BY FilingKeys DEF WellFiled, SlotsApart
<1>s. k = FilingKey(c)
  OBVIOUS
<1> HIDE DEF e, k
<1>3. /\ SlotsApart(e)
      /\ OneWorkPerId(e)
      /\ OneDraftPerWork(e)
      /\ MayFile(e, c)
      /\ PointsAt(e, c)
  BY <1>2, <1>s, InstallWell
<1>4. WorkKept(d, e)
  BY <1>2, <1>3, <1>s, InstallKeepsWork
<1>5. Paired(e) /\ PointerHolds(e)
  BY <1>1, <1>2, <1>k, InstallPaired DEF WellFiled
<1>6. FateOnDisk(e, f)
  BY <1>2, <1>s, InstallFate DEF WellFiled
<1>7. Settled(e, k, c)
  BY <1>1, <1>2, <1>k, PutFacts DEF Installed, Settled
<1> QED BY <1>2, <1>3, <1>4, <1>5, <1>6, <1>7 DEF WellFiled, e, k

\* Saving to what the pointer names.
LEMMA SaveActiveWell ==
    ASSUME NEW d \in Disk, NEW e, NEW c \in LiveContent, NEW f, d.active \in Keys,
           SavedTo(d, e, d.active, c), WellFiled(d), MayFile(d, c), PointsAt(d, c),
           FateOnDisk(d, f), FateOnScreen(c, f)
    PROVE  /\ e \in Disk
           /\ WellFiled(e)
           /\ FateOnDisk(e, f)
           /\ MayFile(e, c)
           /\ PointsAt(e, c)
           /\ Settled(e, e.active, c)
           /\ e.active = d.active
           /\ \A k \in Keys : IsProjectFrozen(e, k) <=> IsProjectFrozen(d, k)
           /\ e.records[d.active] \in {c, d.records[d.active]}
           /\ WorkKept(d, e)
<1>1. e \in Disk /\ e.active = d.active
  BY DEF SavedTo
<1>2. WellFiled(e) /\ MayFile(e, c) /\ PointsAt(e, c) /\ WorkKept(d, e)
  BY SaveWell
<1>3. FateOnDisk(e, f)
  BY SaveFate
<1>4. /\ e.records[d.active] \in {c, d.records[d.active]}
      /\ \A k \in Keys : IsProjectFrozen(e, k) <=> IsProjectFrozen(d, k)
  BY <1>1, PutFacts DEF SavedTo, Same, IsProjectFrozen
<1>5. Settled(e, e.active, c)
  <2>1. Instantiated(c) \/ d.active = Pending
    BY PlaceTypes DEF PointsAt
  <2>2. Put(d, e, d.active, c)
    BY DEF SavedTo
  <2> QED BY <1>1, <1>4, <2>1, <2>2, PutFacts DEF Settled
<1> QED BY <1>1, <1>2, <1>3, <1>4, <1>5

LEMMA KeptTwice ==
    ASSUME NEW d \in Disk, NEW e \in Disk, NEW g \in Disk, WorkKept(d, e), WorkKept(e, g),
           \A k \in ProjectKeys : d.records[k] # None /\ g.records[k] # None => e.records[k] # None
    PROVE  WorkKept(d, g)
BY DEF WorkKept, NotExchanged

LEMMA KeptSame ==
    ASSUME NEW d \in Disk, NEW e \in Disk, \A k \in ProjectKeys : e.records[k] = d.records[k]
    PROVE  WorkKept(d, e)
BY DEF WorkKept, NotExchanged, Filed

\* Filing rights follow the work and its id.
LEMMA SameFiling ==
    ASSUME NEW d \in Disk, NEW b, NEW c, b.work = c.work, b.key = c.key
    PROVE  /\ MayFile(d, b) => MayFile(d, c)
           /\ PointsAt(d, b) => PointsAt(d, c)
BY DEF MayFile, PointsAt, Instantiated

\* An id the author may choose for the work at hand.
LEMMA ChosenId ==
    ASSUME OneAuthor, NEW t \in Tabs, NEW k \in ProjectKeys, NEW c \in LiveContent,
           disk \in Disk, live[t] \in LiveContent, IdChoice(t, k), c.work = live[t].work, c.key = k,
           MayFile(disk, live[t]), PointsAt(disk, live[t]), disk.active # None
    PROVE  /\ MayFile(disk, c)
           /\ Instantiated(c)
           /\ disk.active \in ProjectKeys => Filed(disk, disk.active, c.work)
           /\ Instantiated(live[t]) => PointsAt(disk, c)
<1>1. Instantiated(c)
  BY PlaceTypes DEF Instantiated
<1>2. \A j \in ProjectKeys :
        disk.records[j] # None /\ c.key \in {j, disk.records[j].key} => disk.records[j].work = c.work
  BY PlaceTypes DEF IdChoice, OneAuthor, WorksOf
<1>3. /\ \A j \in ProjectKeys : Drafted(disk, j, c.work) => j = disk.active
      /\ Filed(disk, Pending, c.work) => disk.active = Pending
  BY PlaceTypes DEF MayFile, PointsAt, Drafted, Filed
<1>4. disk.active \in ProjectKeys => Filed(disk, disk.active, c.work)
  BY PlaceTypes DEF PointsAt
<1>5. Instantiated(live[t]) => PointsAt(disk, c)
  BY <1>1 DEF PointsAt
<1> QED BY <1>1, <1>2, <1>3, <1>4, <1>5 DEF MayFile

-----------------------------------------------------------------------------
(* One author: every handler keeps the invariant, and what is listed.      *)

LEMMA InitAuthor == OneAuthor /\ Init => AuthorInv
<1> SUFFICES ASSUME OneAuthor, Init PROVE AuthorInv
  OBVIOUS
<1>1. TypeInv /\ LockstepInv /\ disk \in Disk
  BY InitTyped, InitLockstep DEF TypeInv, TypeOK, Disk
<1>2. PICK p \in Placements :
        /\ \E a \in {None} \cup {k \in ProjectKeys : p[k] # None} : disk = Profile(p, a)
        /\ fate = [w \in Works |-> IF \E k \in ProjectKeys : p[k] = w THEN "alive" ELSE "unborn"]
  BY DEF Init
<1>3. PICK a \in {None} \cup {k \in ProjectKeys : p[k] # None} : disk = Profile(p, a)
  BY <1>2
<1>4. \A k \in ProjectKeys : p[k] # None =>
        p[k] \in Works /\ \A j \in ProjectKeys : p[j] = p[k] => j = k
  BY DraftStoreAssumption DEF Placements
<1>5. /\ \A k \in ProjectKeys : k # Pending /\ k # None /\ k \in Keys
      /\ Pending \in Keys /\ Keys = ProjectKeys \cup {Pending}
  BY DraftStoreAssumption DEF Keys
<1>6. disk.records[Pending] = None /\ disk.index[Pending] = NoRow
  BY <1>3, <1>5 DEF Profile
<1>7. \A k \in ProjectKeys :
        /\ disk.records[k] # None => p[k] # None
        /\ p[k] # None => disk.records[k].work = p[k] /\ disk.records[k].key = k
        /\ ~IsProjectFrozen(disk, k)
  BY <1>3, <1>5, RowFacts DEF Profile, IsProjectFrozen, DraftRow
<1>8. WellFiled(disk)
  <2>1. SlotsApart(disk)
    BY <1>5, <1>6, <1>7, RowFacts DEF SlotsApart, Instantiated, IsProjectFrozen
  <2>2. OneWorkPerId(disk)
    BY <1>4, <1>7 DEF OneWorkPerId
  <2>3. OneDraftPerWork(disk)
    BY <1>3, <1>4, <1>5, <1>6, <1>7 DEF OneDraftPerWork, Drafted, Filed, Profile
  <2> QED BY <1>1, <2>1, <2>2, <2>3 DEF WellFiled, LockstepInv
<1>9. FateOnDisk(disk, fate)
  BY <1>2, <1>4, <1>5, <1>6, <1>7 DEF FateOnDisk, Filed
<1>10. ASSUME NEW t \in Tabs PROVE Screen(t) /\ FateOnScreen(live[t], fate)
  <2>1. view[t] = "closed" /\ live[t] = Blank /\ sub[t] = None /\ inflight[t] = None
    BY DEF Init
  <2>2. MayFile(disk, Blank) /\ Blank.work = None
    BY <1>1, EmptyMayFile DEF Blank
  <2> QED BY <2>1, <2>2 DEF Screen, ScreenOK, FateOnScreen
<1> QED BY <1>1, <1>8, <1>9, <1>10 DEF AuthorInv

\* What a step of tab t establishes.
StepKeeps(t) ==
    /\ WellFiled(disk')
    /\ FateOnDisk(disk', fate')
    /\ ScreenOK(disk', view'[t], live'[t], sub'[t], timer'[t], inflight'[t])
    /\ FateOnScreen(live'[t], fate')
    /\ NotExchanged(disk, disk')
    /\ AuthorTakesAway \/ WorkKept(disk, disk')

LEMMA AuthorFacts ==
    ASSUME OneAuthor, AuthorInv, NEW t \in Tabs
    PROVE  /\ Faults = {"none"}
           /\ disk \in Disk
           /\ live[t] \in LiveContent
           /\ sub[t] \in Keys \cup {None}
           /\ WellFiled(disk)
           /\ FateOnDisk(disk, fate)
           /\ ScreenOK(disk, view[t], live[t], sub[t], timer[t], inflight[t])
           /\ FateOnScreen(live[t], fate)
           /\ MayFile(disk, live[t])
           /\ TypeOK /\ TypeInv
BY NoFaults DEF OneAuthor, AuthorInv, TypeInv, TypeOK, Disk, Screen, ScreenOK

LEMMA BlankFacts ==
    ASSUME NEW d \in Disk, NEW f
    PROVE  /\ Blank \in LiveContent
           /\ MayFile(d, Blank)
           /\ ~Instantiated(Blank)
           /\ Blank.work = None
           /\ FilingKey(Blank) = Pending
           /\ FateOnScreen(Blank, f)
BY EmptyMayFile, EmptyContent DEF Blank, FateOnScreen, FilingKey

LEMMA KeepsIdle ==
    ASSUME disk \in Disk, disk' = disk
    PROVE  NotExchanged(disk, disk') /\ WorkKept(disk, disk')
BY DEF NotExchanged, WorkKept

LEMMA BootKeeps ==
    ASSUME OneAuthor, AuthorInv, NEW t \in Tabs, Boot(t)
    PROVE  StepKeeps(t)
<1> DEFINE a == disk.active
<1>1. /\ view'[t] = "away"
      /\ live'[t] = LoadDraft(disk, a)
      /\ disk' = disk /\ sub' = sub /\ timer' = timer /\ inflight' = inflight /\ fate' = fate
  BY AuthorFacts DEF Boot, TypeOK, history
<1>2. sub[t] = None /\ inflight[t] = None
  BY AuthorFacts DEF Boot, ScreenOK
<1>3. CASE a = None \/ disk.records[a] = None
  <2>1. live'[t] = Blank
    BY <1>1, <1>3 DEF LoadDraft
  <2>2. PointsAt(disk, Blank)
    BY <1>3, AuthorFacts, BlankFacts, PlaceTypes DEF PointsAt, WellFiled, PointerHolds
  <2> QED BY <1>1, <1>2, <2>1, <2>2, AuthorFacts, BlankFacts, KeepsIdle DEF StepKeeps, ScreenOK
<1>4. CASE a # None /\ disk.records[a] # None
  <2>1. live'[t] = disk.records[a] /\ a \in Keys
    BY <1>1, <1>4, AuthorFacts, PlaceTypes DEF LoadDraft
  <2>2. MayFile(disk, disk.records[a]) /\ PointsAt(disk, disk.records[a])
    BY <1>4, <2>1, AuthorFacts, RecordMayFile
  <2>3. FateOnScreen(disk.records[a], fate)
    BY <1>4, <2>1, AuthorFacts, PlaceTypes DEF FateOnDisk, FateOnScreen, Filed
  <2> QED BY <1>1, <1>2, <2>1, <2>2, <2>3, AuthorFacts, KeepsIdle DEF StepKeeps, ScreenOK
<1> QED BY <1>3, <1>4

\* On every screen the pointer names a filing of the work at hand.
LEMMA OnScreen ==
    ASSUME OneAuthor, AuthorInv, NEW t \in Tabs, view[t] # "closed"
    PROVE  /\ PointsAt(disk, live[t])
           /\ disk.active \in ProjectKeys => Filed(disk, disk.active, live[t].work)
BY AuthorFacts, PlaceTypes DEF ScreenOK, PointsAt

LEMMA OpenSurveyKeeps ==
    ASSUME OneAuthor, AuthorInv, NEW t \in Tabs, OpenSurvey(t)
    PROVE  StepKeeps(t)
<1> DEFINE c == live[t]
           k == FilingKey(c)
<1>1. /\ view'[t] = "survey"
      /\ sub'[t] = k
      /\ live' = live /\ inflight' = inflight /\ fate' = fate
      /\ disk' = InstallDraftAutosave(disk, k, c, "none")
  BY AuthorFacts DEF OpenSurvey, Subscribe, TypeOK, history
<1>2. inflight[t] = None
  BY AuthorFacts DEF OpenSurvey, ScreenOK
<1>3. view[t] # "closed"
  BY DEF OpenSurvey
<1>4. /\ Installed(disk, disk', k, c)
      /\ WellFiled(disk')
      /\ FateOnDisk(disk', fate)
      /\ MayFile(disk', c)
      /\ PointsAt(disk', c)
      /\ Settled(disk', k, c)
      /\ WorkKept(disk, disk')
  BY <1>1, <1>3, AuthorFacts, OnScreen, MountWell
<1>5. k \in Keys /\ k # None /\ disk'.active = k
  BY <1>4, AuthorFacts, FilingKeys, PlaceTypes DEF Installed
<1> QED BY <1>1, <1>2, <1>4, <1>5, AuthorFacts DEF StepKeeps, ScreenOK, Settled, WorkKept

LEMMA OpenOutputKeeps ==
    ASSUME OneAuthor, AuthorInv, NEW t \in Tabs, OpenOutput(t)
    PROVE  StepKeeps(t)
<1> DEFINE c == live[t]
           k == FilingKey(c)
<1>1. /\ view[t] = "away" /\ view'[t] = "output"
      /\ live' = live /\ inflight' = inflight /\ fate' = fate
  BY AuthorFacts DEF OpenOutput, TypeOK, history
<1>2. inflight[t] = None /\ sub[t] = None
  BY <1>1, AuthorFacts DEF ScreenOK
<1>3. CASE Instantiated(c)
  <2>1. k = c.key
    BY <1>3 DEF FilingKey
  <2>2. /\ sub'[t] = k
        /\ disk' = InstallDraftAutosave(disk, k, c, "none")
    BY <1>3, <2>1, AuthorFacts DEF OpenOutput, Subscribe, TypeOK
  <2>3. /\ Installed(disk, disk', k, c)
        /\ WellFiled(disk')
        /\ FateOnDisk(disk', fate)
        /\ MayFile(disk', c)
        /\ PointsAt(disk', c)
        /\ Settled(disk', k, c)
        /\ WorkKept(disk, disk')
    BY <1>1, <2>2, AuthorFacts, OnScreen, MountWell
  <2>4. disk'.active = k
    BY <2>3 DEF Installed
  <2> QED BY <1>1, <1>2, <1>3, <2>1, <2>2, <2>3, <2>4, AuthorFacts
          DEF StepKeeps, ScreenOK, Settled, WorkKept
<1>4. CASE ~Instantiated(c)
  <2>1. disk' = disk /\ sub' = sub /\ timer' = timer
    BY <1>4 DEF OpenOutput
  <2> QED BY <1>1, <1>2, <1>4, <2>1, AuthorFacts, KeepsIdle, OnScreen DEF StepKeeps, ScreenOK
<1> QED BY <1>3, <1>4

LEMMA LeaveViewKeeps ==
    ASSUME OneAuthor, AuthorInv, NEW t \in Tabs, LeaveView(t)
    PROVE  StepKeeps(t)
<1>1. /\ view'[t] = "away" /\ sub'[t] = None /\ inflight[t] = None /\ view[t] # "closed"
      /\ disk' = disk /\ live' = live /\ inflight' = inflight /\ fate' = fate
  BY AuthorFacts DEF LeaveView, Subscribe, FreeToLeave, OneAuthor, TypeOK, history
<1> QED BY <1>1, AuthorFacts, KeepsIdle, OnScreen DEF StepKeeps, ScreenOK

\* However a tab ends: at most saves to what the pointer names.
LEMMA EndKeeps ==
    ASSUME OneAuthor, AuthorInv, NEW t \in Tabs, TabEnds(t), disk' \in Disk,
           WellFiled(disk'), FateOnDisk(disk', fate), WorkKept(disk, disk')
    PROVE  StepKeeps(t)
<1>1. /\ view'[t] = "closed" /\ live'[t] = Blank /\ inflight'[t] = None /\ sub'[t] = None
      /\ fate' = fate
  BY AuthorFacts DEF TabEnds, Subscribe, TypeOK, history
<1> QED BY <1>1, BlankFacts DEF StepKeeps, ScreenOK, WorkKept

LEMMA CloseTabKeeps ==
    ASSUME OneAuthor, AuthorInv, NEW t \in Tabs, CloseTab(t) \/ Crash(t)
    PROVE  StepKeeps(t)
<1>1. TabEnds(t) /\ view[t] # "closed"
  BY DEF CloseTab, Crash
<1>2. \/ disk' = disk
      \/ disk.active \in Keys /\ SavedTo(disk, disk', disk.active, live[t])
  BY AuthorFacts, FlushEffects DEF CloseTab, Crash
<1>3. CASE disk' = disk
  BY <1>1, <1>3, AuthorFacts, KeepsIdle, EndKeeps
<1>4. CASE disk.active \in Keys /\ SavedTo(disk, disk', disk.active, live[t])
  <2>1. disk' \in Disk /\ WellFiled(disk') /\ FateOnDisk(disk', fate) /\ WorkKept(disk, disk')
    BY <1>1, <1>4, AuthorFacts, OnScreen, SaveActiveWell
  <2> QED BY <1>1, <2>1, EndKeeps
<1> QED BY <1>2, <1>3, <1>4

LEMMA FlushAndReloadKeeps ==
    ASSUME OneAuthor, AuthorInv, NEW t \in Tabs, FlushAndReload(t)
    PROVE  StepKeeps(t)
<1> DEFINE c == live[t]
           e == FlushActiveDraft(disk, t, "none")
<1>1. disk' = FlushPending(e, t, "none") /\ TabEnds(t) /\ view[t] # "closed"
  BY AuthorFacts DEF FlushAndReload
<1>2. e = disk \/ (disk.active \in Keys /\ SavedTo(disk, e, disk.active, c))
  BY AuthorFacts, FlushEffects
<1>3. PointsAt(disk, c)
  BY <1>1, OnScreen
<1> HIDE DEF e
<1>4. /\ e \in Disk /\ WellFiled(e) /\ FateOnDisk(e, fate) /\ MayFile(e, c) /\ PointsAt(e, c)
      /\ WorkKept(disk, e)
      /\ \A k \in ProjectKeys : disk.records[k] # None => e.records[k] # None
  <2>1. CASE e = disk
    BY <1>3, <2>1, AuthorFacts, KeptSame
  <2>2. CASE disk.active \in Keys /\ SavedTo(disk, e, disk.active, c)
    <3>1. /\ e \in Disk /\ WellFiled(e) /\ FateOnDisk(e, fate) /\ MayFile(e, c) /\ PointsAt(e, c)
          /\ WorkKept(disk, e) /\ e.active = disk.active
      BY <1>3, <2>2, AuthorFacts, SaveActiveWell
    <3>2. disk.active \in ProjectKeys => e.records[disk.active] # None
      BY <3>1 DEF WellFiled, PointerHolds
    <3>3. \A k \in ProjectKeys : k # disk.active => e.records[k] = disk.records[k]
      BY <2>2, PlaceTypes, AuthorFacts DEF SavedTo, Same
    <3> QED BY <3>1, <3>2, <3>3
  <2> QED BY <1>2, <2>1, <2>2
<1>5. disk' = e \/ (e.active \in Keys /\ SavedTo(e, disk', e.active, c))
  BY <1>1, <1>4, AuthorFacts, FlushEffects
<1>6. disk' \in Disk /\ WellFiled(disk') /\ FateOnDisk(disk', fate) /\ WorkKept(e, disk')
  <2>1. CASE disk' = e
    BY <1>4, <2>1, KeptSame
  <2>2. CASE e.active \in Keys /\ SavedTo(e, disk', e.active, c)
    BY <1>4, <2>2, AuthorFacts, SaveActiveWell
  <2> QED BY <1>5, <2>1, <2>2
<1>7. WorkKept(disk, disk')
  BY <1>4, <1>6, AuthorFacts, KeptTwice
<1> QED BY <1>1, <1>6, <1>7, EndKeeps

LEMMA TimerFiresKeeps ==
    ASSUME OneAuthor, AuthorInv, NEW t \in Tabs, TimerFires(t)
    PROVE  StepKeeps(t)
<1> DEFINE c == live[t]
<1>1. /\ view' = view /\ live' = live /\ sub' = sub /\ inflight' = inflight /\ fate' = fate
      /\ disk' = IF disk.active = sub[t] THEN SaveDraft(disk, sub[t], c, "none") ELSE disk
  BY AuthorFacts DEF TimerFires, history
<1>2. sub[t] \in Keys
  BY AuthorFacts DEF TimerFires, TypeInv, TimerSubscribed
<1>3. view[t] # "closed" /\ sub[t] # None
  BY <1>2, AuthorFacts, PlaceTypes DEF ScreenOK
<1>4. CASE disk.active = sub[t]
  <2>1. SavedTo(disk, disk', disk.active, c)
    BY <1>1, <1>2, <1>4, AuthorFacts, SaveEffect DEF SavedTo
  <2>2. /\ disk' \in Disk /\ WellFiled(disk') /\ FateOnDisk(disk', fate)
        /\ MayFile(disk', c) /\ PointsAt(disk', c) /\ Settled(disk', disk'.active, c)
        /\ disk'.active = disk.active
        /\ \A k \in Keys : IsProjectFrozen(disk', k) <=> IsProjectFrozen(disk, k)
        /\ disk'.records[disk.active] \in {c, disk.records[disk.active]}
        /\ WorkKept(disk, disk')
    BY <1>2, <1>3, <1>4, <2>1, AuthorFacts, OnScreen, SaveActiveWell
  <2> QED BY <1>1, <1>2, <1>3, <1>4, <2>2, AuthorFacts, PlaceTypes
          DEF StepKeeps, ScreenOK, Settled, WorkKept
<1>5. CASE disk.active # sub[t]
  <2>1. disk' = disk
    BY <1>1, <1>5
  <2> QED BY <1>1, <1>5, <2>1, AuthorFacts, KeepsIdle DEF StepKeeps, ScreenOK
<1> QED BY <1>4, <1>5

LEMMA AnswerKeeps ==
    ASSUME OneAuthor, AuthorInv, NEW t \in Tabs, Answer(t)
    PROVE  StepKeeps(t)
<1>1. PICK w \in Works :
        /\ fate[w] = "unborn"
        /\ fate' = [fate EXCEPT ![w] = "alive"]
        /\ StoresChange(t, [live[t] EXCEPT !.work = w, !.trail = IF @ = None THEN w ELSE @])
  BY DEF Answer
<1> DEFINE c == [live[t] EXCEPT !.work = w, !.trail = IF @ = None THEN w ELSE @]
<1>2. /\ view[t] = "survey" /\ live[t].work = None
      /\ view' = view /\ sub' = sub /\ inflight' = inflight /\ disk' = disk
      /\ live'[t] = c
      /\ timer'[t] = (sub[t] # None)
  BY <1>1, AuthorFacts DEF Answer, StoresChange, TypeOK
<1>3. live[t] \notin Content
  BY <1>2, PlaceTypes, AuthorFacts
<1>4. PICK x \in Works \cup {None} : live[t] = Empty(x)
  BY <1>3, AuthorFacts DEF LiveContent
<1>5. c.work = w /\ c.key = None /\ ~Instantiated(live[t])
  BY <1>4 DEF Empty, Instantiated
<1>6. sub[t] # None /\ disk.active = sub[t] /\ inflight[t] = None
  BY <1>2, AuthorFacts DEF ScreenOK
<1>7. w # None
  BY DraftStoreAssumption
<1>8. \A k \in Keys : ~Filed(disk, k, w)
  BY <1>1, AuthorFacts DEF FateOnDisk
<1>9. /\ fate'[w] = "alive"
      /\ \A v \in Works : v # w => fate'[v] = fate[v]
  BY <1>1, AuthorFacts DEF TypeOK
<1> HIDE DEF c
<1>10. MayFile(disk, c)
  BY <1>5, <1>8, PlaceTypes, AuthorFacts DEF MayFile, Instantiated
<1>11. PointsAt(disk, c)
  BY <1>2, <1>5, OnScreen DEF PointsAt, Instantiated
<1>12. FateOnDisk(disk, fate')
  BY <1>9, AuthorFacts DEF FateOnDisk
<1>13. FateOnScreen(c, fate')
  BY <1>5, <1>9 DEF FateOnScreen
<1> QED BY <1>2, <1>6, <1>10, <1>11, <1>12, <1>13, AuthorFacts, KeepsIdle DEF StepKeeps, ScreenOK

\* An edit keeps the work and its id, and schedules a save.
LEMMA EditKeeps ==
    ASSUME OneAuthor, AuthorInv, NEW t \in Tabs, Edit(t)
    PROVE  StepKeeps(t)
<1> DEFINE c == [live[t] EXCEPT !.ver = edits[live[t].work] + 1,
                                !.trail = IF @ = None THEN live[t].work ELSE @]
<1>1. /\ view' = view /\ sub' = sub /\ inflight' = inflight /\ disk' = disk /\ fate' = fate
      /\ live'[t] = c
      /\ timer'[t] = (sub[t] # None)
      /\ view[t] \in {"survey", "output"}
      /\ view[t] = "output" => Instantiated(live[t])
  BY AuthorFacts DEF Edit, StoresChange, TypeOK
<1>2. c.work = live[t].work /\ c.key = live[t].key
  BY AuthorFacts DEF LiveContent, Content, Empty
<1> HIDE DEF c
<1>3. MayFile(disk, c) /\ PointsAt(disk, c)
  BY <1>1, <1>2, AuthorFacts, OnScreen, SameFiling
<1>4. FateOnScreen(c, fate)
  BY <1>2, AuthorFacts DEF FateOnScreen
<1>5. Instantiated(c) <=> Instantiated(live[t])
  BY <1>2 DEF Instantiated
<1> QED BY <1>1, <1>2, <1>3, <1>4, <1>5, AuthorFacts, KeepsIdle DEF StepKeeps, ScreenOK

\* The content with the keyboard id that the author chose.
LEMMA RenamedContent ==
    ASSUME OneAuthor, AuthorInv, NEW t \in Tabs, NEW k \in ProjectKeys, live[t].work # None
    PROVE  LET c == [live[t] EXCEPT !.key = k]
           IN  c \in LiveContent /\ c.work = live[t].work /\ c.key = k /\ FilingKey(c) = k
BY AuthorFacts, EmptyContent, LiveWork, PlaceTypes DEF Content, FilingKey, Instantiated

LEMMA CommitBaseKeeps ==
    ASSUME OneAuthor, AuthorInv, NEW t \in Tabs, NEW k \in ProjectKeys, CommitBase(t, k)
    PROVE  StepKeeps(t)
<1> DEFINE c == [live[t] EXCEPT !.key = k]
           e == InstallDraftAutosave(disk, k, c, "none")
<1>1. /\ view[t] = "survey" /\ live[t].work # None
      /\ view' = view /\ inflight' = inflight /\ fate' = fate
      /\ live'[t] = c
      /\ sub'[t] = k
      /\ disk' = ClearDraft(e, Pending)
  BY AuthorFacts DEF CommitBase, Subscribe, TypeOK, history
<1>2. c \in LiveContent /\ c.work = live[t].work /\ c.key = k /\ FilingKey(c) = k
  BY <1>1, RenamedContent
<1>e. e = InstallDraftAutosave(disk, FilingKey(c), c, "none")
  BY <1>2
<1> HIDE DEF c, e
<1>3. disk.active # None /\ inflight[t] = None
  BY <1>1, AuthorFacts DEF ScreenOK
<1>4. /\ MayFile(disk, c)
      /\ disk.active \in ProjectKeys => Filed(disk, disk.active, c.work)
      /\ Instantiated(c)
  BY <1>1, <1>2, <1>3, AuthorFacts, OnScreen, ChosenId DEF CommitBase
<1>5. FateOnScreen(c, fate)
  BY <1>2, AuthorFacts DEF FateOnScreen
<1>6. /\ Installed(disk, e, k, c)
      /\ WellFiled(e)
      /\ FateOnDisk(e, fate)
      /\ MayFile(e, c)
      /\ PointsAt(e, c)
      /\ Settled(e, k, c)
      /\ WorkKept(disk, e)
  BY <1>2, <1>4, <1>5, <1>e, AuthorFacts, MountWell
<1>7. e \in Disk /\ e.active = k /\ k # Pending /\ Pending \in Keys /\ k # None
  BY <1>6, AuthorFacts, PlaceTypes DEF Installed
<1>8. Cleared(e, disk', Pending) /\ disk'.active = k
  BY <1>1, <1>7, ClearEffect
<1>9. WellFiled(disk') /\ MayFile(disk', c) /\ PointsAt(disk', c)
  BY <1>2, <1>6, <1>7, <1>8, ClearWell
<1>10. /\ disk' \in Disk
       /\ \A j \in ProjectKeys : Same(e, disk', j)
       /\ disk'.records[Pending] = None
  BY <1>7, <1>8, PlaceTypes DEF Cleared, Emptied
<1>11. FateOnDisk(disk', fate)
  BY <1>6, <1>7, <1>8, <1>10, FewerFates, PlaceTypes DEF Same, IsProjectFrozen
<1>12. WorkKept(disk, disk')
  BY <1>6, <1>10 DEF WorkKept, NotExchanged, Filed, Same
<1>13. Settled(disk', k, c)
  BY <1>6, <1>10 DEF Settled, Same, IsProjectFrozen
<1> QED BY <1>1, <1>3, <1>5, <1>7, <1>8, <1>9, <1>11, <1>12, <1>13
        DEF StepKeeps, ScreenOK, Settled, WorkKept

LEMMA RenameInSurveyKeeps ==
    ASSUME OneAuthor, AuthorInv, NEW t \in Tabs, NEW k \in ProjectKeys, RenameInSurvey(t, k)
    PROVE  StepKeeps(t)
<1> DEFINE c == [live[t] EXCEPT !.key = k]
<1>1. /\ view[t] = "survey" /\ Instantiated(live[t])
      /\ view' = view /\ sub' = sub /\ inflight' = inflight /\ disk' = disk /\ fate' = fate
      /\ live'[t] = c
      /\ timer'[t] = (sub[t] # None)
  BY AuthorFacts DEF RenameInSurvey, StoresChange, TypeOK, history
<1>2. live[t].work # None
  BY <1>1, AuthorFacts, SavableContent, PlaceTypes
<1>3. c \in LiveContent /\ c.work = live[t].work /\ c.key = k
  BY <1>2, RenamedContent
<1> HIDE DEF c
<1>4. disk.active = sub[t] /\ sub[t] # None /\ inflight[t] = None
  BY <1>1, AuthorFacts DEF ScreenOK
<1>5. MayFile(disk, c) /\ PointsAt(disk, c)
  BY <1>1, <1>3, <1>4, AuthorFacts, OnScreen, ChosenId DEF RenameInSurvey
<1>6. FateOnScreen(c, fate)
  BY <1>3, AuthorFacts DEF FateOnScreen
<1> QED BY <1>1, <1>4, <1>5, <1>6, AuthorFacts, KeepsIdle DEF StepKeeps, ScreenOK

LEMMA RenameOnOutputKeeps ==
    ASSUME OneAuthor, AuthorInv, NEW t \in Tabs, NEW k \in ProjectKeys, RenameOnOutput(t, k)
    PROVE  StepKeeps(t)
<1> DEFINE c == [live[t] EXCEPT !.key = k]
<1>1. /\ view[t] = "output" /\ Instantiated(live[t]) /\ inflight[t] = None
      /\ view' = view /\ inflight' = inflight /\ fate' = fate
      /\ live'[t] = c
      /\ sub'[t] = k
      /\ disk' = InstallDraftAutosave(disk, k, c, "none")
  BY AuthorFacts DEF RenameOnOutput, FreeToLeave, OneAuthor, Subscribe, TypeOK, history
<1>2. live[t].work # None
  BY <1>1, AuthorFacts, SavableContent, PlaceTypes
<1>3. c \in LiveContent /\ c.work = live[t].work /\ c.key = k /\ FilingKey(c) = k
  BY <1>2, RenamedContent
<1>e. disk' = InstallDraftAutosave(disk, FilingKey(c), c, "none")
  BY <1>1, <1>3
<1> HIDE DEF c
<1>4. MayFile(disk, c) /\ Instantiated(c)
  <2>1. Instantiated(c)
    BY <1>3, PlaceTypes, AuthorFacts DEF Instantiated
  <2>2. \A j \in ProjectKeys :
          disk.records[j] # None /\ c.key \in {j, disk.records[j].key} => disk.records[j].work = c.work
    BY <1>3, PlaceTypes, AuthorFacts DEF RenameOnOutput, IdChoice, OneAuthor, WorksOf
  <2> QED BY <1>1, <1>3, <2>1, <2>2, AuthorFacts DEF MayFile
<1>5. disk.active \in ProjectKeys => Filed(disk, disk.active, c.work)
  BY <1>1, <1>3, OnScreen
<1>6. FateOnScreen(c, fate)
  BY <1>3, AuthorFacts DEF FateOnScreen
<1>7. /\ Installed(disk, disk', k, c)
      /\ WellFiled(disk')
      /\ FateOnDisk(disk', fate)
      /\ MayFile(disk', c)
      /\ PointsAt(disk', c)
      /\ Settled(disk', k, c)
      /\ WorkKept(disk, disk')
  BY <1>3, <1>4, <1>5, <1>6, <1>e, AuthorFacts, MountWell
<1>8. disk'.active = k
  BY <1>7 DEF Installed
<1> QED BY <1>1, <1>3, <1>4, <1>6, <1>7, <1>8 DEF StepKeeps, ScreenOK, Settled, WorkKept

LEMMA ResumeProjectKeeps ==
    ASSUME OneAuthor, AuthorInv, NEW t \in Tabs, NEW k \in ProjectKeys, ResumeProject(t, k)
    PROVE  StepKeeps(t)
<1> DEFINE c == disk.records[k]
<1>1. /\ view'[t] = "switching" /\ inflight[t] = None
      /\ sub' = sub /\ inflight' = inflight /\ fate' = fate
      /\ live'[t] = c
      /\ c # None /\ ~IsProjectFrozen(disk, k)
  BY AuthorFacts DEF ResumeProject, StoresChange, FreeToLeave, OneAuthor, TypeOK, history,
                     IsProjectFrozen
<1>2. /\ disk'.records = disk.records
      /\ disk'.index = disk.index
      /\ disk'.active = k
      /\ disk' \in Disk
  BY AuthorFacts, PlaceTypes DEF ResumeProject, Disk
<1>3. WellFiled(disk') /\ MayFile(disk', c) /\ PointsAt(disk', c)
  BY <1>1, <1>2, AuthorFacts, PlaceTypes, RecordMayFile
<1>4. FateOnDisk(disk', fate)
  BY <1>1, <1>2, AuthorFacts DEF FateOnDisk, Filed, IsProjectFrozen
<1>5. FateOnScreen(c, fate)
  BY <1>1, AuthorFacts, PlaceTypes DEF FateOnDisk, FateOnScreen, Filed
<1>6. WorkKept(disk, disk')
  BY <1>2, AuthorFacts, KeptSame
<1> QED BY <1>1, <1>2, <1>3, <1>4, <1>5, <1>6 DEF StepKeeps, ScreenOK, WorkKept, IsProjectFrozen

LEMMA ViewTrailKeeps ==
    ASSUME OneAuthor, AuthorInv, NEW t \in Tabs, NEW k \in ProjectKeys, ViewTrail(t, k)
    PROVE  StepKeeps(t)
<1>1. /\ view[t] = "away" /\ view' = view /\ sub' = sub /\ inflight' = inflight
      /\ disk' = disk /\ fate' = fate
      /\ live'[t] = [live[t] EXCEPT !.trail = disk.records[k].trail]
  BY AuthorFacts DEF ViewTrail, TypeOK, history
<1>2. live'[t].work = live[t].work /\ live'[t].key = live[t].key
  BY <1>1, AuthorFacts DEF LiveContent, Content, Empty
<1>3. MayFile(disk, live'[t]) /\ PointsAt(disk, live'[t])
  BY <1>1, <1>2, AuthorFacts, OnScreen, SameFiling
<1>4. FateOnScreen(live'[t], fate)
  BY <1>2, AuthorFacts DEF FateOnScreen
<1> QED BY <1>1, <1>3, <1>4, AuthorFacts, KeepsIdle DEF StepKeeps, ScreenOK

\* Discarding what the pointer names.
LEMMA DiscardFate ==
    ASSUME NEW d \in Disk, NEW e, NEW f, NEW g, WellFiled(d), FateOnDisk(d, f),
           e = DiscardActiveDraft(d), f \in [Works -> Fates],
           g = [w \in Works |-> IF w \in WorkAt(d, d.active) THEN "discarded" ELSE f[w]]
    PROVE  FateOnDisk(e, g)
<1>1. /\ e \in Disk /\ e.active = None
      /\ \A k \in Keys : k = d.active => e.records[k] = None
      /\ \A k \in Keys : k # d.active =>
            e.records[k] = d.records[k] /\ (IsProjectFrozen(e, k) <=> IsProjectFrozen(d, k))
  BY DiscardEffect DEF Emptied, Same, IsProjectFrozen
<1>2. \A w \in Works : w \in WorkAt(d, d.active) <=> d.active # None /\ Filed(d, d.active, w)
  BY DEF WorkAt, Filed
<1>3. ASSUME NEW k \in Keys, NEW w \in Works, Filed(e, k, w)
      PROVE  g[w] # "unborn" /\ (~IsProjectFrozen(e, k) => g[w] # "discarded")
  <2>1. k # d.active /\ Filed(d, k, w) /\ (IsProjectFrozen(e, k) <=> IsProjectFrozen(d, k))
    BY <1>1, <1>3 DEF Filed
  <2>2. CASE d.active # None /\ Filed(d, d.active, w)
    <3>1. g[w] = "discarded"
      BY <1>2, <2>2
    <3>2. IsProjectFrozen(d, k)
      BY <2>1, <2>2, PlaceTypes DEF WellFiled, OneDraftPerWork, Drafted
    <3> QED BY <2>1, <3>1, <3>2
  <2>3. CASE ~(d.active # None /\ Filed(d, d.active, w))
    BY <1>2, <2>1, <2>3 DEF FateOnDisk
  <2> QED BY <2>2, <2>3
<1> QED BY <1>1, <1>3, PlaceTypes DEF FateOnDisk

LEMMA StartOverKeeps ==
    ASSUME OneAuthor, AuthorInv, NEW t \in Tabs, StartOver(t)
    PROVE  StepKeeps(t)
<1> DEFINE e == DiscardActiveDraft(disk)
<1>1. /\ view[t] = "survey" /\ view' = view /\ inflight' = inflight
      /\ live'[t] = Blank
      /\ sub'[t] = Pending
      /\ disk' = InstallDraftAutosave(e, Pending, Blank, "none")
      /\ fate' = [w \in Works |-> IF w \in WorkAt(disk, disk.active) THEN "discarded" ELSE fate[w]]
  BY AuthorFacts DEF StartOver, Subscribe, Decide, TypeOK
<1>2. WellFiled(e) /\ e \in Disk /\ e.active = None
  BY AuthorFacts, DiscardWell
<1>3. FateOnDisk(e, fate')
  BY <1>1, AuthorFacts, DiscardFate DEF TypeOK
<1>4. \A k \in Keys : e.records[k] = None \/ e.records[k] = disk.records[k]
  BY AuthorFacts, DiscardEffect DEF Emptied, Same
<1>5. inflight[t] = None
  BY <1>1, AuthorFacts DEF ScreenOK
<1> HIDE DEF e
<1>6. /\ Installed(e, disk', Pending, Blank)
      /\ WellFiled(disk')
      /\ FateOnDisk(disk', fate')
      /\ MayFile(disk', Blank)
      /\ PointsAt(disk', Blank)
  <2>1. e.active \notin ProjectKeys
    BY <1>2, PlaceTypes, AuthorFacts
  <2>2. disk' = InstallDraftAutosave(e, FilingKey(Blank), Blank, "none")
    BY <1>1, AuthorFacts, BlankFacts
  <2>3. Blank \in LiveContent /\ MayFile(e, Blank) /\ FateOnScreen(Blank, fate') /\ FilingKey(Blank) = Pending
    BY <1>2, BlankFacts
  <2> QED BY <1>2, <1>3, <2>1, <2>2, <2>3, MountWell
<1>7. disk'.active = Pending
  BY <1>6 DEF Installed
<1>8. \A k \in ProjectKeys : disk'.records[k] = e.records[k]
  BY <1>2, <1>6, PlaceTypes, AuthorFacts DEF Installed, Same
<1>9. NotExchanged(disk, disk')
  BY <1>4, <1>8, PlaceTypes, AuthorFacts DEF NotExchanged
<1>10. AuthorTakesAway
  BY DEF AuthorTakesAway
<1>11. Blank.work = None /\ ~Instantiated(Blank) /\ FateOnScreen(Blank, fate') /\ Pending # None
  BY <1>2, BlankFacts, PlaceTypes
<1> QED BY <1>1, <1>5, <1>6, <1>7, <1>9, <1>10, <1>11 DEF StepKeeps, ScreenOK

LEMMA StartFreshSessionKeeps ==
    ASSUME OneAuthor, AuthorInv, NEW t \in Tabs, StartFreshSession(t)
    PROVE  StepKeeps(t)
<1> DEFINE c == Empty(live[t].trail)
<1>1. /\ view[t] = "away" /\ view' = view /\ inflight' = inflight /\ sub' = sub
      /\ live'[t] = c
      /\ disk' = DiscardActiveDraft(disk)
      /\ fate' = [w \in Works |-> IF w \in WorkAt(disk, disk.active) THEN "discarded" ELSE fate[w]]
  BY AuthorFacts DEF StartFreshSession, Decide, TypeOK
<1>2. WellFiled(disk') /\ disk' \in Disk /\ disk'.active = None
  BY <1>1, AuthorFacts, DiscardWell
<1>3. FateOnDisk(disk', fate')
  BY <1>1, AuthorFacts, DiscardFate DEF TypeOK
<1>4. \A k \in Keys : disk'.records[k] = None \/ disk'.records[k] = disk.records[k]
  BY <1>1, AuthorFacts, DiscardEffect DEF Emptied, Same
<1>5. NotExchanged(disk, disk')
  BY <1>4, PlaceTypes, AuthorFacts DEF NotExchanged
<1>6. MayFile(disk', c) /\ c.work = None
  <2>1. live[t].trail \in Works \cup {None}
    BY AuthorFacts DEF LiveContent, Content, Empty
  <2> QED BY <1>2, <2>1, EmptyMayFile
<1>7. AuthorTakesAway
  BY DEF AuthorTakesAway
<1> HIDE DEF c
<1> QED BY <1>1, <1>2, <1>3, <1>5, <1>6, <1>7, AuthorFacts DEF StepKeeps, ScreenOK, FateOnScreen, PointsAt

LEMMA DeleteKeeps ==
    ASSUME OneAuthor, AuthorInv, NEW t \in Tabs, NEW k \in ProjectKeys, Delete(t, k)
    PROVE  StepKeeps(t)
<1>1. /\ view[t] = "away" /\ view' = view /\ inflight' = inflight /\ sub' = sub
      /\ live' = live /\ timer' = timer
      /\ disk' = DeleteProject(disk, k)
      /\ fate' = [w \in Works |-> IF w \in WorkAt(disk, k) THEN "deleted" ELSE fate[w]]
  BY AuthorFacts DEF Delete, Decide, tabVars
<1>2. Cleared(disk, disk', k) /\ disk'.active = IF disk.active = k THEN None ELSE disk.active
  BY <1>1, AuthorFacts, DeleteEffect
<1>3. /\ WellFiled(disk')
      /\ MayFile(disk', live[t])
      /\ PointsAt(disk', live[t])
  BY <1>1, <1>2, AuthorFacts, OnScreen, PlaceTypes, ClearWell
<1>4. /\ disk' \in Disk
      /\ \A j \in Keys : disk'.records[j] = None \/ Same(disk, disk', j)
  BY <1>2 DEF Cleared, Emptied
<1>5. FateOnDisk(disk', fate)
  BY <1>2, <1>4, AuthorFacts, FewerFates DEF Same, IsProjectFrozen
<1>6. \A w \in Works : fate'[w] \in {"deleted", fate[w]}
  BY <1>1
<1>7. FateOnDisk(disk', fate')
  BY <1>5, <1>6 DEF FateOnDisk
<1>8. FateOnScreen(live[t], fate')
  <2>1. live[t].work \in Works \cup {None}
    BY AuthorFacts DEF LiveContent, Content, Empty
  <2> QED BY <1>6, <2>1, AuthorFacts DEF FateOnScreen
<1>9. NotExchanged(disk, disk')
  BY <1>4, PlaceTypes, AuthorFacts DEF NotExchanged, Same
<1>10. AuthorTakesAway
  BY DEF AuthorTakesAway
<1> QED BY <1>1, <1>3, <1>7, <1>8, <1>9, <1>10, AuthorFacts DEF StepKeeps, ScreenOK

LEMMA PublishSucceedsKeeps ==
    ASSUME OneAuthor, AuthorInv, NEW t \in Tabs, PublishSucceeds(t)
    PROVE  StepKeeps(t)
<1> DEFINE c == live[t]
<1>1. /\ inflight[t] \in Works /\ inflight[t] # None
      /\ inflight'[t] = None
      /\ view' = view /\ live' = live /\ sub' = sub /\ timer' = timer /\ fate' = fate
      /\ disk' = RecordProjectSubmission(disk, inflight[t], "none")
  BY AuthorFacts DEF PublishSucceeds, TypeOK, history
<1>2. view[t] = "output" /\ Instantiated(c) /\ sub[t] = c.key
  BY <1>1, AuthorFacts DEF ScreenOK
<1>3. PointsAt(disk, c)
  BY <1>2, OnScreen
<1>4. /\ WellFiled(disk')
      /\ MayFile(disk', c)
      /\ disk'.active = None
      /\ disk'.records = disk.records
      /\ \A k \in Keys : IsProjectFrozen(disk, k) => IsProjectFrozen(disk', k)
      /\ disk.active # None => IsProjectFrozen(disk', disk.active)
  BY <1>1, <1>2, <1>3, AuthorFacts, SubmissionWell
<1>5. disk' \in Disk
  BY <1>1, AuthorFacts, SubmissionType
<1>6. FateOnDisk(disk', fate)
  BY <1>4, <1>5, AuthorFacts, FewerFates
<1>7. WorkKept(disk, disk')
  BY <1>4, <1>5, AuthorFacts, KeptSame
<1>8. sub[t] \in Keys /\ IsProjectFrozen(disk', sub[t])
  <2>1. sub[t] \in Keys
    BY <1>2, AuthorFacts, PlaceTypes DEF Instantiated
  <2> QED BY <1>2, <1>4, <2>1, AuthorFacts, PlaceTypes DEF ScreenOK
<1> QED BY <1>1, <1>2, <1>4, <1>6, <1>7, <1>8, AuthorFacts
        DEF StepKeeps, ScreenOK, WorkKept, PointsAt

LEMMA RequestKeeps ==
    ASSUME OneAuthor, AuthorInv, NEW t \in Tabs, BeginPublish(t) \/ PublishFails(t)
    PROVE  StepKeeps(t)
<1>1. /\ view' = view /\ live' = live /\ sub' = sub /\ timer' = timer /\ fate' = fate
      /\ disk' = disk
      /\ inflight'[t] # None => view[t] = "output" /\ Instantiated(live[t])
  BY AuthorFacts DEF BeginPublish, PublishFails, TypeOK, history
<1> QED BY <1>1, AuthorFacts, KeepsIdle DEF StepKeeps, ScreenOK

LEMMA TabKeeps ==
    ASSUME OneAuthor, AuthorInv, NEW t \in Tabs, TabNext(t)
    PROVE  StepKeeps(t)
BY BootKeeps, OpenSurveyKeeps, OpenOutputKeeps, LeaveViewKeeps, CloseTabKeeps,
   FlushAndReloadKeeps, TimerFiresKeeps, AnswerKeeps, EditKeeps, CommitBaseKeeps,
   RenameInSurveyKeeps, RenameOnOutputKeeps, ResumeProjectKeeps, ViewTrailKeeps,
   StartOverKeeps, StartFreshSessionKeeps, DeleteKeeps, PublishSucceedsKeeps, RequestKeeps
   DEF TabNext

LEMMA NextAuthor ==
    ASSUME OneAuthor, AuthorInv, [Next]_vars
    PROVE  /\ AuthorInv'
           /\ NotExchanged(disk, disk')
           /\ AuthorTakesAway \/ WorkKept(disk, disk')
<1>1. TypeInv'
  BY NextTyped DEF AuthorInv
<1>2. CASE Next
  <2>1. PICK t \in Tabs : TabNext(t)
    BY <1>2 DEF Next
  <2>2. StepKeeps(t)
    BY <2>1, TabKeeps
  <2>3. \A u \in Tabs : u = t
    BY DEF OneAuthor
  <2>4. AuthorInv'
    BY <1>1, <2>2, <2>3 DEF AuthorInv, StepKeeps, Screen
  <2> QED BY <2>2, <2>4 DEF StepKeeps
<1>3. CASE UNCHANGED vars
  <2>1. disk \in Disk /\ disk' = disk
    BY <1>3 DEF vars, AuthorInv, TypeInv, TypeOK, Disk
  <2>2. AuthorInv'
    BY <1>1, <1>3 DEF vars, AuthorInv, Screen
  <2> QED BY <2>1, <2>2, KeepsIdle
<1> QED BY <1>2, <1>3

\* The promises that a run checks follow from the invariant, or hold of a step
\* that starts in it.
LEMMA AuthorPromises ==
    ASSUME AuthorInv
    PROVE  NoDuplicateFiling /\ DiscardedStaysGone /\ NothingUnscheduled
<1>1. disk \in Disk /\ WellFiled(disk)
  BY DEF AuthorInv, TypeInv, TypeOK, Disk
<1>2. NoDuplicateFiling
  BY <1>1, PlaceTypes DEF NoDuplicateFiling, WellFiled, OneDraftPerWork, Drafted, Filed, IsProjectFrozen
<1>3. DiscardedStaysGone
  BY <1>1, PlaceTypes DEF DiscardedStaysGone, AuthorInv, FateOnDisk, Filed
<1>4. NothingUnscheduled
  BY DEF NothingUnscheduled, AuthorInv, Screen, ScreenOK
<1> QED BY <1>2, <1>3, <1>4

LEMMA AuthorSteps ==
    ASSUME OneAuthor, AuthorInv, [Next]_vars
    PROVE  /\ ~AuthorTakesAway => \A w \in Works :
                (\E k \in ProjectKeys : w \in WorkAt(disk, k)) =>
                    \E k \in ProjectKeys : w \in WorkAt(disk', k)
           /\ \A k \in ProjectKeys :
                disk.records[k] # None /\ disk'.records[k] # None =>
                    disk'.records[k].work = disk.records[k].work
<1>1. NotExchanged(disk, disk') /\ (AuthorTakesAway \/ WorkKept(disk, disk'))
  BY NextAuthor
<1>2. ASSUME NEW d, NEW k \in ProjectKeys, NEW w
      PROVE  w \in WorkAt(d, k) <=> Filed(d, k, w)
  BY DraftStoreAssumption DEF WorkAt, Filed
<1>3. ASSUME WorkKept(disk, disk'), NEW w \in Works, NEW k \in ProjectKeys, w \in WorkAt(disk, k)
      PROVE  \E j \in ProjectKeys : w \in WorkAt(disk', j)
  BY <1>2, <1>3 DEF WorkKept
<1> QED BY <1>1, <1>3 DEF NotExchanged

LEMMA AuthorInvariant == ASSUME OneAuthor PROVE Spec => []AuthorInv
BY InitAuthor, NextAuthor, PTL DEF Spec

\* One author never sees two draft cards for one piece of work, whatever was
\* renamed, rebased, resumed, published and reloaded before.
THEOREM OneDraftCard == ASSUME OneAuthor PROVE Spec => []NoDuplicateFiling
BY AuthorInvariant, AuthorPromises, PTL

\* Work that one author has started over from, waiting for her publish answers,
\* never comes back as a draft: by no pending save, remount, migration or resume.
THEOREM DiscardedWorkStaysGone == ASSUME OneAuthor PROVE Spec => []DiscardedStaysGone
BY AuthorInvariant, AuthorPromises, PTL

\* What is on a mounted screen is stored, or its save is scheduled and will be
\* accepted, or the project is frozen.
THEOREM UnsavedIsScheduled == ASSUME OneAuthor PROVE Spec => []NothingUnscheduled
BY AuthorInvariant, AuthorPromises, PTL

\* No step but the author's own takes a listed project away.
THEOREM ListedWorkIsKept == ASSUME OneAuthor PROVE Spec => ListedWorkKept
<1>1. AuthorInv /\ [Next]_vars =>
        [~AuthorTakesAway => \A w \in Works :
          (\E k \in ProjectKeys : w \in WorkAt(disk, k)) =>
              \E k \in ProjectKeys : w \in WorkAt(disk', k)]_vars
  BY AuthorSteps
<1> QED BY <1>1, AuthorInvariant, PTL DEF Spec, ListedWorkKept

\* No step puts other work where a record already is.
THEOREM NothingIsOverwritten == ASSUME OneAuthor PROVE Spec => NoOverwriting
<1>1. AuthorInv /\ [Next]_vars =>
        [\A k \in ProjectKeys :
          disk.records[k] # None /\ disk'.records[k] # None =>
              disk'.records[k].work = disk.records[k].work]_vars
  BY AuthorSteps
<1> QED BY <1>1, AuthorInvariant, PTL DEF Spec, NoOverwriting
=============================================================================
