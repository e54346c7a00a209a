----------------------- MODULE ArtifactPipelineProofs -----------------------
(***************************************************************************)
(* Proofs about ArtifactPipeline for every set of keyboards, every number  *)
(* of runs under way, of edits and of the author's acts.  The invariant    *)
(* says which run the mounted hook still listens to and how its refs, the  *)
(* stage and the store follow the selection on screen.                     *)
(***************************************************************************)
EXTENDS ArtifactPipeline, TLAPS

-----------------------------------------------------------------------------
(* What the mounted hook holds.                                            *)

Kinds == {"idle", "error", "fetching", "compiling", "ready"}
Sources == Content \cup {Empty}

Hooks == [vfs : Sources \cup {None}, snapshot : Content \cup {None}, fetched : BOOLEAN, due : BOOLEAN,
          fills : Slots \cup {None}, committed : Keyboards \cup {None},
          seen : Keyboards \cup {None}, clicked : BOOLEAN]

Stores == [base : Keyboards \cup {None}, rev : 0..MaxRev,
           license : Keyboards \cup {None}, docs : Keyboards \cup {None}]

Strays == [preview : BOOLEAN, license : BOOLEAN, base : BOOLEAN]

\* Every variable has its type.
TypeOK ==
    /\ screen \in Screens
    /\ choice \in [Screens -> Selection \cup {None}]
    /\ stage \in [kind : Kinds, shows : Sources \cup {None}]
    /\ hook \in Hooks
    /\ runs \in [Slots -> Run \cup {None}]
    /\ pending \in Selection \cup {None}
    /\ decision \in Keyboards \cup {None}
    /\ store \in Stores
    /\ acts \in Nat
    /\ strayed \in Strays

\* The run whose answers the mounted hook still takes.
Current(rs, s) == rs[s] # None /\ rs[s].mounted /\ ~rs[s].superseded

\* The hook has one such run, and it is a run of the mounted screen; what was
\* fetched is gone while it fetches; a base that was seen is there.
HookInv ==
    /\ \A s, t \in Slots : Current(runs, s) /\ Current(runs, t) => s = t
    /\ \A s \in Slots : Current(runs, s) => runs[s].screen = screen
    /\ \A s \in Slots : Current(runs, s) /\ runs[s].at # "compile" =>
          /\ ~hook.fetched
          /\ runs[s].full
          /\ runs[s].at = "source" /\ hook.vfs = Empty => hook.fills = s
    /\ hook.vfs = Empty => ~hook.fetched
    /\ hook.seen # None => store.base # None
    /\ store.base # None => store.rev > 0

\* The selection on screen and what is projected onto it.
Shown == choice[screen]
Rev == Projected(screen, Shown, store)
Fresh(vfs) == hook.due \/ vfs.rev = Rev

\* The run, the file system and the stage are those of the selection, whatever
\* runs overtaken or left behind do.
Tracks ==
    /\ \A s \in Slots : Current(runs, s) =>
          /\ runs[s].of = Shown
          /\ stage.kind \in {"fetching", "compiling"}
          /\ runs[s].at = "source" => hook.vfs # None
          /\ runs[s].at = "compile" => hook.fetched
    /\ stage.kind = "ready" =>
          /\ hook.fetched
          /\ stage.shows # None
          /\ stage.shows.kb = Shown.kb
          /\ stage.shows.copy = Shown.copy
    /\ hook.fetched => hook.vfs # None

\* And they are at the newest revision, unless a transform is due; for the file
\* system the transform that is due is one that does project.
Newest ==
    /\ \A s \in Slots : Current(runs, s) /\ runs[s].at = "compile" => Fresh(runs[s].vfs)
    /\ stage.kind = "ready" => Fresh(stage.shows)
    /\ hook.fetched => hook.vfs.rev = Rev \/ (hook.due /\ Rev # 0)

Tracked ==
    /\ Tracks
    /\ ~strayed.preview => Newest
    /\ ~strayed.license /\ hook.fetched => store.license = Shown.kb

PipelineInv ==
    /\ TypeOK
    /\ HookInv
    /\ Shown # None => Tracked


-----------------------------------------------------------------------------
(* Values and types.                                                       *)

LEMMA Values ==
    /\ \A k \in Keyboards : k # None
    /\ \A sel \in Selection : sel # None /\ sel.kb \in Keyboards /\ sel.copy \in BOOLEAN
    /\ \A c \in Sources : c # None
    /\ \A c \in Content : c # Empty /\ c # None
    /\ \A r \in Run : r # None
    /\ \A s \in Slots : s # None
    /\ Empty \in [kb : {None}, copy : BOOLEAN, rev : 0..MaxRev]
    /\ 0 \in 0..MaxRev /\ 1 \in 0..MaxRev
<1>1. 0 \in 0..MaxRev /\ 1 \in 0..MaxRev
  BY ArtifactAssumption
<1>2. Empty.kb = None
  BY DEF Empty
<1>3. \A c \in Content : c.kb \in Keyboards
  BY DEF Content
<1>4. \A c \in Content : c # Empty
  BY <1>2, <1>3, ArtifactAssumption
<1>5. \A sel \in Selection : sel.kb \in Keyboards /\ sel.copy \in BOOLEAN
  BY DEF Selection
<1>6. Empty \in [kb : {None}, copy : BOOLEAN, rev : 0..MaxRev]
  BY <1>1 DEF Empty
<1> QED BY <1>1, <1>4, <1>5, <1>6, ArtifactAssumption DEF Sources

LEMMA NewRunType ==
    ASSUME NEW scr \in Screens, NEW sel \in Selection
    PROVE  /\ NewRun(scr, sel) \in Run
           /\ NewRun(scr, sel).screen = scr /\ NewRun(scr, sel).of = sel
           /\ NewRun(scr, sel).at = "engine" /\ NewRun(scr, sel).full
           /\ NewRun(scr, sel).mounted /\ ~NewRun(scr, sel).superseded
BY DEF NewRun, Run, Steps

LEMMA RecompilationType ==
    ASSUME NEW scr \in Screens, NEW sel \in Selection, NEW vfs \in Sources
    PROVE  LET r == Recompilation(scr, sel, vfs)
           IN  /\ r \in Run
               /\ r.screen = scr /\ r.of = sel
               /\ r.at = "compile" /\ r.vfs = vfs
               /\ r.mounted /\ ~r.superseded
BY NewRunType DEF Recompilation, NewRun, Run, Steps, Sources

LEMMA ProjectedType ==
    ASSUME NEW scr \in Screens, NEW sel \in Selection \cup {None}, NEW wc \in Stores
    PROVE  Projected(scr, sel, wc) \in 0..MaxRev
BY Values DEF Projected, Stores

LEMMA ProjectedContent ==
    ASSUME NEW c \in Content, NEW rev \in 0..MaxRev
    PROVE  /\ [c EXCEPT !.rev = rev] \in Content
           /\ [c EXCEPT !.rev = rev].rev = rev
BY DEF Content

\* Superseding and leaving: no run of the hook is current afterwards.
LEMMA SupersededRuns ==
    ASSUME NEW rs \in [Slots -> Run \cup {None}]
    PROVE  /\ Superseded(rs) \in [Slots -> Run \cup {None}]
           /\ \A s \in Slots : ~Current(Superseded(rs), s)
<1> SUFFICES ASSUME NEW s \in Slots
             PROVE  Superseded(rs)[s] \in Run \cup {None} /\ ~Current(Superseded(rs), s)
  BY DEF Superseded
<1>1. CASE rs[s] # None /\ rs[s].mounted
  <2>1. rs[s] \in Run
    BY <1>1
  <2>2. Superseded(rs)[s] = [rs[s] EXCEPT !.superseded = TRUE]
    BY <1>1 DEF Superseded
  <2>3. Superseded(rs)[s] \in Run /\ Superseded(rs)[s].superseded
    BY <2>1, <2>2 DEF Run
  <2> QED BY <2>3 DEF Current
<1>2. CASE ~(rs[s] # None /\ rs[s].mounted)
  BY <1>2 DEF Superseded, Current
<1> QED BY <1>1, <1>2

LEMMA DepartedRuns ==
    ASSUME NEW rs \in [Slots -> Run \cup {None}]
    PROVE  /\ Departed(rs) \in [Slots -> Run \cup {None}]
           /\ \A s \in Slots : ~Current(Departed(rs), s)
<1> SUFFICES ASSUME NEW s \in Slots
             PROVE  Departed(rs)[s] \in Run \cup {None} /\ ~Current(Departed(rs), s)
  BY DEF Departed
<1>1. CASE rs[s] # None
  <2>1. rs[s] \in Run
    BY <1>1
  <2>2. Departed(rs)[s] = [rs[s] EXCEPT !.mounted = FALSE]
    BY <1>1 DEF Departed
  <2>3. Departed(rs)[s] \in Run /\ ~Departed(rs)[s].mounted
    BY <2>1, <2>2 DEF Run
  <2> QED BY <2>3 DEF Current
<1>2. CASE rs[s] = None
  BY <1>2 DEF Departed, Current
<1> QED BY <1>1, <1>2

\* A run started among runs that are not current is the only current one.
OnlyCurrent(rs, s, r) ==
    /\ rs \in [Slots -> Run \cup {None}]
    /\ rs[s] = r
    /\ Current(rs, s)
    /\ \A t \in Slots : Current(rs, t) => t = s

LEMMA AddedRun ==
    ASSUME NEW rs \in [Slots -> Run \cup {None}], \A t \in Slots : ~Current(rs, t),
           NEW s \in Slots, NEW r \in Run, r.mounted, ~r.superseded
    PROVE  OnlyCurrent([rs EXCEPT ![s] = r], s, r)
BY Values DEF OnlyCurrent, Current

LEMMA Started ==
    ASSUME TypeOK, NEW s \in Slots, NEW r \in Run, r.mounted, ~r.superseded, Start(s, r)
    PROVE  OnlyCurrent(runs', s, r)
BY SupersededRuns, AddedRun DEF TypeOK, Start

LEMMA Ended ==
    ASSUME TypeOK, NEW s \in Slots, Ends(s)
    PROVE  /\ runs' \in [Slots -> Run \cup {None}]
           /\ \A t \in Slots : Current(runs', t) => Current(runs, t) /\ t # s /\ runs'[t] = runs[t]
BY DEF TypeOK, Ends, Current

LEMMA NoticedHook ==
    ASSUME NEW h \in Hooks, NEW sel, NEW wc
    PROVE  LET n == Noticed(h, sel, wc)
           IN  /\ n \in Hooks
               /\ n.vfs = h.vfs /\ n.snapshot = h.snapshot /\ n.fetched = h.fetched
               /\ n.fills = h.fills /\ n.seen = h.seen
               /\ n.committed = h.committed /\ n.clicked = h.clicked
               /\ n.due <=> \/ h.due
                            \/ h.fetched /\ Projected(screen, sel, wc) # Projected(screen, sel, store)
<1> DEFINE b == h.fetched /\ Projected(screen, sel, wc) # Projected(screen, sel, store)
<1>1. Noticed(h, sel, wc) = [h EXCEPT !.due = h.due \/ b]
  BY DEF Noticed
<1>2. b \in BOOLEAN
  OBVIOUS
<1> HIDE DEF b
<1>3. [h EXCEPT !.due = h.due \/ b] \in Hooks
  BY <1>2 DEF Hooks
<1> QED BY <1>1, <1>3 DEF Hooks, b

LEMMA StageTypes ==
    /\ Idle \in [kind : Kinds, shows : Sources \cup {None}] /\ Idle.kind = "idle"
    /\ Failed \in [kind : Kinds, shows : Sources \cup {None}] /\ Failed.kind = "error"
    /\ \A k \in {"fetching", "compiling"} :
          Waiting(k) \in [kind : Kinds, shows : Sources \cup {None}] /\ Waiting(k).kind = k
    /\ \A c \in Sources :
          Ready(c) \in [kind : Kinds, shows : Sources \cup {None}]
          /\ Ready(c).kind = "ready" /\ Ready(c).shows = c
BY DEF Idle, Failed, Waiting, Ready, Kinds

LEMMA InitPipeline == Init => PipelineInv
<1> SUFFICES ASSUME Init PROVE PipelineInv
  OBVIOUS
<1>1. hook \in Hooks /\ hook.vfs = None /\ ~hook.fetched /\ hook.seen = None
  BY DEF Init, FreshHook, Hooks
<1>2. store \in Stores /\ store.base = None
  BY Values DEF Init, Stores
<1>3. TypeOK
  BY <1>1, <1>2, StageTypes DEF Init, TypeOK, Screens, Strays
<1>4. HookInv
  BY <1>1, <1>2, Values DEF Init, HookInv, Current
<1>5. Shown = None
  BY <1>3 DEF Init, Shown, TypeOK
<1> QED BY <1>3, <1>4, <1>5 DEF PipelineInv

-----------------------------------------------------------------------------
(* What the author does.                                                   *)

LEMMA Known ==
    ASSUME PipelineInv
    PROVE  /\ TypeOK /\ HookInv
           /\ hook \in Hooks /\ store \in Stores
           /\ runs \in [Slots -> Run \cup {None}]
           /\ screen \in Screens
           /\ choice \in [Screens -> Selection \cup {None}]
           /\ Shown \in Selection \cup {None}
           /\ store.base \in Keyboards \cup {None}
           /\ Shown # None => Tracked /\ Tracks
           /\ Shown # None /\ ~strayed.preview => Newest
           /\ strayed \in Strays
BY DEF PipelineInv, TypeOK, Shown, Stores, Tracked

\* What is selected where the survey follows the base, or a screen mounts.
LEMMA SyncedTypes ==
    ASSUME PipelineInv
    PROVE  /\ Synced \subseteq Selection \cup {None}
           /\ store.base # None => Synced \subseteq Selection
           /\ \A scr \in Screens : Mounts(scr) \subseteq Selection \cup {None}
<1>1. \A c \in BOOLEAN : store.base # None => [kb |-> store.base, copy |-> c] \in Selection
  BY Known DEF Selection
<1>2. choice["survey"] # None => choice["survey"].copy \in BOOLEAN
  BY Known, Values DEF Screens
<1>3. ASSUME store.base # None PROVE Synced \subseteq Selection
  BY <1>1, <1>2, <1>3 DEF Synced
<1>4. Synced \subseteq Selection \cup {None}
  BY <1>3, Known DEF Synced, Screens
<1>5. ASSUME NEW scr \in Screens PROVE Mounts(scr) \subseteq Selection \cup {None}
  <2>1. CASE scr = "survey"
    BY <1>4, <2>1 DEF Mounts
  <2>2. CASE scr = "output"
    BY <1>1, <2>2 DEF Mounts
  <2>3. CASE scr = "compare"
    BY <2>3, Known DEF Mounts, Screens
  <2> QED BY <1>5, <2>1, <2>2, <2>3 DEF Screens
<1> QED BY <1>3, <1>4, <1>5

\* A full run has been started: nothing counts as fetched until it has fetched.
LEMMA FullRun ==
    ASSUME NEW s \in Slots, NEW sel \in Selection, screen' \in Screens,
           OnlyCurrent(runs', s, NewRun(screen', sel)),
           hook'.fetched = FALSE,
           hook'.seen # None => store'.base # None,
           store'.base # None => store'.rev > 0,
           Shown' # None => Shown' = sel /\ stage'.kind = "fetching"
    PROVE  HookInv' /\ (Shown' # None => Tracked')
<1>1. /\ \A t \in Slots : Current(runs', t) => t = s
      /\ runs'[s].at = "engine" /\ runs'[s].full /\ runs'[s].of = sel
      /\ runs'[s].screen = screen'
  BY NewRunType DEF OnlyCurrent
<1>2. HookInv'
  BY <1>1 DEF HookInv
<1>3. ASSUME Shown' # None PROVE Tracked'
  BY <1>1, <1>3 DEF Tracked, Tracks, Newest
<1> QED BY <1>2, <1>3

LEMMA FreshHookType ==
    ASSUME NEW base \in Keyboards \cup {None}
    PROVE  /\ FreshHook(base) \in Hooks
           /\ FreshHook(base).fetched = FALSE /\ FreshHook(base).due = FALSE
           /\ FreshHook(base).vfs = None /\ FreshHook(base).seen = base
           /\ FreshHook(base).committed = base /\ FreshHook(base).clicked = FALSE
BY DEF FreshHook, Hooks

LEMMA OpenScreenKeeps ==
    ASSUME PipelineInv, NEW scr \in Screens, OpenScreen(scr)
    PROVE  PipelineInv'
<1>1. PICK sel \in Mounts(scr) :
        LET started == IF sel = None /\ scr = "survey" THEN choice[scr] ELSE sel IN
        /\ choice' = [choice EXCEPT ![scr] = sel]
        /\ stage' = IF sel = None THEN Idle ELSE Waiting("fetching")
        /\ IF started = None
           THEN runs' = Departed(runs)
           ELSE \E s \in Slots : Free(s) /\ runs' = [Departed(runs) EXCEPT ![s] = NewRun(scr, started)]
  BY DEF OpenScreen
<1> DEFINE started == IF sel = None /\ scr = "survey" THEN choice[scr] ELSE sel
<1>2. /\ screen' = scr /\ hook' = FreshHook(store.base) /\ pending' = None
      /\ acts' = acts + 1
      /\ UNCHANGED <<decision, store>>
      /\ strayed' \in Strays
  BY Known DEF OpenScreen, Act, Strays
<1>3. sel \in Selection \cup {None} /\ started \in Selection \cup {None}
  BY Known, SyncedTypes
<1>4. choice' \in [Screens -> Selection \cup {None}] /\ Shown' = sel
  BY <1>1, <1>2, <1>3, Known DEF Shown
<1>5. /\ hook' \in Hooks /\ hook'.fetched = FALSE /\ hook'.due = FALSE
      /\ hook'.vfs = None /\ hook'.seen = store.base
  BY <1>2, Known, FreshHookType
<1>6. /\ Departed(runs) \in [Slots -> Run \cup {None}]
      /\ \A s \in Slots : ~Current(Departed(runs), s)
  BY Known, DepartedRuns
<1>7. stage' \in [kind : Kinds, shows : Sources \cup {None}]
  BY <1>1, StageTypes
<1>8. store.base # None => store.rev > 0
  BY Known DEF HookInv
<1>9. CASE started = None
  <2>1. runs' = Departed(runs) /\ Shown' = None
    BY <1>1, <1>4, <1>9
  <2>2. HookInv'
    BY <1>2, <1>5, <1>6, <1>8, <2>1, Values DEF HookInv, Sources
  <2>3. TypeOK'
    BY <1>2, <1>4, <1>5, <1>6, <1>7, <2>1, Known DEF TypeOK
  <2> QED BY <2>1, <2>2, <2>3 DEF PipelineInv
<1>10. CASE started # None
  <2>1. PICK s \in Slots : runs' = [Departed(runs) EXCEPT ![s] = NewRun(scr, started)]
    BY <1>1, <1>10
  <2>2. OnlyCurrent(runs', s, NewRun(screen', started))
    BY <1>2, <1>3, <1>6, <1>10, <2>1, AddedRun, NewRunType
  <2>3. Shown' # None => Shown' = started /\ stage'.kind = "fetching"
    BY <1>1, <1>4, StageTypes
  <2>4. HookInv' /\ (Shown' # None => Tracked')
    BY <1>2, <1>3, <1>5, <1>8, <1>10, <2>2, <2>3, FullRun
  <2>5. TypeOK'
    BY <1>2, <1>4, <1>5, <1>7, <2>2, Known DEF TypeOK, OnlyCurrent
  <2> QED BY <2>4, <2>5 DEF PipelineInv
<1> QED BY <1>9, <1>10

\* A run for selection sel is started on the mounted screen.
LEMMA RunForKeeps ==
    ASSUME PipelineInv, NEW s \in Slots, NEW sel \in Selection, RunFor(s, sel),
           choice' = [choice EXCEPT ![screen] = sel],
           acts' \in Nat, UNCHANGED <<screen, pending, decision, store, strayed>>
    PROVE  PipelineInv'
<1>1. OnlyCurrent(runs', s, NewRun(screen, sel))
  BY Known, Started, NewRunType DEF RunFor
<1>2. /\ stage' \in [kind : Kinds, shows : Sources \cup {None}]
      /\ stage'.kind = "fetching"
  BY StageTypes DEF RunFor
<1>3. hook' \in Hooks /\ hook'.fetched = FALSE /\ hook'.due = FALSE /\ hook'.seen = hook.seen
  BY Known DEF RunFor, Hooks
<1>4. choice' \in [Screens -> Selection \cup {None}] /\ Shown' = sel
  BY Known DEF Shown
<1>5. HookInv' /\ (Shown' # None => Tracked')
  BY <1>1, <1>2, <1>3, <1>4, Known, FullRun DEF HookInv
<1>6. TypeOK'
  BY <1>1, <1>2, <1>3, <1>4, Known DEF TypeOK, OnlyCurrent
<1> QED BY <1>5, <1>6 DEF PipelineInv

LEMMA SelectKeeps ==
    ASSUME PipelineInv, NEW sel \in Selection, Select(sel)
    PROVE  PipelineInv'
<1>1. PICK s \in Slots : RunFor(s, sel)
  BY DEF Select
<1>2. /\ choice' = [choice EXCEPT ![screen] = sel]
      /\ UNCHANGED <<screen, pending, decision, store, strayed>>
      /\ acts' \in Nat
  BY Known DEF Select, Act, TypeOK
<1> QED BY <1>1, <1>2, RunForKeeps

LEMMA AdoptLateKeeps ==
    ASSUME PipelineInv, AdoptLate
    PROVE  PipelineInv'
<1> DEFINE sel == [kb |-> store.base, copy |-> FALSE]
<1>1. sel \in Selection
  BY Known DEF AdoptLate, Selection
<1>2. /\ choice' = [choice EXCEPT ![screen] = sel]
      /\ \E s \in Slots : RunFor(s, sel)
      /\ acts' \in Nat /\ UNCHANGED <<screen, pending, decision, store, strayed>>
  BY Known DEF AdoptLate, TypeOK
<1> HIDE DEF sel
<1> QED BY <1>1, <1>2, RunForKeeps

LEMMA FollowBaseKeeps ==
    ASSUME PipelineInv, FollowBase
    PROVE  PipelineInv'
<1>1. PICK sel \in Synced :
        /\ choice' = [choice EXCEPT !["survey"] = sel]
        /\ IF sel = choice["survey"]
           THEN hook' = [hook EXCEPT !.seen = store.base] /\ UNCHANGED <<runs, stage>>
           ELSE /\ \E s \in Slots : Start(s, NewRun(screen, sel))
                /\ hook' = [hook EXCEPT !.seen = store.base, !.fetched = FALSE, !.due = FALSE,
                                        !.clicked = FALSE]
                /\ stage' = Waiting("fetching")
  BY DEF FollowBase
<1>2. screen = "survey" /\ hook.seen # store.base /\ UNCHANGED <<screen, pending, decision, store, acts, strayed>>
  BY DEF FollowBase, FollowIsDue
<1>3. store.base # None
  BY <1>2, Known DEF HookInv
<1>4. sel \in Selection
  BY <1>3, SyncedTypes
<1>5. choice' \in [Screens -> Selection \cup {None}] /\ Shown' = sel
  BY <1>1, <1>2, <1>4, Known DEF Shown
<1>6. CASE sel = choice["survey"]
  <2>1. /\ hook' \in Hooks /\ hook'.seen = store.base /\ hook'.vfs = hook.vfs
        /\ hook'.fetched = hook.fetched /\ hook'.due = hook.due /\ hook'.fills = hook.fills
        /\ runs' = runs /\ stage' = stage
    BY <1>1, <1>6, Known DEF Hooks
  <2>2. Shown = sel
    BY <1>2, <1>6 DEF Shown
  <2>3. Rev' = Rev
    BY <1>2, <1>5, <2>2 DEF Rev
  <2>4. HookInv'
    BY <1>2, <1>3, <2>1, Known DEF HookInv
  <2>5. Shown' # None => Tracked'
    BY <1>2, <1>5, <2>1, <2>2, <2>3, Known DEF Tracked, Tracks, Newest, Fresh
  <2>6. TypeOK'
    BY <1>2, <1>5, <2>1, Known DEF TypeOK
  <2> QED BY <2>4, <2>5, <2>6 DEF PipelineInv
<1>7. CASE sel # choice["survey"]
  <2>1. PICK s \in Slots : Start(s, NewRun(screen, sel))
    BY <1>1, <1>7
  <2>2. OnlyCurrent(runs', s, NewRun(screen, sel))
    BY <1>4, <2>1, Known, Started, NewRunType
  <2>3. hook' \in Hooks /\ hook'.fetched = FALSE /\ hook'.due = FALSE /\ hook'.seen = store.base
    BY <1>1, <1>7, Known DEF Hooks
  <2>4. stage' \in [kind : Kinds, shows : Sources \cup {None}] /\ stage'.kind = "fetching"
    BY <1>1, <1>7, StageTypes
  <2>5. HookInv' /\ (Shown' # None => Tracked')
    BY <1>2, <1>3, <1>4, <1>5, <2>2, <2>3, <2>4, Known, FullRun DEF HookInv
  <2>6. TypeOK'
    BY <1>2, <1>5, <2>2, <2>3, <2>4, Known DEF TypeOK, OnlyCurrent
  <2> QED BY <2>5, <2>6 DEF PipelineInv
<1> QED BY <1>6, <1>7

LEMMA RetryKeeps ==
    ASSUME PipelineInv, Retry
    PROVE  PipelineInv'
<1>1. PICK s \in Slots : /\ Start(s, NewRun(screen, choice[screen]))
                         /\ hook' = [hook EXCEPT !.fetched = FALSE]
  BY DEF Retry
<1>2. /\ Shown \in Selection /\ Shown = choice[screen]
      /\ stage' = Waiting("fetching") /\ acts' = acts + 1
      /\ UNCHANGED <<screen, choice, pending, decision, store, strayed>>
  BY Known DEF Retry, Act, Shown
<1>3. OnlyCurrent(runs', s, NewRun(screen, Shown))
  BY <1>1, <1>2, Known, Started, NewRunType
<1>4. hook' \in Hooks /\ hook'.fetched = FALSE /\ hook'.due = hook.due /\ hook'.seen = hook.seen
  BY <1>1, Known DEF Hooks
<1>5. stage' \in [kind : Kinds, shows : Sources \cup {None}] /\ stage'.kind = "fetching"
  BY <1>2, StageTypes
<1>6. Shown' = Shown /\ Rev' = Rev
  BY <1>2 DEF Shown, Rev
<1>7. HookInv' /\ (Shown' # None => Tracked')
  BY <1>2, <1>3, <1>4, <1>5, <1>6, Known, Values, FullRun DEF HookInv
<1>8. TypeOK'
  BY <1>2, <1>3, <1>4, <1>5, Known DEF TypeOK, OnlyCurrent
<1> QED BY <1>7, <1>8 DEF PipelineInv

\* Nothing is selected any more, so nothing tracks it.
LEMMA DeselectKeeps ==
    ASSUME PipelineInv, Deselect
    PROVE  PipelineInv'
<1>1. /\ stage' = Idle /\ acts' = acts + 1
      /\ UNCHANGED <<screen, runs, pending, decision, store, strayed>>
  BY DEF Deselect, Act
<1>2. choice' \in [Screens -> Selection \cup {None}] /\ Shown' = None
  BY Known DEF Deselect, Shown
<1>3. hook' \in Hooks /\ hook'.vfs = None /\ hook'.fetched = hook.fetched /\ hook'.seen = hook.seen
  BY Known DEF Deselect, Hooks
<1>4. HookInv'
  BY <1>1, <1>3, Known, Values DEF HookInv, Sources
<1>5. TypeOK'
  BY <1>1, <1>2, <1>3, Known, StageTypes DEF TypeOK
<1> QED BY <1>2, <1>4, <1>5 DEF PipelineInv

\* A compilation of file system vfs, at the newest revision unless one is due.
LEMMA Recompiles ==
    ASSUME PipelineInv, NEW s \in Slots, NEW vfs \in Sources, Shown # None,
           Start(s, Recompilation(screen, Shown, vfs)),
           stage' = Waiting("compiling"), acts' \in Nat,
           UNCHANGED <<screen, choice, pending, decision, store, strayed>>,
           hook' \in Hooks, hook'.seen = hook.seen, hook'.fetched = hook.fetched,
           hook'.vfs = Empty => hook.vfs = Empty,
           hook.fetched, hook'.vfs # None,
           ~strayed.preview => /\ hook'.due \/ vfs.rev = Rev
                               /\ hook'.vfs.rev = Rev \/ (hook'.due /\ Rev # 0)
    PROVE  PipelineInv'
<1>1. /\ Recompilation(screen, Shown, vfs) \in Run
      /\ Recompilation(screen, Shown, vfs).mounted /\ ~Recompilation(screen, Shown, vfs).superseded
      /\ Recompilation(screen, Shown, vfs).of = Shown
      /\ Recompilation(screen, Shown, vfs).at = "compile"
      /\ Recompilation(screen, Shown, vfs).screen = screen
      /\ Recompilation(screen, Shown, vfs).vfs = vfs
  BY Known, RecompilationType
<1>2. OnlyCurrent(runs', s, Recompilation(screen, Shown, vfs))
  BY <1>1, Known, Started
<1>3. /\ \A t \in Slots : Current(runs', t) => t = s
      /\ runs'[s].of = Shown /\ runs'[s].at = "compile" /\ runs'[s].vfs = vfs
      /\ runs'[s].screen = screen
  BY <1>1, <1>2 DEF OnlyCurrent
<1>4. stage' \in [kind : Kinds, shows : Sources \cup {None}] /\ stage'.kind = "compiling"
  BY StageTypes
<1>5. Shown' = Shown /\ Rev' = Rev
  BY DEF Shown, Rev
<1>6. HookInv'
  BY <1>3, Known DEF HookInv
<1>7. Shown' # None => Tracked'
  BY <1>3, <1>4, <1>5, Known DEF Tracked, Tracks, Newest, Fresh
<1>8. TypeOK'
  BY <1>2, <1>4, Known DEF TypeOK, OnlyCurrent
<1> QED BY <1>6, <1>7, <1>8 DEF PipelineInv

LEMMA RecompileKeeps ==
    ASSUME PipelineInv, Recompile
    PROVE  PipelineInv'
<1>1. /\ Shown # None /\ Shown = choice[screen] /\ hook.vfs # None /\ stage.kind = "ready"
      /\ stage' = Waiting("compiling") /\ acts' = acts + 1
      /\ \E s \in Slots : Start(s, Recompilation(screen, Shown, hook.vfs))
      /\ UNCHANGED <<screen, choice, hook, pending, decision, store, strayed>>
  BY DEF Recompile, Shown, Act
<1>2. hook.vfs \in Sources
  BY <1>1, Known DEF Hooks
<1>3. hook.fetched
  BY <1>1, Known DEF Tracks
<1>4. acts' \in Nat
  BY <1>1, Known DEF TypeOK
<1>5. PICK s \in Slots : Start(s, Recompilation(screen, Shown, hook.vfs))
  BY <1>1
<1>6. /\ hook' \in Hooks /\ hook'.seen = hook.seen /\ hook'.fetched = hook.fetched
      /\ hook'.vfs = hook.vfs
      /\ hook'.due => hook.due
      /\ hook.due => hook'.due
  BY <1>1, Known
<1>7. ~strayed.preview => /\ hook'.due \/ hook.vfs.rev = Rev
                          /\ hook'.vfs.rev = Rev \/ (hook'.due /\ Rev # 0)
  BY <1>1, <1>3, <1>6, Known DEF Newest
<1>8. UNCHANGED <<screen, choice, pending, decision, store, strayed>>
  BY <1>1
<1> QED BY <1>1, <1>2, <1>3, <1>4, <1>5, <1>6, <1>7, <1>8, Recompiles

LEMMA TransformDueKeeps ==
    ASSUME PipelineInv, TransformDue
    PROVE  PipelineInv'
<1> DEFINE source == IF hook.snapshot # None THEN hook.snapshot ELSE hook.vfs
           projected == IF Rev = 0 THEN hook.vfs ELSE [source EXCEPT !.rev = Rev]
<1>1. /\ hook.due
      /\ UNCHANGED <<screen, choice, pending, decision, store, acts, strayed>>
      /\ acts' \in Nat
  BY Known DEF TransformDue, TypeOK
<1>2. Shown' = Shown /\ Rev' = Rev
  BY <1>1 DEF Shown, Rev
<1>3. CASE hook.fetched /\ Shown # None /\ hook.vfs # None
  <2>1. /\ hook' = [hook EXCEPT !.due = FALSE, !.vfs = projected, !.fills = IF Rev = 0 THEN @ ELSE None]
        /\ \E s \in Slots : Start(s, Recompilation(screen, Shown, projected))
        /\ stage' = Waiting("compiling")
    BY <1>3 DEF TransformDue, Shown, Rev
  <2>2. hook.vfs \in Content /\ source \in Content
    BY <1>3, Known DEF HookInv, Hooks, Sources
  <2>3. Rev \in 0..MaxRev
    BY Known, ProjectedType DEF Rev
  <2>4. projected \in Content /\ (Rev # 0 => projected.rev = Rev)
    BY <2>2, <2>3, ProjectedContent
  <2>5. projected \in Sources /\ projected # None /\ projected # Empty
    BY <2>4, Values DEF Sources
  <2> HIDE DEF projected
  <2>6. /\ hook' \in Hooks /\ hook'.vfs = projected /\ hook'.due = FALSE
        /\ hook'.seen = hook.seen /\ hook'.fetched = hook.fetched
    BY <2>1, <2>5, Known DEF Hooks
  <2>7. ~strayed.preview => projected.rev = Rev
    <3>1. CASE Rev # 0
      BY <2>4, <3>1
    <3>2. CASE Rev = 0
      BY <1>3, <3>2, Known DEF Newest, projected
    <3> QED BY <3>1, <3>2
  <2> QED BY <1>1, <1>3, <2>1, <2>5, <2>6, <2>7, Recompiles
<1>4. CASE ~(hook.fetched /\ Shown # None /\ hook.vfs # None)
  <2>1. /\ hook' = [hook EXCEPT !.due = FALSE]
        /\ UNCHANGED <<runs, stage>>
    BY <1>4 DEF TransformDue, Shown
  <2>2. /\ hook' \in Hooks /\ hook'.due = FALSE /\ hook'.vfs = hook.vfs /\ hook'.fills = hook.fills
        /\ hook'.seen = hook.seen /\ hook'.fetched = hook.fetched
    BY <2>1, Known DEF Hooks
  <2>3. TypeOK'
    BY <1>1, <2>1, <2>2, Known DEF TypeOK
  <2>4. HookInv'
    BY <1>1, <2>1, <2>2, Known DEF HookInv
  <2>5. ASSUME Shown' # None PROVE Tracked'
    <3>1. Tracks /\ ~hook.fetched
      BY <1>1, <1>2, <1>4, <2>5, Known DEF Tracks
    <3> QED BY <1>1, <1>2, <2>1, <2>2, <3>1 DEF Tracked, Tracks, Newest
  <2> QED BY <2>3, <2>4, <2>5 DEF PipelineInv
<1> QED BY <1>3, <1>4

-----------------------------------------------------------------------------
(* The working copy changes, or one await of a run ends.                   *)

\* No run is added, the file system stays, and a moved revision is noticed.
LEMMA HookSettles ==
    ASSUME HookInv, screen' = screen, hook'.fetched = hook.fetched, hook'.vfs = hook.vfs, hook'.fills = hook.fills,
           hook'.seen # None => store'.base # None,
           store'.base # None => store'.rev > 0,
           \A s \in Slots : Current(runs', s) => Current(runs, s) /\ runs'[s] = runs[s]
    PROVE  HookInv'
BY DEF HookInv

\* The stage stays, or shows the end of the current run.
StageSettles ==
    \/ stage' = stage
    \/ /\ \A s \in Slots : ~Current(runs', s)
       /\ \/ stage'.kind = "error"
          \/ \E s \in Slots : /\ Current(runs, s)
                              /\ runs[s].at = "compile"
                              /\ Compilable(runs[s])
                              /\ stage'.kind = "ready"
                              /\ stage'.shows = runs[s].vfs
                              /\ stage'.shows # None

\* The working copy moves, or a run ends: the hook goes on with what it has.
Settles ==
    /\ screen' = screen /\ choice' = choice
    /\ hook'.fetched = hook.fetched /\ hook'.vfs = hook.vfs
    /\ \A s \in Slots : Current(runs', s) => Current(runs, s) /\ runs'[s] = runs[s]
    /\ StageSettles

\* The run whose artifact the stage comes to show.
LEMMA ShownRun ==
    ASSUME StageSettles, stage' # stage, stage'.kind = "ready"
    PROVE  \E s \in Slots : /\ Current(runs, s)
                            /\ runs[s].at = "compile"
                            /\ Compilable(runs[s])
                            /\ stage'.shows = runs[s].vfs
                            /\ stage'.shows # None
BY DEF StageSettles

LEMMA TracksSettle ==
    ASSUME Tracks, Settles
    PROVE  Tracks'
<1>1. Shown' = Shown
  BY DEF Settles, Shown
<1>2. ASSUME NEW s \in Slots, Current(runs', s)
      PROVE  /\ runs'[s].of = Shown'
             /\ stage'.kind \in {"fetching", "compiling"}
             /\ runs'[s].at = "source" => hook'.vfs # None
             /\ runs'[s].at = "compile" => hook'.fetched
  <2>1. Current(runs, s) /\ runs'[s] = runs[s] /\ stage' = stage
    BY <1>2 DEF Settles, StageSettles
  <2> QED BY <1>1, <2>1 DEF Tracks, Settles
<1>3. ASSUME stage'.kind = "ready"
      PROVE  /\ hook'.fetched
             /\ stage'.shows # None
             /\ stage'.shows.kb = Shown'.kb
             /\ stage'.shows.copy = Shown'.copy
  <2>1. CASE stage' = stage
    BY <1>1, <1>3, <2>1 DEF Tracks, Settles
  <2>2. CASE stage' # stage
    <3>1. PICK s \in Slots : /\ Current(runs, s)
                             /\ runs[s].at = "compile"
                             /\ Compilable(runs[s])
                             /\ stage'.shows = runs[s].vfs
                             /\ stage'.shows # None
      BY <1>3, <2>2, ShownRun DEF Settles
    <3>2. hook.fetched /\ runs[s].of = Shown
      BY <3>1 DEF Tracks
    <3> QED BY <1>1, <3>1, <3>2 DEF Compilable, Settles
  <2> QED BY <2>1, <2>2
<1>4. hook'.fetched => hook'.vfs # None
  BY DEF Tracks, Settles
<1> QED BY <1>2, <1>3, <1>4 DEF Tracks

LEMMA NewestSettles ==
    ASSUME Tracks, Newest, Settles,
           hook'.due <=> hook.due \/ (hook.fetched /\ Rev' # Rev),
           Rev' # Rev => Rev' # 0
    PROVE  Newest'
<1>1. \A vfs : hook.fetched /\ Fresh(vfs) => hook'.due \/ vfs.rev = Rev'
  BY DEF Fresh
<1>2. ASSUME NEW s \in Slots, Current(runs', s), runs'[s].at = "compile"
      PROVE  hook'.due \/ runs'[s].vfs.rev = Rev'
  <2>1. Current(runs, s) /\ runs'[s] = runs[s]
    BY <1>2 DEF Settles
  <2>2. hook.fetched /\ Fresh(runs[s].vfs)
    BY <1>2, <2>1 DEF Tracks, Newest
  <2> QED BY <1>1, <2>1, <2>2
<1>3. ASSUME stage'.kind = "ready" PROVE hook'.due \/ stage'.shows.rev = Rev'
  <2>1. CASE stage' = stage
    <3>1. hook.fetched /\ Fresh(stage.shows)
      BY <1>3, <2>1 DEF Tracks, Newest
    <3> QED BY <1>1, <2>1, <3>1
  <2>2. CASE stage' # stage
    <3>1. PICK s \in Slots : /\ Current(runs, s)
                             /\ runs[s].at = "compile"
                             /\ stage'.shows = runs[s].vfs
      BY <1>3, <2>2, ShownRun DEF Settles
    <3>2. hook.fetched /\ Fresh(runs[s].vfs)
      BY <3>1 DEF Tracks, Newest
    <3> QED BY <1>1, <3>1, <3>2
  <2> QED BY <2>1, <2>2
<1>4. hook'.fetched => hook'.vfs.rev = Rev' \/ (hook'.due /\ Rev' # 0)
  BY DEF Newest, Settles
<1> QED BY <1>2, <1>3, <1>4 DEF Newest, Fresh

LEMMA TrackedSettles ==
    ASSUME PipelineInv, Settles,
           store'.license = store.license, strayed'.license = strayed.license,
           ~strayed'.preview => /\ ~strayed.preview
                                /\ hook'.due <=> hook.due \/ (hook.fetched /\ Rev' # Rev)
                                /\ Rev' # Rev => Rev' # 0
    PROVE  Shown' # None => Tracked'
<1> SUFFICES ASSUME Shown' # None PROVE Tracked'
  OBVIOUS
<1>1. Shown' = Shown
  BY DEF Settles, Shown
<1>2. Tracks /\ Tracks'
  BY <1>1, Known, TracksSettle
<1>3. ~strayed'.preview => Newest'
  BY <1>1, <1>2, Known, NewestSettles
<1>4. ~strayed'.license /\ hook'.fetched => store'.license = Shown'.kb
  BY <1>1, Known DEF Tracked, Settles
<1> QED BY <1>2, <1>3, <1>4 DEF Tracked

LEMMA ConfirmKeeps ==
    ASSUME PipelineInv, Confirm
    PROVE  PipelineInv'
<1>1. /\ acts' = acts + 1
      /\ UNCHANGED <<screen, choice, stage, runs, pending, store, strayed>>
  BY DEF Confirm, Act
<1>2. decision' \in Keyboards \cup {None}
  <2>1. choice["survey"] \in Selection
    BY Known DEF Confirm, Screens
  <2> QED BY <2>1, Values DEF Confirm
<1>3. /\ hook' \in Hooks /\ hook'.vfs = hook.vfs /\ hook'.fetched = hook.fetched
      /\ hook'.due = hook.due /\ hook'.fills = hook.fills /\ hook'.seen = hook.seen
  BY Known DEF Confirm, Hooks
<1>4. TypeOK'
  BY <1>1, <1>2, <1>3, Known DEF TypeOK
<1>5. HookInv'
  BY <1>1, <1>3, Known, HookSettles DEF HookInv
<1>6. Shown' = Shown /\ Rev' = Rev
  BY <1>1 DEF Shown, Rev
<1>7. Shown' # None => Tracked'
  BY <1>1, <1>3, <1>6, Known, TrackedSettles DEF Settles, StageSettles
<1> QED BY <1>4, <1>5, <1>7 DEF PipelineInv

\* A working copy with another base.
LEMMA RebasedStore ==
    ASSUME NEW wc \in Stores, NEW kb \in Keyboards
    PROVE  LET n == [wc EXCEPT !.base = kb, !.rev = 1]
           IN  n \in Stores /\ n.base = kb /\ n.rev = 1 /\ n.license = wc.license
<1>1. 1 \in 0..MaxRev
  BY Values
<1> QED BY <1>1 DEF Stores

LEMMA CommitDueKeeps ==
    ASSUME PipelineInv, CommitDue
    PROVE  PipelineInv'
<1> DEFINE kb == pending.kb
           n == Noticed(hook, choice[screen], store')
<1>1. /\ screen = "survey" /\ pending # None /\ Shown # None /\ Shown.kb = kb
      /\ store' = IF store.base = kb THEN store ELSE [store EXCEPT !.base = kb, !.rev = 1]
      /\ hook' = [n EXCEPT !.committed = kb, !.seen = store'.base]
      /\ UNCHANGED <<screen, choice, stage, runs, pending, decision, acts, strayed>>
  BY DEF CommitDue, CommitIsDue, Commits, Shown
<1>2. kb \in Keyboards /\ kb # None
  BY <1>1, Known, Values DEF TypeOK
<1>3. /\ store' \in Stores /\ store'.base = kb /\ store'.license = store.license
      /\ store'.rev > 0
  <2>1. CASE store.base = kb
    BY <1>1, <1>2, <2>1, Known DEF HookInv
  <2>2. CASE store.base # kb
    <3>1. store' \in Stores /\ store'.base = kb /\ store'.rev = 1 /\ store'.license = store.license
      BY <1>1, <1>2, <2>2, Known, RebasedStore
    <3> QED BY <3>1
  <2> QED BY <2>1, <2>2
<1>4. /\ n \in Hooks
      /\ n.vfs = hook.vfs /\ n.fetched = hook.fetched /\ n.fills = hook.fills
      /\ n.due <=> \/ hook.due
                   \/ hook.fetched /\ Projected(screen, Shown, store') # Rev
  BY Known, NoticedHook DEF Rev, Shown
<1> HIDE DEF n, kb
<1>5. /\ hook' \in Hooks
      /\ hook'.vfs = n.vfs /\ hook'.fetched = n.fetched /\ hook'.fills = n.fills
      /\ hook'.due = n.due /\ hook'.seen = kb
  BY <1>1, <1>2, <1>3, <1>4 DEF Hooks
<1>6. Shown' = Shown /\ Rev' = Projected(screen, Shown, store')
  BY <1>1 DEF Shown, Rev
<1>7. Rev' # 0
  BY <1>1, <1>3, <1>6 DEF Projected
<1>8. TypeOK'
  BY <1>1, <1>3, <1>5, Known DEF TypeOK
<1>9. HookInv'
  BY <1>1, <1>2, <1>3, <1>4, <1>5, Known, HookSettles DEF HookInv
<1>10. Shown' # None => Tracked'
  BY <1>1, <1>3, <1>4, <1>5, <1>6, <1>7, Known, TrackedSettles DEF Settles, StageSettles
<1> QED BY <1>8, <1>9, <1>10 DEF PipelineInv

LEMMA EditKeeps ==
    ASSUME PipelineInv, Edit
    PROVE  PipelineInv'
<1>1. /\ screen # "compare" /\ store.base # None /\ store.rev < MaxRev
      /\ store' = [store EXCEPT !.rev = store.rev + 1]
      /\ hook' = Noticed(hook, choice[screen], store')
      /\ acts' = acts + 1
      /\ UNCHANGED <<screen, choice, stage, runs, pending, decision, strayed>>
  BY DEF Edit, Act
<1>2. /\ store' \in Stores /\ store'.base = store.base /\ store'.license = store.license
      /\ store'.rev > 0
  BY <1>1, Known, ArtifactAssumption DEF Stores
<1>3. Shown' = Shown /\ Rev' = Projected(screen, Shown, store')
  BY <1>1 DEF Shown, Rev
<1>4. /\ hook' \in Hooks
      /\ hook'.vfs = hook.vfs /\ hook'.fetched = hook.fetched
      /\ hook'.fills = hook.fills /\ hook'.seen = hook.seen
      /\ hook'.due <=> hook.due \/ (hook.fetched /\ Rev' # Rev)
  BY <1>1, <1>3, Known, NoticedHook DEF Rev, Shown
<1>5. Rev' # Rev => Rev' # 0
  <2>1. CASE Shown # None /\ store.base = Shown.kb
    BY <1>1, <1>2, <1>3, <2>1 DEF Projected
  <2>2. CASE ~(Shown # None /\ store.base = Shown.kb)
    BY <1>2, <1>3, <2>2 DEF Projected, Rev
  <2> QED BY <2>1, <2>2
<1>6. TypeOK'
  BY <1>1, <1>2, <1>4, Known DEF TypeOK
<1>7. HookInv'
  BY <1>1, <1>2, <1>4, Known, HookSettles DEF HookInv
<1>8. Shown' # None => Tracked'
  BY <1>1, <1>2, <1>3, <1>4, <1>5, Known, TrackedSettles DEF Settles, StageSettles
<1> QED BY <1>6, <1>7, <1>8 DEF PipelineInv

\* A run ends, or is dropped, with or without an error.
LEMMA EndKeeps ==
    ASSUME PipelineInv, NEW s \in Slots, Ends(s),
           UNCHANGED <<screen, choice, hook, pending, decision, store, acts, strayed>>,
           \/ UNCHANGED stage
           \/ Current(runs, s) /\ stage' = Failed
    PROVE  PipelineInv'
<1>1. /\ runs' \in [Slots -> Run \cup {None}]
      /\ \A t \in Slots : Current(runs', t) => Current(runs, t) /\ t # s /\ runs'[t] = runs[t]
  BY Known, Ended
<1>2. StageSettles
  BY <1>1, Known, StageTypes DEF StageSettles, HookInv
<1>3. TypeOK'
  BY <1>1, Known, StageTypes DEF TypeOK
<1>4. HookInv'
  BY <1>1, Known, HookSettles DEF HookInv
<1>5. Shown' = Shown /\ Rev' = Rev
  BY DEF Shown, Rev
<1>6. Shown' # None => Tracked'
  BY <1>1, <1>2, <1>5, Known, TrackedSettles DEF Settles
<1> QED BY <1>3, <1>4, <1>6 DEF PipelineInv

LEMMA FailsKeeps ==
    ASSUME PipelineInv, NEW s \in Slots, EngineFails(s) \/ SourceFails(s) \/ CompileFails(s)
    PROVE  PipelineInv'
<1>1. /\ runs[s] # None /\ Ends(s)
      /\ UNCHANGED <<screen, choice, hook, pending, decision, store, acts, strayed>>
      /\ IF runs[s].superseded THEN UNCHANGED stage ELSE Shows(s, Failed)
  BY DEF EngineFails, SourceFails, CompileFails
<1>2. \/ UNCHANGED stage
      \/ Current(runs, s) /\ stage' = Failed
  BY <1>1 DEF Shows, Current
<1> QED BY <1>1, <1>2, EndKeeps

LEMMA EngineLoadsKeeps ==
    ASSUME PipelineInv, NEW s \in Slots, EngineLoads(s)
    PROVE  PipelineInv'
<1> DEFINE r == runs[s]
           docs == \/ r.screen = "survey"
                   \/ r.screen = "output" /\ store.base # r.of.kb
           q == [r EXCEPT !.at = "source", !.writesDocs = docs]
<1>1. /\ r # None /\ r \in Run /\ r.at = "engine"
      /\ UNCHANGED <<screen, choice, stage, pending, decision, store, acts, strayed>>
  BY Known DEF EngineLoads
<1>2. CASE r.superseded
  BY <1>1, <1>2, EndKeeps DEF EngineLoads
<1>3. CASE ~r.superseded
  <2>1. /\ runs' = [runs EXCEPT ![s].at = "source", ![s].writesDocs = docs]
        /\ hook' = IF r.mounted THEN [hook EXCEPT !.vfs = Empty, !.fills = s] ELSE hook
    BY <1>3 DEF EngineLoads
  <2>2. runs' = [runs EXCEPT ![s] = q]
    BY <2>1, <1>1, Known
  <2>3. docs \in BOOLEAN
    OBVIOUS
  <2> HIDE DEF docs
  <2>4. /\ q \in Run /\ q.at = "source" /\ q.of = r.of /\ q.full = r.full /\ q.screen = r.screen
        /\ q.mounted = r.mounted /\ q.superseded = r.superseded
    BY <1>1, <2>3 DEF Run, Steps
  <2> HIDE DEF q
  <2>5. /\ runs' \in [Slots -> Run \cup {None}]
        /\ runs'[s] = q
        /\ \A t \in Slots \ {s} : runs'[t] = runs[t]
    BY <2>2, <2>4, Known
  <2>6. \A t \in Slots : Current(runs', t) <=> Current(runs, t)
    BY <1>1, <2>4, <2>5, Values DEF Current
  <2>7. Shown' = Shown /\ Rev' = Rev
    BY <1>1 DEF Shown, Rev
  <2>8. CASE r.mounted
    <3>1. /\ hook' \in Hooks /\ hook'.vfs = Empty /\ hook'.fills = s
          /\ hook'.fetched = hook.fetched /\ hook'.due = hook.due /\ hook'.seen = hook.seen
      BY <2>1, <2>8, Known DEF Hooks, Sources
    <3>2. Current(runs, s) /\ \A t \in Slots : Current(runs, t) => t = s
      BY <1>1, <1>3, <2>8, Known DEF Current, HookInv
    <3>3. ~hook.fetched /\ r.full
      BY <1>1, <3>2, Known DEF HookInv
    <3>4. TypeOK'
      BY <1>1, <2>5, <3>1, Known DEF TypeOK
    <3>5. HookInv'
      BY <1>1, <2>4, <2>5, <2>6, <3>1, <3>2, <3>3, Known DEF HookInv
    <3>6. ASSUME Shown' # None PROVE Tracked'
      <4>1. Tracks
        BY <1>1, <2>7, <3>6, Known
      <4> QED BY <1>1, <2>4, <2>5, <2>6, <2>7, <3>1, <3>2, <3>3, <4>1, Values
              DEF Tracked, Tracks, Newest, Sources
    <3> QED BY <3>4, <3>5, <3>6 DEF PipelineInv
  <2>9. CASE ~r.mounted
    <3>1. hook' = hook
      BY <2>1, <2>9
    <3>2. \A t \in Slots : Current(runs', t) => t # s /\ runs'[t] = runs[t]
      BY <2>5, <2>6, <2>9 DEF Current
    <3>3. TypeOK'
      BY <1>1, <2>5, <3>1, Known DEF TypeOK
    <3>4. HookInv'
      BY <1>1, <2>6, <3>1, <3>2, Known, HookSettles DEF HookInv
    <3>5. Shown' # None => Tracked'
      BY <1>1, <2>6, <2>7, <3>1, <3>2, Known, TrackedSettles DEF Settles, StageSettles
    <3> QED BY <3>3, <3>4, <3>5 DEF PipelineInv
  <2> QED BY <2>8, <2>9
<1> QED BY <1>2, <1>3

\* What the fetch, or the scaffolder, leaves in the file system.
LEMMA FilledHook ==
    ASSUME PipelineInv, NEW s \in Slots, runs[s] # None
    PROVE  LET f == Filled(hook, s)
           IN  /\ f \in Hooks
               /\ f.snapshot = hook.snapshot /\ f.fetched = hook.fetched
               /\ f.due = hook.due /\ f.seen = hook.seen
               /\ f.committed = hook.committed /\ f.clicked = hook.clicked
               /\ f = hook \/ f.vfs \in Content
               /\ runs[s].mounted /\ hook.fills = s => f.vfs \in Content
<1> DEFINE source == [kb |-> runs[s].of.kb, copy |-> runs[s].of.copy, rev |-> 0]
<1>1. runs[s].of \in Selection
  BY Known DEF Run
<1>2. source \in Content
  BY <1>1, Values DEF Content
<1> HIDE DEF source
<1>3. CASE runs[s].mounted /\ (runs[s].of.copy \/ hook.fills = s)
  <2>1. Filled(hook, s) = [hook EXCEPT !.vfs = source, !.fills = None]
    BY <1>3 DEF Filled, source
  <2> QED BY <1>2, <2>1, Known DEF Hooks, Sources
<1>4. CASE ~(runs[s].mounted /\ (runs[s].of.copy \/ hook.fills = s))
  <2>1. Filled(hook, s) = hook
    BY <1>4 DEF Filled
  <2> QED BY <1>4, <2>1, Known
<1> QED BY <1>3, <1>4

LEMMA SourceArrivesKeeps ==
    ASSUME PipelineInv, NEW s \in Slots, SourceArrives(s)
    PROVE  PipelineInv'
<1> DEFINE r == runs[s]
           filled == Filled(hook, s)
           projected == IF ~r.mounted THEN [kb |-> r.of.kb, copy |-> r.of.copy, rev |-> 0]
                        ELSE IF filled.vfs = None THEN None
                        ELSE [filled.vfs EXCEPT !.rev = Rev]
<1>1. /\ r # None /\ r \in Run /\ r.at = "source"
      /\ store' = [store EXCEPT !.license = r.of.kb,
                                !.docs = IF r.writesDocs THEN r.of.kb ELSE @]
      /\ UNCHANGED <<screen, choice, pending, decision, acts>>
  BY Known DEF SourceArrives, Fetched
<1>2. r.of \in Selection /\ r.of.kb \in Keyboards
  BY <1>1, Values DEF Run
<1>3. /\ store' \in Stores /\ store'.license = r.of.kb
      /\ store'.base = store.base /\ store'.rev = store.rev
  BY <1>1, <1>2, Known DEF Stores
<1>4. Shown' = Shown /\ Rev' = Rev
  BY <1>1, <1>3 DEF Shown, Rev, Projected
<1>5. Rev \in 0..MaxRev
  BY Known, ProjectedType DEF Rev
<1>6. /\ filled \in Hooks
      /\ filled.snapshot = hook.snapshot /\ filled.fetched = hook.fetched
      /\ filled.due = hook.due /\ filled.seen = hook.seen
      /\ filled = hook \/ filled.vfs \in Content
      /\ r.mounted /\ hook.fills = s => filled.vfs \in Content
  BY <1>1, FilledHook
<1>7. /\ strayed' \in Strays
      /\ strayed'.license <=> r.superseded \/ ~r.mounted
      /\ r.superseded /\ ~strayed'.preview => ~strayed.preview /\ filled = hook
      /\ ~r.superseded /\ ~r.mounted => strayed'.preview = strayed.preview
      /\ strayed'.base = strayed.base
  <2> DEFINE l == r.superseded \/ ~r.mounted
             p == IF r.superseded THEN strayed.preview \/ filled # hook
                  ELSE strayed.preview /\ ~r.mounted
  <2>1. strayed' = [strayed EXCEPT !.license = l, !.preview = p]
    BY DEF SourceArrives, Fetched
  <2>2. l \in BOOLEAN /\ p \in BOOLEAN
    BY <1>1, Known DEF Strays, Run
  <2>3. /\ r.superseded /\ ~p => ~strayed.preview /\ filled = hook
        /\ ~r.superseded /\ ~r.mounted => p = strayed.preview
    BY <1>1, Known DEF Strays, Run
  <2> HIDE DEF l, p
  <2>4. strayed' \in Strays /\ strayed'.license = l /\ strayed'.preview = p /\ strayed'.base = strayed.base
    BY <2>1, <2>2, Known DEF Strays
  <2> QED BY <2>3, <2>4 DEF l
<1>p. /\ IF r.superseded
         THEN Ends(s) /\ hook' = filled /\ UNCHANGED stage
         ELSE /\ hook' = IF r.mounted
                         THEN [filled EXCEPT
                                  !.snapshot = IF filled.vfs # None THEN filled.vfs ELSE @,
                                  !.vfs = projected, !.fetched = TRUE]
                         ELSE hook
              /\ IF projected = None
                 THEN Ends(s) /\ UNCHANGED stage
                 ELSE /\ runs' = [runs EXCEPT ![s].at = "compile", ![s].vfs = projected]
                      /\ Shows(s, Waiting("compiling"))
  BY DEF SourceArrives, Fetched, Rev, Shown
<1> HIDE DEF filled
<1>8. CASE r.superseded
  <2>1. Ends(s) /\ hook' = filled /\ stage' = stage
    BY <1>8, <1>p
  <2>2. /\ runs' \in [Slots -> Run \cup {None}]
        /\ \A t \in Slots : Current(runs', t) => Current(runs, t) /\ t # s /\ runs'[t] = runs[t]
    BY <2>1, Known, Ended
  <2>3. TypeOK'
    BY <1>1, <1>3, <1>6, <1>7, <2>1, <2>2, Known DEF TypeOK
  <2>4. HookInv'
    BY <1>1, <1>3, <1>6, <2>1, <2>2, Known, Values DEF HookInv
  <2>5. ASSUME Shown' # None PROVE Tracked'
    <3>1. filled.vfs = None => hook.vfs = None
      BY <1>6, Values DEF Sources
    <3>2. Tracks /\ Tracks'
      BY <1>4, <1>6, <2>1, <2>2, <2>5, <3>1, Known DEF Tracks
    <3>3. ~strayed'.preview => Newest'
      BY <1>4, <1>7, <1>8, <2>1, <2>2, <2>5, Known DEF Newest, Fresh
    <3> QED BY <1>7, <1>8, <3>2, <3>3 DEF Tracked
  <2> QED BY <2>3, <2>4, <2>5 DEF PipelineInv
<1>9. CASE ~r.superseded /\ ~r.mounted
  <2>1. /\ hook' = hook /\ stage' = stage
        /\ projected \in Sources /\ projected # None
        /\ runs' = [runs EXCEPT ![s].at = "compile", ![s].vfs = projected]
    <3>1. projected \in Content
      BY <1>2, <1>9, Values DEF Content
    <3> QED BY <1>9, <1>p, <3>1, Values DEF Shows, Sources
  <2> HIDE DEF projected
  <2>2. runs' = [runs EXCEPT ![s] = [r EXCEPT !.at = "compile", !.vfs = projected]]
    BY <1>1, <2>1, Known
  <2>3. [r EXCEPT !.at = "compile", !.vfs = projected] \in Run
    BY <1>1, <2>1 DEF Run, Steps, Sources
  <2>4. ~[r EXCEPT !.at = "compile", !.vfs = projected].mounted
    BY <1>1, <1>9 DEF Run
  <2>5. /\ runs' \in [Slots -> Run \cup {None}]
        /\ \A t \in Slots : Current(runs', t) => Current(runs, t) /\ runs'[t] = runs[t]
    BY <2>2, <2>3, <2>4, Known DEF Current
  <2>6. TypeOK'
    BY <1>1, <1>3, <1>7, <2>1, <2>5, Known DEF TypeOK
  <2>7. HookInv'
    BY <1>1, <1>3, <2>1, <2>5, Known, HookSettles DEF HookInv
  <2>8. ASSUME Shown' # None PROVE Tracked'
    <3>1. Tracks /\ Tracks'
      BY <1>4, <2>1, <2>5, <2>8, Known DEF Tracks
    <3>2. ~strayed'.preview => Newest'
      BY <1>4, <1>7, <1>9, <2>1, <2>5, <2>8, Known DEF Newest, Fresh
    <3> QED BY <1>7, <1>9, <3>1, <3>2 DEF Tracked
  <2> QED BY <2>6, <2>7, <2>8 DEF PipelineInv
<1>10. CASE ~r.superseded /\ r.mounted
  <2>1. Current(runs, s) /\ \A t \in Slots : Current(runs, t) => t = s
    BY <1>1, <1>10, Known DEF Current, HookInv
  <2>2. filled.vfs # Empty
    BY <1>1, <1>6, <1>10, <2>1, Known, Values DEF HookInv
  <2>3. filled.vfs \in Content \cup {None}
    BY <1>6, <2>2 DEF Hooks, Sources
  <2>4. projected \in Content \cup {None} /\ (projected # None => projected.rev = Rev)
    BY <1>5, <1>10, <2>3, ProjectedContent
  <2>5. projected = None <=> filled.vfs = None
    BY <1>5, <1>10, <2>3, ProjectedContent, Values
  <2> HIDE DEF projected
  <2>6. hook' = [filled EXCEPT !.snapshot = IF filled.vfs # None THEN filled.vfs ELSE @,
                               !.vfs = projected, !.fetched = TRUE]
    BY <1>10, <1>p
  <2>7. /\ hook' \in Hooks /\ hook'.vfs = projected /\ hook'.fetched = TRUE
        /\ hook'.due = hook.due /\ hook'.seen = hook.seen
    BY <1>6, <2>3, <2>4, <2>6 DEF Hooks, Sources
  <2>8. CASE projected = None
    <3>1. Ends(s) /\ stage' = stage
      BY <1>10, <1>p, <2>8
    <3>2. /\ runs' \in [Slots -> Run \cup {None}]
          /\ \A t \in Slots : ~Current(runs', t)
      BY <2>1, <3>1, Known, Ended
    <3>3. TypeOK'
      BY <1>1, <1>3, <1>7, <2>7, <3>1, <3>2, Known DEF TypeOK
    <3>4. HookInv'
      BY <1>1, <1>3, <2>7, <2>8, <3>2, Known, Values DEF HookInv, Sources
    <3>5. Shown' = None
      <4>1. ASSUME Shown # None PROVE FALSE
        <5>1. hook.vfs # None
          BY <1>1, <2>1, <4>1, Known DEF Tracks
        <5> QED BY <1>6, <2>5, <2>8, <5>1, Values
      <4> QED BY <1>1, <1>4, <4>1
    <3> QED BY <3>3, <3>4, <3>5 DEF PipelineInv
  <2>9. CASE projected # None
    <3> DEFINE q == [r EXCEPT !.at = "compile", !.vfs = projected]
    <3>1. projected \in Content /\ projected.rev = Rev
      BY <2>4, <2>9
    <3>2. /\ runs' = [runs EXCEPT ![s].at = "compile", ![s].vfs = projected]
          /\ stage' = Waiting("compiling")
      BY <1>10, <1>p, <2>9 DEF Shows
    <3>3. runs' = [runs EXCEPT ![s] = q]
      BY <1>1, <3>2, Known
    <3>4. q \in Run /\ q.at = "compile" /\ q.vfs = projected /\ q.of = r.of /\ q.screen = r.screen
      BY <1>1, <3>1 DEF Run, Steps
    <3> HIDE DEF q
    <3>5. /\ runs' \in [Slots -> Run \cup {None}]
          /\ runs'[s] = q
          /\ \A t \in Slots : Current(runs', t) => t = s
      BY <2>1, <3>3, <3>4, Known DEF Current
    <3>6. stage' \in [kind : Kinds, shows : Sources \cup {None}] /\ stage'.kind = "compiling"
      BY <3>2, StageTypes
    <3>7. TypeOK'
      BY <1>1, <1>3, <1>7, <2>7, <3>5, <3>6, Known DEF TypeOK
    <3>8. HookInv'
      BY <1>1, <1>3, <2>1, <2>7, <3>1, <3>4, <3>5, Known, Values DEF HookInv
    <3>9. ASSUME Shown' # None PROVE Tracked'
      <4>1. Tracks
        BY <1>1, <1>4, <3>9, Known
      <4>2. r.of = Shown
        BY <2>1, <4>1 DEF Tracks
      <4> QED BY <1>3, <1>4, <2>7, <2>9, <3>1, <3>4, <3>5, <3>6, <4>1, <4>2, Values
              DEF Tracked, Tracks, Newest, Fresh
    <3> QED BY <3>7, <3>8, <3>9 DEF PipelineInv
  <2> QED BY <2>8, <2>9
<1> QED BY <1>8, <1>9, <1>10

LEMMA CompileEndsKeeps ==
    ASSUME PipelineInv, NEW s \in Slots, CompileEnds(s)
    PROVE  PipelineInv'
<1> DEFINE r == runs[s]
<1>1. /\ r # None /\ r \in Run /\ r.at = "compile" /\ Compilable(r) /\ Ends(s)
      /\ UNCHANGED <<screen, choice, decision, acts>>
  BY Known DEF CompileEnds
<1>2. CASE r.superseded
  BY <1>1, <1>2, EndKeeps DEF CompileEnds
<1>3. CASE ~r.superseded
  <2>1. /\ Instantiates(s)
        /\ pending' = IF r.full /\ r.screen = "survey" /\ r.mounted THEN r.of ELSE pending
        /\ stage' = IF r.mounted THEN Ready(r.vfs) ELSE stage
        /\ hook' = Noticed(hook, choice[screen], store')
    BY <1>3 DEF CompileEnds, Shows
  <2>2. r.of \in Selection /\ r.of.kb \in Keyboards /\ r.of.kb # None /\ r.vfs \in Sources
    BY <1>1, Values DEF Run, Sources
  <2>3. \/ UNCHANGED <<store, strayed>>
        \/ /\ store' = [store EXCEPT !.base = r.of.kb, !.rev = 1]
           /\ r.screen = "output"
           /\ strayed' = IF r.mounted THEN strayed
                          ELSE [strayed EXCEPT !.preview = TRUE, !.base = TRUE]
    BY <2>1 DEF Instantiates
  <2>4. /\ store' \in Stores /\ store'.license = store.license
        /\ store' = store \/ (store'.base = r.of.kb /\ store'.rev = 1)
        /\ strayed' \in Strays /\ strayed'.license = strayed.license
        /\ ~strayed'.preview => ~strayed.preview /\ (store' = store \/ r.mounted)
    <3>1. CASE UNCHANGED <<store, strayed>>
      BY <3>1, Known
    <3>2. CASE /\ store' = [store EXCEPT !.base = r.of.kb, !.rev = 1]
               /\ strayed' = IF r.mounted THEN strayed
                              ELSE [strayed EXCEPT !.preview = TRUE, !.base = TRUE]
      BY <2>2, <3>2, Known, RebasedStore DEF Strays
    <3> QED BY <2>3, <3>1, <3>2
  <2>5. Shown' = Shown /\ Rev' = Projected(screen, Shown, store')
    BY <1>1 DEF Shown, Rev
  <2>6. /\ hook' \in Hooks
        /\ hook'.vfs = hook.vfs /\ hook'.fetched = hook.fetched
        /\ hook'.fills = hook.fills /\ hook'.seen = hook.seen
        /\ hook'.due <=> hook.due \/ (hook.fetched /\ Rev' # Rev)
    BY <2>1, <2>5, Known, NoticedHook DEF Rev, Shown
  <2>7. /\ runs' \in [Slots -> Run \cup {None}]
        /\ \A t \in Slots : Current(runs', t) => Current(runs, t) /\ t # s /\ runs'[t] = runs[t]
    BY <1>1, Known, Ended
  <2>8. stage' \in [kind : Kinds, shows : Sources \cup {None}]
    BY <2>1, <2>2, Known, StageTypes DEF TypeOK
  <2>9. TypeOK'
    BY <1>1, <2>1, <2>2, <2>4, <2>6, <2>7, <2>8, Known DEF TypeOK
  <2>10. HookInv'
    BY <1>1, <2>2, <2>4, <2>6, <2>7, Known, HookSettles DEF HookInv
  <2>11. ASSUME Shown' # None PROVE Tracked'
    <3>1. Tracks
      BY <2>5, <2>11, Known
    <3>2. ~strayed'.preview /\ Rev' # Rev => Rev' # 0
      <4>1. CASE store' = store
        BY <2>5, <4>1 DEF Rev
      <4>2. CASE store' # store /\ ~strayed'.preview
        <5>1. r.mounted /\ store'.base = r.of.kb /\ store'.rev = 1
          BY <2>4, <4>2
        <5>2. r.of = Shown
          BY <1>1, <1>3, <3>1, <5>1 DEF Tracks, Current
        <5>3. screen # "compare"
          <6>1. r.screen = "output"
            BY <2>3, <4>2
          <6>2. r.screen = screen
            BY <1>1, <1>3, <5>1, Known DEF Current, HookInv
          <6> QED BY <6>1, <6>2
        <5> QED BY <2>5, <2>11, <5>1, <5>2, <5>3 DEF Projected
      <4> QED BY <4>1, <4>2
    <3>3. StageSettles
      <4>1. CASE r.mounted
        <5>1. Current(runs, s) /\ \A t \in Slots : Current(runs, t) => t = s
          BY <1>1, <1>3, <4>1, Known DEF Current, HookInv
        <5>2. stage'.kind = "ready" /\ stage'.shows = r.vfs /\ stage'.shows # None
          BY <2>1, <2>2, <4>1, StageTypes, Values
        <5> QED BY <1>1, <2>7, <5>1, <5>2 DEF StageSettles
      <4>2. CASE ~r.mounted
        BY <2>1, <4>2 DEF StageSettles
      <4> QED BY <4>1, <4>2
    <3>4. Settles
      BY <1>1, <2>6, <2>7, <3>3 DEF Settles
    <3> QED BY <2>4, <2>6, <2>11, <3>2, <3>4, TrackedSettles
  <2> QED BY <2>9, <2>10, <2>11 DEF PipelineInv
<1> QED BY <1>2, <1>3

LEMMA NextPipeline == PipelineInv /\ [Next]_vars => PipelineInv'
<1> SUFFICES ASSUME PipelineInv, [Next]_vars PROVE PipelineInv'
  OBVIOUS
<1>1. CASE UNCHANGED vars
  <2>1. TypeOK' /\ HookInv'
    BY <1>1, Known DEF vars, TypeOK, HookInv, Current
  <2>2. Shown' # None => Tracked'
    BY <1>1, Known DEF vars, Tracked, Tracks, Newest, Fresh, Rev, Shown, Current
  <2> QED BY <2>1, <2>2 DEF PipelineInv
<1>2. ASSUME NEW s \in Slots, RunStep(s) PROVE PipelineInv'
  BY <1>2, FailsKeeps, EngineLoadsKeeps, SourceArrivesKeeps, CompileEndsKeeps DEF RunStep
<1>3. ASSUME \/ \E scr \in Screens : OpenScreen(scr)
             \/ \E sel \in Selection : Select(sel)
             \/ Deselect \/ Retry \/ Recompile \/ Confirm \/ Edit
             \/ AdoptLate \/ FollowBase \/ CommitDue \/ TransformDue
      PROVE  PipelineInv'
  BY <1>3, OpenScreenKeeps, SelectKeeps, DeselectKeeps, RetryKeeps, RecompileKeeps, ConfirmKeeps,
     EditKeeps, AdoptLateKeeps, FollowBaseKeeps, CommitDueKeeps, TransformDueKeeps
<1> QED BY <1>1, <1>2, <1>3 DEF Next

LEMMA PipelineInvariant == Spec => []PipelineInv
BY InitPipeline, NextPipeline, PTL DEF Spec

-----------------------------------------------------------------------------
(* Results.                                                                *)

\* Every variable has its type, whatever strays.
THEOREM PipelineTypeCorrect == Spec => []TypeOK
<1>1. PipelineInv => TypeOK
  BY DEF PipelineInv
<1> QED BY <1>1, PipelineInvariant, PTL

\* With any number of runs, keyboards and edits, and whatever runs overtaken or
\* left behind bring, a screen shows the keyboard selected there, as a copy or not
\* as it was asked for; unless a transform is due it shows the newest revision,
\* but for a preview whose file system or whose base such a run has replaced.
THEOREM PreviewIsCurrent == Spec => []ShownIsCurrent
<1>1. PipelineInv => ShownIsCurrent
  <2> SUFFICES ASSUME PipelineInv, Shown # None, stage.kind = "ready"
               PROVE  /\ stage.shows.kb = Shown.kb /\ stage.shows.copy = Shown.copy
                      /\ hook.due \/ strayed.preview \/ stage.shows.rev = Rev
    BY DEF ShownIsCurrent, Shown, Rev
  <2> QED BY Known DEF Tracks, Newest, Fresh
<1> QED BY <1>1, PipelineInvariant, PTL

\* And the license kept for LICENSE.md is that of the base Output shows, unless
\* the last fetch to arrive was that of a run overtaken or left behind.
THEOREM LicenseIsOfBase == Spec => []LicenseIsOwn
<1>1. PipelineInv => LicenseIsOwn
  <2> SUFFICES ASSUME PipelineInv, ~strayed.license, screen = "output", stage.kind = "ready",
                      choice["output"] # None, choice["output"].kb = store.base
               PROVE  store.license = store.base
    BY DEF LicenseIsOwn
  <2> QED BY Known DEF Tracked, Tracks, Shown
<1> QED BY <1>1, PipelineInvariant, PTL

-----------------------------------------------------------------------------
(* The base of the working copy and the clicks in the survey.              *)

\* What settled in the survey is the artifact committed next, or is the base.
Settled == (pending # None /\ pending.kb = Shown.kb) \/ store.base = Shown.kb

\* The refs of the survey agree with the working copy and with the author's clicks.
Confirms ==
    /\ hook.committed = store.base
    /\ hook.clicked => Shown # None /\ decision = Shown.kb
    /\ Shown # None =>
          /\ hook.due => store.base = Shown.kb
          /\ stage.kind = "ready" => Settled
          /\ \A s \in Slots : /\ Current(runs, s)
                              /\ runs[s].at = "compile"
                              /\ ~runs[s].full
                              => Settled

ConfirmInv == screen = "survey" /\ ~strayed.base => Confirms

\* A step that neither clicks, nor commits, nor shows another artifact.
LEMMA Unconcerned ==
    ASSUME PipelineInv, ConfirmInv,
           UNCHANGED <<screen, choice, pending, decision>>,
           store'.base = store.base, strayed'.base = strayed.base,
           hook'.committed = hook.committed, hook'.clicked = hook.clicked,
           hook'.due => hook.due,
           stage'.kind = "ready" => stage.kind = "ready",
           \A s \in Slots : Current(runs', s) /\ runs'[s].at = "compile" /\ ~runs'[s].full
                            => Current(runs, s) /\ runs[s].at = "compile" /\ ~runs[s].full
    PROVE  ConfirmInv'
BY DEF ConfirmInv, Confirms, Settled, Shown

\* A full run has been started for another candidate, or on another screen.
LEMMA NewCandidate ==
    ASSUME screen' = "survey" /\ ~strayed'.base => hook'.committed = store'.base,
           hook'.clicked = FALSE, hook'.due = FALSE, stage'.kind # "ready",
           \A s \in Slots : Current(runs', s) => runs'[s].at = "engine"
    PROVE  ConfirmInv'
BY DEF ConfirmInv, Confirms

LEMMA OpenScreenConfirms ==
    ASSUME PipelineInv, NEW scr \in Screens, OpenScreen(scr)
    PROVE  ConfirmInv'
<1>1. PICK sel \in Mounts(scr) :
        LET started == IF sel = None /\ scr = "survey" THEN choice[scr] ELSE sel IN
        /\ stage' = IF sel = None THEN Idle ELSE Waiting("fetching")
        /\ IF started = None
           THEN runs' = Departed(runs)
           ELSE \E s \in Slots : Free(s) /\ runs' = [Departed(runs) EXCEPT ![s] = NewRun(scr, started)]
  BY DEF OpenScreen
<1> DEFINE started == IF sel = None /\ scr = "survey" THEN choice[scr] ELSE sel
<1>2. started \in Selection \cup {None}
  BY Known, SyncedTypes
<1>3. hook'.committed = store'.base /\ hook'.clicked = FALSE /\ hook'.due = FALSE
  BY Known, FreshHookType DEF OpenScreen
<1>4. stage'.kind # "ready"
  BY <1>1, StageTypes
<1>5. /\ Departed(runs) \in [Slots -> Run \cup {None}]
      /\ \A s \in Slots : ~Current(Departed(runs), s)
  BY Known, DepartedRuns
<1>6. \A s \in Slots : Current(runs', s) => runs'[s].at = "engine"
  <2>1. CASE started = None
    BY <1>1, <1>5, <2>1
  <2>2. CASE started # None
    <3>1. PICK s \in Slots : runs' = [Departed(runs) EXCEPT ![s] = NewRun(scr, started)]
      BY <1>1, <2>2
    <3>2. OnlyCurrent(runs', s, NewRun(scr, started))
      BY <1>2, <1>5, <2>2, <3>1, AddedRun, NewRunType
    <3> QED BY <1>2, <2>2, <3>2, NewRunType DEF OnlyCurrent
  <2> QED BY <2>1, <2>2
<1> QED BY <1>3, <1>4, <1>6, NewCandidate

\* A run of selection sel starts and nothing the survey has recorded changes.
LEMMA StartedEngine ==
    ASSUME PipelineInv, NEW s \in Slots, NEW sel \in Selection, Start(s, NewRun(screen, sel))
    PROVE  \A t \in Slots : Current(runs', t) => runs'[t].at = "engine"
<1>1. OnlyCurrent(runs', s, NewRun(screen, sel))
  BY Known, Started, NewRunType
<1> QED BY <1>1, Known, NewRunType DEF OnlyCurrent

LEMMA SelectConfirms ==
    ASSUME PipelineInv, ConfirmInv, NEW sel \in Selection, Select(sel)
    PROVE  ConfirmInv'
<1>1. PICK s \in Slots : RunFor(s, sel)
  BY DEF Select
<1>2. /\ hook'.clicked = FALSE /\ hook'.due = FALSE /\ hook'.committed = hook.committed
      /\ stage'.kind # "ready"
  BY <1>1, Known, StageTypes DEF RunFor, Hooks
<1>3. \A t \in Slots : Current(runs', t) => runs'[t].at = "engine"
  BY <1>1, StartedEngine DEF RunFor
<1>4. screen' = "survey" /\ ~strayed'.base => hook'.committed = store'.base
  BY <1>2 DEF Select, ConfirmInv, Confirms
<1> QED BY <1>2, <1>3, <1>4, NewCandidate

LEMMA FollowBaseConfirms ==
    ASSUME PipelineInv, ConfirmInv, FollowBase
    PROVE  ConfirmInv'
<1>1. PICK sel \in Synced :
        /\ choice' = [choice EXCEPT !["survey"] = sel]
        /\ IF sel = choice["survey"]
           THEN hook' = [hook EXCEPT !.seen = store.base] /\ UNCHANGED <<runs, stage>>
           ELSE /\ \E s \in Slots : Start(s, NewRun(screen, sel))
                /\ hook' = [hook EXCEPT !.seen = store.base, !.fetched = FALSE, !.due = FALSE,
                                        !.clicked = FALSE]
                /\ stage' = Waiting("fetching")
  BY DEF FollowBase
<1>2. /\ screen = "survey" /\ hook.seen # store.base
      /\ UNCHANGED <<screen, pending, decision, store, strayed>>
  BY DEF FollowBase, FollowIsDue
<1>3. sel \in Selection
  BY <1>2, Known, SyncedTypes DEF HookInv
<1>4. CASE sel = choice["survey"]
  <2>1. choice' = choice
    BY <1>1, <1>4, Known
  <2>2. /\ hook'.committed = hook.committed /\ hook'.clicked = hook.clicked /\ hook'.due = hook.due
        /\ UNCHANGED <<runs, stage>>
    BY <1>1, <1>4, Known DEF Hooks
  <2> QED BY <1>2, <2>1, <2>2, Unconcerned
<1>5. CASE sel # choice["survey"]
  <2>1. /\ hook'.committed = hook.committed /\ hook'.clicked = FALSE /\ hook'.due = FALSE
        /\ stage'.kind # "ready"
    BY <1>1, <1>5, Known, StageTypes DEF Hooks
  <2>2. \A t \in Slots : Current(runs', t) => runs'[t].at = "engine"
    BY <1>1, <1>3, <1>5, StartedEngine
  <2>3. screen' = "survey" /\ ~strayed'.base => hook'.committed = store'.base
    BY <1>2, <2>1 DEF ConfirmInv, Confirms
  <2> QED BY <2>1, <2>2, <2>3, NewCandidate
<1> QED BY <1>4, <1>5

LEMMA RetryConfirms ==
    ASSUME PipelineInv, ConfirmInv, Retry
    PROVE  ConfirmInv'
<1>1. PICK s \in Slots : /\ Start(s, NewRun(screen, choice[screen]))
                         /\ hook' = [hook EXCEPT !.fetched = FALSE]
  BY DEF Retry
<1>2. /\ choice[screen] \in Selection
      /\ stage'.kind # "ready"
      /\ UNCHANGED <<screen, choice, pending, decision, store, strayed>>
  BY Known, StageTypes DEF Retry, Shown
<1>3. \A t \in Slots : Current(runs', t) => runs'[t].at = "engine"
  BY <1>1, <1>2, StartedEngine
<1>4. /\ hook'.committed = hook.committed /\ hook'.clicked = hook.clicked /\ hook'.due = hook.due
  BY <1>1, Known DEF Hooks
<1> QED BY <1>2, <1>3, <1>4, Unconcerned

LEMMA ConfirmConfirms ==
    ASSUME PipelineInv, ConfirmInv, Confirm
    PROVE  ConfirmInv'
<1>1. /\ hook'.committed = hook.committed /\ hook'.due = hook.due
      /\ Shown # None /\ decision' = Shown.kb
      /\ UNCHANGED <<screen, choice, stage, runs, pending, store, strayed>>
  BY Known DEF Confirm, Hooks, Shown
<1> QED BY <1>1 DEF ConfirmInv, Confirms, Settled, Shown

LEMMA CommitDueConfirms ==
    ASSUME PipelineInv, ConfirmInv, CommitDue
    PROVE  ConfirmInv'
<1> DEFINE n == Noticed(hook, choice[screen], store')
<1>1. /\ screen = "survey" /\ Shown # None /\ Shown.kb = pending.kb /\ decision = pending.kb
      /\ store' = IF store.base = pending.kb THEN store
                  ELSE [store EXCEPT !.base = pending.kb, !.rev = 1]
      /\ hook' = [n EXCEPT !.committed = pending.kb, !.seen = store'.base]
      /\ UNCHANGED <<screen, choice, stage, runs, pending, decision, acts, strayed>>
  BY DEF CommitDue, CommitIsDue, Commits, Shown
<1>2. Shown.kb \in Keyboards
  BY <1>1, Known, Values
<1>3. store'.base = Shown.kb
  BY <1>1, <1>2, Known, RebasedStore
<1>4. n \in Hooks /\ n.clicked = hook.clicked
  BY Known, NoticedHook
<1> HIDE DEF n
<1>5. hook'.committed = Shown.kb /\ hook'.clicked = hook.clicked
  BY <1>1, <1>4 DEF Hooks
<1>6. Shown' = Shown
  BY <1>1 DEF Shown
<1> QED BY <1>1, <1>3, <1>5, <1>6 DEF ConfirmInv, Confirms, Settled

LEMMA EditConfirms ==
    ASSUME PipelineInv, ConfirmInv, Edit
    PROVE  ConfirmInv'
<1>1. /\ store' = [store EXCEPT !.rev = store.rev + 1]
      /\ hook' = Noticed(hook, choice[screen], store')
      /\ UNCHANGED <<screen, choice, stage, runs, pending, decision, strayed>>
  BY DEF Edit
<1>2. store'.base = store.base
  BY <1>1, Known DEF Stores
<1>3. /\ hook'.committed = hook.committed /\ hook'.clicked = hook.clicked
      /\ hook'.due <=> \/ hook.due
                       \/ hook.fetched /\ Projected(screen, Shown, store') # Projected(screen, Shown, store)
  BY <1>1, Known, NoticedHook DEF Shown
<1>4. Shown # None /\ hook'.due => hook.due \/ store.base = Shown.kb
  BY <1>2, <1>3 DEF Projected
<1>5. Shown' = Shown
  BY <1>1 DEF Shown
<1> QED BY <1>1, <1>2, <1>3, <1>4, <1>5 DEF ConfirmInv, Confirms, Settled

LEMMA TransformDueConfirms ==
    ASSUME PipelineInv, ConfirmInv, TransformDue
    PROVE  ConfirmInv'
<1>1. /\ hook.due /\ UNCHANGED <<screen, choice, pending, decision, store, strayed>>
  BY DEF TransformDue
<1>2. Shown' = Shown
  BY <1>1 DEF Shown
<1>3. /\ hook'.due = FALSE /\ hook'.committed = hook.committed /\ hook'.clicked = hook.clicked
  BY Known DEF TransformDue, Hooks
<1>4. Shown = None => stage' = stage /\ runs' = runs
  BY DEF TransformDue, Shown
<1>5. ASSUME Shown # None, screen = "survey", ~strayed.base PROVE store.base = Shown.kb
  BY <1>1, <1>5 DEF ConfirmInv, Confirms
<1> QED BY <1>1, <1>2, <1>3, <1>4, <1>5 DEF ConfirmInv, Confirms, Settled

\* A run ends without an artifact, or goes on.
LEMMA GoesOnConfirms ==
    ASSUME PipelineInv, ConfirmInv, NEW s \in Slots,
           EngineFails(s) \/ EngineLoads(s) \/ SourceFails(s) \/ SourceArrives(s) \/ CompileFails(s)
    PROVE  ConfirmInv'
<1>1. runs[s] # None /\ UNCHANGED <<screen, choice, pending, decision>>
  BY DEF EngineFails, EngineLoads, SourceFails, SourceArrives, Fetched, CompileFails
<1>2. stage'.kind = "ready" => stage.kind = "ready"
  BY StageTypes DEF EngineFails, EngineLoads, SourceFails, SourceArrives, Fetched, CompileFails, Shows
<1>3. store'.base = store.base /\ strayed'.base = strayed.base
  BY Known DEF EngineFails, EngineLoads, SourceFails, SourceArrives, Fetched, CompileFails, Stores, Strays
<1>4. /\ hook'.committed = hook.committed /\ hook'.clicked = hook.clicked /\ hook'.due = hook.due
  <2>1. CASE SourceArrives(s)
    <3> DEFINE filled == Filled(hook, s)
    <3>1. \/ hook' \in {hook, filled}
          \/ \E x, y : hook' = [filled EXCEPT !.snapshot = x, !.vfs = y, !.fetched = TRUE]
      BY <2>1 DEF SourceArrives, Fetched
    <3>2. /\ filled \in Hooks
          /\ filled.due = hook.due /\ filled.committed = hook.committed /\ filled.clicked = hook.clicked
      BY <1>1, FilledHook
    <3> HIDE DEF filled
    <3> QED BY <3>1, <3>2 DEF Hooks
  <2>2. CASE ~SourceArrives(s)
    BY <2>2, Known DEF EngineFails, EngineLoads, SourceFails, CompileFails, Hooks
  <2> QED BY <2>1, <2>2
<1>5. \A t \in Slots : Current(runs', t) /\ runs'[t].at = "compile" /\ ~runs'[t].full
                       => Current(runs, t) /\ runs[t].at = "compile" /\ ~runs[t].full
  <2>1. CASE Ends(s)
    BY <2>1, Known, Ended
  <2>2. CASE EngineLoads(s) /\ ~Ends(s)
    <3>1. PICK docs \in BOOLEAN : runs' = [runs EXCEPT ![s].at = "source", ![s].writesDocs = docs]
      BY <2>2 DEF EngineLoads
    <3>2. runs' = [runs EXCEPT ![s] = [runs[s] EXCEPT !.at = "source", !.writesDocs = docs]]
      BY <1>1, <3>1, Known
    <3>3. [runs[s] EXCEPT !.at = "source", !.writesDocs = docs].at = "source"
      BY <1>1, Known DEF Run
    <3> QED BY <3>2, <3>3, Known DEF Current
  <2>3. CASE SourceArrives(s) /\ ~Ends(s)
    <3>1. /\ runs[s].at = "source"
          /\ \E vfs : runs' = [runs EXCEPT ![s].at = "compile", ![s].vfs = vfs]
      BY <2>3 DEF SourceArrives, Fetched
    <3>2. PICK vfs : runs' = [runs EXCEPT ![s] = [runs[s] EXCEPT !.at = "compile", !.vfs = vfs]]
      BY <1>1, <3>1, Known
    <3> DEFINE q == [runs[s] EXCEPT !.at = "compile", !.vfs = vfs]
    <3>3. q.full = runs[s].full /\ q.mounted = runs[s].mounted /\ q.superseded = runs[s].superseded
      BY <1>1, Known DEF Run
    <3> HIDE DEF q
    <3>4. runs'[s] = q /\ \A t \in Slots \ {s} : runs'[t] = runs[t]
      BY <3>2, Known DEF q
    <3>5. Current(runs', s) => q.full
      BY <1>1, <3>1, <3>3, <3>4, Known DEF Current, HookInv
    <3> QED BY <3>4, <3>5 DEF Current
  <2> QED BY <2>1, <2>2, <2>3 DEF EngineFails, SourceFails, CompileFails
<1> QED BY <1>1, <1>2, <1>3, <1>4, <1>5, Unconcerned

LEMMA CompileEndsConfirms ==
    ASSUME PipelineInv, ConfirmInv, NEW s \in Slots, CompileEnds(s)
    PROVE  ConfirmInv'
<1> DEFINE r == runs[s]
<1>1. /\ r # None /\ r \in Run /\ r.at = "compile" /\ Ends(s)
      /\ UNCHANGED <<screen, choice, decision>>
  BY Known DEF CompileEnds
<1>2. \A t \in Slots : Current(runs', t) => Current(runs, t) /\ runs'[t] = runs[t]
  BY <1>1, Known, Ended
<1>3. CASE r.superseded
  BY <1>1, <1>2, <1>3, Unconcerned DEF CompileEnds
<1>4. CASE ~r.superseded
  <2> SUFFICES ASSUME screen = "survey", ~strayed'.base PROVE Confirms'
    BY <1>1 DEF ConfirmInv
  <2>1. /\ Instantiates(s)
        /\ pending' = IF r.full /\ r.screen = "survey" /\ r.mounted THEN r.of ELSE pending
        /\ stage' = IF r.mounted THEN Ready(r.vfs) ELSE stage
        /\ hook' = Noticed(hook, choice[screen], store')
    BY <1>4 DEF CompileEnds, Shows
  <2>2. r.mounted => Current(runs, s) /\ r.screen = "survey"
    BY <1>1, <1>4, Known DEF Current, HookInv
  <2>3. store' = store /\ strayed' = strayed
    BY <2>1, <2>2, Known DEF Instantiates, Strays
  <2>4. Confirms
    BY <2>3 DEF ConfirmInv
  <2>5. hook'.committed = hook.committed /\ hook'.clicked = hook.clicked /\ (hook'.due <=> hook.due)
    BY <2>1, <2>3, Known, NoticedHook
  <2>6. Shown' = Shown
    BY <1>1 DEF Shown
  <2>7. ASSUME Shown # None, r.mounted PROVE Settled'
    <3>1. r.of = Shown
      BY <2>2, <2>7, Known DEF Tracks
    <3>2. CASE r.full
      BY <2>1, <2>2, <2>6, <2>7, <3>1, <3>2 DEF Settled
    <3>3. CASE ~r.full
      BY <1>1, <2>1, <2>2, <2>3, <2>4, <2>6, <2>7, <3>3 DEF Confirms, Settled
    <3> QED BY <3>2, <3>3
  <2>8. ASSUME Shown # None, ~r.mounted, Settled PROVE Settled'
    BY <2>1, <2>3, <2>6, <2>8 DEF Settled
  <2> QED BY <1>1, <1>2, <2>1, <2>3, <2>4, <2>5, <2>6, <2>7, <2>8 DEF Confirms
<1> QED BY <1>3, <1>4

LEMMA NextConfirms == PipelineInv /\ ConfirmInv /\ [Next]_vars => ConfirmInv'
<1> SUFFICES ASSUME PipelineInv, ConfirmInv, [Next]_vars PROVE ConfirmInv'
  OBVIOUS
<1>1. CASE UNCHANGED vars
  BY <1>1, Unconcerned DEF vars, Current
<1>2. ASSUME NEW s \in Slots, RunStep(s) PROVE ConfirmInv'
  BY <1>2, GoesOnConfirms, CompileEndsConfirms DEF RunStep
<1>3. ASSUME \/ \E scr \in Screens : OpenScreen(scr)
             \/ \E sel \in Selection : Select(sel)
             \/ Retry \/ Confirm \/ Edit
             \/ FollowBase \/ CommitDue \/ TransformDue
      PROVE  ConfirmInv'
  BY <1>3, OpenScreenConfirms, SelectConfirms, RetryConfirms, ConfirmConfirms, EditConfirms,
     FollowBaseConfirms, CommitDueConfirms, TransformDueConfirms
<1>4. CASE Deselect \/ Recompile \/ AdoptLate
  BY <1>4 DEF Deselect, Recompile, AdoptLate, ConfirmInv
<1> QED BY <1>1, <1>2, <1>3, <1>4 DEF Next

\* The keyboard confirmed in the survey is the base of the working copy once its
\* preview has settled and the commit that is due has run, whatever was selected,
\* confirmed, edited, retried or opened before, unless a run of Output that was
\* left behind has replaced the base under the mounted survey.
THEOREM ConfirmedBecomesBase == Spec => []ConfirmedIsBase
<1>1. Init => ConfirmInv
  BY DEF Init, ConfirmInv, Confirms, FreshHook, Current, Shown, Screens, Idle
<1>2. PipelineInv /\ ConfirmInv => ConfirmedIsBase
  <2> SUFFICES ASSUME PipelineInv, ConfirmInv, screen = "survey", stage.kind = "ready",
                      hook.clicked, ~CommitIsDue, ~strayed.base
               PROVE  store.base = Shown.kb
    BY DEF ConfirmedIsBase, Shown
  <2>1. Confirms
    BY DEF ConfirmInv
  <2>2. Shown # None /\ decision = Shown.kb /\ hook.committed = store.base /\ Settled
    BY <2>1 DEF Confirms
  <2> QED BY <2>2 DEF Settled, CommitIsDue, Shown
<1> QED BY <1>1, <1>2, NextConfirms, PipelineInvariant, PTL DEF Spec
=============================================================================
