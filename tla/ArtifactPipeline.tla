-------------------------- MODULE ArtifactPipeline --------------------------
(***************************************************************************)
(* The fetch -> compile pipeline behind the on-screen keyboard             *)
(* (useKeyboardArtifact), as three screens use it: the survey, which       *)
(* previews candidates and commits one as the base of the working copy;    *)
(* Output, which previews the working copy and packages it; Compare, which *)
(* looks at somebody else's keyboard.                                      *)
(*                                                                         *)
(* A run is a chain of awaits (engine, source, compile).  Each screen has  *)
(* one hook, and leaving the screen does not stop its runs: they go on     *)
(* with the refs of a hook that nobody renders any more, over the one      *)
(* working-copy store of the tab.                                          *)
(***************************************************************************)
EXTENDS Naturals

CONSTANTS
    Keyboards,  \* starting keyboards
    None,       \* null
    Slots,      \* places for runs that have not ended (a bound)
    MaxRev,     \* bound on the edits of one working copy
    MaxActs     \* bound on what the author does

Screens == {"survey", "output", "compare"}

\* What the hook is asked to show (the value key lastFullRunKeyRef): a
\* keyboard as it is, or a copy of it made by the scaffolder.
Selection == [kb : Keyboards, copy : BOOLEAN]

\* A virtual file system, as far as it matters: the source it was filled with
\* and the revision of the working copy projected onto it; 0 is no projection.
Content == [kb : Keyboards, copy : BOOLEAN, rev : 0..MaxRev]

Empty == [kb |-> None, copy |-> FALSE, rev |-> 0]

Steps == {"engine", "source", "compile"}

\* superseded: the runId of its hook has moved on.  mounted: its hook is the
\* one on screen.  writesDocs, vfs: what the run has read before its await.
Run == [screen : Screens, of : Selection, full : BOOLEAN, at : Steps,
        superseded : BOOLEAN, mounted : BOOLEAN,
        writesDocs : BOOLEAN, vfs : Content \cup {Empty}]

ASSUME ArtifactAssumption ==
    /\ None \notin Keyboards \cup Selection \cup Content \cup Run \cup Slots
    /\ Empty # None
    /\ Slots \subseteq Nat
    /\ MaxRev \in Nat \ {0} /\ MaxActs \in Nat

VARIABLES
    screen,  \* the mounted screen
    choice,  \* the starting keyboard each screen shows, None for none
    stage,   \* what the mounted hook shows
    hook,    \* refs of the mounted hook: vfs, snapshot, fetched, due, fills
    runs,    \* runs that have not ended
    pending, \* pendingArtifactRef of the survey
    decision,\* the base-keyboard decision: what the author last confirmed in the survey
    store,   \* the working copy: base, rev; whose license and start docs it holds
    acts,    \* how much the author has done
    strayed  \* history: what the last writes of runs nobody waits for have touched

\* strayed.preview: since the mounted hook's own last fetch, a superseded run has
\* replaced its file system or a run left behind the base.  strayed.license: the
\* last fetch was of such a run.  strayed.base: a run left behind has replaced the
\* base since the screen was opened.

vars == <<screen, choice, stage, hook, runs, pending, decision, store, acts, strayed>>

Idle == [kind |-> "idle", shows |-> None]
Failed == [kind |-> "error", shows |-> None]
Waiting(kind) == [kind |-> kind, shows |-> None]
Ready(content) == [kind |-> "ready", shows |-> content]

\* due: transformVersion has moved and its effect has not run yet.  fills: the
\* run whose fetch will fill the file system in vfs.  committed, seen: the base
\* the survey takes for instantiated, and the one it last synced with.  clicked:
\* history, the candidate shown now has been confirmed.
FreshHook(base) ==
    [vfs |-> None, snapshot |-> None, fetched |-> FALSE, due |-> FALSE,
     fills |-> None, committed |-> base, seen |-> base, clicked |-> FALSE]

-----------------------------------------------------------------------------
\* useWorkingCopyTransform: the revision projected onto a selection. Another
\* keyboard than the base of the working copy gets no projection.
Projected(scr, sel, wc) ==
    IF scr # "compare" /\ sel # None /\ wc.base = sel.kb THEN wc.rev ELSE 0

\* The effect on [vfsTransform], after any change of the working copy.
Noticed(h, sel, wc) ==
    [h EXCEPT !.due = \/ h.due
                      \/ h.fetched /\ Projected(screen, sel, wc) # Projected(screen, sel, store)]

\* ++runId: every earlier run of the mounted hook is stale from now on.
Superseded(rs) ==
    [s \in Slots |-> IF rs[s] # None /\ rs[s].mounted
                     THEN [rs[s] EXCEPT !.superseded = TRUE] ELSE rs[s]]

NewRun(scr, sel) ==
    [screen |-> scr, of |-> sel, full |-> TRUE, at |-> "engine", superseded |-> FALSE,
     mounted |-> TRUE, writesDocs |-> FALSE, vfs |-> Empty]

Recompilation(scr, sel, vfs) ==
    [NewRun(scr, sel) EXCEPT !.full = FALSE, !.at = "compile", !.vfs = vfs]

\* The first place without a run.
Free(s) == runs[s] = None /\ \A t \in Slots : runs[t] = None => s <= t

\* A mutant: one commit in the life of a survey.
CommitIsDueOnce ==
    /\ screen = "survey" /\ pending # None /\ choice["survey"] # None
    /\ pending.kb = choice["survey"].kb /\ decision = pending.kb
    /\ hook.committed = None

\* The artifact that has settled is the confirmed keyboard's, and not committed.
CommitIsDue ==
    /\ screen = "survey" /\ pending # None /\ choice["survey"] # None
    /\ pending.kb = choice["survey"].kb /\ decision = pending.kb
    /\ hook.committed # pending.kb

\* The survey has not yet noticed that the working copy has another base.
FollowIsDue == screen = "survey" /\ hook.seen # store.base

\* The author acts; React has run these two effects by then.
Act == ~CommitIsDue /\ ~FollowIsDue /\ acts < MaxActs /\ acts' = acts + 1

\* The hook of the screen starts run r in a free place.
Start(s, r) ==
    /\ Free(s)
    /\ runs' = [Superseded(runs) EXCEPT ![s] = r]

Ends(s) == runs' = [runs EXCEPT ![s] = None]

-----------------------------------------------------------------------------
Init ==
    /\ screen = "survey"
    /\ choice = [scr \in Screens |-> None]
    /\ stage = Idle
    /\ hook = FreshHook(None)
    /\ runs = [s \in Slots |-> None]
    /\ pending = None
    /\ decision = None
    /\ store = [base |-> None, rev |-> 0, license |-> None, docs |-> None]
    /\ acts = 0
    /\ strayed = [preview |-> FALSE, license |-> FALSE, base |-> FALSE]

Departed(rs) ==
    [s \in Slots |-> IF rs[s] # None THEN [rs[s] EXCEPT !.mounted = FALSE] ELSE rs[s]]

\* The survey's candidate follows the base of the working copy, as a copy or
\* not as before (scaffoldSpec); without a base it is dropped, unless Open has
\* just recorded it.
Synced ==
    IF store.base = None
    THEN {None} \cup {sel \in {choice["survey"]} : sel # None /\ ~sel.copy}
    ELSE LET copies == IF choice["survey"] = None THEN BOOLEAN ELSE {choice["survey"].copy}
         IN  {[kb |-> store.base, copy |-> c] : c \in copies}

\* What is selected on a screen after it mounts.
Mounts(scr) ==
    CASE scr = "survey" -> Synced
      [] scr = "output" -> IF store.base = None THEN {None} ELSE {[kb |-> store.base, copy |-> FALSE]}
      [] scr = "compare" -> {choice["compare"]}

\* Leaving a screen unmounts its hook, the runs go on.  The next hook starts
\* with what is selected there; the survey starts the run of its candidate
\* even when it then drops it.
OpenScreen(scr) ==
    /\ scr # screen
    /\ Act
    /\ screen' = scr
    /\ hook' = FreshHook(store.base)
    /\ pending' = None
    /\ \E sel \in Mounts(scr) :
        LET started == IF sel = None /\ scr = "survey" THEN choice[scr] ELSE sel IN
        /\ choice' = [choice EXCEPT ![scr] = sel]
        /\ stage' = IF sel = None THEN Idle ELSE Waiting("fetching")
        /\ IF started = None
           THEN runs' = Departed(runs)
           ELSE \E s \in Slots : Free(s) /\ runs' = [Departed(runs) EXCEPT ![s] = NewRun(scr, started)]
    /\ strayed' = [strayed EXCEPT !.preview = FALSE, !.base = FALSE]
    /\ UNCHANGED <<decision, store>>

RunFor(s, sel) ==
    /\ Start(s, NewRun(screen, sel))
    /\ stage' = Waiting("fetching")
    /\ hook' = [hook EXCEPT !.fetched = FALSE, !.due = FALSE, !.clicked = FALSE]

\* Another starting keyboard, or another target for its copy.
Select(sel) ==
    /\ sel # choice[screen]
    /\ screen = "compare" => ~sel.copy
    /\ Act
    /\ choice' = [choice EXCEPT ![screen] = sel]
    /\ \E s \in Slots : RunFor(s, sel)
    /\ UNCHANGED <<screen, pending, decision, store, strayed>>

\* Nothing selected any more: the refs are cleared, runId is not moved.
Deselect ==
    /\ screen # "survey" /\ choice[screen] # None
    /\ Act
    /\ choice' = [choice EXCEPT ![screen] = None]
    /\ stage' = Idle
    /\ hook' = [hook EXCEPT !.vfs = None, !.snapshot = None, !.due = FALSE, !.fills = None]
    /\ UNCHANGED <<screen, runs, pending, decision, store, strayed>>

\* Output adopts a base that is instantiated after it mounted.
AdoptLate ==
    /\ screen = "output" /\ choice["output"] = None /\ store.base # None
    /\ LET sel == [kb |-> store.base, copy |-> FALSE] IN
       /\ choice' = [choice EXCEPT !["output"] = sel]
       /\ \E s \in Slots : RunFor(s, sel)
    /\ UNCHANGED <<screen, pending, decision, store, acts, strayed>>

\* The survey follows a base that a run of Output, left behind, has put there.
FollowBase ==
    /\ FollowIsDue
    /\ \E sel \in Synced :
        /\ choice' = [choice EXCEPT !["survey"] = sel]
        /\ IF sel = choice["survey"]
           THEN hook' = [hook EXCEPT !.seen = store.base] /\ UNCHANGED <<runs, stage>>
           ELSE /\ \E s \in Slots : Start(s, NewRun(screen, sel))
                /\ hook' = [hook EXCEPT !.seen = store.base, !.fetched = FALSE, !.due = FALSE,
                                        !.clicked = FALSE]
                /\ stage' = Waiting("fetching")
    /\ UNCHANGED <<screen, pending, decision, store, acts, strayed>>

\* Retry after an error; on Output also after the holder of an unreadable
\* license was typed in (resolveStartHolder).
Retry ==
    /\ choice[screen] # None
    /\ \/ stage.kind = "error"
       \/ screen = "output" /\ stage.kind = "ready"
    /\ Act
    /\ \E s \in Slots :
        /\ Start(s, NewRun(screen, choice[screen]))
        /\ hook' = [hook EXCEPT !.fetched = FALSE]
    /\ stage' = Waiting("fetching")
    /\ UNCHANGED <<screen, choice, pending, decision, store, strayed>>

\* The source editor of Output, shown while an artifact is, compiles what is in
\* the file system.
Recompile ==
    /\ screen = "output" /\ stage.kind = "ready"
    /\ choice["output"] # None /\ hook.vfs # None
    /\ Act
    /\ \E s \in Slots : Start(s, Recompilation(screen, choice[screen], hook.vfs))
    /\ stage' = Waiting("compiling")
    /\ UNCHANGED <<screen, choice, hook, pending, decision, store, strayed>>

\* "Choose this keyboard" records the decision.
Confirm ==
    /\ screen = "survey" /\ choice["survey"] # None /\ stage.kind = "ready"
    /\ ~hook.clicked
    /\ Act
    /\ decision' = choice["survey"].kb
    /\ hook' = [hook EXCEPT !.clicked = TRUE]
    /\ UNCHANGED <<screen, choice, stage, runs, pending, store, strayed>>

\* doCommit.
Commits(kb) ==
    /\ store' = IF store.base = kb THEN store
                ELSE [store EXCEPT !.base = kb, !.rev = 1]
    /\ hook' = [Noticed(hook, choice[screen], store') EXCEPT !.committed = kb, !.seen = store'.base]

\* The effect on the decision and on every stage: the artifact that has settled
\* for the confirmed keyboard is committed, once.
CommitDue ==
    /\ CommitIsDue
    /\ Commits(pending.kb)
    /\ UNCHANGED <<screen, choice, stage, runs, pending, decision, acts, strayed>>

\* The author works on the working copy, in the survey or on Output.
Edit ==
    /\ screen # "compare" /\ store.base # None /\ store.rev < MaxRev
    /\ Act
    /\ store' = [store EXCEPT !.rev = @ + 1]
    /\ hook' = Noticed(hook, choice[screen], store')
    /\ UNCHANGED <<screen, choice, stage, runs, pending, decision, strayed>>

\* The effect on [transformVersion]: project the new revision onto the clean
\* snapshot and compile, without fetching again.
TransformDue ==
    LET sel == choice[screen]
        rev == Projected(screen, sel, store)
        source == IF hook.snapshot # None THEN hook.snapshot ELSE hook.vfs
        projected == IF rev = 0 THEN hook.vfs ELSE [source EXCEPT !.rev = rev]
    IN  /\ hook.due
        /\ IF hook.fetched /\ sel # None /\ hook.vfs # None
           THEN /\ hook' = [hook EXCEPT !.due = FALSE, !.vfs = projected,
                                        !.fills = IF rev = 0 THEN @ ELSE None]
                /\ \E s \in Slots : Start(s, Recompilation(screen, sel, projected))
                /\ stage' = Waiting("compiling")
           ELSE /\ hook' = [hook EXCEPT !.due = FALSE]
                /\ UNCHANGED <<runs, stage>>
        /\ UNCHANGED <<screen, choice, pending, decision, store, acts, strayed>>

-----------------------------------------------------------------------------
(* One await of a run ends.                                                *)

\* setStage, which nobody sees once the screen is left.
Shows(s, st) == stage' = IF runs[s].mounted THEN st ELSE stage

\* A mutant: the run ends without a word.
EngineFailsSilently(s) ==
    /\ runs[s] # None /\ runs[s].at = "engine"
    /\ Ends(s)
    /\ UNCHANGED <<screen, choice, stage, hook, pending, decision, store, acts, strayed>>

EngineFails(s) ==
    /\ runs[s] # None /\ runs[s].at = "engine"
    /\ IF runs[s].superseded THEN UNCHANGED stage ELSE Shows(s, Failed)
    /\ Ends(s)
    /\ UNCHANGED <<screen, choice, hook, pending, decision, store, acts, strayed>>

\* A fresh file system; Output decides before the fetch whether this run is for
\* another keyboard and so writes the start docs.
EngineLoads(s) ==
    LET r == runs[s] IN
    /\ r # None /\ r.at = "engine"
    /\ IF r.superseded
       THEN Ends(s) /\ UNCHANGED hook
       ELSE /\ runs' = [runs EXCEPT
                  ![s].at = "source",
                  ![s].writesDocs = \/ r.screen = "survey"
                                    \/ r.screen = "output" /\ store.base # r.of.kb]
            /\ hook' = IF r.mounted THEN [hook EXCEPT !.vfs = Empty, !.fills = s] ELSE hook
    /\ UNCHANGED <<screen, choice, stage, pending, decision, store, acts, strayed>>

\* The fetch, or the scaffolder, fails or times out.
SourceFails(s) ==
    /\ runs[s] # None /\ runs[s].at = "source"
    /\ IF runs[s].superseded THEN UNCHANGED stage ELSE Shows(s, Failed)
    /\ Ends(s)
    /\ UNCHANGED <<screen, choice, hook, pending, decision, store, acts, strayed>>

\* A fetch fills the file system the run made; the scaffolder brings its own,
\* which replaces whatever the hook has.
Filled(h, s) ==
    LET source == [kb |-> runs[s].of.kb, copy |-> runs[s].of.copy, rev |-> 0]
    IN  IF runs[s].mounted /\ (runs[s].of.copy \/ h.fills = s)
        THEN [h EXCEPT !.vfs = source, !.fills = None] ELSE h

\* What the fetch found out is stored at once. Only then is the run dropped if
\* it is superseded; otherwise the clean source is kept as the snapshot, the
\* working copy is projected onto it, and the compiler starts, unless the file
\* system is gone.
Fetched(s, license) ==
    LET r == runs[s]
        filled == Filled(hook, s)
        rev == Projected(screen, choice[screen], store)
        projected == IF ~r.mounted THEN [kb |-> r.of.kb, copy |-> r.of.copy, rev |-> 0]
                     ELSE IF filled.vfs = None THEN None
                     ELSE [filled.vfs EXCEPT !.rev = rev]
    IN  /\ store' = [store EXCEPT !.license = license,
                                  !.docs = IF r.writesDocs THEN r.of.kb ELSE @]
        /\ strayed' = [strayed EXCEPT
                          !.license = r.superseded \/ ~r.mounted,
                          !.preview = IF r.superseded THEN @ \/ filled # hook
                                      ELSE @ /\ ~r.mounted]
        /\ IF r.superseded
           THEN Ends(s) /\ hook' = filled /\ UNCHANGED stage
           ELSE /\ hook' = IF r.mounted
                           THEN [filled EXCEPT
                                    !.snapshot = IF filled.vfs # None THEN filled.vfs ELSE @,
                                    !.vfs = projected, !.fetched = TRUE]
                           ELSE hook
                /\ IF projected = None
                   THEN Ends(s) /\ UNCHANGED stage
                   ELSE /\ runs' = [runs EXCEPT ![s].at = "compile", ![s].vfs = projected]
                        /\ Shows(s, Waiting("compiling"))
        /\ UNCHANGED <<screen, choice, pending, decision, acts>>

\* A mutant: the license is only kept with the start docs.
SourceArrivesLicenseWithDocs(s) ==
    /\ runs[s] # None /\ runs[s].at = "source"
    /\ Fetched(s, IF runs[s].writesDocs THEN runs[s].of.kb ELSE store.license)

\* The license kept is that of the keyboard fetched, whatever the run is for.
SourceArrives(s) ==
    /\ runs[s] # None /\ runs[s].at = "source"
    /\ Fetched(s, runs[s].of.kb)

\* The compiler throws, or makes nothing of its input: it is asked for the file
\* of the selected keyboard.
CompileFails(s) ==
    /\ runs[s] # None /\ runs[s].at = "compile"
    /\ IF runs[s].superseded THEN UNCHANGED stage ELSE Shows(s, Failed)
    /\ Ends(s)
    /\ UNCHANGED <<screen, choice, hook, pending, decision, store, acts, strayed>>

Compilable(r) == r.vfs.kb = r.of.kb /\ r.vfs.copy = r.of.copy

\* Output's onInstantiate: another keyboard than the base becomes the base,
\* unless there are edits and the author declines.
Instantiates(s) ==
    LET r == runs[s] IN
    IF r.full /\ r.screen = "output" /\ store.base # r.of.kb
    THEN \/ /\ store' = [store EXCEPT !.base = r.of.kb, !.rev = 1]
            /\ strayed' = IF r.mounted THEN strayed
                          ELSE [strayed EXCEPT !.preview = TRUE, !.base = TRUE]
         \/ /\ store.rev > 1
            /\ UNCHANGED <<store, strayed>>
    ELSE UNCHANGED <<store, strayed>>

\* A mutant: no look at runId after the last await.
CompileEndsUnchecked(s) ==
    LET r == runs[s] IN
    /\ r # None /\ r.at = "compile" /\ Compilable(r)
    /\ Ends(s)
    /\ Instantiates(s)
    /\ pending' = IF r.full /\ r.screen = "survey" /\ r.mounted THEN r.of ELSE pending
    /\ Shows(s, Ready(r.vfs))
    /\ hook' = Noticed(hook, choice[screen], store')
    /\ UNCHANGED <<screen, choice, decision, acts>>

CompileEnds(s) ==
    LET r == runs[s] IN
    /\ r # None /\ r.at = "compile" /\ Compilable(r)
    /\ Ends(s)
    /\ IF r.superseded
       THEN UNCHANGED <<stage, hook, pending, store, strayed>>
       ELSE /\ Instantiates(s)
            /\ pending' = IF r.full /\ r.screen = "survey" /\ r.mounted THEN r.of ELSE pending
            /\ Shows(s, Ready(r.vfs))
            /\ hook' = Noticed(hook, choice[screen], store')
    /\ UNCHANGED <<screen, choice, decision, acts>>

RunStep(s) ==
    \/ EngineFails(s) \/ EngineLoads(s)
    \/ SourceFails(s) \/ SourceArrives(s)
    \/ CompileFails(s) \/ CompileEnds(s)

Next ==
    \/ \E scr \in Screens : OpenScreen(scr)
    \/ \E sel \in Selection : Select(sel)
    \/ Deselect \/ Retry \/ Recompile \/ Confirm \/ Edit
    \/ AdoptLate \/ FollowBase \/ CommitDue \/ TransformDue
    \/ \E s \in Slots : RunStep(s)

Spec == Init /\ [][Next]_vars

\* Every await settles (a fetch by its timeout), and React runs a due effect.
Fairness ==
    /\ WF_vars(TransformDue) /\ WF_vars(AdoptLate)
    /\ WF_vars(FollowBase) /\ WF_vars(CommitDue)
    /\ \A s \in Slots : WF_vars(RunStep(s))

FairSpec == Spec /\ Fairness

-----------------------------------------------------------------------------
(* Correctness.                                                            *)

\* What a screen shows is what is selected there, whatever runs are still under
\* way, overtaken or left behind. Unless a transform is due it is the newest
\* revision of the working copy too, but for a preview whose file system or whose
\* base such a run has replaced.
ShownIsCurrent ==
    choice[screen] # None /\ stage.kind = "ready" =>
        /\ stage.shows.kb = choice[screen].kb
        /\ stage.shows.copy = choice[screen].copy
        /\ \/ hook.due \/ strayed.preview
           \/ stage.shows.rev = Projected(screen, choice[screen], store)

\* When Output shows the working copy, ready to be packaged, the license kept
\* for LICENSE.md is that of its base, unless the last fetch to arrive was that
\* of a run overtaken or left behind.
LicenseIsOwn ==
    /\ screen = "output" /\ stage.kind = "ready"
    /\ choice["output"] # None /\ choice["output"].kb = store.base
    => store.license = store.base \/ strayed.license

\* The keyboard the author has confirmed in the survey is the base of the working
\* copy once its preview has settled, however often she has changed her mind,
\* edited or been elsewhere before: the clicks, the artifacts that settle and the
\* ref of what was committed last come in any order. Only a run of Output, left
\* behind, that replaces the base under the mounted survey can part them.
ConfirmedIsBase ==
    /\ screen = "survey" /\ stage.kind = "ready" /\ hook.clicked
    /\ ~CommitIsDue
    => store.base = choice["survey"].kb \/ strayed.base

\* A screen on which something is selected does not wait for ever.
PreviewSettles ==
    stage.kind \in {"fetching", "compiling"} ~> stage.kind \notin {"fetching", "compiling"}
=============================================================================
