--------------------------- MODULE SurveyHistory ---------------------------
(***************************************************************************)
(* Where the author stands in the survey, the stack Back pops, and the     *)
(* browser's own stack of entries.  Three parties move the position: the   *)
(* step on screen (Next, Back), the browser (its Back and Forward buttons  *)
(* fire popstate), and surfaces outside the walk (the footer's dots, the   *)
(* unfinished-gallery button, "Change starting keyboard", Start over).     *)
(* The store (stores/surveySessionStore.ts) owns the position; the hook    *)
(* useSurveyBrowserHistorySync pushes one entry for each Next and turns a  *)
(* popstate into a Back only when the entry names the step Back leads to.  *)
(*                                                                         *)
(* The walk is the Copy track, without the steps that have no rule of      *)
(* their own.  Every route but #survey is one route, Away: the hook is     *)
(* unmounted there.                                                        *)
(***************************************************************************)
EXTENDS Naturals, FiniteSets, Sequences, SequencesExt

CONSTANTS
    MaxMoves,    \* bound: Next, Back and browser moves
    MaxDetours,  \* bound: jumps, gallery returns, tab switches, start-overs
    Resumed      \* the positions of the walk a restored draft may stand on

\* The main line of the walk; the fork "touch_seed_source" is off it.
Walk == << "identity", "choose_base", "carve", "mechanisms", "touch_seed_source",
           "touch", "css", "help", "html", "icon", "done" >>

Steps == ToSet(Walk)
Survey == "survey"
Away == "away"
NoTag == "none"

ASSUME BoundsAreNat == MaxMoves \in Nat /\ MaxDetours \in Nat
ASSUME ResumedIsInWalk == Resumed \subseteq 1 .. Len(Walk)

VARIABLES
    active,      \* the store: the step on screen
    history,     \* the store: the stack Back pops
    visited,     \* the store: every step reached, in first-visit order
    nav,         \* the store: "advance" or "pop", the last move's direction
    seed,        \* the touch-seed-source decision is recorded
    covered,     \* every letter of the inventory has an implementation
    entries,     \* the browser's stack: each entry's route and ksStep
    at,          \* the entry the browser is on
    prev,        \* the hook's prevStepRef
    trail,       \* history variable: the steps behind the author, as walked
    tracked,     \* history variable: only Next and Back since trail was true
    plain,       \* history variable: nothing yet parted store and browser
    moves, detours

store == << active, history, visited, nav >>
ghosts == << trail, tracked, plain >>
vars == << active, history, visited, nav, seed, covered, entries, at, prev,
           trail, tracked, plain, moves, detours >>

route == entries[at].route
Mounted == route = Survey
\* The base is confirmed and the inventory with it: a working copy exists.
HasProject == Contains(visited, "carve")
Entry(r, tag) == [route |-> r, step |-> tag]

-----------------------------------------------------------------------------
\* The store's helpers

FirstOf(seq, step) == SelectInSeq(seq, LAMBDA s : s = step)
LastOf(seq, step) == SelectLastInSeq(seq, LAMBDA s : s = step)
UpTo(seq, i) == SubSeq(seq, 1, i - 1)

\* A mutant: the stack is popped as it is.
SanitizedNever(step, stack) == stack

WithoutHelp(seq) ==
    LET kept[n \in 0 .. Len(seq)] ==
            IF n = 0 THEN << >>
            ELSE IF seq[n] = "help" THEN kept[n - 1] ELSE Append(kept[n - 1], seq[n])
    IN  kept[Len(seq)]

(* A "help" in the stack is kept only when the author is on "html".        *)
Sanitized(step, stack) == IF step = "html" THEN stack ELSE WithoutHelp(stack)

WithVisited(seen, step) == IF Contains(seen, step) THEN seen ELSE Append(seen, step)

HasBack(step, stack) == step = "touch" \/ Sanitized(step, stack) # << >>

(* Where Back would lead, without moving (expectedBackTarget).             *)
BackTarget(step, stack) ==
    IF step = "touch" THEN "touch_seed_source" ELSE Last(Sanitized(step, stack))

\* A mutant: Back from the touch gallery always pops.
StackAfterChooserPops(stack) == IF stack # << >> THEN Front(stack) ELSE stack

(* The chooser's entry is consumed only when it is on top: if the fork was *)
(* skipped, what is on top stays for the chooser's own Back.               *)
StackAfterChooser(stack) ==
    IF stack # << >> /\ Last(stack) = "touch_seed_source" THEN Front(stack) ELSE stack

StackAfterBack(step, stack) ==
    LET clean == Sanitized(step, stack)
    IN  IF step = "touch" THEN StackAfterChooser(clean) ELSE Front(clean)

(* The step the advance policy sends a completed one to: the fork is       *)
(* skipped while a seed is recorded, and help holds the walk while letters *)
(* are unfinished.                                                         *)
NextStep(step) ==
    CASE step = "mechanisms" -> IF seed THEN "touch" ELSE "touch_seed_source"
      [] step = "help" -> IF covered THEN "html" ELSE "help"
      [] OTHER -> Walk[FirstOf(Walk, step) + 1]

(* The back stack of a jump ahead: the walked path up to the target.       *)
Rebuilt(target) ==
    Sanitized(target, UpTo(visited, FirstOf(visited, target)))

StackAfterJump(target) ==
    LET clean == Sanitized(active, history)
    IN  IF Contains(clean, target)
        THEN UpTo(clean, LastOf(clean, target))
        ELSE Rebuilt(target)

-----------------------------------------------------------------------------
\* The hook's effects, and the browser's stack

Push(stack, i, entry) == Append(SubSeq(stack, 1, i), entry)

\* A mutant: arriving leaves the entry as it was.
MountTagNot(stack, i, step) == entries' = stack /\ at' = i /\ prev' = step

(* Arriving at #survey mounts the hook, which renames the entry it stands  *)
(* on to the step the store holds.                                         *)
MountTag(stack, i, step) ==
    /\ entries' = [stack EXCEPT ![i].step = step]
    /\ at' = i
    /\ prev' = step

(* A write of the hash adds an entry with no ksStep; from another route it *)
(* mounts the hook on it.                                                  *)
GoToSurvey(step) ==
    IF Mounted
    THEN prev' = step /\ UNCHANGED << entries, at >>
    ELSE MountTag(Push(entries, at, Entry(Survey, NoTag)), at + 1, step)

(* The effect after an advance: one entry, unless the step did not change. *)
PushAdvance(step) ==
    /\ IF prev = step
       THEN UNCHANGED << entries, at >>
       ELSE entries' = Push(entries, at, Entry(Survey, step)) /\ at' = at + 1
    /\ prev' = step

(* The last step leaves the wizard: the hash is written before the effect  *)
(* runs, so the effect's entry is pushed on top of it.                     *)
PushFinish ==
    /\ entries' = Push(entries, at, Entry(Away, NoTag)) \o << Entry(Away, "done") >>
    /\ at' = at + 2
    /\ prev' = "done"

-----------------------------------------------------------------------------
\* Histories

TrailAfterBack(to) ==
    IF Contains(trail, to) THEN UpTo(trail, LastOf(trail, to)) ELSE trail

Untrack == tracked' = FALSE /\ plain' = FALSE /\ UNCHANGED trail

Moving == moves < MaxMoves /\ moves' = moves + 1 /\ UNCHANGED detours
Detouring == detours < MaxDetours /\ detours' = detours + 1 /\ UNCHANGED moves

-----------------------------------------------------------------------------
\* Steps

(* A fresh session, or a draft restored in a new tab: the author had       *)
(* walked to its position by Next alone.                                   *)
Init ==
    \E k \in Resumed :
        /\ active = Walk[k]
        /\ history = Sanitized(Walk[k], UpTo(Walk, k))
        /\ visited = SubSeq(Walk, 1, k)
        /\ nav = "advance"
        /\ seed = (k > FirstOf(Walk, "touch_seed_source"))
        /\ covered \in (IF k > FirstOf(Walk, "help") THEN {TRUE} ELSE BOOLEAN)
        /\ entries = << Entry(Survey, Walk[k]) >>
        /\ at = 1
        /\ prev = Walk[k]
        /\ trail = UpTo(Walk, k)
        /\ tracked = TRUE
        /\ plain = TRUE
        /\ moves = 0
        /\ detours = 0

(* Both ends of the move are recorded: the step left is provably visited.  *)
VisitedAfter(to) == WithVisited(WithVisited(visited, active), to)

(* The step is completed: the store advances, then the effect pushes.      *)
(* Confirming a base anew forgets the seed; the chooser records it; a      *)
(* gallery may finish the letters or leave some.                           *)
Complete ==
    /\ Moving
    /\ Mounted
    /\ active # "done"
    /\ \E c \in BOOLEAN : covered' = IF active \in {"mechanisms", "touch"} THEN c ELSE covered
    /\ seed' = CASE active = "choose_base" -> FALSE
                 [] active = "touch_seed_source" -> TRUE
                 [] OTHER -> seed
    /\ LET to == NextStep(active) IN
        /\ history' = Append(history, active)
        /\ active' = to
        /\ visited' = VisitedAfter(to)
        /\ nav' = "advance"
        /\ IF to = "done" THEN PushFinish ELSE PushAdvance(to)
        /\ trail' = IF to = active THEN trail ELSE Append(trail, active)
        /\ plain' = (plain /\ active # "html" /\ ~ (active = "mechanisms" /\ seed))
    /\ UNCHANGED tracked

(* performManifestBack, the one Back both buttons share.                   *)
StoreBack ==
    /\ active' = BackTarget(active, history)
    /\ history' = StackAfterBack(active, history)
    /\ nav' = "pop"
    /\ UNCHANGED visited

(* The in-app Back does not move the browser.  The done panel has none.    *)
InAppBack ==
    /\ Moving
    /\ Mounted
    /\ active # "done"
    /\ HasBack(active, history)
    /\ StoreBack
    /\ prev' = active'
    /\ trail' = TrailAfterBack(active')
    /\ plain' = FALSE
    /\ UNCHANGED << seed, covered, entries, at, tracked >>

(* The listener's test: the entry names the step Back leads to.            *)
Accepts(entry) ==
    /\ entry.step # NoTag
    /\ HasBack(active, history)
    /\ BackTarget(active, history) = entry.step

(* The browser's buttons.  popstate reaches the listener while the survey  *)
(* is mounted; the route change it may carry follows, and arriving at      *)
(* #survey from elsewhere renames the entry.                               *)
BrowserGo(to) ==
    /\ Moving
    /\ to \in 1 .. Len(entries)
    /\ IF Mounted /\ Accepts(entries[to])
       THEN StoreBack /\ trail' = TrailAfterBack(active')
       ELSE UNCHANGED << active, history, visited, nav, trail >>
    /\ IF ~Mounted /\ entries[to].route = Survey
       THEN MountTag(entries, to, active)
       ELSE /\ at' = to
            /\ prev' = IF Mounted THEN active' ELSE prev
            /\ UNCHANGED entries
    /\ plain' = (plain /\ (to < at \/ entries[to].route = Away))
    /\ UNCHANGED << seed, covered, tracked >>

BrowserBack == BrowserGo(at - 1)
BrowserForward == BrowserGo(at + 1)

(* A dot of the footer or a row of the trail: any step already reached.    *)
JumpToStep(target) ==
    /\ Detouring
    /\ HasProject
    /\ target # active
    /\ target # "done"
    /\ Contains(visited, target) \/ Contains(history, target)
    /\ active' = target
    /\ history' = StackAfterJump(target)
    /\ visited' = VisitedAfter(target)
    /\ nav' = "pop"
    /\ GoToSurvey(target)
    /\ Untrack
    /\ UNCHANGED << seed, covered >>

(* "Go back and finish", from the gate on help, the Output banner or the   *)
(* navigation bar.  Letters without a touch key count only once a touch    *)
(* layout was made.                                                        *)
BackToUnfinishedGallery(target) ==
    /\ Detouring
    /\ HasProject /\ ~covered
    /\ target = "mechanisms" \/ Contains(visited, "touch")
    /\ LET clean == Sanitized(active, history)
       IN  history' = IF clean = << >> THEN clean ELSE Front(clean)
    /\ active' = target
    /\ nav' = "pop"
    /\ GoToSurvey(target)
    /\ Untrack
    /\ UNCHANGED << visited, seed, covered >>

(* "Change starting keyboard", on Output.                                  *)
BackToChooseStart ==
    /\ Detouring
    /\ ~Mounted /\ HasProject
    /\ LET clean == Sanitized(active, history)
       IN  history' = IF Contains(clean, "choose_base")
                      THEN UpTo(clean, FirstOf(clean, "choose_base"))
                      ELSE << >>
    /\ active' = "choose_base"
    /\ nav' = "pop"
    /\ GoToSurvey("choose_base")
    /\ Untrack
    /\ UNCHANGED << visited, seed, covered >>

(* Start over keeps the survey mounted: the reset reads as an advance.     *)
StartOver ==
    /\ Detouring
    /\ Mounted
    /\ active' = "identity"
    /\ history' = << >>
    /\ visited' = << "identity" >>
    /\ nav' = "advance"
    /\ seed' = FALSE
    /\ covered' = FALSE
    /\ PushAdvance("identity")
    /\ trail' = << >>
    /\ tracked' = TRUE
    /\ plain' = FALSE

(* The tabs: another route and back, by a write of the hash.               *)
LeaveTab ==
    /\ Detouring
    /\ Mounted
    /\ entries' = Push(entries, at, Entry(Away, NoTag))
    /\ at' = at + 1
    /\ UNCHANGED << store, seed, covered, prev, ghosts >>

ReturnToTab ==
    /\ Detouring
    /\ ~Mounted
    /\ GoToSurvey(active)
    /\ UNCHANGED << store, seed, covered, ghosts >>

(* A reload restores the draft, sanitizing its stack; the browser keeps    *)
(* its own.                                                                *)
Reload ==
    /\ Detouring
    /\ history' = Sanitized(active, history)
    /\ IF Mounted
       THEN MountTag(entries, at, active)
       ELSE UNCHANGED << entries, at, prev >>
    /\ UNCHANGED << active, visited, nav, seed, covered, ghosts >>

Next ==
    \/ Complete \/ InAppBack \/ BrowserBack \/ BrowserForward
    \/ \E target \in Steps : JumpToStep(target)
    \/ \E target \in {"mechanisms", "touch"} : BackToUnfinishedGallery(target)
    \/ BackToChooseStart \/ StartOver
    \/ LeaveTab \/ ReturnToTab \/ Reload

Spec == Init /\ [][Next]_vars

-----------------------------------------------------------------------------
\* Properties

(* While nothing but Next, the browser's Back and the tabs has moved the   *)
(* author, the browser's entry names the step on screen, across tab round  *)
(* trips and reloads.                                                      *)
InLockstep == (plain /\ Mounted) => entries[at].step = active

Backed == /\ moves' # moves /\ nav' = "pop"
          /\ << active, history >>' # << active, history >>

(* Back never lands on the gate on help, except from the step help leads   *)
(* to: a blocked Next leaves entries of help on the stack, and a Back that *)
(* popped one would keep the author on the gate.                           *)
GateNotResurfaced == [][(Backed /\ active' = "help") => active = "html"]_vars

StepBehind(walked) == walked # << >> /\ active' = Last(walked)

(* Next and Back undo each other: after any run of the two, Back leads to  *)
(* the step the author walked from (from the touch gallery, to the         *)
(* chooser), whether or not the fork was skipped.  Only a passed help may  *)
(* be left out.                                                            *)
BackRetraces ==
    [][(Backed /\ tracked) =>
           \/ active = "touch" /\ active' = "touch_seed_source"
           \/ StepBehind(trail)
           \/ StepBehind(WithoutHelp(trail))]_vars

(* The same without the last exception: the stack Back pops is the walked  *)
(* path.                                                                   *)
BackRetracesAll ==
    [][(Backed /\ tracked) =>
           \/ active = "touch" /\ active' = "touch_seed_source"
           \/ StepBehind(trail)]_vars

=============================================================================
