---------------------------- MODULE CrashReports ----------------------------
(***************************************************************************)
(* Crash reports: the studio posts what crashed, the service finds or      *)
(* files an issue for it, and the author may take the report back.         *)
(*                                                                         *)
(* The service keeps nothing (FR-105): every decision is read off the      *)
(* issue tracker, over several calls, while other reports, retractions and *)
(* maintainers change what it read.  A report is an actor of its own, from *)
(* the crash to the end of its retraction.  A bug stands for a fingerprint *)
(* label.  Each call on the tracker is one step; a call may be refused,    *)
(* and one that changes the tracker may succeed and lose its answer.       *)
(***************************************************************************)
EXTENDS Integers, FiniteSets

CONSTANTS
    Reports, Sessions, Bugs,
    CommentCap,        \* CRASH_REPORT_COMMENT_CAP
    CommentCooldown,   \* CRASH_REPORT_COMMENT_COOLDOWN_MS
    ReopenCooldown,    \* CRASH_REPORT_REOPEN_COOLDOWN_MS
    CreateWindow,      \* CRASH_REPORT_GLOBAL_CREATE_WINDOW_MS
    CreateCap,         \* CRASH_REPORT_GLOBAL_CREATE_CAP
    PerPage,           \* CRASH_REPORT_CREATE_PROBE_PER_PAGE
    TokenTTL,          \* CRASH_RETRACTION_TOKEN_TTL_MS
    MaxIssues,         \* bound: issues the tracker holds
    MaxPosts,          \* bound: reports of one session
    MaxTime,           \* bound: ticks of the clock
    MaxCloses,         \* bound: issues a maintainer closes
    MaxFaults          \* bound: calls refused or whose answer is lost

ASSUME LimitsArePositive ==
    /\ {CommentCap, CommentCooldown, ReopenCooldown, CreateCap, PerPage, TokenTTL,
        MaxIssues} \subseteq Nat \ {0}
    /\ {CreateWindow, MaxPosts, MaxTime, MaxCloses, MaxFaults} \subseteq Nat

Numbers == 1 .. MaxIssues
None == "none"

VARIABLES
    clock,
    last,     \* the number of the tracker's newest issue
    issues,   \* the tracker: what the service reads of each issue
    comment,  \* the issue that bears the recurrence comment of a report, or 0
    rep,      \* each report: how far the service is with it, and its answer
    tab,      \* each session: send.ts's module state and the mounted notice
    seen,     \* history variable: what a report's lookup and probe found
    past,     \* history variable: each issue's closes and reopens
    closes, faults

tracker == << last, issues, comment, past >>
vars == << clock, last, issues, comment, rep, tab, seen, past, closes, faults >>

Stages == {"new", "asked", "probing", "creating", "commenting", "reopening",
           "noting", "answered"}
Undos == {"no", "asked", "noting", "closing", "deleting", "over"}
Actions == {None, "created", "commented", "reopened"}

Issue == [state : {None, "open", "closed"}, bug : Bugs \cup {None}, by : Reports \cup {None},
          labelled : BOOLEAN, notes : Nat, created : Nat, updated : Nat]
Report == [at : Stages, owner : Sessions \cup {None}, bug : Bugs \cup {None}, now : Nat,
           on : 0 .. MaxIssues, page : Nat, count : Nat, action : Actions, undo : Undos]
Tab == [sent : SUBSET Bugs, waiting : SUBSET Reports, undoable : Reports \cup {None},
        retracted : BOOLEAN]
Sight == [upTo : 0 .. MaxIssues, blind : BOOLEAN, probed : BOOLEAN,
          again : BOOLEAN, closes : Nat, reopens : Nat]
Past == [closes : Nat, reopens : Nat, base : Nat, at : Nat]

Init ==
    /\ clock = 0 /\ last = 0 /\ closes = 0 /\ faults = 0
    /\ issues = [i \in Numbers |-> [state |-> None, bug |-> None, by |-> None,
                     labelled |-> FALSE, notes |-> 0, created |-> 0, updated |-> 0]]
    /\ comment = [r \in Reports |-> 0]
    /\ rep = [r \in Reports |-> [at |-> "new", owner |-> None, bug |-> None, now |-> 0,
                  on |-> 0, page |-> 0, count |-> 0, action |-> None, undo |-> "no"]]
    /\ tab = [s \in Sessions |-> [sent |-> {}, waiting |-> {}, undoable |-> None,
                  retracted |-> FALSE]]
    /\ seen = [r \in Reports |-> [upTo |-> 0, blind |-> FALSE, probed |-> FALSE,
                   again |-> FALSE, closes |-> 0, reopens |-> 0]]
    /\ past = [i \in Numbers |-> [closes |-> 0, reopens |-> 0, base |-> 0, at |-> 0]]

Filed == 1 .. last

------------------------------------------------------------------------------
(* The tracker's answers (external).                                        *)

\* GET issues?labels=...&state=all: the newest issue of the bug.
Matches(b) == {i \in Filed : issues[i].bug = b}

\* GET issues?state=all&since=...&sort=created&direction=desc: one page of
\* the issues updated since, the newest first.
Page(since, n) ==
    LET listed == {i \in Filed : issues[i].updated >= since}
        rank(i) == Cardinality({j \in listed : j >= i})
    IN {i \in listed : rank(i) > (n - 1) * PerPage /\ rank(i) <= n * PerPage}

Comments(i) == issues[i].notes + Cardinality({r \in Reports : comment[r] = i})

Touched(i) == [issues EXCEPT ![i].updated = clock]

Closed(i, labelled) ==
    /\ issues' = [issues EXCEPT ![i].state = "closed", ![i].updated = clock,
                                ![i].labelled = labelled]
    /\ past' = IF issues[i].state = "open"
               THEN [past EXCEPT ![i].closes = @ + 1,
                        ![i].base = IF issues[i].labelled /\ ~labelled THEN past[i].reopens ELSE @]
               ELSE past

------------------------------------------------------------------------------
(* The studio: send.ts and CrashNotice.tsx.                                 *)

\* runReport: nothing is posted for a bug this session already reported.
\* The mark is read before the post and written after the answer.
Crash(s, r, b) ==
    /\ rep[r].at = "new" /\ b \notin tab[s].sent
    /\ Cardinality({q \in Reports : rep[q].owner = s}) < MaxPosts
    /\ rep' = [rep EXCEPT ![r].at = "asked", ![r].owner = s, ![r].bug = b, ![r].now = clock]
    /\ tab' = [tab EXCEPT ![s].undoable = None, ![s].waiting = @ \cup {r}]
    /\ UNCHANGED << clock, tracker, seen, closes, faults >>

\* runReport, after the answer: an ok answer marks the bug and shows the
\* notice with its Undo; any other is silent and takes the notice away.
Hear(r) ==
    LET s == rep[r].owner IN
    /\ rep[r].at = "answered" /\ r \in tab[s].waiting
    /\ IF rep[r].action = None
       THEN tab' = [tab EXCEPT ![s].waiting = @ \ {r}, ![s].undoable = None]
       ELSE tab' = [tab EXCEPT ![s].waiting = @ \ {r}, ![s].undoable = r,
                               ![s].sent = @ \cup {rep[r].bug}]
    /\ UNCHANGED << clock, tracker, rep, seen, closes, faults >>

\* The post's abort timer runs out, whatever the service still does.
GiveUp(s, r) ==
    /\ r \in tab[s].waiting
    /\ tab' = [tab EXCEPT ![s].waiting = @ \ {r}, ![s].undoable = None]
    /\ UNCHANGED << clock, tracker, rep, seen, closes, faults >>

\* The author presses Undo in time: the token of the report shown is posted.  The
\* notice keeps its retracted flag, so it offers no second Undo.
Undo(s) ==
    /\ tab[s].undoable # None /\ ~tab[s].retracted
    /\ tab' = [tab EXCEPT ![s].undoable = None, ![s].retracted = TRUE]
    /\ rep' = [rep EXCEPT ![tab[s].undoable].undo = "asked"]
    /\ UNCHANGED << clock, tracker, seen, closes, faults >>

------------------------------------------------------------------------------
(* submitCrashReport.                                                       *)

Answer(r, action) ==
    [rep EXCEPT ![r].at = "answered", ![r].action = action, ![r].page = 0, ![r].count = 0]

\* A call succeeded; its answer may be lost, which the service reports as a
\* failure.
Answered(r, action) ==
    \/ /\ rep' = Answer(r, action)
       /\ UNCHANGED faults
    \/ /\ faults < MaxFaults /\ faults' = faults + 1
       /\ rep' = Answer(r, None)

\* A mutant: the cooldown is read off updated_at alone.
AnyClosedHitSuppressed(r, i) == rep[r].now - issues[i].updated < ReopenCooldown

\* A closed match that this pipeline already reopened, within the cooldown.
Suppressed(r, i) ==
    /\ issues[i].labelled
    /\ rep[r].now - issues[i].updated < ReopenCooldown

\* commentIsCapped
Capped(r, i) ==
    \/ Comments(i) >= CommentCap
    \/ rep[r].now - issues[i].updated < CommentCooldown

\* A mutant: only open issues are looked for.
OpenMatches(b) == {i \in Filed : issues[i].bug = b /\ issues[i].state = "open"}

\* findExistingIssue
Existing(b) == Matches(b)

\* The newest of some issues, which the listing puts first.
Newest(matches) == {i \in matches : \A j \in matches : j <= i}

\* The lookup finds nothing.
LookupMisses(r) ==
    /\ rep[r].at = "asked" /\ Existing(rep[r].bug) = {}
    /\ rep' = [rep EXCEPT ![r].at = "probing", ![r].page = 1, ![r].count = 0]
    /\ seen' = [seen EXCEPT ![r].upTo = last]
    /\ UNCHANGED << clock, tracker, tab, closes, faults >>

\* The lookup finds issue i: handleExistingIssue as far as its next call.
LookupFinds(r, i) ==
    LET silent == \/ issues[i].state = "open" /\ Capped(r, i)
                  \/ issues[i].state = "closed" /\ Suppressed(r, i)
    IN
    /\ rep[r].at = "asked" /\ i \in Newest(Existing(rep[r].bug))
    /\ rep' = [rep EXCEPT ![r].on = i,
                  ![r].at = IF silent THEN "answered"
                            ELSE IF issues[i].state = "open" THEN "commenting" ELSE "reopening",
                  ![r].action = IF silent THEN "commented" ELSE None]
    /\ seen' = [seen EXCEPT ![r].closes = past[i].closes, ![r].reopens = past[i].reopens,
                  ![r].again = past[i].reopens > past[i].base]
    /\ UNCHANGED << clock, tracker, tab, closes, faults >>

\* A lookup that fails is taken for no match (FR-096).
LookupFails(r) ==
    /\ rep[r].at = "asked" /\ faults < MaxFaults
    /\ rep' = [rep EXCEPT ![r].at = "probing", ![r].page = 1, ![r].count = 0]
    /\ seen' = [seen EXCEPT ![r].upTo = last, ![r].blind = TRUE]
    /\ faults' = faults + 1
    /\ UNCHANGED << clock, tracker, tab, closes >>

\* A mutant: one page only, whatever the cap.
OnePage == 1

\* CRASH_REPORT_CREATE_PROBE_MAX_PAGES
MaxPages == (CreateCap + PerPage - 1) \div PerPage

\* checkGlobalCreateCap, one page.
Probe(r) ==
    LET since == rep[r].now - CreateWindow
        page == Page(since, rep[r].page)
        fresh == Cardinality({i \in page : issues[i].created >= since})
        count == rep[r].count + fresh
    IN
    /\ rep[r].at = "probing"
    /\ IF count >= CreateCap
       THEN /\ rep' = Answer(r, None)
            /\ UNCHANGED seen
       ELSE IF Cardinality(page) < PerPage \/ fresh = 0 \/ rep[r].page >= MaxPages
       THEN /\ rep' = [rep EXCEPT ![r].at = "creating", ![r].page = 0, ![r].count = 0]
            /\ seen' = [seen EXCEPT ![r].probed = TRUE]
       ELSE /\ rep' = [rep EXCEPT ![r].page = @ + 1, ![r].count = count]
            /\ UNCHANGED seen
    /\ UNCHANGED << clock, tracker, tab, closes, faults >>

\* A page that cannot be read lets the creation through (FR-106).
ProbeFails(r) ==
    /\ rep[r].at = "probing" /\ faults < MaxFaults
    /\ rep' = [rep EXCEPT ![r].at = "creating", ![r].page = 0, ![r].count = 0]
    /\ faults' = faults + 1
    /\ UNCHANGED << clock, tracker, tab, seen, closes >>

Create(r) ==
    /\ rep[r].at = "creating" /\ last < MaxIssues
    /\ last' = last + 1
    /\ issues' = [issues EXCEPT ![last + 1] =
                    [state |-> "open", bug |-> rep[r].bug, by |-> r, labelled |-> FALSE,
                     notes |-> 0, created |-> clock, updated |-> clock]]
    /\ \/ /\ rep' = [rep EXCEPT ![r].at = "answered", ![r].action = "created",
                                ![r].on = last + 1]
          /\ UNCHANGED faults
       \/ /\ faults < MaxFaults /\ faults' = faults + 1
          /\ rep' = Answer(r, None)
    /\ UNCHANGED << clock, comment, tab, seen, past, closes >>

\* The recurrence comment on an open match.
Comment(r) ==
    /\ rep[r].at = "commenting"
    /\ comment' = [comment EXCEPT ![r] = rep[r].on]
    /\ issues' = Touched(rep[r].on)
    /\ Answered(r, "commented")
    /\ UNCHANGED << clock, last, tab, seen, past, closes >>

\* PATCH state open with the regression label.
PatchOpen(i) ==
    issues' = [issues EXCEPT ![i].state = "open", ![i].updated = clock, ![i].labelled = TRUE]

Reopen(r) ==
    LET i == rep[r].on IN
    /\ rep[r].at = "reopening"
    /\ PatchOpen(i)
    /\ past' = [past EXCEPT ![i].reopens = @ + 1, ![i].at = clock]
    /\ \/ /\ rep' = [rep EXCEPT ![r].at = "noting"]
          /\ UNCHANGED faults
       \/ /\ faults < MaxFaults /\ faults' = faults + 1
          /\ rep' = Answer(r, None)
    /\ UNCHANGED << clock, last, comment, tab, seen, closes >>

\* The reopen's comment, which no cap applies to.
NoteReopen(r) ==
    /\ rep[r].at = "noting"
    /\ comment' = [comment EXCEPT ![r] = rep[r].on]
    /\ issues' = Touched(rep[r].on)
    /\ Answered(r, "reopened")
    /\ UNCHANGED << clock, last, tab, seen, past, closes >>

\* The token mint or a call that writes is refused: the report ends.
CallRefused(r) ==
    /\ rep[r].at \in {"asked", "creating", "commenting", "reopening", "noting"}
    /\ faults < MaxFaults /\ faults' = faults + 1
    /\ rep' = Answer(r, None)
    /\ UNCHANGED << clock, tracker, tab, seen, closes >>

------------------------------------------------------------------------------
(* retractCrashReport: what it acts on comes from the token, that is, from  *)
(* the answer the report was given.                                         *)

\* A mutant: the token names the issue only, so every undo closes it.
GrantOfIssue(r) == "noting"

\* A mutant: the action in the token is taken for the step to do.
GrantAsRead(r) == rep[r].action

\* What the grant in the token leads to first.
Granted(r) ==
    IF rep[r].action = "created" THEN "noting"
    ELSE IF comment[r] # 0 THEN "deleting" ELSE "over"

Retract(r) ==
    /\ rep[r].undo = "asked"
    /\ rep' = [rep EXCEPT ![r].undo =
                  IF clock >= rep[r].now + TokenTTL THEN "over" ELSE Granted(r)]
    /\ UNCHANGED << clock, tracker, tab, seen, closes, faults >>

RetractNote(r) ==
    LET i == rep[r].on IN
    /\ rep[r].undo = "noting"
    /\ issues' = [issues EXCEPT ![i].notes = @ + 1, ![i].updated = clock]
    /\ \/ /\ rep' = [rep EXCEPT ![r].undo = "closing"]
          /\ UNCHANGED faults
       \/ /\ faults < MaxFaults /\ faults' = faults + 1
          /\ rep' = [rep EXCEPT ![r].undo = "over"]
    /\ UNCHANGED << clock, last, comment, tab, seen, past, closes >>

RetractClose(r) ==
    /\ rep[r].undo = "closing"
    /\ Closed(rep[r].on, issues[rep[r].on].labelled)
    /\ rep' = [rep EXCEPT ![r].undo = "over"]
    /\ UNCHANGED << clock, last, comment, tab, seen, closes, faults >>

\* Whether a deletion counts as an update is the tracker's affair.
RetractDelete(r) ==
    /\ rep[r].undo = "deleting"
    /\ comment' = [comment EXCEPT ![r] = 0]
    /\ issues' \in {issues, Touched(rep[r].on)}
    /\ rep' = [rep EXCEPT ![r].undo = "over"]
    /\ UNCHANGED << clock, last, tab, seen, past, closes, faults >>

RetractRefused(r) ==
    /\ rep[r].undo \in {"noting", "closing", "deleting"}
    /\ faults < MaxFaults /\ faults' = faults + 1
    /\ rep' = [rep EXCEPT ![r].undo = "over"]
    /\ UNCHANGED << clock, tracker, tab, seen, closes >>

------------------------------------------------------------------------------

\* A maintainer closes an issue, and may take the regression label off it.
MaintainerCloses(i, labelled) ==
    /\ i \in Filed /\ issues[i].state = "open" /\ closes < MaxCloses
    /\ labelled => issues[i].labelled
    /\ Closed(i, labelled)
    /\ closes' = closes + 1
    /\ UNCHANGED << clock, last, comment, rep, tab, seen, faults >>

Tick ==
    /\ clock < MaxTime /\ clock' = clock + 1
    /\ UNCHANGED << tracker, rep, tab, seen, closes, faults >>

Service(r) ==
    \/ LookupMisses(r) \/ (\E i \in Numbers : LookupFinds(r, i)) \/ LookupFails(r)
    \/ Probe(r) \/ ProbeFails(r) \/ Create(r)
    \/ Comment(r) \/ Reopen(r) \/ NoteReopen(r) \/ CallRefused(r)
    \/ Retract(r) \/ RetractNote(r) \/ RetractClose(r) \/ RetractDelete(r)
    \/ RetractRefused(r)

Studio(s) ==
    \/ \E r \in Reports, b \in Bugs : Crash(s, r, b)
    \/ \E r \in Reports : GiveUp(s, r)
    \/ Undo(s)

Next ==
    \/ \E r \in Reports : Service(r) \/ Hear(r)
    \/ \E s \in Sessions : Studio(s)
    \/ \E i \in Numbers, l \in BOOLEAN : MaintainerCloses(i, l)
    \/ Tick

Spec == Init /\ [][Next]_vars
------------------------------------------------------------------------------

\* Every variable holds a value of its set.
TypeOK ==
    /\ clock \in 0 .. MaxTime /\ last \in 0 .. MaxIssues
    /\ issues \in [Numbers -> Issue]
    /\ comment \in [Reports -> 0 .. MaxIssues]
    /\ rep \in [Reports -> Report]
    /\ tab \in [Sessions -> Tab]
    /\ seen \in [Reports -> Sight]
    /\ past \in [Numbers -> Past]
    /\ closes \in 0 .. MaxCloses /\ faults \in 0 .. MaxFaults

\* One issue per bug (FR-090, FR-097): when two issues name one bug, the
\* report that filed the later one either could not read the tracker or had
\* read it before the earlier one was filed.
DuplicatesOnlyFromRaces ==
    \A i, j \in Filed :
        i < j /\ issues[i].bug = issues[j].bug =>
            LET r == issues[j].by IN seen[r].blind \/ i > seen[r].upTo

\* The creation cap (FR-106): a report whose probe was read files an issue
\* only if fewer than CreateCap had been filed in its window when the probe
\* began, however the pages shift under it.
CreationHadRoom ==
    \A i \in Filed :
        LET r == issues[i].by IN
        seen[r].probed =>
            Cardinality({j \in 1 .. seen[r].upTo :
                issues[j].created >= rep[r].now - CreateWindow}) < CreateCap

Acknowledges(r) ==
    /\ rep[r].at # "answered" /\ rep'[r].at = "answered"
    /\ rep'[r].action \in {"commented", "reopened"}

Reclosed(r) == past'[rep'[r].on].closes # seen'[r].closes

ReopensNow(r) ==
    /\ rep[r].at = "reopening" /\ rep'[r].at \in {"noting", "answered"}
    /\ past'[rep[r].on].reopens > past[rep[r].on].reopens

\* Reopening is due once per close (FR-095, FR-095a). A recurrence the studio
\* is told was received leaves its issue open, unless someone closed it after
\* the lookup or this pipeline had reopened it before; and a report that could
\* see that reopen repeats it only when the cooldown has passed since.
ReopensWhenDue ==
    [][\A r \in Reports :
        /\ Acknowledges(r) /\ ~Reclosed(r) /\ ~seen'[r].again =>
               issues'[rep'[r].on].state = "open"
        /\ ReopensNow(r) /\ seen[r].again /\ seen[r].reopens = past[rep[r].on].reopens =>
               rep[r].now - past[rep[r].on].at >= ReopenCooldown]_vars

\* FR-075, FR-076: a comment goes, and an issue is closed other than by a
\* maintainer, only because the author of that very report undid it.
UndoIsOwn ==
    [][/\ \A r \in Reports : comment[r] # 0 /\ comment'[r] # comment[r] =>
              comment'[r] = 0 /\ rep[r].undo # "no"
       /\ \A i \in Numbers : issues[i].state = "open" /\ issues'[i].state = "closed" =>
              \/ closes' = closes + 1
              \/ rep[issues[i].by].undo # "no" /\ rep[issues[i].by].on = i]_vars

==============================================================================
