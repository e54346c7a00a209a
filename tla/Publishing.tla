----------------------------- MODULE Publishing -----------------------------
(***************************************************************************)
(* Publishing a keyboard: Output's submit panel and the hand-over that     *)
(* reveals it after test builds, the request it sends, and the service     *)
(* that makes a commit, a branch and a draft pull request of it.           *)
(*                                                                         *)
(* The service keeps the rows of its rate limiter and nothing else: what   *)
(* it does it reads off the repository, call by call, while other requests *)
(* and maintainers change it.  The panel waits for the answer; the author  *)
(* may leave Output, come back and make test builds meanwhile.  All works  *)
(* here are versions of one keyboard id, the case where names collide.     *)
(***************************************************************************)
EXTENDS Integers, Sequences, FiniteSets

CONSTANTS
    Tabs,       \* studio sessions, each with an address of its own
    Requests,
    PerIp,      \* PER_IP_LIMIT
    Global,     \* GLOBAL_LIMIT
    Window,     \* WINDOW_SECONDS and MANAGED_PR_CREATE_WINDOW_MS: both an hour
    Cap,        \* MANAGED_PR_CREATE_CAP
    PerPage,    \* MANAGED_PR_CREATE_PROBE_PER_PAGE
    Hashes,     \* how many short hashes there are: 16^7 in the code
    MaxTime, MaxWork, MaxBuilds, MaxMerges, MaxFaults  \* bounds

ASSUME PublishingLimits ==
    /\ {PerIp, Global, Cap, PerPage, Hashes, MaxWork} \subseteq Nat \ {0}
    /\ {Window, MaxTime, MaxBuilds, MaxMerges, MaxFaults} \subseteq Nat
    /\ Cap <= PerPage

None == "none"

VARIABLES
    clock,
    master,    \* how many pull requests were merged
    branches,  \* the repository's branches: short hash to commit
    prs,       \* the pull requests the bot opened, the oldest first
    rows,      \* the limiter's rows, one per request recorded
    req,       \* each request: how far the service is with it
    ui,        \* each tab: hand-over, panel and testing store; alone is history:
               \* no earlier submission of the tab was out when this one left
    seen,      \* history variable: what a request's checks found
    faults

repository == << master, branches, prs >>
vars == << clock, repository, rows, req, ui, seen, faults >>

Stages == {"new", "counting", "recording", "capping", "reading", "committing",
           "branching", "opening", "answered"}
Results == {None, "ok", "limited", "exists", "failed"}
Panels == {None, "hidden", "idle", "submitting", "success", "error"}

Works == 1 .. MaxWork
Commit == [work : Works, parent : 0 .. MaxMerges, tree : 0 .. MaxMerges, at : 0 .. MaxTime]
Request == [at : Stages, tab : Tabs \cup {None}, work : 0 .. MaxWork, base : 0 .. MaxMerges,
            made : -1 .. MaxTime, tree : 0 .. MaxMerges, row : -1 .. MaxTime, result : Results]
Screen == [panel : Panels, mine : Requests \cup {None}, waiting : SUBSET Requests,
           flag : BOOLEAN, builds : 0 .. MaxBuilds, confirmed : BOOLEAN,
           frozen : BOOLEAN, alone : BOOLEAN]
Sight == [counted : BOOLEAN, rows : SUBSET Requests, since : Int, probed : BOOLEAN,
          upTo : Nat, window : Int]

Init ==
    /\ clock = 0 /\ master = 0 /\ faults = 0
    /\ branches = << >> /\ prs = << >> /\ rows = {}
    /\ req = [r \in Requests |-> [at |-> "new", tab |-> None, work |-> 0, base |-> 0,
                  made |-> -1, tree |-> 0, row |-> -1, result |-> None]]
    /\ ui = [t \in Tabs |-> [panel |-> None, mine |-> None, waiting |-> {}, flag |-> FALSE,
                 builds |-> 0, confirmed |-> FALSE, frozen |-> FALSE,
                 alone |-> TRUE]]
    /\ seen = [r \in Requests |-> [counted |-> FALSE, rows |-> {}, since |-> 0,
                   probed |-> FALSE, upTo |-> 0, window |-> 0]]

------------------------------------------------------------------------------
(* The studio: OutputScreen, PublishHandover, ManagedPRSubmitPanel.         *)

\* PublishHandover shows its children.
Revealed(u) == u.builds = 0 \/ u.frozen \/ u.flag \/ u.confirmed

Mounted(u) == u.panel \notin {None, "hidden"}

\* The panel goes, or a fresh one takes its place; its cleanup drops the flag.
Unmounted(u, panel) == [u EXCEPT !.panel = panel, !.mine = None, !.flag = FALSE]

Open(t) ==
    LET u == [ui[t] EXCEPT !.confirmed = FALSE] IN
    /\ ui[t].panel = None
    /\ ui' = [ui EXCEPT ![t] = [u EXCEPT !.panel = IF Revealed(u) THEN "idle" ELSE "hidden"]]
    /\ UNCHANGED << clock, repository, rows, req, seen, faults >>

Leave(t) ==
    /\ ui[t].panel # None
    /\ ui' = [ui EXCEPT ![t] =
                 IF Mounted(ui[t]) THEN Unmounted(ui[t], None) ELSE [@ EXCEPT !.panel = None]]
    /\ UNCHANGED << clock, repository, rows, req, seen, faults >>

\* "Testing done, publish", checked and confirmed.
Confirm(t) ==
    /\ ui[t].panel = "hidden"
    /\ ui' = [ui EXCEPT ![t].panel = "idle", ![t].confirmed = TRUE]
    /\ UNCHANGED << clock, repository, rows, req, seen, faults >>

\* A mutant: the flag is not looked at, a newer build asks again.
AfterBuildAsksAgain(u) ==
    LET v == [u EXCEPT !.builds = @ + 1, !.confirmed = FALSE] IN
    IF Mounted(u) THEN Unmounted(v, "hidden") ELSE v

\* What a new build does to the screen.  The first one changes the element
\* at PublishHandover's root, so the panel is mounted anew in any case; the
\* flag counts as rendered, and keeps the new panel revealed.
AfterBuild(u) ==
    LET v == [u EXCEPT !.builds = @ + 1, !.confirmed = u.flag] IN
    IF ~Mounted(u) THEN v
    ELSE IF ~u.flag THEN Unmounted(v, "hidden")
    ELSE IF u.builds = 0 THEN Unmounted(v, "idle")
    ELSE v

\* A test build is recorded; a frozen project takes none.
Build(t) ==
    /\ ui[t].panel # None /\ ~ui[t].frozen /\ ui[t].builds < MaxBuilds
    /\ ui' = [ui EXCEPT ![t] = AfterBuild(ui[t])]
    /\ UNCHANGED << clock, repository, rows, req, seen, faults >>

\* handleSubmit up to the request, with the keyboard as it then is.
Submit(t, r, w) ==
    /\ ui[t].panel \in {"idle", "error"} /\ req[r].at = "new"
    /\ ui' = [ui EXCEPT ![t].panel = "submitting", ![t].mine = r, ![t].flag = TRUE,
                        ![t].waiting = @ \cup {r}, ![t].alone = ui[t].waiting = {}]
    /\ req' = [req EXCEPT ![r].at = "counting", ![r].tab = t, ![r].work = w]
    /\ UNCHANGED << clock, repository, rows, seen, faults >>

\* Another author, at one other address, submits; that screen is not modelled.
OtherSubmits(r, w) ==
    /\ req[r].at = "new"
    /\ req' = [req EXCEPT ![r].at = "counting", ![r].work = w]
    /\ UNCHANGED << clock, repository, rows, ui, seen, faults >>

\* handleSubmit after the request.  It runs whether or not its panel is still
\* mounted: the flag is dropped and, after a success, the project frozen.
Settled(t, r, ok) ==
    LET v == [ui[t] EXCEPT !.waiting = @ \ {r}, !.flag = FALSE, !.frozen = @ \/ ok] IN
    ui' = [ui EXCEPT ![t] =
              IF v.mine = r THEN [v EXCEPT !.panel = IF ok THEN "success" ELSE "error"]
              ELSE IF v.panel = "hidden" /\ v.frozen THEN [v EXCEPT !.panel = "idle"]
              ELSE v]

Settle(t, r) ==
    /\ r \in ui[t].waiting /\ req[r].at = "answered"
    /\ Settled(t, r, req[r].result = "ok")
    /\ UNCHANGED << clock, repository, rows, req, seen, faults >>

\* The connection breaks; the service goes on with the request.
AnswerLost(t, r) ==
    /\ r \in ui[t].waiting /\ faults < MaxFaults /\ faults' = faults + 1
    /\ Settled(t, r, FALSE)
    /\ UNCHANGED << clock, repository, rows, req, seen >>

------------------------------------------------------------------------------
(* The service: managed-pr.ts, managed-pr-rate-limit.ts, github-pipeline.ts. *)

Reply(r, result) == [req EXCEPT ![r].at = "answered", ![r].result = result]

\* The order of the calls once the limiter lets the request in.
Followed(stage) ==
    CASE stage = "recording" -> "capping"
      [] stage = "capping" -> "reading"
      [] stage = "reading" -> "committing"
      [] stage = "committing" -> "branching"
      [] stage = "branching" -> "opening"

Stale(r) == req[r].row < clock - Window

\* checkManagedPRRateLimit: DELETE, and the two counts.
Count(r) ==
    LET fresh == {q \in rows : ~Stale(q)}
        own == {q \in fresh : req[q].tab = req[r].tab}
    IN
    /\ req[r].at = "counting"
    /\ rows' = fresh
    /\ seen' = [seen EXCEPT ![r].counted = TRUE, ![r].since = clock - Window,
                            ![r].rows = {q \in Requests : req[q].row >= 0}]
    /\ req' = IF Cardinality(own) >= PerIp \/ Cardinality(fresh) >= Global
              THEN Reply(r, "limited") ELSE [req EXCEPT ![r].at = "recording"]
    /\ UNCHANGED << clock, repository, ui, faults >>

\* checkManagedPRRateLimit: INSERT, an answer of its own.
Record(r) ==
    /\ req[r].at = "recording"
    /\ rows' = rows \cup {r}
    /\ req' = [req EXCEPT ![r].at = Followed("recording"), ![r].row = clock]
    /\ UNCHANGED << clock, repository, ui, seen, faults >>

\* The limiter lets the request in when its database fails.
LimiterFails(r) ==
    /\ req[r].at \in {"counting", "recording"} /\ faults < MaxFaults
    /\ faults' = faults + 1
    /\ req' = [req EXCEPT ![r].at = Followed("recording")]
    /\ UNCHANGED << clock, repository, rows, ui, seen >>

\* A mutant: only the pull requests still open are counted.
CountedIfOpen(p) == p.open /\ p.at >= clock - Window

\* What the cap counts: the bot's pull requests of the window, in any state.
Counted(p) == p.at >= clock - Window

\* checkManagedPRCreateCap: one page, the newest first.
CheckCap(r) ==
    LET page == {i \in 1 .. Len(prs) : i > Len(prs) - PerPage}
        count == Cardinality({i \in page : Counted(prs[i])})
    IN
    /\ req[r].at = "capping"
    /\ seen' = [seen EXCEPT ![r].probed = TRUE, ![r].upTo = Len(prs),
                            ![r].window = clock - Window]
    /\ req' = IF count >= Cap THEN Reply(r, "limited")
              ELSE [req EXCEPT ![r].at = Followed("capping")]
    /\ UNCHANGED << clock, repository, rows, ui, faults >>

\* A probe that fails lets the request through.
ProbeFails(r) ==
    /\ req[r].at = "capping" /\ faults < MaxFaults /\ faults' = faults + 1
    /\ req' = [req EXCEPT ![r].at = Followed("capping")]
    /\ UNCHANGED << clock, repository, rows, ui, seen >>

\* master's head, and the tree of that commit.
ReadMaster(r) ==
    /\ req[r].at = "reading"
    /\ req' = [req EXCEPT ![r].at = Followed("reading"), ![r].base = master]
    /\ UNCHANGED << clock, repository, rows, ui, seen, faults >>

\* A mutant: the tree is built on master as it is now.
TreeOfMaster(r) == master

\* The tree the files are laid on.
BaseTree(r) == req[r].base

\* Blobs, tree and commit, which nothing refers to yet.
MakeCommit(r) ==
    /\ req[r].at = "committing"
    /\ req' = [req EXCEPT ![r].at = Followed("committing"), ![r].made = clock,
                          ![r].tree = BaseTree(r)]
    /\ UNCHANGED << clock, repository, rows, ui, seen, faults >>

\* A commit is its content: what it holds, its parent and when it was made.
CommitOf(r) == [work |-> req[r].work, parent |-> req[r].base, tree |-> req[r].tree,
                at |-> req[r].made]

\* A mutant: the hash is not cut to its length.
WholeHash(r) == LET c == CommitOf(r) IN c.work + 2 * c.parent + 3 * c.at

\* buildManagedBranchName: the keyboard's id and the hash, cut short.
BranchName(r) ==
    LET c == CommitOf(r) IN (c.work + 2 * c.parent + 3 * c.at) % Hashes

\* A mutant: a branch that exists already is taken for this request's own.
NeverTaken(r) == FALSE

Taken(r) == BranchName(r) \in DOMAIN branches

\* The branch, or 409 when the name is taken.  Its answer may be lost.
MakeBranch(r) ==
    /\ req[r].at = "branching"
    /\ \/ /\ Taken(r)
          /\ req' = Reply(r, "exists")
          /\ UNCHANGED << branches, faults >>
       \/ /\ ~Taken(r)
          /\ branches' = [n \in DOMAIN branches \cup {BranchName(r)} |->
                            IF n \in DOMAIN branches THEN branches[n] ELSE CommitOf(r)]
          /\ \/ /\ req' = [req EXCEPT ![r].at = Followed("branching")]
                /\ UNCHANGED faults
             \/ /\ faults < MaxFaults /\ faults' = faults + 1
                /\ req' = Reply(r, "failed")
    /\ UNCHANGED << clock, master, prs, rows, ui, seen >>

\* The draft pull request.  Its answer may be lost.
OpenPR(r) ==
    /\ req[r].at = "opening"
    /\ prs' = Append(prs, [head |-> BranchName(r), by |-> r, at |-> clock, open |-> TRUE])
    /\ \/ /\ req' = Reply(r, "ok")
          /\ UNCHANGED faults
       \/ /\ faults < MaxFaults /\ faults' = faults + 1
          /\ req' = Reply(r, "failed")
    /\ UNCHANGED << clock, master, branches, rows, ui, seen >>

\* The token or a call is refused.
CallRefused(r) ==
    /\ req[r].at \in {"capping", "reading", "committing", "branching", "opening"}
    /\ faults < MaxFaults /\ faults' = faults + 1
    /\ req' = Reply(r, "failed")
    /\ UNCHANGED << clock, repository, rows, ui, seen >>

------------------------------------------------------------------------------

\* A maintainer merges a pull request.
Merge(i) ==
    /\ i \in DOMAIN prs /\ prs[i].open /\ master < MaxMerges
    /\ master' = master + 1
    /\ prs' = [prs EXCEPT ![i].open = FALSE]
    /\ UNCHANGED << clock, branches, rows, req, ui, seen, faults >>

Tick ==
    /\ clock < MaxTime /\ clock' = clock + 1
    /\ UNCHANGED << repository, rows, req, ui, seen, faults >>

Service(r) ==
    \/ Count(r) \/ Record(r) \/ LimiterFails(r) \/ CheckCap(r) \/ ProbeFails(r)
    \/ ReadMaster(r) \/ MakeCommit(r) \/ MakeBranch(r) \/ OpenPR(r) \/ CallRefused(r)

Studio(t) ==
    \/ Open(t) \/ Leave(t) \/ Confirm(t) \/ Build(t)
    \/ \E r \in Requests, w \in Works : Submit(t, r, w)
    \/ \E r \in Requests : Settle(t, r) \/ AnswerLost(t, r)

Next ==
    \/ \E t \in Tabs : Studio(t)
    \/ \E r \in Requests : Service(r) \/ \E w \in Works : OtherSubmits(r, w)
    \/ \E i \in DOMAIN prs : Merge(i)
    \/ Tick

Spec == Init /\ [][Next]_vars
------------------------------------------------------------------------------

\* Every variable holds a value of its set.
TypeOK ==
    /\ clock \in 0 .. MaxTime /\ master \in 0 .. MaxMerges /\ faults \in 0 .. MaxFaults
    /\ DOMAIN branches \subseteq 0 .. Hashes - 1
    /\ \A n \in DOMAIN branches : branches[n] \in Commit
    /\ \A i \in DOMAIN prs : prs[i] \in [head : DOMAIN branches, by : Requests,
                                         at : 0 .. MaxTime, open : BOOLEAN]
    /\ rows \subseteq Requests
    /\ req \in [Requests -> Request]
    /\ ui \in [Tabs -> Screen]
    /\ seen \in [Requests -> Sight]

Made(r) == {i \in DOMAIN prs : prs[i].by = r}

\* Whatever was merged while a request was served, its commit changes only
\* its own files: its tree was laid on its parent's, so merging it undoes
\* nobody's work.
CommitsOwnFiles ==
    \A n \in DOMAIN branches : branches[n].tree = branches[n].parent

\* A pull request shows the work of the request that opened it, and a panel
\* that says so has one: no two requests share a branch, in any order.
HeadIsOwnWork ==
    /\ \A r \in Requests : \A i \in Made(r) : branches[prs[i].head] = CommitOf(r)
    /\ \A t \in Tabs : ui[t].panel = "success" => Made(ui[t].mine) # {}

\* Both limits had room for what passed them. A pull request opened after a
\* probe that was read had fewer than Cap of the bot's in its window when it was
\* probed, merged or not; a request recorded after its count had fewer than
\* PerIp of its address recorded in the window, and Global of all.
LimitsHadRoom ==
    \A r \in Requests :
        LET fresh == {q \in seen[r].rows : req[q].row >= seen[r].since} IN
        /\ Made(r) # {} /\ seen[r].probed =>
               Cardinality({i \in 1 .. seen[r].upTo : prs[i].at >= seen[r].window}) < Cap
        /\ seen[r].counted /\ req[r].row >= 0 =>
               /\ Cardinality({q \in fresh : req[q].tab = req[r].tab}) < PerIp
               /\ Cardinality(fresh) < Global

\* A new test build does not take the waiting panel away, once there is a
\* build and unless an abandoned submission of the tab was still out.
LaterBuildKeepsPanel ==
    [][\A t \in Tabs :
        /\ ui[t].panel = "submitting" /\ ui[t].builds > 0 /\ ui[t].alone
        /\ ui'[t].builds > ui[t].builds
        => ui'[t].panel = "submitting" /\ ui'[t].mine = ui[t].mine]_vars

\* The same as the panel's comment has it: a new test build cannot unmount it.
BuildKeepsPanel ==
    [][\A t \in Tabs :
        ui[t].panel = "submitting" /\ ui'[t].builds > ui[t].builds
        => ui'[t].panel = "submitting" /\ ui'[t].mine = ui[t].mine]_vars

==============================================================================
