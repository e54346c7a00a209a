-------------------------- MODULE PublishingProofs --------------------------
(***************************************************************************)
(* Proofs about Publishing for every set of studios and requests, every    *)
(* limit and every bound: types, whose work a pull request shows, what a   *)
(* commit is laid on, that the limits had room for what passed them, and   *)
(* that a test build leaves the waiting panel where it is.                 *)
(***************************************************************************)
EXTENDS Publishing, FiniteSetTheorems, TLAPS

-----------------------------------------------------------------------------
(* Types.                                                                  *)

PullRequest == [head : 0 .. Hashes - 1, by : Requests, at : 0 .. MaxTime, open : BOOLEAN]

\* A request on its way has a work, one with a commit the time of it, one about
\* to open its pull request a branch with that commit, and none succeeds before
\* it is answered.
Ready ==
    \A r \in Requests :
        /\ req[r].at # "answered" => req[r].result # "ok"
        /\ req[r].at # "new" => req[r].work \in Works
        /\ req[r].at \in {"branching", "opening"} => req[r].made \in 0 .. MaxTime
        /\ req[r].at = "opening" =>
              BranchName(r) \in DOMAIN branches /\ branches[BranchName(r)] = CommitOf(r)

\* The type invariant, with what the branches and the list are as functions.
Typed ==
    /\ TypeOK
    /\ Ready
    /\ branches = [n \in DOMAIN branches |-> branches[n]]
    /\ prs \in Seq(PullRequest)

\* The limits and bounds are numbers.
LEMMA Numbers ==
    /\ Hashes \in Nat \ {0} /\ Cap \in Nat \ {0} /\ PerPage \in Nat \ {0} /\ Cap <= PerPage
    /\ PerIp \in Nat /\ Global \in Nat /\ Window \in Nat /\ MaxWork \in Nat \ {0}
    /\ MaxTime \in Nat /\ MaxBuilds \in Nat /\ MaxMerges \in Nat /\ MaxFaults \in Nat
BY PublishingLimits

\* What is typed, fact by fact.
LEMMA Facts ==
    ASSUME Typed
    PROVE  /\ clock \in 0 .. MaxTime /\ master \in 0 .. MaxMerges /\ faults \in 0 .. MaxFaults
           /\ clock \in Int /\ master \in Int /\ faults \in Int
           /\ DOMAIN branches \subseteq 0 .. Hashes - 1
           /\ \A n \in DOMAIN branches : branches[n] \in Commit
           /\ \A i \in DOMAIN prs : prs[i].head \in DOMAIN branches /\ prs[i] \in PullRequest
           /\ prs \in Seq(PullRequest) /\ Len(prs) \in Nat /\ DOMAIN prs = 1 .. Len(prs)
           /\ rows \subseteq Requests
           /\ req \in [Requests -> Request]
           /\ ui \in [Tabs -> Screen]
           /\ seen \in [Requests -> Sight]
           /\ Ready
BY Numbers DEF Typed, TypeOK, PullRequest

LEMMA TypedInit == Init => Typed
<1> SUFFICES ASSUME Init PROVE Typed
  OBVIOUS
<1>1. req \in [Requests -> Request]
  BY Numbers DEF Init, Request, Stages, Results
<1>2. ui \in [Tabs -> Screen]
  BY Numbers DEF Init, Screen, Panels
<1>3. seen \in [Requests -> Sight]
  BY DEF Init, Sight
<1>4. Ready
  BY DEF Init, Ready, None
<1>5. branches = << >> /\ prs = << >> /\ DOMAIN branches = {} /\ DOMAIN prs = {}
  BY DEF Init
<1>6. branches = [n \in DOMAIN branches |-> branches[n]]
  BY <1>5
<1>7. prs \in Seq(PullRequest)
  BY <1>5
<1>8. clock \in 0 .. MaxTime /\ master \in 0 .. MaxMerges /\ faults \in 0 .. MaxFaults
      /\ rows \subseteq Requests
  BY Numbers DEF Init
<1>9. TypeOK
  BY <1>1, <1>2, <1>3, <1>5, <1>8 DEF TypeOK
<1> QED BY <1>4, <1>6, <1>7, <1>9 DEF Typed

\* A branch name is a short hash.
LEMMA NameIsHash ==
    ASSUME Typed, NEW r \in Requests
    PROVE  BranchName(r) \in 0 .. Hashes - 1 /\ CommitOf(r).work = req[r].work
<1>1. req[r] \in Request
  BY Facts
<1>2. req[r].work \in Int /\ req[r].base \in Int /\ req[r].made \in Int
  BY <1>1, Numbers DEF Request
<1> DEFINE h == req[r].work + 2 * req[r].base + 3 * req[r].made
<1>3. h \in Int
  BY <1>2
<1>4. \A m \in Int : m % Hashes \in 0 .. Hashes - 1
  BY Numbers
<1>5. BranchName(r) = h % Hashes
  BY DEF BranchName, CommitOf
<1> QED BY <1>3, <1>4, <1>5 DEF CommitOf

\* Updates of a request, of a screen and of what a request has seen.
LEMMA RequestsKept ==
    ASSUME Typed, NEW r \in Requests
    PROVE  /\ \A s \in Stages : [req EXCEPT ![r].at = s] \in [Requests -> Request]
           /\ \A x \in Results : Reply(r, x) \in [Requests -> Request]
           /\ \A s \in Stages, t \in Tabs, w \in Works :
                [req EXCEPT ![r].at = s, ![r].tab = t, ![r].work = w] \in [Requests -> Request]
           /\ \A s \in Stages, w \in Works :
                [req EXCEPT ![r].at = s, ![r].work = w] \in [Requests -> Request]
           /\ \A s \in Stages : [req EXCEPT ![r].at = s, ![r].row = clock] \in [Requests -> Request]
           /\ \A s \in Stages : [req EXCEPT ![r].at = s, ![r].base = master] \in [Requests -> Request]
           /\ \A s \in Stages, b \in 0 .. MaxMerges :
                [req EXCEPT ![r].at = s, ![r].made = clock, ![r].tree = b]
                    \in [Requests -> Request]
<1>1. req \in [Requests -> Request] /\ req[r] \in Request
  BY Facts
<1>2. clock \in 0 .. MaxTime /\ master \in 0 .. MaxMerges
  BY Facts
<1>3. clock \in -1 .. MaxTime
  BY <1>2, Numbers
<1>4. \A w \in Works : w \in 0 .. MaxWork
  BY Numbers DEF Works
<1>5. "answered" \in Stages
  BY DEF Stages
<1>6. \A s \in Stages : [req EXCEPT ![r].at = s] \in [Requests -> Request]
  BY <1>1 DEF Request
<1>7. \A x \in Results : Reply(r, x) \in [Requests -> Request]
  BY <1>1, <1>5 DEF Request, Reply
<1>8. \A s \in Stages, t \in Tabs, w \in Works :
        [req EXCEPT ![r].at = s, ![r].tab = t, ![r].work = w] \in [Requests -> Request]
  BY <1>1, <1>4 DEF Request
<1>9. \A s \in Stages, w \in Works :
        [req EXCEPT ![r].at = s, ![r].work = w] \in [Requests -> Request]
  BY <1>1, <1>4 DEF Request
<1>10. \A s \in Stages : [req EXCEPT ![r].at = s, ![r].row = clock] \in [Requests -> Request]
  BY <1>1, <1>3 DEF Request
<1>11. \A s \in Stages : [req EXCEPT ![r].at = s, ![r].base = master] \in [Requests -> Request]
  BY <1>1, <1>2 DEF Request
<1>12. \A s \in Stages, b \in 0 .. MaxMerges :
         [req EXCEPT ![r].at = s, ![r].made = clock, ![r].tree = b] \in [Requests -> Request]
  BY <1>1, <1>3 DEF Request
<1> QED BY <1>6, <1>7, <1>8, <1>9, <1>10, <1>11, <1>12

LEMMA SightKept ==
    ASSUME Typed, NEW r \in Requests
    PROVE  /\ \A n \in Int : \A q \in SUBSET Requests :
                [seen EXCEPT ![r].counted = TRUE, ![r].since = n, ![r].rows = q]
                    \in [Requests -> Sight]
           /\ \A n \in Int : \A k \in Nat :
                [seen EXCEPT ![r].probed = TRUE, ![r].upTo = k, ![r].window = n]
                    \in [Requests -> Sight]
<1>1. seen \in [Requests -> Sight] /\ seen[r] \in Sight
  BY Facts
<1> QED BY <1>1 DEF Sight

\* The next stage is a stage.
LEMMA StagesFollow ==
    \A s \in {"recording", "capping", "reading", "committing", "branching"} : Followed(s) \in Stages
BY DEF Followed, Stages

\* What the handlers of a screen leave of it is a screen.
LEMMA ScreensStay ==
    ASSUME Typed, NEW t \in Tabs, Studio(t)
    PROVE  ui' \in [Tabs -> Screen]
<1>1. ui \in [Tabs -> Screen] /\ ui[t] \in Screen
  BY Facts
<1>2. \A u \in Screen : [ui EXCEPT ![t] = u] \in [Tabs -> Screen]
  BY <1>1
<1>3. \A u \in Screen, p \in Panels : Unmounted(u, p) \in Screen
  BY DEF Unmounted, Screen
<1>4. {None, "hidden", "idle", "submitting", "success", "error"} = Panels
  BY DEF Panels
<1>5. CASE Open(t)
  <2>1. [ui[t] EXCEPT !.confirmed = FALSE] \in Screen
    BY <1>1 DEF Screen
  <2>2. \A u \in Screen : [u EXCEPT !.panel = "idle"] \in Screen /\ [u EXCEPT !.panel = "hidden"] \in Screen
    BY <1>4 DEF Screen
  <2> QED BY <1>2, <1>5, <2>1, <2>2 DEF Open
<1>6. CASE Leave(t)
  <2>1. [ui[t] EXCEPT !.panel = None] \in Screen /\ Unmounted(ui[t], None) \in Screen
    BY <1>1, <1>3, <1>4 DEF Screen
  <2>2. ui' = [ui EXCEPT ![t] = IF Mounted(ui[t]) THEN Unmounted(ui[t], None)
                                ELSE [ui[t] EXCEPT !.panel = None]]
    BY <1>6 DEF Leave
  <2> QED BY <1>2, <2>1, <2>2
<1>7. CASE Confirm(t)
  <2>1. ui' = [ui EXCEPT ![t] = [ui[t] EXCEPT !.panel = "idle", !.confirmed = TRUE]]
    BY <1>1, <1>7 DEF Confirm
  <2>2. [ui[t] EXCEPT !.panel = "idle", !.confirmed = TRUE] \in Screen
    BY <1>1, <1>4 DEF Screen
  <2> QED BY <1>2, <2>1, <2>2
<1>8. CASE Build(t)
  <2> DEFINE v == [ui[t] EXCEPT !.builds = @ + 1, !.confirmed = ui[t].flag]
  <2>1. ui[t].builds + 1 \in 0 .. MaxBuilds /\ ui[t].flag \in BOOLEAN
    BY <1>1, <1>8, Numbers DEF Build, Screen
  <2>2. v \in Screen
    BY <1>1, <2>1 DEF Screen
  <2>3. AfterBuild(ui[t]) \in Screen
    BY <1>3, <1>4, <2>2 DEF AfterBuild
  <2> QED BY <1>2, <1>8, <2>3 DEF Build
<1>9. ASSUME NEW r \in Requests, NEW w \in Works, Submit(t, r, w) PROVE ui' \in [Tabs -> Screen]
  <2> DEFINE v == [ui[t] EXCEPT !.panel = "submitting", !.mine = r, !.flag = TRUE,
                                !.waiting = @ \cup {r}, !.alone = ui[t].waiting = {}]
  <2>1. v \in Screen
    BY <1>1, <1>4 DEF Screen
  <2>2. ui' = [ui EXCEPT ![t] = v]
    BY <1>1, <1>9 DEF Submit
  <2> QED BY <1>2, <2>1, <2>2
<1>10. ASSUME NEW r \in Requests, NEW ok \in BOOLEAN, Settled(t, r, ok)
       PROVE  ui' \in [Tabs -> Screen]
  <2> DEFINE v == [ui[t] EXCEPT !.waiting = @ \ {r}, !.flag = FALSE, !.frozen = @ \/ ok]
  <2>1. v \in Screen
    BY <1>1 DEF Screen
  <2>2. [v EXCEPT !.panel = IF ok THEN "success" ELSE "error"] \in Screen
        /\ [v EXCEPT !.panel = "idle"] \in Screen
    BY <1>4, <2>1 DEF Screen
  <2> QED BY <1>2, <1>10, <2>1, <2>2 DEF Settled
<1>11. \A r \in Requests : (req[r].result = "ok") \in BOOLEAN
  OBVIOUS
<1> QED BY <1>5, <1>6, <1>7, <1>8, <1>9, <1>10, <1>11 DEF Studio, Settle, AnswerLost

\* The screens and the sights of the other actors do not change.
LEMMA Frames ==
    ASSUME Typed
    PROVE  /\ \A t \in Tabs : Studio(t) =>
                 UNCHANGED << clock, master, branches, prs, rows, seen >>
           /\ \A r \in Requests : Service(r) => UNCHANGED << clock, master, ui >>
<1>1. ASSUME NEW t \in Tabs, Studio(t)
      PROVE  UNCHANGED << clock, master, branches, prs, rows, seen >>
  BY <1>1 DEF Studio, Open, Leave, Confirm, Build, Submit, Settle, AnswerLost, repository
<1>2. ASSUME NEW r \in Requests, Service(r) PROVE UNCHANGED << clock, master, ui >>
  BY <1>2 DEF Service, Count, Record, LimiterFails, CheckCap, ProbeFails, ReadMaster,
     MakeCommit, MakeBranch, OpenPR, CallRefused, repository
<1> QED BY <1>1, <1>2

\* The requests stay typed, whoever moves.
LEMMA RequestsTyped ==
    ASSUME Typed, [Next]_vars
    PROVE  req' \in [Requests -> Request]
<1>1. req \in [Requests -> Request]
  BY Facts
<1>2. Stages = {"new", "counting", "recording", "capping", "reading", "committing",
                "branching", "opening", "answered"}
      /\ Results = {None, "ok", "limited", "exists", "failed"}
  BY DEF Stages, Results
<1>3. ASSUME NEW t \in Tabs, Studio(t) PROVE req' \in [Requests -> Request]
  <2>1. CASE Open(t) \/ Leave(t) \/ Confirm(t) \/ Build(t)
             \/ \E r \in Requests : Settle(t, r) \/ AnswerLost(t, r)
    BY <1>1, <2>1 DEF Open, Leave, Confirm, Build, Settle, AnswerLost
  <2>2. ASSUME NEW r \in Requests, NEW w \in Works, Submit(t, r, w)
        PROVE  req' \in [Requests -> Request]
    <3>1. req' = [req EXCEPT ![r].at = "counting", ![r].tab = t, ![r].work = w]
      BY <2>2 DEF Submit
    <3>2. "counting" \in Stages
      BY <1>2
    <3>3. \A s \in Stages : [req EXCEPT ![r].at = s, ![r].tab = t, ![r].work = w]
                               \in [Requests -> Request]
      BY RequestsKept
    <3> QED BY <3>1, <3>2, <3>3
  <2> QED BY <1>3, <2>1, <2>2 DEF Studio
<1>4. ASSUME NEW r \in Requests, Service(r) PROVE req' \in [Requests -> Request]
  <2>1. CASE Count(r)
    BY <1>2, <2>1, RequestsKept DEF Count
  <2>2. CASE Record(r)
    BY <2>2, RequestsKept, StagesFollow DEF Record
  <2>3. CASE LimiterFails(r)
    BY <2>3, RequestsKept, StagesFollow DEF LimiterFails
  <2>4. CASE CheckCap(r)
    BY <1>2, <2>4, RequestsKept, StagesFollow DEF CheckCap
  <2>5. CASE ProbeFails(r)
    BY <2>5, RequestsKept, StagesFollow DEF ProbeFails
  <2>6. CASE ReadMaster(r)
    BY <2>6, RequestsKept, StagesFollow DEF ReadMaster
  <2>7. CASE MakeCommit(r)
    <3>1. BaseTree(r) \in 0 .. MaxMerges
      BY Facts DEF BaseTree, Request
    <3> QED BY <2>7, <3>1, RequestsKept, StagesFollow DEF MakeCommit
  <2>8. CASE MakeBranch(r)
    <3>1. req' = Reply(r, "exists") \/ req' = Reply(r, "failed")
          \/ req' = [req EXCEPT ![r].at = Followed("branching")]
      BY <2>8 DEF MakeBranch
    <3>2. "exists" \in Results /\ "failed" \in Results /\ Followed("branching") \in Stages
      BY <1>2, StagesFollow
    <3>3. /\ \A s \in Stages : [req EXCEPT ![r].at = s] \in [Requests -> Request]
          /\ \A x \in Results : Reply(r, x) \in [Requests -> Request]
      BY RequestsKept
    <3> QED BY <3>1, <3>2, <3>3
  <2>9. CASE OpenPR(r)
    <3>1. req' = Reply(r, "ok") \/ req' = Reply(r, "failed")
      BY <2>9 DEF OpenPR
    <3>2. "ok" \in Results /\ "failed" \in Results
      BY <1>2
    <3>3. \A x \in Results : Reply(r, x) \in [Requests -> Request]
      BY RequestsKept
    <3> QED BY <3>1, <3>2, <3>3
  <2>10. CASE CallRefused(r)
    BY <1>2, <2>10, RequestsKept DEF CallRefused
  <2> QED BY <1>4, <2>1, <2>2, <2>3, <2>4, <2>5, <2>6, <2>7, <2>8, <2>9, <2>10 DEF Service
<1>5. ASSUME NEW r \in Requests, NEW w \in Works, OtherSubmits(r, w)
      PROVE  req' \in [Requests -> Request]
  BY <1>2, <1>5, RequestsKept DEF OtherSubmits
<1>6. CASE Tick \/ (\E i \in DOMAIN prs : Merge(i)) \/ UNCHANGED vars
  BY <1>1, <1>6 DEF Tick, Merge, vars
<1> QED BY <1>3, <1>4, <1>5, <1>6 DEF Next

\* What a step does to the branches: none, or one new one, which is the commit
\* of the request that makes it.
LEMMA BranchStep ==
    ASSUME Typed, [Next]_vars
    PROVE  \/ branches' = branches
           \/ \E r \in Requests :
                 /\ req[r].at = "branching" /\ ~Taken(r)
                 /\ req'[r].at \in {"opening", "answered"} /\ CommitOf(r)' = CommitOf(r)
                 /\ branches' = [n \in DOMAIN branches \cup {BranchName(r)} |->
                                   IF n \in DOMAIN branches THEN branches[n] ELSE CommitOf(r)]
<1>1. CASE \E t \in Tabs : Studio(t)
  BY <1>1, Frames
<1>2. ASSUME NEW r \in Requests, Service(r), branches' # branches
      PROVE  /\ req[r].at = "branching" /\ ~Taken(r)
             /\ req'[r].at \in {"opening", "answered"} /\ CommitOf(r)' = CommitOf(r)
             /\ branches' = [n \in DOMAIN branches \cup {BranchName(r)} |->
                               IF n \in DOMAIN branches THEN branches[n] ELSE CommitOf(r)]
  <2>1. MakeBranch(r)
    BY <1>2 DEF Service, Count, Record, LimiterFails, CheckCap, ProbeFails, ReadMaster,
       MakeCommit, OpenPR, CallRefused, repository
  <2>2. req \in [Requests -> Request] /\ req[r] \in Request
    BY Facts
  <2>3. req' = [req EXCEPT ![r].at = "opening"] \/ req' = Reply(r, "failed")
    BY <1>2, <2>1 DEF MakeBranch, Followed
  <2>4. req'[r].at \in {"opening", "answered"} /\ CommitOf(r)' = CommitOf(r)
    BY <2>2, <2>3 DEF Reply, CommitOf, Request
  <2> QED BY <1>2, <2>1, <2>4 DEF MakeBranch
<1>3. CASE (\E r \in Requests, w \in Works : OtherSubmits(r, w))
           \/ Tick \/ (\E i \in DOMAIN prs : Merge(i)) \/ UNCHANGED vars
  BY <1>3 DEF OtherSubmits, Tick, Merge, vars, repository
<1> QED BY <1>1, <1>2, <1>3 DEF Next

\* What a step does to the pull requests: none, one more at the end, or one of
\* them is merged.
LEMMA ListStep ==
    ASSUME Typed, [Next]_vars
    PROVE  \/ prs' = prs
           \/ \E r \in Requests :
                 /\ req[r].at = "opening" /\ req'[r].at = "answered" /\ CommitOf(r)' = CommitOf(r)
                 /\ prs' = Append(prs, [head |-> BranchName(r), by |-> r,
                                        at |-> clock, open |-> TRUE])
                 /\ branches' = branches /\ seen' = seen /\ clock' = clock
           \/ \E i \in DOMAIN prs :
                 /\ prs' = [prs EXCEPT ![i].open = FALSE]
                 /\ UNCHANGED << clock, branches, rows, req, ui, seen >>
<1>1. CASE \E t \in Tabs : Studio(t)
  BY <1>1, Frames
<1>2. ASSUME NEW r \in Requests, Service(r), prs' # prs
      PROVE  /\ req[r].at = "opening" /\ req'[r].at = "answered" /\ CommitOf(r)' = CommitOf(r)
             /\ prs' = Append(prs, [head |-> BranchName(r), by |-> r, at |-> clock, open |-> TRUE])
             /\ branches' = branches /\ seen' = seen /\ clock' = clock
  <2>1. OpenPR(r)
    BY <1>2 DEF Service, Count, Record, LimiterFails, CheckCap, ProbeFails, ReadMaster,
       MakeCommit, MakeBranch, CallRefused, repository
  <2>2. req \in [Requests -> Request] /\ req[r] \in Request
    BY Facts
  <2>3. \E x \in Results : req' = Reply(r, x)
    BY <2>1 DEF OpenPR, Results
  <2>4. req'[r].at = "answered" /\ CommitOf(r)' = CommitOf(r)
    BY <2>2, <2>3 DEF Reply, CommitOf, Request
  <2> QED BY <2>1, <2>4 DEF OpenPR
<1>3. CASE (\E r \in Requests, w \in Works : OtherSubmits(r, w)) \/ Tick \/ UNCHANGED vars
  BY <1>3 DEF OtherSubmits, Tick, vars, repository
<1>4. CASE \E i \in DOMAIN prs : Merge(i)
  BY <1>4 DEF Merge
<1> QED BY <1>1, <1>2, <1>3, <1>4 DEF Next

\* How one step changes one request, if it does.
Advances(r) ==
    /\ req'[r].at # "new"
    /\ \/ /\ req[r].at = "new" /\ req'[r].at = "counting" /\ req'[r].work \in Works
          /\ req'[r].row = req[r].row /\ req'[r].result = req[r].result
       \/ /\ req[r].at \notin {"new", "answered"} /\ req'[r].work = req[r].work
          /\ req'[r].tab = req[r].tab /\ req'[r].at # "counting"
          /\ req'[r].at = "recording" => req[r].at = "counting"
          /\ req'[r].at = "branching" =>
                req'[r].made = clock /\ req'[r].tree = req'[r].base
          /\ req'[r].at = "opening" =>
                /\ req[r].at = "branching"
                /\ branches' = [n \in DOMAIN branches \cup {BranchName(r)} |->
                                  IF n \in DOMAIN branches THEN branches[n] ELSE CommitOf(r)]
                /\ BranchName(r) \notin DOMAIN branches
          /\ req[r].at \in {"branching", "opening"} => CommitOf(r)' = CommitOf(r)
          /\ \/ req'[r].row = req[r].row
             \/ /\ req[r].at = "recording" /\ req'[r].at = "capping"
                /\ req'[r].row = clock /\ rows' = rows \cup {r} /\ seen' = seen
                /\ prs' = prs
          /\ req'[r].result # "ok" \/ OpenPR(r)

LEMMA RequestStep ==
    ASSUME Typed, [Next]_vars
    PROVE  \/ req' = req
           \/ \E r \in Requests : Advances(r) /\ \A q \in Requests \ {r} : req'[q] = req[q]
<1>1. req \in [Requests -> Request]
  BY Facts
<1>2. ASSUME NEW t \in Tabs, NEW r \in Requests, NEW w \in Works, Submit(t, r, w)
      PROVE  Advances(r) /\ \A q \in Requests \ {r} : req'[q] = req[q]
  BY <1>1, <1>2 DEF Submit, Advances, Request
<1>3. ASSUME NEW r \in Requests, NEW w \in Works, OtherSubmits(r, w)
      PROVE  Advances(r) /\ \A q \in Requests \ {r} : req'[q] = req[q]
  BY <1>1, <1>3 DEF OtherSubmits, Advances, Request
<1>4. ASSUME NEW r \in Requests, Service(r)
      PROVE  Advances(r) /\ \A q \in Requests \ {r} : req'[q] = req[q]
  <2>1. req[r] \in Request /\ (req[r].at # "answered" => req[r].result # "ok")
    BY Facts DEF Ready
  <2>2. CASE Count(r)
    BY <1>1, <2>1, <2>2 DEF Count, Advances, Request, Reply
  <2>3. CASE Record(r)
    BY <1>1, <2>1, <2>3 DEF Record, Advances, Request, Followed, repository
  <2>4. CASE LimiterFails(r)
    BY <1>1, <2>1, <2>4 DEF LimiterFails, Advances, Request, Followed
  <2>5. CASE CheckCap(r)
    BY <1>1, <2>1, <2>5 DEF CheckCap, Advances, Request, Followed, Reply
  <2>6. CASE ProbeFails(r)
    BY <1>1, <2>1, <2>6 DEF ProbeFails, Advances, Request, Followed
  <2>7. CASE ReadMaster(r)
    BY <1>1, <2>1, <2>7 DEF ReadMaster, Advances, Request, Followed
  <2>8. CASE MakeCommit(r)
    BY <1>1, <2>1, <2>8 DEF MakeCommit, Advances, Request, Followed, BaseTree
  <2>9. CASE MakeBranch(r)
    <3>1. \/ req' = Reply(r, "exists") \/ req' = Reply(r, "failed")
          \/ /\ req' = [req EXCEPT ![r].at = "opening"]
             /\ branches' = [n \in DOMAIN branches \cup {BranchName(r)} |->
                               IF n \in DOMAIN branches THEN branches[n] ELSE CommitOf(r)]
             /\ BranchName(r) \notin DOMAIN branches
      BY <2>9 DEF MakeBranch, Followed, Taken
    <3>2. req[r].at = "branching"
      BY <2>9 DEF MakeBranch
    <3> QED BY <1>1, <2>1, <3>1, <3>2 DEF Advances, Request, Reply, CommitOf
  <2>10. CASE OpenPR(r)
    <3>1. req' = Reply(r, "ok") \/ req' = Reply(r, "failed")
      BY <2>10 DEF OpenPR
    <3>2. req[r].at = "opening"
      BY <2>10 DEF OpenPR
    <3> QED BY <1>1, <2>1, <2>10, <3>1, <3>2 DEF Advances, Request, Reply, CommitOf
  <2>11. CASE CallRefused(r)
    <3>1. req' = Reply(r, "failed") /\ req[r].at \notin {"new", "answered"}
      BY <2>11 DEF CallRefused
    <3> QED BY <1>1, <2>1, <3>1 DEF Advances, Request, Reply, CommitOf
  <2> QED BY <1>4, <2>2, <2>3, <2>4, <2>5, <2>6, <2>7, <2>8, <2>9, <2>10, <2>11 DEF Service
<1>5. CASE Tick \/ (\E i \in DOMAIN prs : Merge(i)) \/ UNCHANGED vars
  BY <1>5 DEF Tick, Merge, vars
<1>6. ASSUME NEW t \in Tabs, Studio(t), req' # req
      PROVE  \E r \in Requests, w \in Works : Submit(t, r, w)
  BY <1>6 DEF Studio, Open, Leave, Confirm, Build, Settle, AnswerLost
<1> QED BY <1>2, <1>3, <1>4, <1>5, <1>6 DEF Next

\* A branch that is there stays as it is.
LEMMA BranchesGrow ==
    ASSUME Typed, [Next]_vars
    PROVE  \A n \in DOMAIN branches : n \in DOMAIN branches' /\ branches'[n] = branches[n]
BY BranchStep

LEMMA ReadyStep ==
    ASSUME Typed, [Next]_vars
    PROVE  Ready'
<1>1. Ready /\ clock \in 0 .. MaxTime
  BY Facts
<1>2. ASSUME NEW r \in Requests, Advances(r)
      PROVE  /\ req'[r].at # "answered" => req'[r].result # "ok"
             /\ req'[r].at # "new" => req'[r].work \in Works
             /\ req'[r].at \in {"branching", "opening"} => req'[r].made \in 0 .. MaxTime
             /\ req'[r].at = "opening" =>
                   BranchName(r)' \in DOMAIN branches' /\ branches'[BranchName(r)'] = CommitOf(r)'
  <2>1. CASE req[r].at = "new"
    BY <1>1, <1>2, <2>1 DEF Advances, Ready
  <2>2. CASE req[r].at # "new"
    <3>1. req'[r].work \in Works
      BY <1>1, <1>2, <2>2 DEF Advances, Ready
    <3>2. req[r].at = "branching" => req'[r].made = req[r].made
      BY <1>2, <2>2 DEF Advances, CommitOf
    <3>3. req'[r].at = "branching" => req'[r].made = clock
      BY <1>2, <2>2 DEF Advances
    <3>4. req'[r].at = "opening" => req[r].at = "branching"
      BY <1>2, <2>2 DEF Advances
    <3>6. req'[r].at = "opening" =>
             BranchName(r)' \in DOMAIN branches' /\ branches'[BranchName(r)'] = CommitOf(r)'
      <4> SUFFICES ASSUME req'[r].at = "opening"
                   PROVE  BranchName(r)' \in DOMAIN branches' /\ branches'[BranchName(r)'] = CommitOf(r)'
        OBVIOUS
      <4>1. CommitOf(r)' = CommitOf(r)
        BY <1>2, <2>2, <3>4 DEF Advances
      <4>2. BranchName(r)' = BranchName(r)
        BY <4>1 DEF BranchName
      <4>3. /\ branches' = [n \in DOMAIN branches \cup {BranchName(r)} |->
                              IF n \in DOMAIN branches THEN branches[n] ELSE CommitOf(r)]
            /\ BranchName(r) \notin DOMAIN branches
        BY <1>2, <2>2 DEF Advances
      <4> HIDE DEF CommitOf, BranchName
      <4>4. BranchName(r) \in DOMAIN branches' /\ branches'[BranchName(r)] = CommitOf(r)
        BY <4>3
      <4> QED BY <4>1, <4>2, <4>4
    <3>5. req'[r].result = "ok" => req'[r].at = "answered"
      <4>1. OpenPR(r) => req' = Reply(r, "ok") \/ req' = Reply(r, "failed")
        BY DEF OpenPR
      <4>2. req \in [Requests -> Request]
        BY Facts
      <4> QED BY <1>2, <2>2, <4>1, <4>2 DEF Advances, Reply, Request
    <3> QED BY <1>1, <3>1, <3>2, <3>3, <3>4, <3>5, <3>6 DEF Ready
  <2> QED BY <2>1, <2>2
<1>3. ASSUME NEW r \in Requests, req'[r] = req[r]
      PROVE  req'[r].at = "opening" =>
                BranchName(r)' \in DOMAIN branches' /\ branches'[BranchName(r)'] = CommitOf(r)'
  <2>1. CommitOf(r)' = CommitOf(r)
    BY <1>3 DEF CommitOf
  <2>2. BranchName(r)' = BranchName(r)
    BY <2>1 DEF BranchName
  <2> QED BY <1>1, <1>3, <2>1, <2>2, BranchesGrow DEF Ready
<1>4. ASSUME NEW r \in Requests, req'[r] = req[r]
      PROVE  /\ req'[r].at # "answered" => req'[r].result # "ok"
             /\ req'[r].at # "new" => req'[r].work \in Works
             /\ req'[r].at \in {"branching", "opening"} => req'[r].made \in 0 .. MaxTime
  BY <1>1, <1>4 DEF Ready
<1>5. \A r \in Requests : Advances(r) \/ req'[r] = req[r]
  BY RequestStep
<1> QED BY <1>2, <1>3, <1>4, <1>5 DEF Ready

\* One more pull request in the list.
LEMMA OneMore ==
    ASSUME NEW D, NEW s \in Seq(PullRequest), \A i \in 1 .. Len(s) : s[i].head \in D,
           NEW p \in PullRequest, p.head \in D
    PROVE  /\ Append(s, p) \in Seq(PullRequest)
           /\ \A i \in DOMAIN Append(s, p) :
                 Append(s, p)[i].head \in D /\ Append(s, p)[i] \in PullRequest
<1>1. Append(s, p) \in Seq(PullRequest) /\ DOMAIN Append(s, p) = 1 .. Len(s) + 1
      /\ Append(s, p)[Len(s) + 1] = p
  OBVIOUS
<1>2. \A i \in 1 .. Len(s) : Append(s, p)[i] = s[i] /\ s[i] \in PullRequest
  OBVIOUS
<1>3. \A i \in DOMAIN Append(s, p) : i \in 1 .. Len(s) \/ i = Len(s) + 1
  BY <1>1
<1> QED BY <1>1, <1>2, <1>3, Zenon

\* Every step keeps the types.
LEMMA TypedStep == Typed /\ [Next]_vars => Typed'
<1> SUFFICES ASSUME Typed, [Next]_vars PROVE Typed'
  OBVIOUS
<1>1. clock' \in 0 .. MaxTime
  <2>1. clock \in 0 .. MaxTime /\ clock \in Int
    BY Facts
  <2>2. clock' = clock \/ Tick
    BY Frames DEF Next, OtherSubmits, Merge, vars
  <2> QED BY <2>1, <2>2, Numbers DEF Tick
<1>2. master' \in 0 .. MaxMerges
  <2>1. master \in 0 .. MaxMerges /\ master \in Int
    BY Facts
  <2>2. master' = master \/ (master < MaxMerges /\ master' = master + 1)
    BY Frames DEF Next, OtherSubmits, Merge, Tick, vars, repository
  <2> QED BY <2>1, <2>2, Numbers
<1>3. faults' \in 0 .. MaxFaults
  <2>1. faults \in 0 .. MaxFaults /\ faults \in Int
    BY Facts
  <2>2. faults' = faults \/ (faults < MaxFaults /\ faults' = faults + 1)
    <3>1. ASSUME NEW t \in Tabs, Studio(t) PROVE faults' = faults \/ (faults < MaxFaults /\ faults' = faults + 1)
      BY <3>1 DEF Studio, Open, Leave, Confirm, Build, Submit, Settle, AnswerLost
    <3>2. ASSUME NEW r \in Requests, Service(r) PROVE faults' = faults \/ (faults < MaxFaults /\ faults' = faults + 1)
      BY <3>2 DEF Service, Count, Record, LimiterFails, CheckCap, ProbeFails, ReadMaster,
         MakeCommit, MakeBranch, OpenPR, CallRefused
    <3> QED BY <3>1, <3>2 DEF Next, OtherSubmits, Merge, Tick, vars
  <2> QED BY <2>1, <2>2, Numbers
<1>4. /\ DOMAIN branches \subseteq DOMAIN branches'
      /\ DOMAIN branches' \subseteq 0 .. Hashes - 1
      /\ \A n \in DOMAIN branches' : branches'[n] \in Commit
      /\ branches' = [n \in DOMAIN branches' |-> branches'[n]]
  <2>1. CASE branches' = branches
    BY <2>1, Facts DEF Typed
  <2>2. ASSUME NEW r \in Requests, req[r].at = "branching",
               branches' = [n \in DOMAIN branches \cup {BranchName(r)} |->
                              IF n \in DOMAIN branches THEN branches[n] ELSE CommitOf(r)]
        PROVE  /\ DOMAIN branches \subseteq DOMAIN branches'
               /\ DOMAIN branches' \subseteq 0 .. Hashes - 1
               /\ \A n \in DOMAIN branches' : branches'[n] \in Commit
               /\ branches' = [n \in DOMAIN branches' |-> branches'[n]]
    <3>1. CommitOf(r) \in Commit
      <4>1. req[r] \in Request /\ req[r].work \in Works /\ req[r].made \in 0 .. MaxTime
        BY <2>2, Facts DEF Ready
      <4> QED BY <4>1 DEF CommitOf, Commit, Request
    <3> QED BY <2>2, <3>1, NameIsHash, Facts
  <2> QED BY <2>1, <2>2, BranchStep
<1>5. /\ prs' \in Seq(PullRequest)
      /\ \A i \in DOMAIN prs' : prs'[i].head \in DOMAIN branches' /\ prs'[i] \in PullRequest
  <2>1. CASE prs' = prs
    BY <1>4, <2>1, Facts
  <2>2. ASSUME NEW r \in Requests, req[r].at = "opening",
               prs' = Append(prs, [head |-> BranchName(r), by |-> r, at |-> clock, open |-> TRUE]),
               branches' = branches
        PROVE  /\ prs' \in Seq(PullRequest)
               /\ \A i \in DOMAIN prs' :
                     prs'[i].head \in DOMAIN branches' /\ prs'[i] \in PullRequest
    <3> DEFINE p == [head |-> BranchName(r), by |-> r, at |-> clock, open |-> TRUE]
    <3>1. BranchName(r) \in DOMAIN branches /\ DOMAIN branches \subseteq 0 .. Hashes - 1
          /\ clock \in 0 .. MaxTime
      BY <2>2, Facts DEF Ready
    <3>2. p \in PullRequest /\ p.head \in DOMAIN branches
      BY <3>1 DEF PullRequest
    <3>3. prs \in Seq(PullRequest) /\ \A i \in 1 .. Len(prs) : prs[i].head \in DOMAIN branches
      BY Facts
    <3>4. prs' = Append(prs, p) /\ branches' = branches
      BY <2>2
    <3> HIDE DEF p
    <3> QED BY <3>2, <3>3, <3>4, OneMore
  <2>3. ASSUME NEW i \in DOMAIN prs, prs' = [prs EXCEPT ![i].open = FALSE]
        PROVE  /\ prs' \in Seq(PullRequest)
               /\ \A j \in DOMAIN prs' :
                     prs'[j].head \in DOMAIN branches' /\ prs'[j] \in PullRequest
    <3>1. prs[i] \in PullRequest /\ prs[i].head \in DOMAIN branches'
      BY <1>4, Facts
    <3>2. [prs[i] EXCEPT !.open = FALSE] \in PullRequest
          /\ [prs[i] EXCEPT !.open = FALSE].head = prs[i].head
      BY <3>1 DEF PullRequest
    <3>3. prs' \in Seq(PullRequest) /\ DOMAIN prs' = DOMAIN prs
      BY <2>3, <3>2, Facts
    <3> QED BY <1>4, <2>3, <3>1, <3>2, <3>3, Facts
  <2> QED BY <2>1, <2>2, <2>3, ListStep
<1>6. rows' \subseteq Requests
  BY Facts, Frames DEF Next, Service, Count, Record, LimiterFails, CheckCap, ProbeFails,
     ReadMaster, MakeCommit, MakeBranch, OpenPR, CallRefused, OtherSubmits, Merge, Tick, vars
<1>7. req' \in [Requests -> Request] /\ Ready'
  BY RequestsTyped, ReadyStep
<1>8. ui' \in [Tabs -> Screen]
  BY Facts, ScreensStay, Frames DEF Next, OtherSubmits, Merge, Tick, vars
<1>9. seen' \in [Requests -> Sight]
  <2>1. ASSUME NEW r \in Requests, Count(r) \/ CheckCap(r) PROVE seen' \in [Requests -> Sight]
    <3>1. clock - Window \in Int /\ Len(prs) \in Nat
      BY Numbers, Facts
    <3>2. /\ \A n \in Int : \A q \in SUBSET Requests :
                [seen EXCEPT ![r].counted = TRUE, ![r].since = n, ![r].rows = q]
                    \in [Requests -> Sight]
          /\ \A n \in Int : \A k \in Nat :
                [seen EXCEPT ![r].probed = TRUE, ![r].upTo = k, ![r].window = n]
                    \in [Requests -> Sight]
      BY SightKept
    <3>3. CASE Count(r)
      <4> DEFINE q == {x \in Requests : req[x].row >= 0}
      <4>1. seen' = [seen EXCEPT ![r].counted = TRUE, ![r].since = clock - Window, ![r].rows = q]
        BY <3>3 DEF Count
      <4>2. q \in SUBSET Requests
        OBVIOUS
      <4> HIDE DEF q
      <4> QED BY <3>1, <3>2, <4>1, <4>2
    <3>4. CASE CheckCap(r)
      <4>1. seen' = [seen EXCEPT ![r].probed = TRUE, ![r].upTo = Len(prs),
                                 ![r].window = clock - Window]
        BY <3>4 DEF CheckCap
      <4> QED BY <3>1, <3>2, <4>1
    <3> QED BY <2>1, <3>3, <3>4
  <2>2. seen' = seen \/ \E r \in Requests : Count(r) \/ CheckCap(r)
    BY Frames DEF Next, Service, Record, LimiterFails, ProbeFails, ReadMaster, MakeCommit,
       MakeBranch, OpenPR, CallRefused, OtherSubmits, Merge, Tick, vars
  <2> QED BY <2>1, <2>2, Facts
<1> QED
  BY <1>1, <1>2, <1>3, <1>4, <1>5, <1>6, <1>7, <1>8, <1>9 DEF Typed, TypeOK, PullRequest

\* Every variable of the panel, the service and the repository keeps to its
\* set, whatever calls are lost and whoever else publishes.
THEOREM PublishTypeCorrect == Spec => []TypeOK
<1>1. Typed => TypeOK
  BY DEF Typed
<1> QED BY <1>1, TypedInit, TypedStep, PTL DEF Spec

-----------------------------------------------------------------------------
(* What a commit is laid on, and whose work a pull request shows.          *)

\* A commit not yet on a branch is laid on its parent's tree, too.
Laid ==
    /\ CommitsOwnFiles
    /\ \A r \in Requests : req[r].at = "branching" => req[r].tree = req[r].base

LEMMA LaidStep == Typed /\ Laid /\ [Next]_vars => Laid'
<1> SUFFICES ASSUME Typed, Laid, [Next]_vars PROVE Laid'
  OBVIOUS
<1>1. \A r \in Requests : Advances(r) \/ req'[r] = req[r]
  BY RequestStep
<1>2. \A r \in Requests : req'[r].at = "branching" => req'[r].tree = req'[r].base
  BY <1>1 DEF Advances, Laid
<1>3. CommitsOwnFiles'
  <2>1. CASE branches' = branches
    BY <2>1 DEF Laid, CommitsOwnFiles
  <2>2. ASSUME NEW r \in Requests, req[r].at = "branching",
               branches' = [n \in DOMAIN branches \cup {BranchName(r)} |->
                              IF n \in DOMAIN branches THEN branches[n] ELSE CommitOf(r)]
        PROVE  CommitsOwnFiles'
    <3>1. CommitOf(r).tree = CommitOf(r).parent
      BY <2>2 DEF Laid, CommitOf
    <3> QED BY <2>2, <3>1 DEF Laid, CommitsOwnFiles
  <2> QED BY <2>1, <2>2, BranchStep
<1> QED BY <1>2, <1>3 DEF Laid

\* Every commit on a branch is laid on the tree of its own parent, whatever was
\* merged while its request was served: merging it undoes nobody's work.
THEOREM PublishCommitsOwnFiles == Spec => []CommitsOwnFiles
<1>1. Init => Laid
  BY DEF Init, Laid, CommitsOwnFiles
<1>2. Laid => CommitsOwnFiles
  BY DEF Laid
<1> QED BY <1>1, <1>2, LaidStep, TypedInit, TypedStep, PTL DEF Spec

\* A pull request is of an answered request and shows its commit; a success has
\* one; and the panel has heard of it.
Shown ==
    /\ \A i \in DOMAIN prs, r \in Requests :
          prs[i].by = r => req[r].at = "answered" /\ branches[prs[i].head] = CommitOf(r)
    /\ \A r \in Requests : req[r].result = "ok" => Made(r) # {}
    /\ \A t \in Tabs, m \in Requests \cup {None} :
          ui[t].panel = "success" /\ ui[t].mine = m => Made(m) # {}

LEMMA ShownIsOwn == Typed /\ Shown => HeadIsOwnWork
<1> SUFFICES ASSUME Typed, Shown PROVE HeadIsOwnWork
  OBVIOUS
<1>1. \A t \in Tabs : ui[t].mine \in Requests \cup {None}
  BY Facts DEF Screen
<1> QED BY <1>1 DEF Shown, HeadIsOwnWork, Made

\* A panel comes to say success only by the answer of its own request.
LEMMA PanelStep ==
    ASSUME Typed, [Next]_vars, NEW t \in Tabs, ui'[t].panel = "success"
    PROVE  \/ ui[t].panel = "success" /\ ui'[t].mine = ui[t].mine
           \/ ui'[t].mine \in Requests /\ req[ui'[t].mine].result = "ok"
<1>1. ui \in [Tabs -> Screen] /\ ui[t] \in Screen
  BY Facts
<1>2. ASSUME NEW s \in Tabs, Studio(s), s # t PROVE ui'[t] = ui[t]
  BY <1>1, <1>2 DEF Studio, Open, Leave, Confirm, Build, Submit, Settle, AnswerLost, Settled
<1>3. CASE Open(t) \/ Confirm(t) \/ \E r \in Requests, w \in Works : Submit(t, r, w)
  <2> DEFINE u == [ui[t] EXCEPT !.confirmed = FALSE]
  <2>1. u \in Screen /\ \A p \in Panels : [u EXCEPT !.panel = p].panel = p
    BY <1>1 DEF Screen
  <2>2. Open(t) => ui'[t].panel \in {"idle", "hidden"}
    BY <1>1, <2>1 DEF Open, Panels
  <2>3. Confirm(t) => ui'[t].panel = "idle"
    BY <1>1 DEF Confirm, Screen
  <2>4. \A r \in Requests, w \in Works : Submit(t, r, w) => ui'[t].panel = "submitting"
    BY <1>1 DEF Submit, Screen
  <2> QED BY <1>3, <2>2, <2>3, <2>4
<1>4. CASE Leave(t)
  BY <1>1, <1>4 DEF Leave, Unmounted, Screen, None
<1>5. CASE Build(t)
  <2>1. ui'[t] = AfterBuild(ui[t])
    BY <1>1, <1>5 DEF Build
  <2> QED BY <1>1, <2>1 DEF AfterBuild, Unmounted, Screen
<1>6. ASSUME NEW r \in Requests, NEW ok \in BOOLEAN, Settled(t, r, ok), ok => req[r].result = "ok"
      PROVE  \/ ui[t].panel = "success" /\ ui'[t].mine = ui[t].mine
             \/ ui'[t].mine \in Requests /\ req[ui'[t].mine].result = "ok"
  <2> DEFINE v == [ui[t] EXCEPT !.waiting = @ \ {r}, !.flag = FALSE, !.frozen = @ \/ ok]
  <2>1. v.panel = ui[t].panel /\ v.mine = ui[t].mine /\ v \in Screen
    BY <1>1 DEF Screen
  <2>2. ui'[t] = IF v.mine = r THEN [v EXCEPT !.panel = IF ok THEN "success" ELSE "error"]
                 ELSE IF v.panel = "hidden" /\ v.frozen THEN [v EXCEPT !.panel = "idle"]
                 ELSE v
    BY <1>1, <1>6 DEF Settled
  <2> HIDE DEF v
  <2> QED BY <1>6, <2>1, <2>2 DEF Screen
<1>7. ASSUME NEW r \in Requests, Settle(t, r) \/ AnswerLost(t, r)
      PROVE  \E ok \in BOOLEAN : Settled(t, r, ok) /\ (ok => req[r].result = "ok")
  BY <1>7 DEF Settle, AnswerLost
<1>8. CASE Studio(t)
  BY <1>3, <1>4, <1>5, <1>6, <1>7, <1>8 DEF Studio
<1>9. CASE ui' = ui
  BY <1>9
<1> QED
  BY <1>2, <1>8, <1>9, Frames DEF Next, OtherSubmits, Merge, Tick, vars

\* The pull requests a step finds keep their head, author and time.
LEMMA ListKept ==
    ASSUME Typed, [Next]_vars
    PROVE  /\ Len(prs) <= Len(prs')
           /\ \A i \in DOMAIN prs :
                 /\ i \in DOMAIN prs'
                 /\ prs'[i].head = prs[i].head /\ prs'[i].by = prs[i].by
                 /\ prs'[i].at = prs[i].at
<1>1. prs \in Seq(PullRequest) /\ DOMAIN prs = 1 .. Len(prs) /\ Len(prs) \in Nat
  BY Facts
<1>2. CASE prs' = prs
  BY <1>1, <1>2
<1>3. ASSUME NEW p, prs' = Append(prs, p)
      PROVE  Len(prs') = Len(prs) + 1 /\ \A i \in DOMAIN prs : i \in DOMAIN prs' /\ prs'[i] = prs[i]
  BY <1>1, <1>3
<1>4. ASSUME NEW k \in DOMAIN prs, prs' = [prs EXCEPT ![k].open = FALSE]
      PROVE  /\ Len(prs') = Len(prs)
             /\ \A i \in DOMAIN prs :
                  /\ i \in DOMAIN prs'
                  /\ prs'[i].head = prs[i].head /\ prs'[i].by = prs[i].by
                  /\ prs'[i].at = prs[i].at
  BY <1>1, <1>4 DEF PullRequest
<1>5. \/ prs' = prs \/ (\E p : prs' = Append(prs, p))
      \/ \E k \in DOMAIN prs : prs' = [prs EXCEPT ![k].open = FALSE]
  BY ListStep
<1>6. CASE \E p : prs' = Append(prs, p)
  BY <1>1, <1>3, <1>6
<1>7. CASE \E k \in DOMAIN prs : prs' = [prs EXCEPT ![k].open = FALSE]
  BY <1>1, <1>4, <1>7
<1> QED BY <1>2, <1>5, <1>6, <1>7

LEMMA ShownStep == Typed /\ Shown /\ [Next]_vars => Shown'
<1> SUFFICES ASSUME Typed, Shown, [Next]_vars PROVE Shown'
  OBVIOUS
<1>1. \A i \in DOMAIN prs : prs[i].by \in Requests /\ prs[i].head \in DOMAIN branches
  BY Facts DEF PullRequest
<1>2. \A r \in Requests : Advances(r) \/ req'[r] = req[r]
  BY RequestStep
<1>3. \A r \in Requests : req[r].at = "answered" => req'[r] = req[r]
  BY <1>2 DEF Advances
<1>4. \A r \in Requests : req[r].at = "answered" => CommitOf(r)' = CommitOf(r)
  BY <1>3 DEF CommitOf
<1>5. ASSUME NEW i \in DOMAIN prs', NEW r \in Requests, prs'[i].by = r
      PROVE  req'[r].at = "answered" /\ branches'[prs'[i].head] = CommitOf(r)'
  <2>1. CASE i \in DOMAIN prs
    <3>1. prs[i].by = r /\ prs'[i].head = prs[i].head /\ prs[i].head \in DOMAIN branches
      BY <1>1, <1>5, <2>1, ListKept
    <3>2. req[r].at = "answered" /\ branches[prs[i].head] = CommitOf(r)
      BY <2>1, <3>1 DEF Shown
    <3> QED BY <1>3, <1>4, <3>1, <3>2, BranchesGrow
  <2>2. CASE i \notin DOMAIN prs
    <3>1. DOMAIN prs' # DOMAIN prs
      BY <2>2
    <3>2. PICK q \in Requests :
             /\ req[q].at = "opening" /\ req'[q].at = "answered" /\ CommitOf(q)' = CommitOf(q)
             /\ prs' = Append(prs, [head |-> BranchName(q), by |-> q,
                                    at |-> clock, open |-> TRUE])
             /\ branches' = branches
      BY <3>1, ListStep
    <3>3. q = r /\ prs'[i].head = BranchName(r)
      BY <1>5, <2>2, <3>2, Facts
    <3>4. branches[BranchName(r)] = CommitOf(r)
      BY <3>2, <3>3, Facts DEF Ready
    <3> QED BY <3>2, <3>3, <3>4
  <2> QED BY <2>1, <2>2
<1>6. \A r : Made(r) \subseteq Made(r)'
  BY ListKept DEF Made
<1>7. ASSUME NEW r \in Requests, req'[r].result = "ok" PROVE Made(r)' # {}
  <2>1. CASE req[r].result = "ok"
    BY <1>6, <2>1 DEF Shown
  <2>2. CASE req[r].result # "ok"
    <3>1. OpenPR(r)
      BY <1>2, <1>7, <2>2 DEF Advances
    <3>2. Len(prs) + 1 \in DOMAIN prs' /\ prs'[Len(prs) + 1].by = r
      BY <3>1, Facts DEF OpenPR
    <3> QED BY <3>2 DEF Made
  <2> QED BY <2>1, <2>2
<1>8. ASSUME NEW t \in Tabs, NEW m \in Requests \cup {None},
             ui'[t].panel = "success", ui'[t].mine = m
      PROVE  Made(m)' # {}
  <2>1. (ui[t].panel = "success" /\ ui[t].mine = m) \/ (m \in Requests /\ req[m].result = "ok")
    BY <1>8, PanelStep
  <2>2. Made(m) # {}
    BY <2>1 DEF Shown
  <2> QED BY <1>6, <2>2
<1> QED BY <1>5, <1>7, <1>8 DEF Shown

\* Whatever fails, is lost or collides, a pull request shows the work of the
\* request that opened it, and a panel that says "success" has one.
THEOREM PublishHeadIsOwnWork == Spec => []HeadIsOwnWork
<1>1. Init => Shown
  <2>1. ASSUME Init PROVE Shown
    <3>1. prs = << >> /\ DOMAIN prs = {}
      BY <2>1 DEF Init
    <3>2. \A r \in Requests : req[r].result # "ok"
      BY <2>1 DEF Init, None
    <3>3. \A t \in Tabs : ui[t].panel # "success"
      BY <2>1 DEF Init, None
    <3> QED BY <3>1, <3>2, <3>3 DEF Shown
  <2> QED BY <2>1
<1> QED BY <1>1, ShownIsOwn, ShownStep, TypedInit, TypedStep, PTL DEF Spec

-----------------------------------------------------------------------------
(* The limits had room.                                                    *)

\* What a step does to what the checks of a request found.
LEMMA SeenStep ==
    ASSUME Typed, [Next]_vars, NEW r \in Requests
    PROVE  \/ seen'[r] = seen[r]
           \/ /\ Count(r)
              /\ seen'[r] = [seen[r] EXCEPT !.counted = TRUE, !.since = clock - Window,
                                            !.rows = {q \in Requests : req[q].row >= 0}]
           \/ /\ CheckCap(r)
              /\ seen'[r] = [seen[r] EXCEPT !.probed = TRUE, !.upTo = Len(prs),
                                            !.window = clock - Window]
<1>1. seen \in [Requests -> Sight]
  BY Facts
<1>2. seen' = seen \/ \E q \in Requests : Count(q) \/ CheckCap(q)
  BY Frames DEF Next, Service, Record, LimiterFails, ProbeFails, ReadMaster, MakeCommit,
     MakeBranch, OpenPR, CallRefused, OtherSubmits, Merge, Tick, vars
<1>3. ASSUME NEW q \in Requests, Count(q) \/ CheckCap(q), q # r PROVE seen'[r] = seen[r]
  BY <1>1, <1>3 DEF Count, CheckCap
<1>4. ASSUME Count(r)
      PROVE  seen'[r] = [seen[r] EXCEPT !.counted = TRUE, !.since = clock - Window,
                                        !.rows = {q \in Requests : req[q].row >= 0}]
  BY <1>1, <1>4 DEF Count
<1>5. ASSUME CheckCap(r)
      PROVE  seen'[r] = [seen[r] EXCEPT !.probed = TRUE, !.upTo = Len(prs),
                                        !.window = clock - Window]
  BY <1>1, <1>5 DEF CheckCap
<1> QED BY <1>2, <1>3, <1>4, <1>5

\* The bot's list is in the order of time, and no probe saw beyond its end.
Listed ==
    /\ \A i \in DOMAIN prs : prs[i].at <= clock
    /\ \A i, j \in DOMAIN prs : i <= j => prs[i].at <= prs[j].at
    /\ \A r \in Requests : seen[r].upTo <= Len(prs)

LEMMA ListedStep == Typed /\ Listed /\ [Next]_vars => Listed'
<1> SUFFICES ASSUME Typed, Listed, [Next]_vars PROVE Listed'
  OBVIOUS
<1>1. /\ DOMAIN prs = 1 .. Len(prs) /\ Len(prs) \in Nat /\ clock \in Int
      /\ \A i \in DOMAIN prs : prs[i].at \in Int
      /\ prs \in Seq(PullRequest) /\ seen \in [Requests -> Sight]
  BY Facts, Numbers DEF PullRequest
<1>2. clock' \in Int /\ clock <= clock'
  <2>1. clock' = clock \/ clock' = clock + 1
    BY Frames DEF Next, OtherSubmits, Merge, Tick, vars
  <2> QED BY <1>1, <2>1
<1>3. \A i \in DOMAIN prs' : \/ i \in DOMAIN prs /\ prs'[i].at = prs[i].at
                             \/ i = Len(prs) + 1 /\ prs'[i].at = clock
  <2>1. CASE DOMAIN prs' = DOMAIN prs
    BY <2>1, ListKept
  <2>2. CASE DOMAIN prs' # DOMAIN prs
    <3>1. PICK r \in Requests :
             prs' = Append(prs, [head |-> BranchName(r), by |-> r, at |-> clock, open |-> TRUE])
      BY <2>2, ListStep
    <3>2. DOMAIN prs' = 1 .. Len(prs) + 1 /\ prs'[Len(prs) + 1].at = clock
      BY <1>1, <3>1
    <3>3. \A i \in DOMAIN prs' : i \in DOMAIN prs \/ i = Len(prs) + 1
      BY <1>1, <3>2
    <3> QED BY <3>2, <3>3, ListKept
  <2> QED BY <2>1, <2>2
<1>4. \A i \in DOMAIN prs' : prs'[i].at <= clock'
  BY <1>1, <1>2, <1>3 DEF Listed
<1>5. \A i, j \in DOMAIN prs' : i <= j => prs'[i].at <= prs'[j].at
  BY <1>1, <1>3 DEF Listed
<1>6. ASSUME NEW r \in Requests PROVE seen'[r].upTo <= Len(prs')
  <2>1. seen[r] \in Sight /\ seen[r].upTo <= Len(prs)
    BY <1>1 DEF Listed
  <2>2. seen'[r].upTo = seen[r].upTo \/ seen'[r].upTo = Len(prs)
    BY <2>1, SeenStep DEF Sight
  <2>3. Len(prs) <= Len(prs') /\ seen[r].upTo \in Nat /\ Len(prs') \in Nat
    BY <2>1, ListKept, TypedStep, Facts DEF Sight, Typed
  <2> QED BY <1>1, <2>1, <2>2, <2>3
<1> QED BY <1>4, <1>5, <1>6 DEF Listed

\* One page is enough: a probe that lets a request in found every pull request
\* of the window on it.
LEMMA OnePage ==
    ASSUME Typed, Listed, NEW w \in Int,
           Cardinality({i \in {i \in 1 .. Len(prs) : i > Len(prs) - PerPage} : prs[i].at >= w}) < Cap
    PROVE  Cardinality({i \in 1 .. Len(prs) : prs[i].at >= w}) < Cap
<1> DEFINE page == {i \in 1 .. Len(prs) : i > Len(prs) - PerPage}
           all == {i \in 1 .. Len(prs) : prs[i].at >= w}
<1>1. Len(prs) \in Nat /\ DOMAIN prs = 1 .. Len(prs) /\ \A i \in DOMAIN prs : prs[i].at \in Int
  BY Facts, Numbers DEF PullRequest
<1>2. Cap \in Nat /\ PerPage \in Nat /\ Cap <= PerPage
  BY Numbers
<1>3. \A i \in all : i \in page
  <2> SUFFICES ASSUME NEW i \in all, i \notin page PROVE FALSE
    OBVIOUS
  <2>1. i <= Len(prs) - PerPage /\ i \in 1 .. Len(prs) /\ prs[i].at >= w
    BY <1>1, <1>2
  <2>2. page = Len(prs) - PerPage + 1 .. Len(prs)
    BY <1>1, <1>2, <2>1
  <2>3. \A j \in page : j \in DOMAIN prs /\ i <= j
    BY <1>1, <1>2, <2>1
  <2>4. \A j \in page : prs[j].at >= w
    BY <1>1, <2>1, <2>3 DEF Listed
  <2>5. {j \in page : prs[j].at >= w} = page
    BY <2>4
  <2>6. Cardinality(page) = PerPage
    <3> DEFINE a == Len(prs) - PerPage + 1
               b == Len(prs)
    <3>1. a \in Int /\ b \in Int /\ a <= b /\ b - a + 1 = PerPage
      BY <1>1, <1>2, Numbers
    <3>2. page = a .. b
      BY <2>2
    <3> HIDE DEF page, a, b
    <3>3. Cardinality(a .. b) = IF a > b THEN 0 ELSE b - a + 1
      BY <3>1, FS_Interval
    <3> QED BY <3>1, <3>2, <3>3
  <2>7. Cardinality({j \in page : prs[j].at >= w}) < Cap
    OBVIOUS
  <2> HIDE DEF page
  <2>8. Cardinality(page) < Cap
    BY <2>5, <2>7, Zenon
  <2> QED BY <1>2, <2>6, <2>8
<1>4. all = {i \in page : prs[i].at >= w}
  BY <1>3
<1> QED BY <1>4

\* What the cap's probe found, for a request it did not turn away.
Probed ==
    \A r \in Requests : seen[r].probed =>
        \/ Cardinality({i \in 1 .. seen[r].upTo : prs[i].at >= seen[r].window}) < Cap
        \/ req[r].at = "answered" /\ Made(r) = {}

LEMMA ProbedStep == Typed /\ Shown /\ Listed /\ Probed /\ [Next]_vars => Probed'
<1> SUFFICES ASSUME Typed, Shown, Listed, Probed, [Next]_vars,
                    NEW r \in Requests, seen'[r].probed
             PROVE  \/ Cardinality({i \in 1 .. seen'[r].upTo : prs'[i].at >= seen'[r].window}) < Cap
                    \/ req'[r].at = "answered" /\ Made(r)' = {}
  BY DEF Probed
<1>1. seen[r] \in Sight /\ seen[r].upTo \in Nat /\ seen[r].upTo <= Len(prs)
      /\ Len(prs) \in Nat /\ DOMAIN prs = 1 .. Len(prs)
  BY Facts DEF Sight, Listed
<1>2. CASE seen'[r].upTo = seen[r].upTo /\ seen'[r].window = seen[r].window /\ seen[r].probed
  <2>1. CASE Cardinality({i \in 1 .. seen[r].upTo : prs[i].at >= seen[r].window}) < Cap
    <3>1. \A i \in 1 .. seen[r].upTo : prs'[i].at = prs[i].at
      BY <1>1, ListKept
    <3>2. {i \in 1 .. seen'[r].upTo : prs'[i].at >= seen'[r].window}
             = {i \in 1 .. seen[r].upTo : prs[i].at >= seen[r].window}
      BY <1>2, <3>1
    <3> QED BY <2>1, <3>2
  <2>2. CASE req[r].at = "answered" /\ Made(r) = {}
    <3>1. req'[r] = req[r]
      BY <2>2, RequestStep DEF Advances
    <3>2. \A i \in DOMAIN prs' : prs'[i].by # r
      <4> SUFFICES ASSUME NEW i \in DOMAIN prs', prs'[i].by = r PROVE FALSE
        OBVIOUS
      <4>1. CASE i \in DOMAIN prs
        BY <2>2, <4>1, ListKept DEF Made
      <4>2. CASE i \notin DOMAIN prs
        <5>1. DOMAIN prs' # DOMAIN prs
          BY <4>2
        <5>2. PICK q \in Requests :
                 /\ req[q].at = "opening"
                 /\ prs' = Append(prs, [head |-> BranchName(q), by |-> q,
                                        at |-> clock, open |-> TRUE])
          BY <5>1, ListStep
        <5>3. prs'[i].by = q
          BY <4>2, <5>2, Facts
        <5> QED BY <2>2, <5>2, <5>3
      <4> QED BY <4>1, <4>2
    <3> QED BY <2>2, <3>1, <3>2 DEF Made
  <2> QED BY <1>2, <2>1, <2>2 DEF Probed
<1>3. ASSUME CheckCap(r), seen'[r] = [seen[r] EXCEPT !.probed = TRUE, !.upTo = Len(prs),
                                                    !.window = clock - Window]
      PROVE  \/ Cardinality({i \in 1 .. seen'[r].upTo : prs'[i].at >= seen'[r].window}) < Cap
             \/ req'[r].at = "answered" /\ Made(r)' = {}
  <2> DEFINE page == {i \in 1 .. Len(prs) : i > Len(prs) - PerPage}
  <2>1. prs' = prs /\ req[r].at = "capping" /\ req \in [Requests -> Request]
    BY <1>3, Facts DEF CheckCap, repository
  <2>2. seen'[r].upTo = Len(prs) /\ seen'[r].window = clock - Window
    BY <1>1, <1>3 DEF Sight
  <2>3. CASE Cardinality({i \in page : Counted(prs[i])}) >= Cap
    <3>1. req'[r].at = "answered"
      BY <1>3, <2>1, <2>3 DEF CheckCap, Reply, Request
    <3>2. Made(r) = {}
      BY <2>1 DEF Shown, Made
    <3> QED BY <2>1, <3>1, <3>2 DEF Made
  <2>4. CASE ~(Cardinality({i \in page : Counted(prs[i])}) >= Cap)
    <3>1. clock - Window \in Int
      BY Facts, Numbers
    <3>2. {i \in page : Counted(prs[i])} = {i \in page : prs[i].at >= clock - Window}
      BY DEF Counted
    <3>3. Cardinality({i \in page : prs[i].at >= clock - Window}) < Cap
      <4>1. IsFiniteSet(1 .. Len(prs))
        BY <1>1, FS_Interval
      <4>2. IsFiniteSet({i \in page : prs[i].at >= clock - Window})
        BY <4>1, FS_Subset
      <4>3. Cardinality({i \in page : prs[i].at >= clock - Window}) \in Nat
        BY <4>2, FS_CardinalityType
      <4>4. PICK c : c = Cardinality({i \in page : prs[i].at >= clock - Window})
        OBVIOUS
      <4>5. c \in Nat /\ ~(c >= Cap)
        BY <2>4, <3>2, <4>3, <4>4
      <4>6. c < Cap
        BY <4>5, Numbers
      <4> QED BY <4>4, <4>6
    <3>4. Cardinality({i \in 1 .. Len(prs) : prs[i].at >= clock - Window}) < Cap
      BY <3>1, <3>3, OnePage
    <3> QED BY <2>1, <2>2, <3>4
  <2> QED BY <2>3, <2>4
<1>4. CASE seen'[r] = seen[r]
  BY <1>2, <1>4
<1>5. ASSUME seen'[r] = [seen[r] EXCEPT !.counted = TRUE, !.since = clock - Window,
                                        !.rows = {q \in Requests : req[q].row >= 0}]
      PROVE  seen'[r].upTo = seen[r].upTo /\ seen'[r].window = seen[r].window /\ seen[r].probed
  BY <1>1, <1>5 DEF Sight
<1> QED BY <1>2, <1>3, <1>4, <1>5, SeenStep

\* The limiter's rows: one for every request recorded, but for those that a
\* count found stale.
Filed ==
    /\ IsFiniteSet(rows)
    /\ \A q \in Requests :
          /\ q \in rows => req[q].row >= 0
          /\ req[q].row >= 0 => req[q].at \notin {"new", "counting", "recording"}
          /\ req[q].row >= 0 /\ q \notin rows => req[q].row < clock - Window
          /\ seen[q].counted => req[q].at # "new"
          /\ \A x \in seen[q].rows : req[x].row >= 0

\* A row once written stays, and so does the address of a request under way.
LEMMA RowsStay ==
    ASSUME Typed, Filed, [Next]_vars, NEW q \in Requests
    PROVE  /\ req[q].row >= 0 => req'[q].row = req[q].row
           /\ req[q].at # "new" => req'[q].tab = req[q].tab
<1>1. Advances(q) \/ req'[q] = req[q]
  BY RequestStep
<1> QED BY <1>1 DEF Filed, Advances

\* How a step changes the limiter's rows.
LEMMA RowsStep ==
    ASSUME Typed, [Next]_vars
    PROVE  \/ rows' = rows /\ req' = req
           \/ rows' = rows /\ clock' = clock /\ \A q \in Requests : req'[q].row = req[q].row
           \/ \E r \in Requests : Count(r)
           \/ \E r \in Requests : Record(r)
<1>1. req \in [Requests -> Request]
  BY Facts
<1>2. ASSUME NEW t \in Tabs, Studio(t)
      PROVE  rows' = rows /\ clock' = clock /\ \A q \in Requests : req'[q].row = req[q].row
  <2>1. rows' = rows /\ clock' = clock
    BY <1>2, Frames
  <2>2. req' = req \/ \E r \in Requests, w \in Works : Submit(t, r, w)
    BY <1>2 DEF Studio, Open, Leave, Confirm, Build, Settle, AnswerLost
  <2>3. ASSUME NEW r \in Requests, NEW w \in Works, Submit(t, r, w)
        PROVE  \A q \in Requests : req'[q].row = req[q].row
    BY <1>1, <2>3 DEF Submit, Request
  <2> QED BY <2>1, <2>2, <2>3
<1>3. ASSUME NEW r \in Requests, Service(r), ~Count(r), ~Record(r)
      PROVE  rows' = rows /\ clock' = clock /\ \A q \in Requests : req'[q].row = req[q].row
  <2>1. CASE LimiterFails(r) \/ ProbeFails(r) \/ ReadMaster(r) \/ MakeCommit(r)
    BY <1>1, <2>1 DEF LimiterFails, ProbeFails, ReadMaster, MakeCommit, Request
  <2>2. CASE CheckCap(r) \/ MakeBranch(r)
    <3>1. \/ \E x : req' = Reply(r, x)
          \/ \E x : req' = [req EXCEPT ![r].at = x]
      BY <2>2 DEF CheckCap, MakeBranch
    <3>2. \A q \in Requests : req'[q].row = req[q].row
      BY <1>1, <3>1 DEF Reply, Request
    <3>3. rows' = rows /\ clock' = clock
      BY <2>2 DEF CheckCap, MakeBranch
    <3> QED BY <3>2, <3>3
  <2>3. CASE OpenPR(r) \/ CallRefused(r)
    <3>1. \E x : req' = Reply(r, x)
      BY <2>3 DEF OpenPR, CallRefused
    <3> QED BY <1>1, <2>3, <3>1 DEF OpenPR, CallRefused, Reply, Request
  <2> QED BY <1>3, <2>1, <2>2, <2>3 DEF Service
<1>4. ASSUME NEW r \in Requests, NEW w \in Works, OtherSubmits(r, w)
      PROVE  rows' = rows /\ clock' = clock /\ \A q \in Requests : req'[q].row = req[q].row
  BY <1>1, <1>4 DEF OtherSubmits, Request
<1>5. CASE Tick \/ (\E i \in DOMAIN prs : Merge(i)) \/ UNCHANGED vars
  BY <1>5 DEF Tick, Merge, vars
<1> QED BY <1>2, <1>3, <1>4, <1>5 DEF Next

LEMMA FiledStep == Typed /\ Filed /\ [Next]_vars => Filed'
<1> SUFFICES ASSUME Typed, Filed, [Next]_vars PROVE Filed'
  OBVIOUS
<1>1. /\ req \in [Requests -> Request] /\ seen \in [Requests -> Sight] /\ rows \subseteq Requests
      /\ clock \in Int /\ Window \in Int
      /\ \A q \in Requests : req[q].row \in Int
  BY Facts, Numbers DEF Request
<1>2. clock' \in Int /\ clock <= clock' /\ 0 <= clock
  <2>1. clock' = clock \/ clock' = clock + 1
    BY Frames DEF Next, OtherSubmits, Merge, Tick, vars
  <2> QED BY <1>1, <2>1, Facts
<1>3. \A q \in Requests : Advances(q) \/ req'[q] = req[q]
  BY RequestStep
<1>4. IsFiniteSet(rows') /\ \A q \in Requests :
          /\ q \in rows' => req'[q].row >= 0
          /\ req'[q].row >= 0 /\ q \notin rows' => req'[q].row < clock' - Window
  <2>1. CASE rows' = rows /\ \A q \in Requests : req'[q].row = req[q].row
    BY <1>1, <1>2, <2>1 DEF Filed
  <2>2. ASSUME NEW r \in Requests, Count(r)
        PROVE  IsFiniteSet(rows') /\ \A q \in Requests :
                  /\ q \in rows' => req'[q].row >= 0
                  /\ req'[q].row >= 0 /\ q \notin rows' => req'[q].row < clock' - Window
    <3>1. \A q \in Requests : req'[q].row = req[q].row
      BY <1>1, <2>2 DEF Count, Reply, Request
    <3>2. rows' = {q \in rows : ~Stale(q)} /\ clock' = clock
      BY <2>2 DEF Count
    <3>3. IsFiniteSet(rows')
      BY <3>2, FS_Subset DEF Filed
    <3> QED BY <1>1, <3>1, <3>2, <3>3 DEF Filed, Stale
  <2>3. ASSUME NEW r \in Requests, Record(r)
        PROVE  IsFiniteSet(rows') /\ \A q \in Requests :
                  /\ q \in rows' => req'[q].row >= 0
                  /\ req'[q].row >= 0 /\ q \notin rows' => req'[q].row < clock' - Window
    <3>1. /\ \A q \in Requests \ {r} : req'[q].row = req[q].row
          /\ req'[r].row = clock /\ rows' = rows \cup {r} /\ clock' = clock
      BY <1>1, <2>3 DEF Record, Request
    <3>2. IsFiniteSet(rows')
      BY <3>1, FS_AddElement DEF Filed
    <3> QED BY <1>1, <1>2, <3>1, <3>2 DEF Filed
  <2> QED BY <2>1, <2>2, <2>3, RowsStep
<1>5. ASSUME NEW q \in Requests, req'[q].row >= 0
      PROVE  req'[q].at \notin {"new", "counting", "recording"}
  BY <1>3, <1>5 DEF Advances, Filed
<1>6. ASSUME NEW q \in Requests, seen'[q].counted PROVE req'[q].at # "new"
  <2>1. CASE seen[q].counted
    BY <1>3, <2>1 DEF Advances, Filed
  <2>2. CASE ~seen[q].counted
    <3>1. Count(q)
      BY <1>1, <1>6, <2>2, SeenStep DEF Sight
    <3> QED BY <1>3, <3>1 DEF Count, Advances
  <2> QED BY <2>1, <2>2
<1>7. ASSUME NEW q \in Requests, NEW x \in seen'[q].rows PROVE req'[x].row >= 0
  <2>1. seen[q] \in Sight /\ seen[q].rows \subseteq Requests
    BY <1>1 DEF Sight
  <2>2. x \in Requests /\ req[x].row >= 0
    <3>1. \/ seen'[q].rows = seen[q].rows
          \/ seen'[q].rows = {y \in Requests : req[y].row >= 0}
      BY <2>1, SeenStep DEF Sight
    <3> QED BY <1>7, <2>1, <3>1 DEF Filed
  <2> QED BY <2>2, RowsStay
<1> QED BY <1>4, <1>5, <1>6, <1>7 DEF Filed

\* What the limiter's count found, for a request it did not turn away.
CountedRoom ==
    \A r \in Requests :
        LET fresh == {q \in seen[r].rows : req[q].row >= seen[r].since} IN
        seen[r].counted =>
            \/ /\ Cardinality({q \in fresh : req[q].tab = req[r].tab}) < PerIp
               /\ Cardinality(fresh) < Global
            \/ req[r].at = "answered" /\ req[r].row < 0

LEMMA CountedRoomStep == Typed /\ Filed /\ CountedRoom /\ [Next]_vars => CountedRoom'
<1> SUFFICES ASSUME Typed, Filed, CountedRoom, [Next]_vars, NEW r \in Requests, seen'[r].counted
             PROVE  \/ /\ Cardinality({q \in {q \in seen'[r].rows : req'[q].row >= seen'[r].since} :
                                          req'[q].tab = req'[r].tab}) < PerIp
                       /\ Cardinality({q \in seen'[r].rows : req'[q].row >= seen'[r].since}) < Global
                    \/ req'[r].at = "answered" /\ req'[r].row < 0
  BY DEF CountedRoom
<1> DEFINE freshBefore == {q \in seen[r].rows : req[q].row >= seen[r].since}
           freshAfter == {q \in seen'[r].rows : req'[q].row >= seen'[r].since}
<1>1. /\ req \in [Requests -> Request] /\ seen[r] \in Sight /\ seen[r].rows \subseteq Requests
      /\ clock \in Int /\ Window \in Int /\ \A q \in Requests : req[q].row \in Int
      /\ rows \subseteq Requests
  <2>1. req \in [Requests -> Request] /\ seen \in [Requests -> Sight] /\ rows \subseteq Requests
        /\ clock \in Int /\ Window \in Int
    BY Facts, Numbers
  <2>2. seen[r] \in Sight /\ seen[r].rows \subseteq Requests
    BY <2>1 DEF Sight
  <2>3. \A q \in Requests : req[q].row \in Int
    BY <2>1, Numbers DEF Request
  <2> QED BY <2>1, <2>2, <2>3
<1>2. CASE seen'[r].rows = seen[r].rows /\ seen'[r].since = seen[r].since /\ seen[r].counted
  <2>1. \A q \in seen[r].rows : req'[q].row = req[q].row /\ req'[q].tab = req[q].tab
    BY <1>1, RowsStay DEF Filed
  <2>2. req'[r].tab = req[r].tab
    BY <1>2, RowsStay DEF Filed
  <2>3. freshAfter = freshBefore
    BY <1>2, <2>1
  <2>4. {q \in freshAfter : req'[q].tab = req'[r].tab} = {q \in freshBefore : req[q].tab = req[r].tab}
    BY <2>1, <2>2, <2>3
  <2>5. req[r].at = "answered" => req'[r] = req[r]
    BY RequestStep DEF Advances
  <2>6. \/ /\ Cardinality({q \in freshBefore : req[q].tab = req[r].tab}) < PerIp
           /\ Cardinality(freshBefore) < Global
        \/ req[r].at = "answered" /\ req[r].row < 0
    BY <1>2 DEF CountedRoom
  <2> HIDE DEF freshBefore
  <2> QED BY <2>3, <2>4, <2>5, <2>6
<1>3. ASSUME Count(r), seen'[r] = [seen[r] EXCEPT !.counted = TRUE, !.since = clock - Window,
                                                 !.rows = {q \in Requests : req[q].row >= 0}]
      PROVE  \/ /\ Cardinality({q \in freshAfter : req'[q].tab = req'[r].tab}) < PerIp
                /\ Cardinality(freshAfter) < Global
             \/ req'[r].at = "answered" /\ req'[r].row < 0
  <2> DEFINE fresh == {q \in rows : ~Stale(q)}
             own == {q \in fresh : req[q].tab = req[r].tab}
  <2>1. seen'[r].rows = {q \in Requests : req[q].row >= 0} /\ seen'[r].since = clock - Window
    BY <1>1, <1>3 DEF Sight
  <2>2. req[r].at = "counting" /\ \A q \in Requests : req'[q].row = req[q].row
                                                      /\ req'[q].tab = req[q].tab
    BY <1>1, <1>3 DEF Count, Reply, Request
  <2>3. freshAfter = fresh
    <3>1. \A q \in Requests : q \in freshAfter <=> req[q].row >= 0 /\ req[q].row >= clock - Window
      BY <2>1, <2>2
    <3>2. \A q \in Requests : q \in fresh <=> q \in rows /\ ~(req[q].row < clock - Window)
      BY DEF Stale
    <3>3. \A q \in Requests : q \in freshAfter <=> q \in fresh
      BY <1>1, <3>1, <3>2 DEF Filed
    <3>4. freshAfter \subseteq Requests /\ fresh \subseteq Requests
      BY <1>1, <2>1
    <3> QED BY <3>3, <3>4
  <2>4. {q \in freshAfter : req'[q].tab = req'[r].tab} = own
    BY <1>1, <2>2, <2>3
  <2>5. CASE Cardinality(own) >= PerIp \/ Cardinality(fresh) >= Global
    <3>1. req'[r].at = "answered"
      BY <1>1, <1>3, <2>5 DEF Count, Reply, Request
    <3>2. req'[r].row < 0
      BY <1>1, <2>2 DEF Filed
    <3> QED BY <3>1, <3>2
  <2>6. CASE ~(Cardinality(own) >= PerIp \/ Cardinality(fresh) >= Global)
    <3>1. IsFiniteSet(fresh)
      BY FS_Subset DEF Filed
    <3>2. IsFiniteSet(own)
      BY <3>1, FS_Subset
    <3>3. Cardinality(fresh) \in Nat /\ Cardinality(own) \in Nat
      BY <3>1, <3>2, FS_CardinalityType
    <3> HIDE DEF fresh, own
    <3>4. Cardinality(own) < PerIp /\ Cardinality(fresh) < Global
      BY <2>6, <3>3, Numbers
    <3> QED BY <2>3, <2>4, <3>4
  <2> QED BY <2>5, <2>6
<1>4. CASE seen'[r] = seen[r]
  BY <1>2, <1>4
<1>5. ASSUME seen'[r] = [seen[r] EXCEPT !.probed = TRUE, !.upTo = Len(prs), !.window = clock - Window]
      PROVE  seen'[r].rows = seen[r].rows /\ seen'[r].since = seen[r].since /\ seen[r].counted
  BY <1>1, <1>5 DEF Sight
<1> QED BY <1>2, <1>3, <1>4, <1>5, SeenStep

\* The invariant of the limits.
Room == Shown /\ Listed /\ Probed /\ Filed /\ CountedRoom

\* However requests overlap and whatever is merged between, a pull request
\* whose probe was read, and a request whose count was, had room under the cap
\* and the limits when they were taken.
THEOREM PublishLimitsHadRoom == Spec => []LimitsHadRoom
<1>1. Init => Room
  <2> SUFFICES ASSUME Init PROVE Room
    OBVIOUS
  <2>1. /\ prs = << >> /\ DOMAIN prs = {} /\ Len(prs) = 0 /\ rows = {} /\ clock = 0
        /\ \A r \in Requests : req[r].at = "new" /\ req[r].result # "ok" /\ req[r].row = -1
        /\ \A t \in Tabs : ui[t].panel # "success"
        /\ \A r \in Requests : ~seen[r].counted /\ ~seen[r].probed /\ seen[r].upTo = 0
                               /\ seen[r].rows = {}
    BY DEF Init, None
  <2>2. IsFiniteSet(rows)
    BY <2>1, FS_EmptySet
  <2> QED BY <2>1, <2>2 DEF Room, Shown, Listed, Probed, Filed, CountedRoom
<1>2. Typed /\ Room /\ [Next]_vars => Room'
  BY ShownStep, ListedStep, ProbedStep, FiledStep, CountedRoomStep DEF Room
<1>3. Typed /\ Room => LimitsHadRoom
  <2> SUFFICES ASSUME Typed, Room, NEW r \in Requests
               PROVE  LET fresh == {q \in seen[r].rows : req[q].row >= seen[r].since} IN
                      /\ Made(r) # {} /\ seen[r].probed =>
                            Cardinality({i \in 1 .. seen[r].upTo : prs[i].at >= seen[r].window}) < Cap
                      /\ seen[r].counted /\ req[r].row >= 0 =>
                            /\ Cardinality({q \in fresh : req[q].tab = req[r].tab}) < PerIp
                            /\ Cardinality(fresh) < Global
    BY DEF LimitsHadRoom
  <2>1. req[r].row \in Int
    BY Facts DEF Request
  <2>2. Made(r) # {} /\ seen[r].probed =>
            Cardinality({i \in 1 .. seen[r].upTo : prs[i].at >= seen[r].window}) < Cap
    BY DEF Room, Probed
  <2>3. ~(req[r].row >= 0 /\ req[r].row < 0)
    BY <2>1
  <2> QED BY <2>2, <2>3 DEF Room, CountedRoom
<1> QED BY <1>1, <1>2, <1>3, TypedInit, TypedStep, PTL DEF Spec

-----------------------------------------------------------------------------
(* The panel that waits.                                                   *)

\* The screen of a submission that left when no other was out: the flag that
\* keeps the panel revealed is up, and only its own answer takes it down.
Holds(u) == u.panel = "submitting" /\ u.alone => u.flag /\ u.waiting = {u.mine}

\* A build leaves the panel of screen u where it is.
Stays(u, v) ==
    u.panel = "submitting" /\ u.builds > 0 /\ u.alone /\ v.builds > u.builds
        => v.panel = "submitting" /\ v.mine = u.mine

LEMMA WaitingStep ==
    ASSUME Typed, [Next]_vars, NEW t \in Tabs, Holds(ui[t])
    PROVE  Holds(ui'[t]) /\ Stays(ui[t], ui'[t])
<1>1. ui \in [Tabs -> Screen] /\ ui[t] \in Screen /\ ui[t].builds \in Int
  <2>1. ui \in [Tabs -> Screen]
    BY Facts
  <2> QED BY <2>1 DEF Screen
<1>2. CASE ui'[t] = ui[t]
  BY <1>1, <1>2 DEF Stays
<1>3. ASSUME NEW s \in Tabs, Studio(s), s # t PROVE ui'[t] = ui[t]
  BY <1>1, <1>3 DEF Studio, Open, Leave, Confirm, Build, Submit, Settle, AnswerLost, Settled
\* A panel taken away or not yet there does not wait.
<1>4. \A u \in Screen, p \in {None, "hidden", "idle"} :
         /\ Unmounted(u, p).panel # "submitting" /\ Unmounted(u, p).builds = u.builds
         /\ [u EXCEPT !.panel = p].panel # "submitting" /\ [u EXCEPT !.panel = p].builds = u.builds
  BY DEF Unmounted, Screen, None
<1>5. CASE Open(t)
  <2> DEFINE u == [ui[t] EXCEPT !.confirmed = FALSE]
  <2>1. u \in Screen /\ u.builds = ui[t].builds
    BY <1>1 DEF Screen
  <2>2. \E p \in {"idle", "hidden"} : ui'[t] = [u EXCEPT !.panel = p]
    BY <1>1, <1>5 DEF Open
  <2> HIDE DEF u
  <2>3. ui'[t].panel # "submitting" /\ ui'[t].builds = ui[t].builds
    BY <1>4, <2>1, <2>2
  <2> QED BY <1>1, <2>3 DEF Holds, Stays
<1>6. CASE Leave(t)
  <2>1. ui'[t] \in {Unmounted(ui[t], None), [ui[t] EXCEPT !.panel = None]}
    BY <1>1, <1>6 DEF Leave
  <2>2. ui'[t].panel # "submitting" /\ ui'[t].builds = ui[t].builds
    BY <1>1, <1>4, <2>1
  <2> QED BY <1>1, <2>2 DEF Holds, Stays
<1>7. CASE Confirm(t)
  <2>1. ui'[t].panel = "idle" /\ ui'[t].builds = ui[t].builds
    BY <1>1, <1>7 DEF Confirm, Screen
  <2> QED BY <1>1, <2>1 DEF Holds, Stays
<1>8. CASE Build(t)
  <2> DEFINE v == [ui[t] EXCEPT !.builds = @ + 1, !.confirmed = ui[t].flag]
  <2>1. ui[t].builds + 1 \in 0 .. MaxBuilds /\ ui[t].flag \in BOOLEAN
    BY <1>1, <1>8, Numbers DEF Build, Screen
  <2>2. /\ v \in Screen /\ v.panel = ui[t].panel /\ v.alone = ui[t].alone
        /\ v.flag = ui[t].flag /\ v.mine = ui[t].mine /\ v.waiting = ui[t].waiting
    BY <1>1, <2>1 DEF Screen
  <2>3. ui'[t] = IF ~Mounted(ui[t]) THEN v
                 ELSE IF ~ui[t].flag THEN Unmounted(v, "hidden")
                 ELSE IF ui[t].builds = 0 THEN Unmounted(v, "idle")
                 ELSE v
    BY <1>1, <1>8 DEF Build, AfterBuild
  <2> HIDE DEF v
  <2>4. ui'[t] = v \/ ui'[t].panel # "submitting"
    BY <1>4, <2>2, <2>3
  <2>5. Holds(ui'[t])
    BY <2>2, <2>4 DEF Holds
  <2>6. ui[t].panel = "submitting" /\ ui[t].builds > 0 /\ ui[t].alone => ui'[t] = v
    BY <1>1, <2>3 DEF Holds, Mounted, None
  <2> QED BY <2>2, <2>5, <2>6 DEF Stays
<1>9. ASSUME NEW r \in Requests, NEW w \in Works, Submit(t, r, w)
      PROVE  Holds(ui'[t]) /\ Stays(ui[t], ui'[t])
  <2> DEFINE v == [ui[t] EXCEPT !.panel = "submitting", !.mine = r, !.flag = TRUE,
                                !.waiting = @ \cup {r}, !.alone = ui[t].waiting = {}]
  <2>1. ui'[t] = v
    BY <1>1, <1>9 DEF Submit
  <2>2. /\ v.mine = r /\ v.flag = TRUE /\ v.waiting = ui[t].waiting \cup {r}
        /\ v.alone = (ui[t].waiting = {}) /\ v.builds = ui[t].builds
    BY <1>1 DEF Screen
  <2> HIDE DEF v
  <2>3. Holds(v)
    BY <2>2 DEF Holds
  <2> QED BY <1>1, <2>1, <2>2, <2>3 DEF Stays
<1>10. ASSUME NEW r \in ui[t].waiting, NEW ok, Settled(t, r, ok)
       PROVE  Holds(ui'[t]) /\ Stays(ui[t], ui'[t])
  <2> DEFINE v == [ui[t] EXCEPT !.waiting = @ \ {r}, !.flag = FALSE, !.frozen = @ \/ ok]
             w == [v EXCEPT !.panel = IF ok THEN "success" ELSE "error"]
             x == [v EXCEPT !.panel = "idle"]
  <2>1. /\ v.panel = ui[t].panel /\ v.mine = ui[t].mine /\ v.alone = ui[t].alone
        /\ v.builds = ui[t].builds
        /\ w.panel # "submitting" /\ w.builds = ui[t].builds
        /\ x.panel # "submitting" /\ x.builds = ui[t].builds
    BY <1>1 DEF Screen
  <2>2. ui'[t] = IF v.mine = r THEN w ELSE IF v.panel = "hidden" /\ v.frozen THEN x ELSE v
    BY <1>1, <1>10 DEF Settled
  <2> HIDE DEF v, w, x
  <2>3. ui[t].panel = "submitting" /\ ui[t].alone => v.mine = r
    BY <1>10, <2>1 DEF Holds
  <2>4. Holds(ui'[t])
    BY <2>1, <2>2, <2>3 DEF Holds
  <2>5. ui'[t].builds = ui[t].builds
    BY <2>1, <2>2
  <2> QED BY <1>1, <2>4, <2>5 DEF Stays
<1>11. CASE Studio(t)
  BY <1>5, <1>6, <1>7, <1>8, <1>9, <1>10, <1>11 DEF Studio, Settle, AnswerLost
<1>12. \/ ui' = ui
       \/ \E s \in Tabs : Studio(s)
  BY Frames DEF Next, OtherSubmits, Merge, Tick, vars
<1> QED BY <1>2, <1>3, <1>11, <1>12

\* Once there is a build, a new one does not take the waiting panel away,
\* whatever answers come or are lost, unless an abandoned submission of the tab
\* was still out when this one left: only that one's answer could lower the
\* flag (ManagedPRSubmitPanel, PublishHandover).
THEOREM PublishLaterBuildKeepsPanel == Spec => LaterBuildKeepsPanel
<1> DEFINE AllHold == \A t \in Tabs : Holds(ui[t])
           AllStay ==
              \A t \in Tabs :
                 /\ ui[t].panel = "submitting" /\ ui[t].builds > 0 /\ ui[t].alone
                 /\ ui'[t].builds > ui[t].builds
                 => ui'[t].panel = "submitting" /\ ui'[t].mine = ui[t].mine
<1>1. Init => AllHold
  BY DEF Init, Holds, None
<1>2. Typed /\ AllHold /\ [Next]_vars => AllHold' /\ AllStay
  BY WaitingStep DEF Stays
<1>3. [][AllStay]_vars <=> LaterBuildKeepsPanel
  BY DEF LaterBuildKeepsPanel
<1> HIDE DEF AllHold, AllStay
<1> QED BY <1>1, <1>2, <1>3, TypedInit, TypedStep, PTL DEF Spec

=============================================================================
