------------------------- MODULE CrashReportsProofs -------------------------
(***************************************************************************)
(* Proofs about CrashReports for every set of reports, sessions and bugs   *)
(* and every limit: types, where duplicate issues come from, what an undo  *)
(* may touch, the creation cap, and when a closed issue is reopened.       *)
(***************************************************************************)
EXTENDS CrashReports, FiniteSetTheorems, TLAPS

-----------------------------------------------------------------------------
(* Types.                                                                  *)

\* A page of the listing can be counted.
LEMMA PageCounts ==
    ASSUME last \in 0 .. MaxIssues, NEW since, NEW n
    PROVE  /\ Cardinality(Page(since, n)) \in Nat
           /\ Cardinality({i \in Page(since, n) : issues[i].created >= since}) \in Nat
<1>1. IsFiniteSet(Filed)
  BY FS_Interval, LimitsArePositive DEF Filed
<1>2. Page(since, n) \subseteq Filed
  BY DEF Page
<1>3. {i \in Page(since, n) : issues[i].created >= since} \subseteq Filed
  BY <1>2
<1> QED BY <1>1, <1>2, <1>3, FS_Subset, FS_CardinalityType

\* The bounds are natural numbers.
LEMMA Bounds == MaxIssues \in Nat \ {0} /\ MaxTime \in Nat /\ MaxCloses \in Nat /\ MaxFaults \in Nat
BY LimitsArePositive

LEMMA InitTypes == Init => TypeOK
BY Bounds DEF Init, TypeOK, Issue, Report, Tab, Sight, Past, Stages, Undos, Actions, Numbers

\* Updates of one report's record.
LEMMA RecordsKept ==
    ASSUME rep \in [Reports -> Report], NEW r \in Reports
    PROVE  /\ \A at \in Stages, p \in Nat, c \in Nat :
                [rep EXCEPT ![r].at = at, ![r].page = p, ![r].count = c] \in [Reports -> Report]
           /\ \A at \in Stages : [rep EXCEPT ![r].at = at] \in [Reports -> Report]
           /\ \A u \in Undos : [rep EXCEPT ![r].undo = u] \in [Reports -> Report]
           /\ \A a \in Actions : Answer(r, a) \in [Reports -> Report]
           /\ \A s \in Sessions, b \in Bugs, t \in Nat :
                [rep EXCEPT ![r].at = "asked", ![r].owner = s, ![r].bug = b, ![r].now = t]
                    \in [Reports -> Report]
           /\ \A p \in Nat, c \in Nat :
                [rep EXCEPT ![r].page = p, ![r].count = c] \in [Reports -> Report]
           /\ \A at \in Stages, a \in Actions, i \in 0 .. MaxIssues :
                /\ [rep EXCEPT ![r].at = at, ![r].action = a, ![r].on = i] \in [Reports -> Report]
                /\ [rep EXCEPT ![r].on = i, ![r].at = at, ![r].action = a] \in [Reports -> Report]
<1> "answered" \in Stages /\ "asked" \in Stages
  BY DEF Stages
<1>0. rep[r] \in Report
  OBVIOUS
<1>1. \A e \in Report : [rep EXCEPT ![r] = e] \in [Reports -> Report]
  OBVIOUS
<1>2. ASSUME NEW at \in Stages, NEW p \in Nat, NEW c \in Nat
      PROVE  [rep EXCEPT ![r].at = at, ![r].page = p, ![r].count = c] \in [Reports -> Report]
  BY <1>0 DEF Report
<1>3. ASSUME NEW at \in Stages PROVE [rep EXCEPT ![r].at = at] \in [Reports -> Report]
  BY <1>0 DEF Report
<1>4. ASSUME NEW u \in Undos PROVE [rep EXCEPT ![r].undo = u] \in [Reports -> Report]
  BY <1>0 DEF Report
<1>5. ASSUME NEW a \in Actions PROVE Answer(r, a) \in [Reports -> Report]
  BY <1>0 DEF Report, Answer
<1>6. ASSUME NEW s \in Sessions, NEW b \in Bugs, NEW t \in Nat
      PROVE  [rep EXCEPT ![r].at = "asked", ![r].owner = s, ![r].bug = b, ![r].now = t]
                \in [Reports -> Report]
  BY <1>0 DEF Report
<1>7. ASSUME NEW p \in Nat, NEW c \in Nat
      PROVE [rep EXCEPT ![r].page = p, ![r].count = c] \in [Reports -> Report]
  BY <1>0 DEF Report
<1>8. ASSUME NEW at \in Stages, NEW a \in Actions, NEW i \in 0 .. MaxIssues
      PROVE  /\ [rep EXCEPT ![r].at = at, ![r].action = a, ![r].on = i] \in [Reports -> Report]
             /\ [rep EXCEPT ![r].on = i, ![r].at = at, ![r].action = a] \in [Reports -> Report]
  BY <1>0 DEF Report
<1> QED BY <1>2, <1>3, <1>4, <1>5, <1>6, <1>7, <1>8

\* Updates of one issue.
LEMMA IssuesKept ==
    ASSUME issues \in [Numbers -> Issue], clock \in Nat, NEW i \in Numbers
    PROVE  /\ Touched(i) \in [Numbers -> Issue]
           /\ [issues EXCEPT ![i].notes = @ + 1, ![i].updated = clock] \in [Numbers -> Issue]
           /\ PatchOpen(i) => issues' \in [Numbers -> Issue]
           /\ \A l \in BOOLEAN : Closed(i, l) => issues' \in [Numbers -> Issue]
           /\ \A b \in Bugs, r \in Reports :
                [issues EXCEPT ![i] = [state |-> "open", bug |-> b, by |-> r,
                    labelled |-> FALSE, notes |-> 0, created |-> clock, updated |-> clock]]
                    \in [Numbers -> Issue]
<1>0. issues[i] \in Issue
  OBVIOUS
<1>a. \A e \in Issue : [issues EXCEPT ![i] = e] \in [Numbers -> Issue]
  OBVIOUS
<1>1. Touched(i) \in [Numbers -> Issue]
  BY <1>0 DEF Touched, Issue
<1>2. [issues EXCEPT ![i].notes = @ + 1, ![i].updated = clock] \in [Numbers -> Issue]
  <2>3. issues[i].notes + 1 \in Nat
    BY <1>0 DEF Issue
  <2>4. \A m \in Nat : [issues[i] EXCEPT !.notes = m, !.updated = clock] \in Issue
    BY <1>0 DEF Issue
  <2>1. [issues[i] EXCEPT !.notes = issues[i].notes + 1, !.updated = clock] \in Issue
    BY <2>3, <2>4
  <2>2. [issues EXCEPT ![i].notes = @ + 1, ![i].updated = clock]
        = [issues EXCEPT ![i] = [issues[i] EXCEPT !.notes = issues[i].notes + 1, !.updated = clock]]
    OBVIOUS
  <2> QED BY <1>a, <2>1, <2>2
<1>3. ASSUME PatchOpen(i) PROVE issues' \in [Numbers -> Issue]
  <2>1. [issues[i] EXCEPT !.state = "open", !.updated = clock, !.labelled = TRUE] \in Issue
    BY <1>0 DEF Issue
  <2>2. issues' = [issues EXCEPT ![i] =
            [issues[i] EXCEPT !.state = "open", !.updated = clock, !.labelled = TRUE]]
    BY <1>3 DEF PatchOpen
  <2> QED BY <1>a, <2>1, <2>2
<1>4. ASSUME NEW l \in BOOLEAN, Closed(i, l) PROVE issues' \in [Numbers -> Issue]
  <2>1. issues' = [issues EXCEPT ![i].state = "closed", ![i].updated = clock, ![i].labelled = l]
    BY <1>4 DEF Closed
  <2> QED BY <1>0, <2>1 DEF Issue
<1>5. ASSUME NEW b \in Bugs, NEW r \in Reports
      PROVE  [state |-> "open", bug |-> b, by |-> r, labelled |-> FALSE, notes |-> 0,
              created |-> clock, updated |-> clock] \in Issue
  BY DEF Issue
<1> QED BY <1>1, <1>2, <1>3, <1>4, <1>5

\* Updates of an issue's history.
LEMMA PastKept ==
    ASSUME past \in [Numbers -> Past], clock \in Nat, NEW i \in Numbers
    PROVE  /\ [past EXCEPT ![i].reopens = @ + 1, ![i].at = clock] \in [Numbers -> Past]
           /\ \A l \in BOOLEAN : Closed(i, l) => past' \in [Numbers -> Past]
<1>0. past[i] \in Past
  OBVIOUS
<1>a. \A e \in Past : [past EXCEPT ![i] = e] \in [Numbers -> Past]
  OBVIOUS
<1>1. [past EXCEPT ![i].reopens = @ + 1, ![i].at = clock] \in [Numbers -> Past]
  <2>3. past[i].reopens + 1 \in Nat
    BY <1>0 DEF Past
  <2>4. \A m \in Nat : [past[i] EXCEPT !.reopens = m, !.at = clock] \in Past
    BY <1>0 DEF Past
  <2>1. [past[i] EXCEPT !.reopens = past[i].reopens + 1, !.at = clock] \in Past
    BY <2>3, <2>4
  <2>2. [past EXCEPT ![i].reopens = @ + 1, ![i].at = clock]
        = [past EXCEPT ![i] = [past[i] EXCEPT !.reopens = past[i].reopens + 1, !.at = clock]]
    OBVIOUS
  <2> QED BY <1>a, <2>1, <2>2
<1>2. ASSUME NEW n \in Nat
      PROVE [past EXCEPT ![i].closes = @ + 1, ![i].base = n] \in [Numbers -> Past]
  <2>3. past[i].closes + 1 \in Nat
    BY <1>0 DEF Past
  <2>4. \A m \in Nat : [past[i] EXCEPT !.closes = m, !.base = n] \in Past
    BY <1>0 DEF Past
  <2>1. [past[i] EXCEPT !.closes = past[i].closes + 1, !.base = n] \in Past
    BY <2>3, <2>4
  <2>2. [past EXCEPT ![i].closes = @ + 1, ![i].base = n]
        = [past EXCEPT ![i] = [past[i] EXCEPT !.closes = past[i].closes + 1, !.base = n]]
    OBVIOUS
  <2> QED BY <1>a, <2>1, <2>2
<1>3. ASSUME NEW l \in BOOLEAN, Closed(i, l) PROVE past' \in [Numbers -> Past]
  <2>1. past[i].reopens \in Nat /\ past[i].base \in Nat
    BY <1>0 DEF Past
  <2>2. (IF issues[i].labelled /\ ~l THEN past[i].reopens ELSE past[i].base) \in Nat
    BY <2>1
  <2>3. CASE issues[i].state = "open"
    <3>1. past' = [past EXCEPT ![i].closes = @ + 1,
                     ![i].base = IF issues[i].labelled /\ ~l THEN past[i].reopens ELSE past[i].base]
      BY <1>3, <2>3 DEF Closed
    <3> QED BY <1>2, <2>2, <3>1
  <2>4. CASE issues[i].state # "open"
    BY <1>3, <2>4 DEF Closed
  <2> QED BY <2>3, <2>4
<1> QED BY <1>1, <1>3

\* Updates of what a report saw.
LEMMA SightsKept ==
    ASSUME seen \in [Reports -> Sight], NEW r \in Reports
    PROVE  /\ \A n \in 0 .. MaxIssues :
                /\ [seen EXCEPT ![r].upTo = n] \in [Reports -> Sight]
                /\ [seen EXCEPT ![r].upTo = n, ![r].blind = TRUE] \in [Reports -> Sight]
           /\ [seen EXCEPT ![r].probed = TRUE] \in [Reports -> Sight]
           /\ \A c \in Nat, o \in Nat, a \in BOOLEAN :
                [seen EXCEPT ![r].closes = c, ![r].reopens = o, ![r].again = a]
                    \in [Reports -> Sight]
<1>0. seen[r] \in Sight
  OBVIOUS
<1>1. \A n \in 0 .. MaxIssues : [seen EXCEPT ![r].upTo = n] \in [Reports -> Sight]
  BY <1>0 DEF Sight
<1>2. \A n \in 0 .. MaxIssues :
        [seen EXCEPT ![r].upTo = n, ![r].blind = TRUE] \in [Reports -> Sight]
  BY <1>0 DEF Sight
<1>3. [seen EXCEPT ![r].probed = TRUE] \in [Reports -> Sight]
  BY <1>0 DEF Sight
<1>4. ASSUME NEW c \in Nat, NEW o \in Nat, NEW a \in BOOLEAN
      PROVE [seen EXCEPT ![r].closes = c, ![r].reopens = o, ![r].again = a] \in [Reports -> Sight]
  BY <1>0 DEF Sight
<1> QED BY <1>1, <1>2, <1>3, <1>4

\* The actions of the studio keep the sessions' records.
LEMMA TabsKept ==
    ASSUME tab \in [Sessions -> Tab], rep \in [Reports -> Report]
    PROVE  /\ \A s \in Sessions, r \in Reports, b \in Bugs : Crash(s, r, b) => tab' \in [Sessions -> Tab]
           /\ \A s \in Sessions, r \in Reports : GiveUp(s, r) => tab' \in [Sessions -> Tab]
           /\ \A s \in Sessions : Undo(s) => tab' \in [Sessions -> Tab]
<1>1. ASSUME NEW s \in Sessions, NEW r \in Reports, NEW b \in Bugs, Crash(s, r, b)
      PROVE  tab' \in [Sessions -> Tab]
  <2>1. tab[s] \in Tab
    OBVIOUS
  <2>2. tab' = [tab EXCEPT ![s].undoable = None, ![s].waiting = @ \cup {r}]
    BY <1>1 DEF Crash
  <2> QED BY <2>1, <2>2 DEF Tab
<1>2. ASSUME NEW s \in Sessions, NEW r \in Reports, GiveUp(s, r) PROVE tab' \in [Sessions -> Tab]
  <2>1. tab[s] \in Tab
    OBVIOUS
  <2>2. tab' = [tab EXCEPT ![s].waiting = @ \ {r}, ![s].undoable = None]
    BY <1>2 DEF GiveUp
  <2> QED BY <2>1, <2>2 DEF Tab
<1>3. ASSUME NEW s \in Sessions, Undo(s) PROVE tab' \in [Sessions -> Tab]
  <2>1. tab[s] \in Tab
    OBVIOUS
  <2>2. tab' = [tab EXCEPT ![s].undoable = None, ![s].retracted = TRUE]
    BY <1>3 DEF Undo
  <2> QED BY <2>1, <2>2 DEF Tab
<1> QED BY <1>1, <1>2, <1>3

-----------------------------------------------------------------------------
(* What a report may act on.                                               *)

\* A report has an answer only at its end, and an issue while it acts on one;
\* what its undo closes is the issue it filed itself.
OwnReport(r) ==
    /\ rep[r].at # "new" => rep[r].owner \in Sessions /\ rep[r].bug \in Bugs
    /\ rep[r].at # "answered" => rep[r].action = None /\ comment[r] = 0
    /\ rep[r].at \in {"commenting", "reopening", "noting"} \/ rep[r].action # None =>
           rep[r].on \in Filed
    /\ rep[r].action = "created" => issues[rep[r].on].by = r
    /\ rep[r].undo \in {"noting", "closing"} => rep[r].action = "created"
    /\ rep[r].undo # "no" => rep[r].action # None

\* A notice offers to undo answered reports only.
OwnNotice(s) == tab[s].undoable # None => rep[tab[s].undoable].action # None

Own == (\A r \in Reports : OwnReport(r)) /\ (\A s \in Sessions : OwnNotice(s))

\* Every issue is its report's, and a report that still looks has seen no
\* issue of its bug.
Looked ==
    /\ \A r \in Reports :
           /\ seen[r].upTo <= last
           /\ rep[r].at \in {"probing", "creating"} /\ ~seen[r].blind =>
                  \A i \in 1 .. seen[r].upTo : issues[i].bug # rep[r].bug
    /\ \A i \in Filed :
           /\ issues[i].by \in Reports
           /\ rep[issues[i].by].at = "answered"
           /\ rep[issues[i].by].bug = issues[i].bug

\* The inductive invariant.
Inv == TypeOK /\ Own /\ Looked /\ DuplicatesOnlyFromRaces

\* The typed facts a step starts from.
LEMMA Typed ==
    ASSUME TypeOK
    PROVE  /\ clock \in Nat /\ last \in 0 .. MaxIssues /\ Filed \subseteq Numbers
           /\ issues \in [Numbers -> Issue] /\ past \in [Numbers -> Past]
           /\ comment \in [Reports -> 0 .. MaxIssues]
           /\ rep \in [Reports -> Report] /\ tab \in [Sessions -> Tab]
           /\ seen \in [Reports -> Sight]
           /\ closes \in 0 .. MaxCloses /\ faults \in 0 .. MaxFaults
BY Bounds DEF TypeOK, Filed, Numbers

\* Names used as values of a field.
LEMMA FieldValues ==
    /\ \A at \in {"asked", "probing", "creating", "commenting", "reopening", "noting", "answered"} :
            at \in Stages
    /\ \A u \in {"asked", "noting", "closing", "deleting", "over"} : u \in Undos
    /\ None \in Actions /\ "created" \in Actions /\ "commented" \in Actions /\ "reopened" \in Actions
BY DEF Stages, Undos, Actions

\* The studio's actions and the clock keep the types.
LEMMA StudioTypes ==
    ASSUME TypeOK, Own,
           \/ \E s \in Sessions : Studio(s)
           \/ \E r \in Reports : Hear(r)
           \/ \E i \in Numbers, l \in BOOLEAN : MaintainerCloses(i, l)
           \/ Tick
    PROVE  TypeOK'
<1> USE Bounds DEF tracker
<1>1. ASSUME NEW s \in Sessions, NEW r \in Reports, NEW b \in Bugs, Crash(s, r, b) PROVE TypeOK'
  <2>1. rep' \in [Reports -> Report]
    BY <1>1, Typed, RecordsKept DEF Crash
  <2>2. tab' \in [Sessions -> Tab]
    BY <1>1, Typed, TabsKept
  <2> QED BY <1>1, <2>1, <2>2, Typed DEF Crash, TypeOK
<1>2. ASSUME NEW s \in Sessions, NEW r \in Reports, GiveUp(s, r) PROVE TypeOK'
  <2>1. tab' \in [Sessions -> Tab]
    BY <1>2, Typed, TabsKept
  <2> QED BY <1>2, <2>1, Typed DEF GiveUp, TypeOK
<1>3. ASSUME NEW s \in Sessions, Undo(s) PROVE TypeOK'
  <2>1. tab' \in [Sessions -> Tab]
    BY <1>3, Typed, TabsKept
  <2>2. tab[s].undoable \in Reports
    BY <1>3, Typed DEF Undo, Tab
  <2>3. rep' \in [Reports -> Report]
    BY <1>3, <2>2, Typed, RecordsKept, FieldValues DEF Undo
  <2> QED BY <1>3, <2>1, <2>3, Typed DEF Undo, TypeOK
<1>4. ASSUME NEW r \in Reports, Hear(r) PROVE TypeOK'
  <2> DEFINE s == rep[r].owner
  <2>1. s \in Sessions /\ rep[r].bug \in Bugs
    BY <1>4 DEF Hear, Own, OwnReport
  <2>2. tab[s] \in Tab
    BY <2>1, Typed
  <2>3. /\ [tab[s] EXCEPT !.waiting = tab[s].waiting \ {r}, !.undoable = None] \in Tab
        /\ [tab[s] EXCEPT !.waiting = tab[s].waiting \ {r}, !.undoable = r,
                !.sent = tab[s].sent \cup {rep[r].bug}] \in Tab
    BY <2>1, <2>2 DEF Tab
  <2>4. \/ tab' = [tab EXCEPT ![s] =
                [tab[s] EXCEPT !.waiting = tab[s].waiting \ {r}, !.undoable = None]]
        \/ tab' = [tab EXCEPT ![s] =
                [tab[s] EXCEPT !.waiting = tab[s].waiting \ {r}, !.undoable = r,
                    !.sent = tab[s].sent \cup {rep[r].bug}]]
    BY <1>4 DEF Hear
  <2>5. tab' \in [Sessions -> Tab]
    BY <2>1, <2>3, <2>4, Typed
  <2> QED BY <1>4, <2>5, Typed DEF Hear, TypeOK
<1>5. ASSUME NEW i \in Numbers, NEW l \in BOOLEAN, MaintainerCloses(i, l) PROVE TypeOK'
  <2>1. issues' \in [Numbers -> Issue]
    BY <1>5, Typed, IssuesKept DEF MaintainerCloses
  <2>2. past' \in [Numbers -> Past]
    BY <1>5, Typed, PastKept DEF MaintainerCloses
  <2>3. closes' \in 0 .. MaxCloses
    BY <1>5, Typed DEF MaintainerCloses
  <2> QED BY <1>5, <2>1, <2>2, <2>3, Typed DEF MaintainerCloses, TypeOK
<1>6. ASSUME Tick PROVE TypeOK'
  <2>1. clock' \in 0 .. MaxTime
    BY <1>6 DEF Tick, TypeOK
  <2> QED BY <1>6, <2>1, Typed DEF Tick, TypeOK
<1> QED BY <1>1, <1>2, <1>3, <1>4, <1>5, <1>6 DEF Studio

\* The service's steps before it writes keep the types.
LEMMA LookupTypes ==
    ASSUME TypeOK, Own, NEW r \in Reports,
           \/ LookupMisses(r) \/ (\E i \in Numbers : LookupFinds(r, i)) \/ LookupFails(r)
           \/ Probe(r) \/ ProbeFails(r) \/ CallRefused(r)
    PROVE  TypeOK'
<1> USE Bounds DEF tracker
<1>1. CASE LookupMisses(r)
  <2>1. rep' \in [Reports -> Report]
    BY <1>1, Typed, RecordsKept, FieldValues DEF LookupMisses
  <2>2. seen' \in [Reports -> Sight]
    BY <1>1, Typed, SightsKept DEF LookupMisses
  <2> QED BY <1>1, <2>1, <2>2, Typed DEF LookupMisses, TypeOK
<1>2. ASSUME NEW i \in Numbers, LookupFinds(r, i) PROVE TypeOK'
  <2>1. i \in 0 .. MaxIssues
    BY DEF Numbers
  <2>2. rep' \in [Reports -> Report]
    <3>1. PICK at \in Stages, a \in Actions :
              rep' = [rep EXCEPT ![r].on = i, ![r].at = at, ![r].action = a]
      BY <1>2, FieldValues DEF LookupFinds
    <3> QED BY <2>1, <3>1, Typed, RecordsKept
  <2>3. past[i].closes \in Nat /\ past[i].reopens \in Nat
    BY Typed DEF Past
  <2> DEFINE again == past[i].reopens > past[i].base
  <2>4. again \in BOOLEAN
    OBVIOUS
  <2>6. seen' = [seen EXCEPT ![r].closes = past[i].closes, ![r].reopens = past[i].reopens,
                    ![r].again = again]
    BY <1>2, Zenon DEF LookupFinds
  <2> HIDE DEF again
  <2>5. seen' \in [Reports -> Sight]
    BY <2>3, <2>4, <2>6, Typed, SightsKept
  <2> QED BY <1>2, <2>2, <2>5, Typed DEF LookupFinds, TypeOK
<1>3. CASE LookupFails(r)
  <2>1. rep' \in [Reports -> Report]
    BY <1>3, Typed, RecordsKept, FieldValues DEF LookupFails
  <2>2. seen' \in [Reports -> Sight]
    BY <1>3, Typed, SightsKept DEF LookupFails
  <2>3. faults' \in 0 .. MaxFaults
    BY <1>3, Typed DEF LookupFails
  <2> QED BY <1>3, <2>1, <2>2, <2>3, Typed DEF LookupFails, TypeOK
<1>4. CASE Probe(r)
  <2> DEFINE since == rep[r].now - CreateWindow
             page == Page(since, rep[r].page)
             fresh == Cardinality({i \in page : issues[i].created >= since})
             count == rep[r].count + fresh
  <2>1. fresh \in Nat
    BY Typed, PageCounts
  <2>2. rep[r].count \in Nat /\ rep[r].page \in Nat
    BY Typed DEF Report
  <2>3. count \in Nat /\ rep[r].page + 1 \in Nat
    BY <2>1, <2>2
  <2> HIDE DEF count
  <2>4. \/ rep' = Answer(r, None) /\ seen' = seen
        \/ /\ rep' = [rep EXCEPT ![r].at = "creating", ![r].page = 0, ![r].count = 0]
           /\ seen' = [seen EXCEPT ![r].probed = TRUE]
        \/ /\ rep' = [rep EXCEPT ![r].page = rep[r].page + 1, ![r].count = count]
           /\ seen' = seen
    BY <1>4 DEF Probe, count
  <2>7. /\ Answer(r, None) \in [Reports -> Report]
        /\ [rep EXCEPT ![r].at = "creating", ![r].page = 0, ![r].count = 0] \in [Reports -> Report]
        /\ [rep EXCEPT ![r].page = rep[r].page + 1, ![r].count = count] \in [Reports -> Report]
    BY <2>3, Typed, RecordsKept, FieldValues
  <2>8. [seen EXCEPT ![r].probed = TRUE] \in [Reports -> Sight] /\ seen \in [Reports -> Sight]
    BY Typed, SightsKept
  <2>5. rep' \in [Reports -> Report]
    BY <2>4, <2>7
  <2>6. seen' \in [Reports -> Sight]
    BY <2>4, <2>8
  <2> QED BY <1>4, <2>5, <2>6, Typed DEF Probe, TypeOK
<1>5. CASE ProbeFails(r)
  <2>1. rep' \in [Reports -> Report]
    BY <1>5, Typed, RecordsKept, FieldValues DEF ProbeFails
  <2>2. faults' \in 0 .. MaxFaults
    BY <1>5, Typed DEF ProbeFails
  <2> QED BY <1>5, <2>1, <2>2, Typed DEF ProbeFails, TypeOK
<1>6. CASE CallRefused(r)
  <2>1. rep' \in [Reports -> Report]
    BY <1>6, Typed, RecordsKept, FieldValues DEF CallRefused
  <2>2. faults' \in 0 .. MaxFaults
    BY <1>6, Typed DEF CallRefused
  <2> QED BY <1>6, <2>1, <2>2, Typed DEF CallRefused, TypeOK
<1> QED BY <1>1, <1>2, <1>3, <1>4, <1>5, <1>6

\* The steps that write on the tracker for a report keep the types.
LEMMA WriteTypes ==
    ASSUME TypeOK, Own, NEW r \in Reports,
           Create(r) \/ Comment(r) \/ Reopen(r) \/ NoteReopen(r)
    PROVE  TypeOK'
<1> USE Bounds DEF tracker
<1>0. /\ rep[r].at # "new" => rep[r].bug \in Bugs
      /\ rep[r].at \in {"commenting", "reopening", "noting"} => rep[r].on \in Filed
  BY DEF Own, OwnReport
<1>a. Filed \subseteq Numbers /\ Filed \subseteq 0 .. MaxIssues
  BY Typed DEF Numbers
<1>b. ASSUME NEW a \in Actions, Answered(r, a)
      PROVE  rep' \in [Reports -> Report] /\ faults' \in 0 .. MaxFaults
  <2>3. Answer(r, a) \in [Reports -> Report] /\ Answer(r, None) \in [Reports -> Report]
    BY Typed, RecordsKept, FieldValues
  <2>1. rep' \in [Reports -> Report]
    BY <1>b, <2>3 DEF Answered
  <2>2. faults' \in 0 .. MaxFaults
    BY <1>b, Typed DEF Answered
  <2> QED BY <2>1, <2>2
<1>1. CASE Create(r)
  <2>1. last + 1 \in Numbers /\ last + 1 \in 0 .. MaxIssues /\ rep[r].bug \in Bugs
    BY <1>0, <1>1, Typed DEF Create, Numbers
  <2>2. issues' \in [Numbers -> Issue]
    BY <1>1, <2>1, Typed, IssuesKept DEF Create
  <2>5. /\ Answer(r, None) \in [Reports -> Report]
        /\ [rep EXCEPT ![r].at = "answered", ![r].action = "created", ![r].on = last + 1]
                \in [Reports -> Report]
    BY <2>1, Typed, RecordsKept, FieldValues
  <2>3. rep' \in [Reports -> Report]
    BY <1>1, <2>5 DEF Create
  <2>4. faults' \in 0 .. MaxFaults /\ last' \in 0 .. MaxIssues
    BY <1>1, <2>1, Typed DEF Create
  <2> QED BY <1>1, <2>2, <2>3, <2>4, Typed DEF Create, TypeOK
<1>2. CASE Comment(r)
  <2>1. rep[r].on \in Numbers /\ rep[r].on \in 0 .. MaxIssues
    BY <1>0, <1>2, <1>a DEF Comment
  <2>2. issues' \in [Numbers -> Issue]
    BY <1>2, <2>1, Typed, IssuesKept DEF Comment
  <2>3. comment' \in [Reports -> 0 .. MaxIssues]
    BY <1>2, <2>1, Typed DEF Comment
  <2>4. rep' \in [Reports -> Report] /\ faults' \in 0 .. MaxFaults
    BY <1>2, <1>b, FieldValues DEF Comment
  <2> QED BY <1>2, <2>2, <2>3, <2>4, Typed DEF Comment, TypeOK
<1>3. CASE Reopen(r)
  <2>1. rep[r].on \in Numbers
    BY <1>0, <1>3, <1>a DEF Reopen
  <2>2. issues' \in [Numbers -> Issue]
    BY <1>3, <2>1, Typed, IssuesKept DEF Reopen
  <2>3. past' \in [Numbers -> Past]
    BY <1>3, <2>1, Typed, PastKept DEF Reopen
  <2>6. /\ Answer(r, None) \in [Reports -> Report]
        /\ [rep EXCEPT ![r].at = "noting"] \in [Reports -> Report]
    BY Typed, RecordsKept, FieldValues
  <2>4. rep' \in [Reports -> Report]
    BY <1>3, <2>6 DEF Reopen
  <2>5. faults' \in 0 .. MaxFaults
    BY <1>3, Typed DEF Reopen
  <2> QED BY <1>3, <2>2, <2>3, <2>4, <2>5, Typed DEF Reopen, TypeOK
<1>4. CASE NoteReopen(r)
  <2>1. rep[r].on \in Numbers /\ rep[r].on \in 0 .. MaxIssues
    BY <1>0, <1>4, <1>a DEF NoteReopen
  <2>2. issues' \in [Numbers -> Issue]
    BY <1>4, <2>1, Typed, IssuesKept DEF NoteReopen
  <2>3. comment' \in [Reports -> 0 .. MaxIssues]
    BY <1>4, <2>1, Typed DEF NoteReopen
  <2>4. rep' \in [Reports -> Report] /\ faults' \in 0 .. MaxFaults
    BY <1>4, <1>b, FieldValues DEF NoteReopen
  <2> QED BY <1>4, <2>2, <2>3, <2>4, Typed DEF NoteReopen, TypeOK
<1> QED BY <1>1, <1>2, <1>3, <1>4

\* The retraction's steps keep the types.
LEMMA RetractTypes ==
    ASSUME TypeOK, Own, NEW r \in Reports,
           Retract(r) \/ RetractNote(r) \/ RetractClose(r) \/ RetractDelete(r) \/ RetractRefused(r)
    PROVE  TypeOK'
<1> USE Bounds DEF tracker
<1>0. rep[r].undo # "no" => rep[r].on \in Numbers
  BY Typed DEF Own, OwnReport
<1>1. CASE Retract(r)
  <2>1. Granted(r) \in Undos
    BY FieldValues DEF Granted
  <2>2. rep' \in [Reports -> Report]
    BY <1>1, <2>1, Typed, RecordsKept, FieldValues DEF Retract
  <2> QED BY <1>1, <2>2, Typed DEF Retract, TypeOK
<1>2. CASE RetractNote(r)
  <2>1. issues' \in [Numbers -> Issue]
    BY <1>0, <1>2, Typed, IssuesKept DEF RetractNote
  <2>4. /\ [rep EXCEPT ![r].undo = "closing"] \in [Reports -> Report]
        /\ [rep EXCEPT ![r].undo = "over"] \in [Reports -> Report]
    BY Typed, RecordsKept, FieldValues
  <2>2. rep' \in [Reports -> Report]
    BY <1>2, <2>4 DEF RetractNote
  <2>3. faults' \in 0 .. MaxFaults
    BY <1>2, Typed DEF RetractNote
  <2> QED BY <1>2, <2>1, <2>2, <2>3, Typed DEF RetractNote, TypeOK
<1>3. CASE RetractClose(r)
  <2>1. rep[r].on \in Numbers
    BY <1>0, <1>3 DEF RetractClose
  <2>2. issues[rep[r].on].labelled \in BOOLEAN
    BY <2>1, Typed DEF Issue
  <2>5. PICK i \in Numbers, l \in BOOLEAN : Closed(i, l)
    BY <1>3, <2>1, <2>2 DEF RetractClose
  <2>6. issues' \in [Numbers -> Issue]
    BY <2>5, Typed, IssuesKept
  <2>7. past' \in [Numbers -> Past]
    BY <2>5, Typed, PastKept
  <2>3. issues' \in [Numbers -> Issue] /\ past' \in [Numbers -> Past]
    BY <2>6, <2>7
  <2>4. rep' \in [Reports -> Report]
    BY <1>3, Typed, RecordsKept, FieldValues DEF RetractClose
  <2> QED BY <1>3, <2>3, <2>4, Typed DEF RetractClose, TypeOK
<1>4. CASE RetractDelete(r)
  <2>1. issues' \in [Numbers -> Issue]
    BY <1>0, <1>4, Typed, IssuesKept DEF RetractDelete
  <2>2. comment' \in [Reports -> 0 .. MaxIssues]
    BY <1>4, Typed DEF RetractDelete
  <2>3. rep' \in [Reports -> Report]
    BY <1>4, Typed, RecordsKept, FieldValues DEF RetractDelete
  <2> QED BY <1>4, <2>1, <2>2, <2>3, Typed DEF RetractDelete, TypeOK
<1>5. CASE RetractRefused(r)
  <2>1. rep' \in [Reports -> Report]
    BY <1>5, Typed, RecordsKept, FieldValues DEF RetractRefused
  <2>2. faults' \in 0 .. MaxFaults
    BY <1>5, Typed DEF RetractRefused
  <2> QED BY <1>5, <2>1, <2>2, Typed DEF RetractRefused, TypeOK
<1> QED BY <1>1, <1>2, <1>3, <1>4, <1>5

\* Every step keeps the types.
LEMMA NextTypes ==
    ASSUME TypeOK, Own, [Next]_vars PROVE TypeOK'
<1>1. CASE Next
  BY <1>1, StudioTypes, LookupTypes, WriteTypes, RetractTypes DEF Next, Service
<1>2. CASE UNCHANGED vars
  BY <1>2 DEF vars, TypeOK
<1> QED BY <1>1, <1>2

-----------------------------------------------------------------------------
(* What a step leaves alone.                                               *)

\* The service acts on one report at a time, and its identity stays.
LEMMA OthersStay ==
    ASSUME TypeOK, NEW r \in Reports, Service(r), NEW q \in Reports, q # r
    PROVE  rep'[q] = rep[q] /\ seen'[q] = seen[q] /\ comment'[q] = comment[q]
<1>1. CASE LookupMisses(r)
  BY <1>1, Typed DEF LookupMisses, tracker
<1>2. CASE LookupFails(r)
  BY <1>2, Typed DEF LookupFails, tracker
<1>3. CASE Probe(r)
  BY <1>3, Typed DEF Probe, tracker, Answer
<1>4. CASE ProbeFails(r)
  BY <1>4, Typed DEF ProbeFails, tracker
<1>5. CASE Create(r)
  BY <1>5, Typed DEF Create, tracker, Answer
<1>6. CASE Comment(r)
  BY <1>6, Typed DEF Comment, tracker, Answered, Answer, Touched
<1>7. CASE Reopen(r)
  BY <1>7, Typed DEF Reopen, tracker, Answer, PatchOpen
<1>8. CASE NoteReopen(r)
  BY <1>8, Typed DEF NoteReopen, tracker, Answered, Answer, Touched
<1>9. CASE CallRefused(r)
  BY <1>9, Typed DEF CallRefused, tracker, Answer
<1>10. CASE Retract(r)
  BY <1>10, Typed DEF Retract, tracker
<1>11. CASE RetractNote(r)
  BY <1>11, Typed DEF RetractNote, tracker
<1>12. CASE RetractClose(r)
  BY <1>12, Typed DEF RetractClose, tracker, Closed
<1>13. CASE RetractDelete(r)
  BY <1>13, Typed DEF RetractDelete, tracker, Touched
<1>14. CASE RetractRefused(r)
  BY <1>14, Typed DEF RetractRefused, tracker
<1>15. ASSUME NEW i \in Numbers, LookupFinds(r, i) PROVE rep'[q] = rep[q] /\ seen'[q] = seen[q] /\ comment'[q] = comment[q]
  BY <1>15, Typed DEF LookupFinds, tracker
<1> QED BY <1>1, <1>2, <1>3, <1>4, <1>5, <1>6, <1>7, <1>8, <1>9, <1>10, <1>11, <1>12, <1>13, <1>14, <1>15 DEF Service

\* No step of the service touches a session.
LEMMA TabsStay ==
    ASSUME NEW r \in Reports, Service(r)
    PROVE  tab' = tab /\ closes' = closes /\ clock' = clock
BY DEF Service, tracker, LookupMisses, LookupFails, Probe, ProbeFails, Create, Comment, Reopen, NoteReopen, CallRefused, Retract, RetractNote, RetractClose, RetractDelete, RetractRefused, LookupFinds

\* The service never changes whose report it is.
LEMMA IdentityStays ==
    ASSUME TypeOK, NEW r \in Reports, Service(r)
    PROVE  rep'[r].owner = rep[r].owner /\ rep'[r].bug = rep[r].bug
<1> DEFINE Same(f) == f[r].owner = rep[r].owner /\ f[r].bug = rep[r].bug
<1>a. \A a \in Actions : Same(Answer(r, a))
  BY Typed DEF Answer
<1>b. \A u \in Undos : Same([rep EXCEPT ![r].undo = u])
  BY Typed
<1>c. \A x, y : \A at \in Stages : Same([rep EXCEPT ![r].at = at, ![r].page = x, ![r].count = y])
  BY Typed
<1>d. \A at \in Stages : Same([rep EXCEPT ![r].at = at])
  BY Typed
<1>e. \A i : \A at \in Stages, a \in Actions :
        /\ Same([rep EXCEPT ![r].at = at, ![r].action = a, ![r].on = i])
        /\ Same([rep EXCEPT ![r].on = i, ![r].at = at, ![r].action = a])
  BY Typed
<1>f. \A x, y : Same([rep EXCEPT ![r].page = x, ![r].count = y])
  BY Typed
<1>g. Same(rep') => rep'[r].owner = rep[r].owner /\ rep'[r].bug = rep[r].bug
  OBVIOUS
<1> HIDE DEF Same
<1>1. CASE LookupMisses(r)
  <2>1. rep' = [rep EXCEPT ![r].at = "probing", ![r].page = 1, ![r].count = 0]
    BY <1>1 DEF LookupMisses
  <2>2. Same([rep EXCEPT ![r].at = "probing", ![r].page = 1, ![r].count = 0])
    BY <1>c, FieldValues
  <2> QED BY <2>1, <2>2, <1>g
<1>2. CASE LookupFails(r)
  <2>1. rep' = [rep EXCEPT ![r].at = "probing", ![r].page = 1, ![r].count = 0]
    BY <1>2 DEF LookupFails
  <2>2. Same([rep EXCEPT ![r].at = "probing", ![r].page = 1, ![r].count = 0])
    BY <1>c, FieldValues
  <2> QED BY <2>1, <2>2, <1>g
<1>3. CASE Probe(r)
  <2>1. \/ rep' = Answer(r, None)
        \/ rep' = [rep EXCEPT ![r].at = "creating", ![r].page = 0, ![r].count = 0]
        \/ \E c : rep' = [rep EXCEPT ![r].page = rep[r].page + 1, ![r].count = c]
    BY <1>3 DEF Probe
  <2>2. Same(Answer(r, None)) /\ Same([rep EXCEPT ![r].at = "creating", ![r].page = 0, ![r].count = 0])
    BY <1>a, <1>c, FieldValues
  <2>3. ASSUME NEW c, rep' = [rep EXCEPT ![r].page = rep[r].page + 1, ![r].count = c]
        PROVE  Same(rep')
    <3>1. Same([rep EXCEPT ![r].page = rep[r].page + 1, ![r].count = c])
      BY <1>f
    <3> QED BY <2>3, <3>1
  <2> QED BY <2>1, <2>2, <2>3, <1>g
<1>4. CASE ProbeFails(r)
  <2>1. rep' = [rep EXCEPT ![r].at = "creating", ![r].page = 0, ![r].count = 0]
    BY <1>4 DEF ProbeFails
  <2>2. Same([rep EXCEPT ![r].at = "creating", ![r].page = 0, ![r].count = 0])
    BY <1>c, FieldValues
  <2> QED BY <2>1, <2>2, <1>g
<1>5. CASE Create(r)
  <2>1. rep' = Answer(r, None) \/ rep' = [rep EXCEPT ![r].at = "answered", ![r].action = "created", ![r].on = last + 1]
    BY <1>5 DEF Create
  <2>2. Same(Answer(r, None)) /\ Same([rep EXCEPT ![r].at = "answered", ![r].action = "created", ![r].on = last + 1])
    BY <1>a, <1>e, FieldValues
  <2> QED BY <2>1, <2>2, <1>g
<1>6. CASE Comment(r)
  <2>1. rep' = Answer(r, None) \/ rep' = Answer(r, "commented")
    BY <1>6 DEF Comment, Answered
  <2>2. Same(Answer(r, None)) /\ Same(Answer(r, "commented"))
    BY <1>a, FieldValues
  <2> QED BY <2>1, <2>2, <1>g
<1>7. CASE Reopen(r)
  <2>1. rep' = Answer(r, None) \/ rep' = [rep EXCEPT ![r].at = "noting"]
    BY <1>7 DEF Reopen
  <2>2. Same(Answer(r, None)) /\ Same([rep EXCEPT ![r].at = "noting"])
    BY <1>a, <1>d, FieldValues
  <2> QED BY <2>1, <2>2, <1>g
<1>8. CASE NoteReopen(r)
  <2>1. rep' = Answer(r, None) \/ rep' = Answer(r, "reopened")
    BY <1>8 DEF NoteReopen, Answered
  <2>2. Same(Answer(r, None)) /\ Same(Answer(r, "reopened"))
    BY <1>a, FieldValues
  <2> QED BY <2>1, <2>2, <1>g
<1>9. CASE CallRefused(r)
  <2>1. rep' = Answer(r, None)
    BY <1>9 DEF CallRefused
  <2>2. Same(Answer(r, None))
    BY <1>a, FieldValues
  <2> QED BY <2>1, <2>2, <1>g
<1>10. CASE Retract(r)
  <2>1. PICK u \in Undos : rep' = [rep EXCEPT ![r].undo = u]
    BY <1>10, FieldValues DEF Retract, Granted
  <2> QED BY <2>1, <1>b, <1>g
<1>11. CASE RetractNote(r)
  <2>1. rep' = [rep EXCEPT ![r].undo = "closing"] \/ rep' = [rep EXCEPT ![r].undo = "over"]
    BY <1>11 DEF RetractNote
  <2>2. Same([rep EXCEPT ![r].undo = "closing"]) /\ Same([rep EXCEPT ![r].undo = "over"])
    BY <1>b, FieldValues
  <2> QED BY <2>1, <2>2, <1>g
<1>12. CASE RetractClose(r)
  <2>1. rep' = [rep EXCEPT ![r].undo = "over"]
    BY <1>12 DEF RetractClose
  <2>2. Same([rep EXCEPT ![r].undo = "over"])
    BY <1>b, FieldValues
  <2> QED BY <2>1, <2>2, <1>g
<1>13. CASE RetractDelete(r)
  <2>1. rep' = [rep EXCEPT ![r].undo = "over"]
    BY <1>13 DEF RetractDelete
  <2>2. Same([rep EXCEPT ![r].undo = "over"])
    BY <1>b, FieldValues
  <2> QED BY <2>1, <2>2, <1>g
<1>14. CASE RetractRefused(r)
  <2>1. rep' = [rep EXCEPT ![r].undo = "over"]
    BY <1>14 DEF RetractRefused
  <2>2. Same([rep EXCEPT ![r].undo = "over"])
    BY <1>b, FieldValues
  <2> QED BY <2>1, <2>2, <1>g
<1>15. ASSUME NEW i \in Numbers, LookupFinds(r, i) PROVE Same(rep')
  <2>1. PICK at \in Stages, a \in Actions :
            rep' = [rep EXCEPT ![r].on = i, ![r].at = at, ![r].action = a]
    BY <1>15, FieldValues DEF LookupFinds
  <2> QED BY <2>1, <1>e
<1> QED BY <1>g, <1>1, <1>2, <1>3, <1>4, <1>5, <1>6, <1>7, <1>8, <1>9, <1>10, <1>11, <1>12, <1>13, <1>14, <1>15 DEF Service

\* An issue keeps its number, its bug and its reporter.
LEMMA ServiceKeepsIssues ==
    ASSUME TypeOK, NEW r \in Reports, Service(r), NEW n \in Filed
    PROVE  last <= last' /\ issues'[n].by = issues[n].by /\ issues'[n].bug = issues[n].bug
<1>0. n \in Numbers /\ n # last + 1 /\ last \in Nat
  BY Typed DEF Filed
<1>1. CASE LookupMisses(r)
  BY <1>1, Typed, <1>0 DEF LookupMisses, tracker
<1>2. CASE LookupFails(r)
  BY <1>2, Typed, <1>0 DEF LookupFails, tracker
<1>3. CASE Probe(r)
  BY <1>3, Typed, <1>0 DEF Probe, tracker, Answer
<1>4. CASE ProbeFails(r)
  BY <1>4, Typed, <1>0 DEF ProbeFails, tracker
<1>5. CASE Create(r)
  BY <1>5, Typed, <1>0 DEF Create, tracker, Answer
<1>6. CASE Comment(r)
  BY <1>6, Typed, <1>0 DEF Comment, tracker, Answered, Answer, Touched
<1>7. CASE Reopen(r)
  BY <1>7, Typed, <1>0 DEF Reopen, tracker, Answer, PatchOpen
<1>8. CASE NoteReopen(r)
  BY <1>8, Typed, <1>0 DEF NoteReopen, tracker, Answered, Answer, Touched
<1>9. CASE CallRefused(r)
  BY <1>9, Typed, <1>0 DEF CallRefused, tracker, Answer
<1>10. CASE Retract(r)
  BY <1>10, Typed, <1>0 DEF Retract, tracker
<1>11. CASE RetractNote(r)
  BY <1>11, Typed, <1>0 DEF RetractNote, tracker
<1>12. CASE RetractClose(r)
  BY <1>12, Typed, <1>0 DEF RetractClose, tracker, Closed
<1>13. CASE RetractDelete(r)
  <2>1. last' = last /\ (issues' = issues \/ issues' = Touched(rep[r].on))
    BY <1>13 DEF RetractDelete
  <2>2. CASE issues' = issues
    BY <1>0, <2>1, <2>2
  <2>3. CASE issues' = Touched(rep[r].on)
    BY <1>0, <2>1, <2>3, Typed DEF Touched
  <2> QED BY <2>1, <2>2, <2>3
<1>14. CASE RetractRefused(r)
  BY <1>14, Typed, <1>0 DEF RetractRefused, tracker
<1>15. ASSUME NEW i \in Numbers, LookupFinds(r, i) PROVE last <= last' /\ issues'[n].by = issues[n].by /\ issues'[n].bug = issues[n].bug
  BY <1>15, Typed, <1>0 DEF LookupFinds, tracker
<1> QED BY <1>1, <1>2, <1>3, <1>4, <1>5, <1>6, <1>7, <1>8, <1>9, <1>10, <1>11, <1>12, <1>13, <1>14, <1>15 DEF Service

\* A report that was answered stays answered, as it was.
LEMMA ServiceKeepsAnswers ==
    ASSUME TypeOK, NEW r \in Reports, Service(r), rep[r].at = "answered"
    PROVE  /\ rep'[r].at = "answered" /\ rep'[r].action = rep[r].action /\ rep'[r].on = rep[r].on
           /\ seen'[r] = seen[r]
<1>1. Retract(r) \/ RetractNote(r) \/ RetractClose(r) \/ RetractDelete(r) \/ RetractRefused(r)
  BY DEF Service, LookupMisses, LookupFinds, LookupFails, Probe, ProbeFails, Create, Comment,
         Reopen, NoteReopen, CallRefused
<1>2. seen' = seen
  BY <1>1 DEF Retract, RetractNote, RetractClose, RetractDelete, RetractRefused
<1>3. PICK u \in Undos : rep' = [rep EXCEPT ![r].undo = u]
  BY <1>1, FieldValues DEF Retract, Granted, RetractNote, RetractClose, RetractDelete, RetractRefused
<1> QED BY <1>2, <1>3, Typed

\* Filed issues, and answered reports with what they saw, stay as they are.
LEMMA PastStays ==
    ASSUME TypeOK, [Next]_vars
    PROVE  /\ last <= last'
           /\ \A n \in Filed : issues'[n].by = issues[n].by /\ issues'[n].bug = issues[n].bug
           /\ \A r \in Reports : rep[r].at = "answered" =>
                /\ rep'[r].at = "answered" /\ rep'[r].action = rep[r].action
                /\ rep'[r].on = rep[r].on /\ rep'[r].bug = rep[r].bug /\ seen'[r] = seen[r]
<1> DEFINE Stays ==
      /\ last <= last'
      /\ \A n \in Filed : issues'[n].by = issues[n].by /\ issues'[n].bug = issues[n].bug
      /\ \A r \in Reports : rep[r].at = "answered" =>
           /\ rep'[r].at = "answered" /\ rep'[r].action = rep[r].action
           /\ rep'[r].on = rep[r].on /\ rep'[r].bug = rep[r].bug /\ seen'[r] = seen[r]
<1>0. last \in Nat
  BY Typed
<1>1. ASSUME NEW q \in Reports, Service(q) PROVE Stays
  <2>4. last' = last \/ last' = last + 1
    BY <1>1 DEF Service, LookupMisses, LookupFinds, LookupFails, Probe, ProbeFails, Create,
        Comment, Reopen, NoteReopen, CallRefused, Retract, RetractNote, RetractClose,
        RetractDelete, RetractRefused, tracker
  <2>1. last <= last'
    BY <1>0, <2>4
  <2>2. \A n \in Filed : issues'[n].by = issues[n].by /\ issues'[n].bug = issues[n].bug
    BY <1>1, ServiceKeepsIssues
  <2>3. ASSUME NEW r \in Reports, rep[r].at = "answered"
        PROVE  /\ rep'[r].at = "answered" /\ rep'[r].action = rep[r].action
               /\ rep'[r].on = rep[r].on /\ rep'[r].bug = rep[r].bug /\ seen'[r] = seen[r]
    <3>1. CASE r = q
      BY <1>1, <2>3, <3>1, ServiceKeepsAnswers, IdentityStays
    <3>2. CASE r # q
      BY <1>1, <2>3, <3>2, OthersStay
    <3> QED BY <3>1, <3>2
  <2> QED BY <2>1, <2>2, <2>3
<1>2. ASSUME NEW s \in Sessions, NEW r \in Reports, NEW b \in Bugs, Crash(s, r, b) PROVE Stays
  <2>1. \A q \in Reports : q # r => rep'[q] = rep[q]
    BY <1>2, Typed DEF Crash
  <2>2. rep[r].at = "new" /\ last' = last /\ issues' = issues /\ seen' = seen
    BY <1>2 DEF Crash, tracker
  <2> QED BY <1>0, <2>1, <2>2
<1>3. ASSUME NEW s \in Sessions, Undo(s) PROVE Stays
  <2>1. last' = last /\ issues' = issues /\ seen' = seen
    BY <1>3 DEF Undo, tracker
  <2>2. \A q \in Reports : /\ rep'[q].at = rep[q].at /\ rep'[q].action = rep[q].action
                            /\ rep'[q].on = rep[q].on /\ rep'[q].bug = rep[q].bug
    BY <1>3, Typed DEF Undo
  <2> QED BY <1>0, <2>1, <2>2
<1>4. ASSUME NEW i \in Numbers, NEW l \in BOOLEAN, MaintainerCloses(i, l) PROVE Stays
  <2>1. last' = last /\ rep' = rep /\ seen' = seen
    BY <1>4 DEF MaintainerCloses
  <2>2. \A n \in Filed : issues'[n].by = issues[n].by /\ issues'[n].bug = issues[n].bug
    BY <1>4, Typed DEF MaintainerCloses, Closed
  <2> QED BY <1>0, <2>1, <2>2
<1>5. ASSUME last' = last, issues' = issues, rep' = rep, seen' = seen PROVE Stays
  BY <1>0, <1>5
<1>6. ASSUME NEW r \in Reports, Hear(r) PROVE Stays
  BY <1>5, <1>6 DEF Hear, tracker
<1>7. ASSUME NEW s \in Sessions, NEW r \in Reports, GiveUp(s, r) PROVE Stays
  BY <1>5, <1>7 DEF GiveUp, tracker
<1>8. CASE Tick
  BY <1>5, <1>8 DEF Tick, tracker
<1>9. CASE UNCHANGED vars
  BY <1>5, <1>9 DEF vars
<1>10. Stays
  BY <1>1, <1>2, <1>3, <1>4, <1>6, <1>7, <1>8, <1>9 DEF Next, Studio
<1> QED BY <1>10

-----------------------------------------------------------------------------
(* A report acts on what is its own.                                       *)

\* A report the step leaves alone keeps what it owns.
LEMMA OwnFrame ==
    ASSUME TypeOK, Own, [Next]_vars, NEW q \in Reports,
           rep'[q] = rep[q], comment'[q] = comment[q]
    PROVE  OwnReport(q)'
<1>0. OwnReport(q) /\ last \in Nat /\ last' \in Nat /\ last <= last'
  BY Typed, PastStays, NextTypes, Bounds DEF Own, TypeOK
<1>1. Filed \subseteq Filed' /\ \A n \in Filed : issues'[n].by = issues[n].by
  BY <1>0, PastStays DEF Filed
<1>2. rep[q].action = "created" => rep[q].on \in Filed
  BY <1>0 DEF OwnReport, None
<1> QED BY <1>0, <1>1, <1>2 DEF OwnReport

\* The report the service acts on, up to its answer.
LEMMA OwnSubmit ==
    ASSUME TypeOK, Own, [Next]_vars, NEW r \in Reports,
           \/ LookupMisses(r) \/ (\E i \in Numbers : LookupFinds(r, i)) \/ LookupFails(r)
           \/ Probe(r) \/ ProbeFails(r) \/ Create(r) \/ Comment(r) \/ Reopen(r)
           \/ NoteReopen(r) \/ CallRefused(r)
    PROVE  OwnReport(r)'
<1>0. OwnReport(r) /\ Service(r) /\ last \in Nat /\ last' \in Nat /\ last <= last'
  BY Typed, PastStays, NextTypes, Bounds DEF Own, TypeOK, Service
<1>f. Filed \subseteq Filed' /\ None # "created"
  BY <1>0 DEF Filed, None
<1>1. /\ rep[r].at \notin {"new", "answered"} /\ rep[r].action = None /\ comment[r] = 0
      /\ rep[r].undo = "no"
  BY <1>0 DEF OwnReport, LookupMisses, LookupFinds, LookupFails, Probe, ProbeFails, Create,
     Comment, Reopen, NoteReopen, CallRefused
<1>2. rep'[r].owner \in Sessions /\ rep'[r].bug \in Bugs
  BY <1>0, <1>1, IdentityStays DEF OwnReport
<1>a. \A a \in Actions : /\ Answer(r, a)[r].at = "answered" /\ Answer(r, a)[r].action = a
                          /\ Answer(r, a)[r].on = rep[r].on /\ Answer(r, a)[r].undo = "no"
  BY <1>1, Typed DEF Answer
<1>b. ASSUME rep' = Answer(r, None) PROVE OwnReport(r)'
  <2>1. rep'[r].at = "answered" /\ rep'[r].action = None /\ rep'[r].undo = "no"
    BY <1>a, <1>b, FieldValues
  <2> QED BY <1>f, <1>2, <2>1 DEF OwnReport
<1>c. ASSUME NEW a \in {"commented", "reopened"}, rep' = Answer(r, a), rep[r].on \in Filed
      PROVE  OwnReport(r)'
  <2>1. rep'[r].at = "answered" /\ rep'[r].action = a /\ rep'[r].undo = "no" /\ rep'[r].on = rep[r].on
    BY <1>a, <1>c, FieldValues
  <2> QED BY <1>f, <1>c, <1>2, <2>1 DEF OwnReport
<1>3. CASE LookupMisses(r) \/ LookupFails(r) \/ ProbeFails(r)
  <2>1. /\ rep'[r].at \in {"probing", "creating"} /\ rep'[r].action = None /\ rep'[r].undo = "no"
        /\ comment' = comment
    <3>1. comment' = comment
      BY <1>3 DEF LookupMisses, LookupFails, ProbeFails, tracker
    <3>2. PICK at \in {"probing", "creating"}, p \in Nat :
              rep' = [rep EXCEPT ![r].at = at, ![r].page = p, ![r].count = 0]
      BY <1>3 DEF LookupMisses, LookupFails, ProbeFails
    <3> QED BY <1>1, <3>1, <3>2, Typed
  <2> QED BY <1>f, <1>1, <1>2, <2>1 DEF OwnReport
<1>4. ASSUME NEW i \in Numbers, LookupFinds(r, i) PROVE OwnReport(r)'
  <2>1. i \in Filed
    BY <1>4 DEF LookupFinds, Newest, Existing, Matches
  <2>2. PICK at \in {"answered", "commenting", "reopening"}, a \in {None, "commented"} :
          /\ rep' = [rep EXCEPT ![r].on = i, ![r].at = at, ![r].action = a]
          /\ at # "answered" => a = None
    BY <1>4 DEF LookupFinds
  <2>3. /\ rep'[r].on = i /\ rep'[r].at = at /\ rep'[r].action = a /\ rep'[r].undo = "no"
        /\ comment' = comment
    <3>1. comment' = comment
      BY <1>4 DEF LookupFinds, tracker
    <3> QED BY <1>1, <2>2, <3>1, Typed
  <2> QED BY <1>f, <1>1, <1>2, <2>1, <2>2, <2>3 DEF OwnReport
<1>5. CASE Probe(r)
  <2>1. \/ rep' = Answer(r, None)
        \/ rep' = [rep EXCEPT ![r].at = "creating", ![r].page = 0, ![r].count = 0]
        \/ \E c : rep' = [rep EXCEPT ![r].page = rep[r].page + 1, ![r].count = c]
    BY <1>5 DEF Probe
  <2>2. comment' = comment /\ rep[r].at = "probing"
    BY <1>5 DEF Probe, tracker
  <2>3. CASE rep' = [rep EXCEPT ![r].at = "creating", ![r].page = 0, ![r].count = 0]
    <3>1. rep'[r].at = "creating" /\ rep'[r].action = None /\ rep'[r].undo = "no"
      BY <1>1, <2>3, Typed
    <3> QED BY <1>f, <1>1, <1>2, <2>2, <3>1 DEF OwnReport
  <2>4. ASSUME NEW c, rep' = [rep EXCEPT ![r].page = rep[r].page + 1, ![r].count = c]
        PROVE  OwnReport(r)'
    <3>1. rep'[r].at = "probing" /\ rep'[r].action = None /\ rep'[r].undo = "no"
      BY <1>1, <2>2, <2>4, Typed
    <3> QED BY <1>f, <1>1, <1>2, <2>2, <3>1 DEF OwnReport
  <2> QED BY <1>b, <2>1, <2>3, <2>4
<1>6. CASE Create(r)
  <2>1. CASE rep' = [rep EXCEPT ![r].at = "answered", ![r].action = "created", ![r].on = last + 1]
    <3>1. /\ rep'[r].at = "answered" /\ rep'[r].action = "created" /\ rep'[r].on = last + 1
          /\ rep'[r].undo = "no"
      BY <1>1, <2>1, Typed
    <3>2. last + 1 \in Filed' /\ last + 1 \in Numbers
      <4>1. last' = last + 1 /\ last < MaxIssues
        BY <1>6 DEF Create
      <4> QED BY <1>0, <4>1, Bounds DEF Filed, Numbers
    <3>3. issues'[last + 1].by = r
      BY <1>6, <3>2, Typed DEF Create
    <3> QED BY <1>2, <3>1, <3>2, <3>3 DEF OwnReport
  <2> QED BY <1>b, <1>6, <2>1 DEF Create
<1>7. CASE Comment(r)
  <2>1. rep[r].on \in Filed
    BY <1>0, <1>7 DEF Comment, OwnReport
  <2> QED BY <1>b, <1>c, <1>7, <2>1 DEF Comment, Answered
<1>8. CASE NoteReopen(r)
  <2>1. rep[r].on \in Filed
    BY <1>0, <1>8 DEF NoteReopen, OwnReport
  <2> QED BY <1>b, <1>c, <1>8, <2>1 DEF NoteReopen, Answered
<1>9. CASE Reopen(r)
  <2>1. rep[r].on \in Filed /\ comment' = comment
    BY <1>0, <1>9 DEF Reopen, OwnReport
  <2>2. CASE rep' = [rep EXCEPT ![r].at = "noting"]
    <3>1. /\ rep'[r].at = "noting" /\ rep'[r].action = None /\ rep'[r].undo = "no"
          /\ rep'[r].on = rep[r].on
      BY <1>1, <2>2, Typed
    <3> QED BY <1>f, <1>1, <1>2, <2>1, <3>1 DEF OwnReport
  <2> QED BY <1>b, <1>9, <2>2 DEF Reopen
<1>10. CASE CallRefused(r)
  BY <1>b, <1>10 DEF CallRefused
<1> QED BY <1>3, <1>4, <1>5, <1>6, <1>7, <1>8, <1>9, <1>10

\* The report being retracted.
LEMMA OwnRetract ==
    ASSUME TypeOK, Own, [Next]_vars, NEW r \in Reports,
           Retract(r) \/ RetractNote(r) \/ RetractClose(r) \/ RetractDelete(r) \/ RetractRefused(r)
    PROVE  OwnReport(r)'
<1>0. OwnReport(r) /\ Service(r) /\ last \in Nat /\ last' \in Nat /\ last <= last'
  BY Typed, PastStays, NextTypes, Bounds DEF Own, TypeOK, Service
<1>1. Filed \subseteq Filed' /\ \A n \in Filed : issues'[n].by = issues[n].by
  BY <1>0, PastStays DEF Filed
<1>2. rep[r].action # None /\ rep[r].at = "answered" /\ rep[r].on \in Filed
  BY <1>0 DEF OwnReport, Retract, RetractNote, RetractClose, RetractDelete, RetractRefused
<1>3. PICK u \in Undos : /\ rep' = [rep EXCEPT ![r].undo = u]
                         /\ u \in {"noting", "closing"} => rep[r].action = "created"
  <2>1. CASE Retract(r)
    BY <2>1, FieldValues DEF Retract, Granted
  <2>2. CASE RetractNote(r)
    BY <1>0, <2>2, FieldValues DEF RetractNote, OwnReport
  <2>3. CASE RetractClose(r) \/ RetractDelete(r) \/ RetractRefused(r)
    BY <2>3, FieldValues DEF RetractClose, RetractDelete, RetractRefused
  <2> QED BY <2>1, <2>2, <2>3
<1>4. /\ rep'[r].at = "answered" /\ rep'[r].action = rep[r].action /\ rep'[r].on = rep[r].on
      /\ rep'[r].undo = u /\ rep'[r].owner = rep[r].owner /\ rep'[r].bug = rep[r].bug
  BY <1>2, <1>3, Typed
<1> QED BY <1>0, <1>1, <1>2, <1>3, <1>4 DEF OwnReport

\* Every step keeps what reports and notices own.
LEMMA NextOwn ==
    ASSUME TypeOK, Own, [Next]_vars PROVE Own'
<1>0. \A r \in Reports : OwnReport(r)
  BY DEF Own
<1>a. \A s \in Sessions : OwnNotice(s)
  BY DEF Own
<1>1. ASSUME NEW r \in Reports, Service(r) PROVE Own'
  <2>1. ASSUME NEW q \in Reports, q # r PROVE OwnReport(q)'
    BY <1>1, <2>1, OthersStay, OwnFrame
  <2>2. OwnReport(r)'
    BY <1>1, OwnSubmit, OwnRetract DEF Service
  <2>3. ASSUME NEW s \in Sessions PROVE OwnNotice(s)'
    <3>1. tab' = tab
      BY <1>1, TabsStay
    <3>2. ASSUME tab[s].undoable # None PROVE rep'[tab[s].undoable].action # None
      <4>1. tab[s].undoable \in Reports /\ rep[tab[s].undoable].action # None
        BY <1>a, <3>2, Typed DEF OwnNotice, Tab
      <4>2. rep[tab[s].undoable].at = "answered"
        BY <1>0, <4>1 DEF OwnReport
      <4> QED BY <4>1, <4>2, PastStays
    <3> QED BY <3>1, <3>2 DEF OwnNotice
  <2> QED BY <2>1, <2>2, <2>3 DEF Own
<1>2. ASSUME NEW s \in Sessions, NEW r \in Reports, NEW b \in Bugs, Crash(s, r, b) PROVE Own'
  <2>1. comment' = comment /\ rep[r].at = "new" /\ last' = last
    BY <1>2 DEF Crash, tracker
  <2>2. ASSUME NEW q \in Reports, q # r PROVE OwnReport(q)'
    <3>1. rep'[q] = rep[q]
      BY <1>2, <2>2, Typed DEF Crash
    <3> QED BY <2>1, <3>1, OwnFrame
  <2>3. OwnReport(r)'
    <3>1. /\ rep'[r].at = "asked" /\ rep'[r].owner = s /\ rep'[r].bug = b
          /\ rep'[r].action = rep[r].action /\ rep'[r].undo = rep[r].undo
      BY <1>2, Typed DEF Crash
    <3>2. rep[r].action = None /\ comment[r] = 0 /\ rep[r].undo = "no" /\ None # "created"
      BY <1>0, <2>1 DEF OwnReport, None
    <3> QED BY <2>1, <3>1, <3>2 DEF OwnReport
  <2>4. ASSUME NEW q \in Sessions PROVE OwnNotice(q)'
    <3>1. CASE q = s
      <4>1. tab'[q].undoable = None
        BY <1>2, <3>1, Typed DEF Crash
      <4> QED BY <4>1 DEF OwnNotice
    <3>2. CASE q # s
      <4>1. tab'[q] = tab[q]
        BY <1>2, <3>2, Typed DEF Crash
      <4>2. \A p \in Reports : rep'[p].action = rep[p].action
        BY <1>2, Typed DEF Crash
      <4> QED BY <1>a, <4>1, <4>2, Typed DEF OwnNotice, Tab
    <3> QED BY <3>1, <3>2
  <2> QED BY <2>2, <2>3, <2>4 DEF Own
<1>3. ASSUME NEW s \in Sessions, Undo(s) PROVE Own'
  <2>1. comment' = comment /\ last' = last /\ issues' = issues
    BY <1>3 DEF Undo, tracker
  <2>2. PICK r \in Reports : r = tab[s].undoable /\ rep[r].action # None
    BY <1>3, <1>a, Typed DEF Undo, OwnNotice, Tab
  <2>3. rep' = [rep EXCEPT ![r].undo = "asked"]
    BY <1>3, <2>2 DEF Undo
  <2>4. ASSUME NEW q \in Reports, q # r PROVE OwnReport(q)'
    BY <2>1, <2>2, <2>3, <2>4, Typed, OwnFrame
  <2>5. OwnReport(r)'
    <3>1. /\ rep'[r].at = rep[r].at /\ rep'[r].owner = rep[r].owner /\ rep'[r].bug = rep[r].bug
          /\ rep'[r].action = rep[r].action /\ rep'[r].undo = "asked" /\ rep'[r].on = rep[r].on
      BY <2>2, <2>3, Typed
    <3> QED BY <1>0, <2>1, <2>2, <3>1 DEF OwnReport, Filed
  <2>6. ASSUME NEW q \in Sessions PROVE OwnNotice(q)'
    <3>1. tab'[q].undoable \in {None, tab[q].undoable}
      BY <1>3, Typed DEF Undo
    <3>2. \A p \in Reports : rep'[p].action = rep[p].action
      BY <2>2, <2>3, Typed
    <3> QED BY <1>a, <3>1, <3>2, Typed DEF OwnNotice, Tab
  <2> QED BY <2>4, <2>5, <2>6 DEF Own
<1>4. ASSUME rep' = rep, comment' = comment, \A s \in Sessions : tab'[s].undoable \in {None, tab[s].undoable}
      PROVE  Own'
  <2>1. \A q \in Reports : OwnReport(q)'
    BY <1>4, OwnFrame
  <2>2. \A q \in Sessions : OwnNotice(q)'
    BY <1>a, <1>4 DEF OwnNotice
  <2> QED BY <2>1, <2>2 DEF Own
<1>5. ASSUME NEW s \in Sessions, NEW r \in Reports, GiveUp(s, r) PROVE Own'
  <2>1. \A q \in Sessions : tab'[q].undoable \in {None, tab[q].undoable}
    BY <1>5, Typed DEF GiveUp
  <2> QED BY <1>4, <1>5, <2>1 DEF GiveUp, tracker
<1>6. ASSUME NEW r \in Reports, Hear(r) PROVE Own'
  <2>1. rep' = rep /\ comment' = comment
    BY <1>6 DEF Hear, tracker
  <2>2. ASSUME NEW q \in Sessions PROVE OwnNotice(q)'
    <3>1. CASE rep[r].action = None
      <4>1. tab'[q].undoable \in {None, tab[q].undoable}
        <5>1. tab' = [tab EXCEPT ![rep[r].owner].waiting = @ \ {r}, ![rep[r].owner].undoable = None]
          BY <1>6, <3>1 DEF Hear
        <5>2. CASE q = rep[r].owner
          BY <5>1, <5>2, Typed DEF Tab
        <5>3. CASE q # rep[r].owner
          BY <5>1, <5>3, Typed
        <5> QED BY <5>2, <5>3
      <4> QED BY <1>a, <2>1, <4>1 DEF OwnNotice
    <3>2. CASE rep[r].action # None
      <4>1. tab'[q].undoable \in {r, tab[q].undoable}
        <5>1. tab' = [tab EXCEPT ![rep[r].owner].waiting = @ \ {r}, ![rep[r].owner].undoable = r,
                         ![rep[r].owner].sent = @ \cup {rep[r].bug}]
          BY <1>6, <3>2 DEF Hear
        <5>2. CASE q = rep[r].owner
          BY <5>1, <5>2, Typed DEF Tab
        <5>3. CASE q # rep[r].owner
          BY <5>1, <5>3, Typed
        <5> QED BY <5>2, <5>3
      <4> QED BY <1>a, <2>1, <3>2, <4>1 DEF OwnNotice
    <3> QED BY <3>1, <3>2
  <2>3. \A q \in Reports : OwnReport(q)'
    BY <2>1, OwnFrame
  <2> QED BY <2>2, <2>3 DEF Own
<1>7. ASSUME NEW i \in Numbers, NEW l \in BOOLEAN, MaintainerCloses(i, l) PROVE Own'
  <2>1. rep' = rep /\ comment' = comment /\ tab' = tab
    BY <1>7 DEF MaintainerCloses
  <2> QED BY <1>4, <2>1
<1>8. CASE Tick \/ UNCHANGED vars
  <2>1. rep' = rep /\ comment' = comment /\ tab' = tab
    BY <1>8 DEF Tick, tracker, vars
  <2> QED BY <1>4, <2>1
<1> QED BY <1>1, <1>2, <1>3, <1>5, <1>6, <1>7, <1>8 DEF Next, Studio

-----------------------------------------------------------------------------
(* Where duplicates come from.                                             *)

\* Filing an issue answers the report.
LEMMA CreateFiles ==
    ASSUME TypeOK, NEW r \in Reports, Create(r)
    PROVE  /\ last' = last + 1
           /\ issues'[last + 1].by = r /\ issues'[last + 1].bug = rep[r].bug
           /\ rep'[r].at = "answered" /\ rep'[r].bug = rep[r].bug /\ seen' = seen
<1>1. last + 1 \in Numbers
  BY Typed, Bounds DEF Create, Numbers
<1>2. issues'[last + 1].by = r /\ issues'[last + 1].bug = rep[r].bug
  BY <1>1, Typed DEF Create
<1>3. rep'[r].at = "answered"
  <2>1. \/ rep' = Answer(r, None)
        \/ rep' = [rep EXCEPT ![r].at = "answered", ![r].action = "created", ![r].on = last + 1]
    BY DEF Create
  <2>2. CASE rep' = Answer(r, None)
    BY <2>2, Typed DEF Answer
  <2>3. CASE rep' = [rep EXCEPT ![r].at = "answered", ![r].action = "created", ![r].on = last + 1]
    BY <2>3, Typed
  <2> QED BY <2>1, <2>2, <2>3
<1>4. rep'[r].bug = rep[r].bug
  BY IdentityStays DEF Service
<1> QED BY <1>2, <1>3, <1>4 DEF Create

\* An issue that appears is that of a report which was about to file it.
LEMMA NewIssue ==
    ASSUME [Next]_vars
    PROVE  last' = last \/ \E r \in Reports : Create(r)
<1>1. ASSUME NEW r \in Reports, Service(r), ~Create(r) PROVE last' = last
  BY <1>1 DEF Service, LookupMisses, LookupFinds, LookupFails, Probe, ProbeFails,
     Comment, Reopen, NoteReopen, CallRefused, Retract, RetractNote, RetractClose,
     RetractDelete, RetractRefused, tracker
<1>2. ASSUME NEW s \in Sessions, Studio(s) PROVE last' = last
  BY <1>2 DEF Studio, Crash, GiveUp, Undo, tracker
<1>3. ASSUME NEW r \in Reports, Hear(r) PROVE last' = last
  BY <1>3 DEF Hear, tracker
<1>4. CASE Tick \/ UNCHANGED vars \/ \E i \in Numbers, l \in BOOLEAN : MaintainerCloses(i, l)
  BY <1>4 DEF Tick, vars, tracker, MaintainerCloses
<1> QED BY <1>1, <1>2, <1>3, <1>4 DEF Next

\* A report on its way to filing has just looked, or had looked before.
LEMMA StillLooked ==
    ASSUME TypeOK, Own, Looked, [Next]_vars, NEW r \in Reports,
           rep'[r].at \in {"probing", "creating"}
    PROVE  \/ LookupMisses(r) /\ rep'[r].bug = rep[r].bug
           \/ seen'[r].blind
           \/ /\ rep[r].at \in {"probing", "creating"} /\ rep'[r].bug = rep[r].bug
              /\ seen'[r].upTo = seen[r].upTo /\ seen'[r].blind = seen[r].blind
<1> DEFINE Conclusion ==
           \/ LookupMisses(r) /\ rep'[r].bug = rep[r].bug
           \/ seen'[r].blind
           \/ /\ rep[r].at \in {"probing", "creating"} /\ rep'[r].bug = rep[r].bug
              /\ seen'[r].upTo = seen[r].upTo /\ seen'[r].blind = seen[r].blind
<1>1. ASSUME rep'[r].at = rep[r].at, rep'[r].bug = rep[r].bug, seen'[r] = seen[r] PROVE Conclusion
  BY <1>1
<1>2. ASSUME NEW q \in Reports, Service(q) PROVE Conclusion
  <2>1. CASE q # r
    BY <1>1, <1>2, <2>1, OthersStay
  <2>2. CASE q = r
    <3>1. rep'[r].bug = rep[r].bug
      BY <1>2, <2>2, IdentityStays
    <3>2. CASE LookupMisses(r)
      BY <3>1, <3>2
    <3>3. CASE LookupFails(r)
      BY <3>3, Typed DEF LookupFails, Sight
    <3>4. CASE Probe(r)
      <4>1. rep[r].at = "probing" /\ (seen' = seen \/ seen' = [seen EXCEPT ![r].probed = TRUE])
        BY <3>4 DEF Probe
      <4>2. seen'[r].upTo = seen[r].upTo /\ seen'[r].blind = seen[r].blind
        BY <4>1, Typed DEF Sight
      <4> QED BY <3>1, <4>1, <4>2
    <3>5. CASE ProbeFails(r)
      BY <3>1, <3>5 DEF ProbeFails
    <3>6. CASE rep[r].at = "answered"
      BY <3>6, PastStays
    <3>7. CASE Create(r) \/ Comment(r) \/ Reopen(r) \/ NoteReopen(r) \/ CallRefused(r)
      <4>1. rep'[r].at \in {"noting", "answered"}
        <5>1. \A a \in Actions : Answer(r, a)[r].at = "answered"
          BY Typed DEF Answer
        <5>2. CASE Create(r)
          BY <5>2, CreateFiles
        <5>3. CASE Reopen(r)
          <6>1. rep' = [rep EXCEPT ![r].at = "noting"] \/ rep' = Answer(r, None)
            BY <5>3 DEF Reopen
          <6>2. CASE rep' = [rep EXCEPT ![r].at = "noting"]
            BY <6>2, Typed
          <6>3. CASE rep' = Answer(r, None)
            BY <5>1, <6>3, FieldValues
          <6> QED BY <6>1, <6>2, <6>3
        <5>4. CASE Comment(r)
          BY <5>1, <5>4, FieldValues DEF Comment, Answered
        <5>5. CASE NoteReopen(r)
          BY <5>1, <5>5, FieldValues DEF NoteReopen, Answered
        <5>6. CASE CallRefused(r)
          BY <5>1, <5>6, FieldValues DEF CallRefused
        <5> QED BY <3>7, <5>2, <5>3, <5>4, <5>5, <5>6
      <4> QED BY <4>1
    <3>8. ASSUME NEW i \in Numbers, LookupFinds(r, i) PROVE Conclusion
      <4>1. PICK at \in {"answered", "commenting", "reopening"}, a \in {None, "commented"} :
              rep' = [rep EXCEPT ![r].on = i, ![r].at = at, ![r].action = a]
        BY <3>8 DEF LookupFinds
      <4>2. rep'[r].at = at
        BY <4>1, Typed
      <4> QED BY <4>1, <4>2
    <3>9. CASE \/ Retract(r) \/ RetractNote(r) \/ RetractClose(r) \/ RetractDelete(r)
               \/ RetractRefused(r)
      <4>1. rep[r].at = "answered"
        BY <3>9 DEF Own, OwnReport, Retract, RetractNote, RetractClose, RetractDelete, RetractRefused
      <4> QED BY <3>6, <4>1
    <3> QED BY <1>2, <2>2, <3>2, <3>3, <3>4, <3>5, <3>7, <3>8, <3>9 DEF Service
  <2> QED BY <2>1, <2>2
<1>3. ASSUME NEW s \in Sessions, NEW q \in Reports, NEW b \in Bugs, Crash(s, q, b) PROVE Conclusion
  <2>1. rep'[q].at = "asked" /\ seen' = seen /\ \A p \in Reports : p # q => rep'[p] = rep[p]
    BY <1>3, Typed DEF Crash
  <2> QED BY <1>1, <2>1
<1>4. ASSUME NEW s \in Sessions, Undo(s) PROVE Conclusion
  <2>1. seen' = seen /\ rep'[r].at = rep[r].at /\ rep'[r].bug = rep[r].bug
    BY <1>4, Typed DEF Undo
  <2> QED BY <1>1, <2>1
<1>5. ASSUME NEW q \in Reports, Hear(q) PROVE Conclusion
  BY <1>1, <1>5 DEF Hear
<1>6. ASSUME NEW s \in Sessions, NEW q \in Reports, GiveUp(s, q) PROVE Conclusion
  BY <1>1, <1>6 DEF GiveUp
<1>7. ASSUME NEW i \in Numbers, NEW l \in BOOLEAN, MaintainerCloses(i, l) PROVE Conclusion
  BY <1>1, <1>7 DEF MaintainerCloses
<1>8. CASE Tick \/ UNCHANGED vars
  BY <1>1, <1>8 DEF Tick, vars
<1>9. Conclusion
  BY <1>2, <1>3, <1>4, <1>5, <1>6, <1>7, <1>8 DEF Next, Studio
<1> QED BY <1>9

\* What reports have looked at stays true of the tracker.
LEMMA NextLooked ==
    ASSUME TypeOK, Own, Looked, [Next]_vars PROVE Looked'
<1>0. /\ last \in Nat /\ last' \in Nat /\ last <= last'
      /\ seen \in [Reports -> Sight] /\ seen' \in [Reports -> Sight]
  BY Typed, NextTypes, PastStays, Bounds DEF TypeOK
<1>1. ASSUME NEW r \in Reports PROVE seen'[r].upTo <= last'
  <2>1. seen[r].upTo <= last /\ seen[r].upTo \in Nat
    BY <1>0 DEF Looked, Sight
  <2>2. seen'[r].upTo \in {seen[r].upTo, last}
    <3>1. ASSUME NEW q \in Reports, Service(q) PROVE seen'[r].upTo \in {seen[r].upTo, last}
      <4>1. CASE LookupMisses(q) \/ LookupFails(q)
        <5>1. CASE LookupMisses(q)
          BY <5>1, <1>0 DEF LookupMisses, Sight
        <5>2. CASE LookupFails(q)
          BY <5>2, <1>0 DEF LookupFails, Sight
        <5> QED BY <4>1, <5>1, <5>2
      <4>2. CASE Probe(q)
        <5>1. seen' = seen \/ seen' = [seen EXCEPT ![q].probed = TRUE]
          BY <4>2 DEF Probe
        <5> QED BY <1>0, <5>1 DEF Sight
      <4>3. ASSUME NEW i \in Numbers, LookupFinds(q, i) PROVE seen'[r].upTo = seen[r].upTo
        BY <4>3, <1>0 DEF LookupFinds, Sight
      <4>4. CASE ~(LookupMisses(q) \/ LookupFails(q) \/ Probe(q) \/ \E i \in Numbers : LookupFinds(q, i))
        <5>1. seen' = seen
          BY <3>1, <4>4 DEF Service, ProbeFails, Create, Comment, Reopen, NoteReopen, CallRefused,
             Retract, RetractNote, RetractClose, RetractDelete, RetractRefused
        <5> QED BY <5>1
      <4> QED BY <4>1, <4>2, <4>3, <4>4
    <3>2. ASSUME ~\E q \in Reports : Service(q) PROVE seen' = seen
      BY <3>2 DEF Next, Studio, Crash, GiveUp, Undo, Hear, MaintainerCloses, Tick, vars
    <3> QED BY <3>1, <3>2
  <2> QED BY <1>0, <2>1, <2>2
<1>2. ASSUME NEW r \in Reports, rep'[r].at \in {"probing", "creating"}, ~seen'[r].blind,
             NEW i \in 1 .. seen'[r].upTo
      PROVE  issues'[i].bug # rep'[r].bug
  <2>1. CASE LookupMisses(r) /\ rep'[r].bug = rep[r].bug
    <3>1. seen'[r].upTo = last /\ issues' = issues
      BY <1>0, <2>1 DEF LookupMisses, tracker, Sight
    <3>2. i \in Filed
      BY <3>1 DEF Filed
    <3>3. i \notin Matches(rep[r].bug)
      BY <2>1 DEF LookupMisses, Existing
    <3> QED BY <2>1, <3>1, <3>2, <3>3 DEF Matches
  <2>2. CASE /\ rep[r].at \in {"probing", "creating"} /\ rep'[r].bug = rep[r].bug
             /\ seen'[r].upTo = seen[r].upTo /\ seen'[r].blind = seen[r].blind
    <3>1. issues[i].bug # rep[r].bug /\ seen[r].upTo <= last
      BY <1>2, <2>2 DEF Looked
    <3>2. i \in Filed
      BY <1>0, <2>2, <3>1 DEF Filed, Sight
    <3> QED BY <2>2, <3>1, <3>2, PastStays
  <2> QED BY <1>2, <2>1, <2>2, StillLooked
<1>3. ASSUME NEW i \in Filed'
      PROVE  /\ issues'[i].by \in Reports
             /\ rep'[issues'[i].by].at = "answered"
             /\ rep'[issues'[i].by].bug = issues'[i].bug
  <2>1. CASE i \in Filed
    BY <2>1, PastStays DEF Looked
  <2>2. CASE i \notin Filed
    <3>1. last' # last
      BY <2>2 DEF Filed
    <3>2. PICK r \in Reports : Create(r)
      BY <3>1, NewIssue
    <3>3. i = last + 1
      BY <1>0, <2>2, <3>2, CreateFiles DEF Filed
    <3> QED BY <3>2, <3>3, CreateFiles
  <2> QED BY <2>1, <2>2
<1> QED BY <1>1, <1>2, <1>3 DEF Looked

\* A duplicate that appears is filed by a report that could not see the first.
LEMMA NextDuplicates ==
    ASSUME TypeOK, Own, Looked, DuplicatesOnlyFromRaces, [Next]_vars
    PROVE  DuplicatesOnlyFromRaces'
<1>0. last \in Nat /\ last' \in Nat /\ last <= last' /\ seen \in [Reports -> Sight]
  BY Typed, NextTypes, PastStays, Bounds DEF TypeOK
<1>1. SUFFICES ASSUME NEW i \in Filed', NEW j \in Filed', i < j, issues'[i].bug = issues'[j].bug
               PROVE  seen'[issues'[j].by].blind \/ i > seen'[issues'[j].by].upTo
  BY DEF DuplicatesOnlyFromRaces
<1>2. CASE j \in Filed
  <2>1. i \in Filed
    BY <1>0, <1>1, <1>2 DEF Filed
  <2>2. /\ issues'[j].by = issues[j].by /\ issues[i].bug = issues[j].bug
        /\ issues[j].by \in Reports /\ rep[issues[j].by].at = "answered"
    BY <1>1, <1>2, <2>1, PastStays DEF Looked
  <2>3. seen[issues[j].by].blind \/ i > seen[issues[j].by].upTo
    BY <1>1, <1>2, <2>1, <2>2 DEF DuplicatesOnlyFromRaces
  <2> QED BY <2>2, <2>3, PastStays
<1>3. CASE j \notin Filed
  <2>1. last' # last
    BY <1>3 DEF Filed
  <2>2. PICK r \in Reports : Create(r)
    BY <2>1, NewIssue
  <2>3. j = last + 1 /\ i \in Filed
    BY <1>0, <1>1, <1>3, <2>2, CreateFiles DEF Filed
  <2>4. /\ issues'[j].by = r /\ issues'[j].bug = rep[r].bug /\ seen' = seen
        /\ issues[i].bug = rep[r].bug /\ rep[r].at = "creating"
    <3>1. issues'[i].bug = issues[i].bug
      BY <2>3, PastStays
    <3>2. rep[r].at = "creating"
      BY <2>2 DEF Create
    <3>3. issues'[j].by = r /\ issues'[j].bug = rep[r].bug /\ seen' = seen
      BY <2>2, <2>3, CreateFiles
    <3> QED BY <1>1, <3>1, <3>2, <3>3
  <2>5. seen[r].blind \/ i \notin 1 .. seen[r].upTo
    BY <2>4 DEF Looked
  <2>6. seen[r].upTo \in Nat /\ i \in Nat \ {0}
    BY <1>0, <2>3 DEF Sight, Filed
  <2> QED BY <2>4, <2>5, <2>6
<1> QED BY <1>2, <1>3

-----------------------------------------------------------------------------
(* The theorems.                                                           *)

\* The invariant holds at first.
LEMMA InitInv == Init => Inv
<1> SUFFICES ASSUME Init PROVE Inv
  OBVIOUS
<1>1. Filed = {}
  BY DEF Init, Filed
<1>2. Own
  BY DEF Init, Own, OwnReport, OwnNotice, None
<1>3. Looked
  BY <1>1 DEF Init, Looked
<1>4. DuplicatesOnlyFromRaces
  BY <1>1 DEF DuplicatesOnlyFromRaces
<1> QED BY <1>2, <1>3, <1>4, InitTypes DEF Inv

\* The invariant is kept by every step.
LEMMA Inductive == Inv /\ [Next]_vars => Inv'
BY NextTypes, NextOwn, NextLooked, NextDuplicates DEF Inv

\* It therefore holds for ever.
LEMMA AlwaysInv == Spec => []Inv
BY InitInv, Inductive, PTL DEF Spec

\* Every reachable state is well typed.
THEOREM CrashTypeCorrect == Spec => []TypeOK
<1>1. Inv => TypeOK
  BY DEF Inv
<1> QED BY <1>1, AlwaysInv, PTL

\* Two issues of one bug only come from a report that was blind or raced.
THEOREM CrashDuplicates == Spec => []DuplicatesOnlyFromRaces
<1>1. Inv => DuplicatesOnlyFromRaces
  BY DEF Inv
<1> QED BY <1>1, AlwaysInv, PTL

\* A comment disappears only in the retraction of its own report.
LEMMA CommentIsOwn ==
    ASSUME Inv, [Next]_vars, NEW r \in Reports, comment[r] # 0, comment'[r] # comment[r]
    PROVE  comment'[r] = 0 /\ rep[r].undo # "no"
<1>1. /\ TypeOK /\ \A q \in Reports : comment[q] # 0 => rep[q].at = "answered"
  BY DEF Inv, Own, OwnReport
<1>2. PICK q \in Reports : Service(q)
  BY DEF Next, Studio, Crash, GiveUp, Undo, Hear, MaintainerCloses, Tick, tracker, vars
<1>3. q = r
  BY <1>1, <1>2, OthersStay
<1>4. rep[r].at = "answered"
  BY <1>1
<1>5. RetractDelete(r)
  BY <1>2, <1>3, <1>4 DEF Service, LookupMisses, LookupFinds, LookupFails, Probe, ProbeFails, Create,
     Comment, Reopen, NoteReopen, CallRefused, Retract, RetractNote, RetractClose, RetractRefused,
     tracker
<1> QED BY <1>1, <1>5, Typed DEF RetractDelete

\* An issue is closed by a maintainer or by the undo of the report that filed it.
LEMMA CloseIsOwn ==
    ASSUME Inv, [Next]_vars, NEW i \in Numbers, issues[i].state = "open", issues'[i].state = "closed"
    PROVE  \/ closes' = closes + 1
           \/ rep[issues[i].by].undo # "no" /\ rep[issues[i].by].on = i
<1>1. TypeOK /\ Own
  BY DEF Inv
<1>2. ASSUME NEW n \in Numbers, NEW l \in BOOLEAN, MaintainerCloses(n, l) PROVE closes' = closes + 1
  BY <1>2 DEF MaintainerCloses
<1>3. ASSUME NEW r \in Reports, Service(r), ~RetractClose(r) PROVE FALSE
  <2>2. \A n : Touched(n)[i].state = issues[i].state
    BY <1>1, Typed DEF Touched
  <2>1. issues'[i].state \in {issues[i].state, "open"}
    <3>1. CASE Create(r)
      BY <1>1, <3>1, Typed DEF Create
    <3>2. CASE Comment(r) \/ NoteReopen(r)
      <4>1. issues' = Touched(rep[r].on)
        BY <3>2 DEF Comment, NoteReopen
      <4> QED BY <2>2, <4>1
    <3>3. CASE Reopen(r)
      <4>1. PatchOpen(rep[r].on)
        BY <3>3 DEF Reopen
      <4> QED BY <1>1, <4>1, Typed DEF PatchOpen
    <3>4. CASE RetractNote(r)
      <4>1. issues' = [issues EXCEPT ![rep[r].on].notes = @ + 1, ![rep[r].on].updated = clock]
        BY <3>4 DEF RetractNote
      <4> QED BY <1>1, <4>1, Typed
    <3>5. CASE RetractDelete(r)
      <4>1. issues' = issues \/ issues' = Touched(rep[r].on)
        BY <3>5 DEF RetractDelete
      <4> QED BY <2>2, <4>1
    <3>6. CASE ~(Create(r) \/ Comment(r) \/ NoteReopen(r) \/ Reopen(r) \/ RetractNote(r)
                 \/ RetractDelete(r))
      <4>1. issues' = issues
        BY <1>3, <3>6 DEF Service, LookupMisses, LookupFinds, LookupFails, Probe, ProbeFails,
           CallRefused, Retract, RetractRefused, tracker
      <4> QED BY <4>1
    <3> QED BY <3>1, <3>2, <3>3, <3>4, <3>5, <3>6
  <2> QED BY <2>1
<1>4. ASSUME NEW r \in Reports, RetractClose(r)
      PROVE rep[issues[i].by].undo # "no" /\ rep[issues[i].by].on = i
  <2>1. i = rep[r].on
    BY <1>1, <1>4, Typed DEF RetractClose, Closed
  <2>2. issues[i].by = r /\ rep[r].undo = "closing"
    BY <1>1, <1>4, <2>1 DEF RetractClose, Own, OwnReport
  <2> QED BY <2>1, <2>2
<1>5. ASSUME issues' = issues PROVE FALSE
  BY <1>5
<1> QED BY <1>2, <1>3, <1>4, <1>5 DEF Next, Studio, Crash, GiveUp, Undo, Hear, Tick, tracker, vars

\* FR-075, FR-076: an undo touches the comment and the issue of its own report.
THEOREM CrashUndo == Spec => UndoIsOwn
<1>1. Inv /\ [Next]_vars =>
        [/\ \A r \in Reports : comment[r] # 0 /\ comment'[r] # comment[r] =>
                 comment'[r] = 0 /\ rep[r].undo # "no"
         /\ \A i \in Numbers : issues[i].state = "open" /\ issues'[i].state = "closed" =>
                 \/ closes' = closes + 1
                 \/ rep[issues[i].by].undo # "no" /\ rep[issues[i].by].on = i]_vars
  BY CommentIsOwn, CloseIsOwn
<1> QED BY <1>1, AlwaysInv, PTL DEF Spec, UndoIsOwn

-----------------------------------------------------------------------------
(* Room under the creation cap.                                            *)

\* The start of a report's window, and the issues filed in it when the report
\* began its probe.
Since(r) == rep[r].now - CreateWindow
InWindow(r) == {j \in 1 .. seen[r].upTo : issues[j].created >= Since(r)}

\* The listing the probe pages through, and an issue's place in it.
Listed(since) == {i \in Filed : issues[i].updated >= since}
Rank(since, i) == Cardinality({j \in Listed(since) : j >= i})

\* The issues of the window that stand among the first n of the listing.
Among(r, n) == {j \in InWindow(r) : Rank(Since(r), j) <= n}

\* Issues are numbered in the order they are filed, and the dates of an issue
\* are in order.
Dated ==
    /\ \A i \in Numbers : issues[i].created <= issues[i].updated /\ issues[i].updated <= clock
    /\ \A i, j \in Filed : i < j => issues[i].created <= issues[j].created

\* While a report probes, it has counted the issues of its window that are now
\* listed before the page it reads next; and it has counted the whole window,
\* unless every page so far was full of fresh issues.
Counting(r) ==
    rep[r].at = "probing" =>
        /\ rep[r].page >= 1
        /\ Cardinality(Among(r, (rep[r].page - 1) * PerPage)) <= rep[r].count
        /\ \/ Cardinality(InWindow(r)) <= rep[r].count
           \/ (rep[r].page - 1) * PerPage <= rep[r].count

\* A probe that let a report through found room in its window.
HadRoom(r) ==
    seen[r].probed =>
        /\ rep[r].at \notin {"new", "asked", "probing"}
        /\ Cardinality(InWindow(r)) < CreateCap

RoomInv == Dated /\ \A r \in Reports : Counting(r) /\ HadRoom(r)

\* An issue bears the regression label exactly while its last reopen stands, and
\* a reopen is one of its updates.
Marked ==
    \A i \in Numbers :
        /\ past[i].base <= past[i].reopens
        /\ issues[i].labelled <=> past[i].base < past[i].reopens
        /\ past[i].at <= issues[i].updated
        /\ IF i \in Filed THEN issues[i].state \in {"open", "closed"} ELSE ~issues[i].labelled

\* What a report saw of the issue it found still bears out what it is doing,
\* unless the issue was closed or reopened since.
Told(r) ==
    LET i == rep[r].on IN
    rep[r].at \in {"commenting", "reopening", "noting"} =>
        /\ seen[r].closes <= past[i].closes /\ seen[r].reopens <= past[i].reopens
        /\ rep[r].at # "reopening" /\ past[i].closes = seen[r].closes =>
               issues[i].state = "open"
        /\ rep[r].at = "reopening" /\ seen[r].again /\ seen[r].reopens = past[i].reopens =>
               rep[r].now - past[i].at >= ReopenCooldown

DueInv == Marked /\ \A r \in Reports : Told(r)

-----------------------------------------------------------------------------
(* Pages of the listing.                                                   *)

\* A set of natural numbers has a least element.
LEMMA LeastNumber ==
    ASSUME NEW T \in SUBSET Nat, T # {}
    PROVE  \E x \in T : \A y \in T : x <= y
<1> DEFINE R == {ss \in Nat \X Nat : ss[1] < ss[2]}
<1>1. IsWellFoundedOn(R, Nat)
  BY NatLessThanWellFounded DEF OpToRel
<1>2. PICK x \in T : \A y \in T : ~(<<y, x>> \in R)
  <2> HIDE DEF R
  <2> QED BY <1>1, WFMin
<1>3. ASSUME NEW y \in T PROVE x <= y
  <2>1. x \in Nat /\ y \in Nat /\ <<y, x>> \notin R
    BY <1>2
  <2>2. <<y, x>> \in Nat \X Nat => ~(<<y, x>>[1] < <<y, x>>[2])
    BY <2>1
  <2> QED BY <2>1, <2>2
<1> QED BY <1>3

\* A bounded set of natural numbers has a greatest element.
LEMMA GreatestNumber ==
    ASSUME NEW n \in Nat, NEW T \in SUBSET (0 .. n), T # {}
    PROVE  \E x \in T : \A y \in T : y <= x
<1> DEFINE U == {n - y : y \in T}
<1>1. U \in SUBSET Nat /\ U # {}
  <2>1. \A y \in T : y \in 0 .. n /\ n - y \in Nat
    OBVIOUS
  <2> QED BY <2>1
<1>2. PICK u \in U : \A v \in U : u <= v
  BY <1>1, LeastNumber
<1>3. PICK x \in T : u = n - x
  BY <1>2
<1>4. \A y \in T : n - x <= n - y
  BY <1>2, <1>3
<1>5. \A y \in T : y <= x
  BY <1>4
<1> QED BY <1>5

\* Sets of filed issues can be counted.
LEMMA FiledCounts ==
    ASSUME last \in 0 .. MaxIssues, NEW T, T \subseteq Filed
    PROVE  IsFiniteSet(T) /\ Cardinality(T) \in Nat
<1>1. IsFiniteSet(Filed)
  BY FS_Interval, Bounds DEF Filed
<1> QED BY <1>1, FS_Subset, FS_CardinalityType

\* A place in the listing is a natural number, and the first place is 1.
LEMMA RankCounts ==
    ASSUME last \in 0 .. MaxIssues, NEW since
    PROVE  /\ \A i : Rank(since, i) \in Nat
           /\ \A i \in Listed(since) : Rank(since, i) >= 1
<1>1. ASSUME NEW i PROVE Rank(since, i) \in Nat
  <2> {j \in Listed(since) : j >= i} \subseteq Filed
    BY DEF Listed
  <2> QED BY FiledCounts DEF Rank
<1>2. ASSUME NEW i \in Listed(since) PROVE Rank(since, i) >= 1
  <2> DEFINE above == {j \in Listed(since) : j >= i}
  <2>1. above \subseteq Filed /\ {i} \subseteq above
    BY Bounds DEF Listed, Filed
  <2>2. Cardinality({i}) = 1 /\ IsFiniteSet(above)
    BY <2>1, FiledCounts, FS_Singleton
  <2>3. Cardinality({i}) <= Cardinality(above) /\ Cardinality(above) \in Nat
    BY <2>1, <2>2, FiledCounts, FS_Subset
  <2> QED BY <2>2, <2>3 DEF Rank
<1> QED BY <1>1, <1>2

\* The n first issues of the listing are at most n.
LEMMA FirstOnes ==
    ASSUME last \in 0 .. MaxIssues, NEW since, NEW n \in Nat
    PROVE  Cardinality({i \in Listed(since) : Rank(since, i) <= n}) <= n
<1> DEFINE first == {i \in Listed(since) : Rank(since, i) <= n}
<1>0. first \subseteq Filed /\ last \in Nat
  BY Bounds DEF Listed
<1>1. CASE first = {}
  BY <1>1, FS_EmptySet
<1>2. CASE first # {}
  <2>1. first \in SUBSET Nat
    BY <1>0 DEF Filed
  <2>2. PICK x \in first : \A y \in first : x <= y
    BY <1>2, <2>1, LeastNumber
  <2> DEFINE above == {j \in Listed(since) : j >= x}
  <2>3. first \subseteq above /\ above \subseteq Filed
    BY <2>1, <2>2 DEF Listed
  <2>4. Cardinality(first) <= Cardinality(above)
    BY <2>3, FiledCounts, FS_Subset
  <2>5. Cardinality(above) <= n /\ Cardinality(above) \in Nat /\ Cardinality(first) \in Nat
    BY <1>0, <2>2, <2>3, FiledCounts DEF Rank
  <2> QED BY <2>4, <2>5
<1> QED BY <1>1, <1>2

\* And they are n when the listing goes on behind them.
LEMMA EnoughBefore ==
    ASSUME last \in 0 .. MaxIssues, NEW since, NEW n \in Nat,
           NEW i \in Listed(since), Rank(since, i) > n
    PROVE  n <= Cardinality({j \in Listed(since) : Rank(since, j) <= n})
<1> DEFINE first == {j \in Listed(since) : Rank(since, j) <= n}
           rest == {j \in Listed(since) : Rank(since, j) > n}
<1>0. /\ first \subseteq Filed /\ rest \subseteq Filed /\ last \in Nat /\ rest # {}
      /\ \A j \in Listed(since) : Rank(since, j) \in Nat /\ j \in Nat
  BY Bounds, RankCounts DEF Listed, Filed
<1>1. rest \in SUBSET (0 .. last)
  BY <1>0 DEF Filed
<1>2. PICK x \in rest : \A y \in rest : y <= x
  BY <1>0, <1>1, GreatestNumber
<1> DEFINE above == {j \in Listed(since) : j >= x}
<1>3. above \subseteq first \cup {x}
  <2>1. ASSUME NEW j \in above, j # x PROVE j \in first
    <3>1. j \in Listed(since) /\ j > x /\ j \notin rest
      BY <1>0, <1>2, <2>1
    <3> QED BY <1>0, <3>1
  <2> QED BY <2>1
<1>4. /\ IsFiniteSet(first \cup {x}) /\ Cardinality(first) \in Nat
      /\ Cardinality(first \cup {x}) \in Nat
      /\ Cardinality(first \cup {x}) <= Cardinality(first) + 1
  <2>1. IsFiniteSet(first) /\ Cardinality(first) \in Nat
    BY <1>0, FiledCounts
  <2> HIDE DEF first
  <2>2. IsFiniteSet(first \cup {x})
    BY <2>1, FS_AddElement
  <2>3. Cardinality(first \cup {x}) = IF x \in first THEN Cardinality(first) ELSE Cardinality(first) + 1
    BY <2>1, FS_AddElement
  <2> QED BY <2>1, <2>2, <2>3
<1>5. Cardinality(above) <= Cardinality(first \cup {x})
  BY <1>3, <1>4, FS_Subset
<1>6. Cardinality(above) > n /\ Cardinality(above) \in Nat
  BY <1>0, <1>2 DEF Rank
<1> QED BY <1>4, <1>5, <1>6

\* A page before the end of the listing is full.
LEMMA FullPage ==
    ASSUME last \in 0 .. MaxIssues, NEW since, NEW n \in Nat \ {0},
           NEW i \in Listed(since), Rank(since, i) > n * PerPage
    PROVE  PerPage <= Cardinality(Page(since, n))
<1> DEFINE low == (n - 1) * PerPage
           upto == {j \in Listed(since) : Rank(since, j) <= n * PerPage}
           before == {j \in Listed(since) : Rank(since, j) <= low}
<1>1. PerPage \in Nat \ {0} /\ low \in Nat /\ n * PerPage \in Nat /\ n * PerPage = low + PerPage
  BY LimitsArePositive
<1>2. \A j \in Listed(since) : Rank(since, j) \in Nat
  BY RankCounts
<1>3. Page(since, n) = upto \ before
  <2>1. Page(since, n) = {j \in Listed(since) : Rank(since, j) > low /\ Rank(since, j) <= n * PerPage}
    BY DEF Page, Listed, Rank
  <2> HIDE DEF low
  <2> QED BY <1>1, <1>2, <2>1
<1>4. upto \subseteq Filed /\ before \subseteq Filed /\ upto \cap before \subseteq before
  BY DEF Listed
<1>5. n * PerPage <= Cardinality(upto)
  BY <1>1, EnoughBefore
<1>6. Cardinality(before) <= low
  BY <1>1, FirstOnes
<1>7. Cardinality(upto \ before) = Cardinality(upto) - Cardinality(upto \cap before)
  BY <1>4, FiledCounts, FS_Difference
<1>8. Cardinality(upto \cap before) <= Cardinality(before) /\ Cardinality(before) \in Nat
      /\ Cardinality(upto) \in Nat /\ Cardinality(upto \cap before) \in Nat
  BY <1>4, FiledCounts, FS_Subset
<1> HIDE DEF low, upto, before
<1> QED BY <1>1, <1>3, <1>5, <1>6, <1>7, <1>8

-----------------------------------------------------------------------------
(* What a step does to one issue and to one report.                        *)

\* The dates, the state and the history of an issue that a step leaves alone,
\* touches, reopens or closes.
LeftAlone(n) == issues'[n] = issues[n] /\ past'[n] = past[n]

OnlyTouched(n) ==
    /\ issues'[n].created = issues[n].created /\ issues'[n].updated = clock
    /\ issues'[n].labelled = issues[n].labelled /\ past'[n] = past[n]
    /\ \/ issues'[n].state = issues[n].state
       \/ issues[n].state # "open" /\ issues'[n].state = "closed"

Reopened(n) ==
    /\ issues'[n].created = issues[n].created /\ issues'[n].updated = clock
    /\ issues'[n].labelled = TRUE /\ issues'[n].state = "open"
    /\ past'[n].reopens = past[n].reopens + 1 /\ past'[n].at = clock
    /\ past'[n].closes = past[n].closes /\ past'[n].base = past[n].base

ClosedNow(n) ==
    \E l \in BOOLEAN :
        /\ l => issues[n].labelled
        /\ issues'[n].created = issues[n].created /\ issues'[n].updated = clock
        /\ issues'[n].labelled = l /\ issues'[n].state = "closed"
        /\ past'[n].closes = past[n].closes + 1
        /\ past'[n].base = (IF issues[n].labelled /\ ~l THEN past[n].reopens ELSE past[n].base)
        /\ past'[n].reopens = past[n].reopens /\ past'[n].at = past[n].at

FiledNow(n) ==
    /\ n = last + 1 /\ last' = last + 1 /\ past'[n] = past[n]
    /\ issues'[n].created = clock /\ issues'[n].updated = clock
    /\ issues'[n].labelled = FALSE /\ issues'[n].state = "open"

IssueStep(n) ==
    \/ (last' = last \/ n # last + 1) /\ LeftAlone(n)
    \/ last' = last /\ n \in Filed /\ (OnlyTouched(n) \/ Reopened(n) \/ ClosedNow(n))
    \/ FiledNow(n)

\* Closing an issue.
LEMMA CloseSteps ==
    ASSUME TypeOK, NEW i \in Filed, NEW l \in BOOLEAN, Closed(i, l), last' = last,
           l => issues[i].labelled, issues[i].state = "open" \/ l = issues[i].labelled,
           NEW n \in Numbers
    PROVE  IssueStep(n)
<1>0. /\ i \in Numbers /\ issues[i] \in Issue /\ past[i] \in Past
      /\ issues \in [Numbers -> Issue] /\ past \in [Numbers -> Past]
  BY Typed
<1>1. issues' = [issues EXCEPT ![i].state = "closed", ![i].updated = clock, ![i].labelled = l]
  BY DEF Closed
<1>2. CASE n # i
  <2>1. past'[n] = past[n]
    BY <1>0, <1>2 DEF Closed
  <2> QED BY <1>0, <1>1, <1>2, <2>1 DEF IssueStep, LeftAlone
<1>3. CASE n = i
  <2>1. /\ issues'[n].created = issues[n].created /\ issues'[n].updated = clock
        /\ issues'[n].labelled = l /\ issues'[n].state = "closed"
    BY <1>0, <1>1, <1>3 DEF Issue
  <2>2. CASE issues[i].state = "open"
    <3> DEFINE b == IF issues[i].labelled /\ ~l THEN past[i].reopens ELSE past[i].base
    <3>1. past' = [past EXCEPT ![i].closes = @ + 1, ![i].base = b]
      BY <2>2 DEF Closed
    <3> HIDE DEF b
    <3>2. /\ past'[n].closes = past[n].closes + 1 /\ past'[n].base = b
          /\ past'[n].reopens = past[n].reopens /\ past'[n].at = past[n].at
      BY <1>0, <1>3, <3>1 DEF Past
    <3> QED BY <1>3, <2>1, <3>2 DEF IssueStep, ClosedNow, b
  <2>3. CASE issues[i].state # "open"
    <3>1. past' = past
      BY <2>3 DEF Closed
    <3> QED BY <1>3, <2>1, <2>3, <3>1 DEF IssueStep, OnlyTouched
  <2> QED BY <2>2, <2>3
<1> QED BY <1>2, <1>3

\* Every step does one of these to an issue.
LEMMA IssueSteps ==
    ASSUME TypeOK, Own, [Next]_vars, NEW n \in Numbers PROVE IssueStep(n)
<1>0. /\ issues[n] \in Issue /\ past[n] \in Past
      /\ issues \in [Numbers -> Issue] /\ past \in [Numbers -> Past] /\ last \in Nat
      /\ Filed \subseteq Numbers /\ last + 1 \notin Filed
  BY Typed, Bounds DEF Filed
<1>1. ASSUME issues' = issues, past' = past, last' = last PROVE IssueStep(n)
  BY <1>1 DEF IssueStep, LeftAlone
<1>2. ASSUME NEW i \in Filed, issues' = Touched(i), past' = past, last' = last PROVE IssueStep(n)
  <2>1. CASE n # i
    BY <1>0, <1>2, <2>1 DEF Touched, IssueStep, LeftAlone
  <2>2. CASE n = i
    BY <1>0, <1>2, <2>2 DEF Touched, IssueStep, OnlyTouched, Issue
  <2> QED BY <2>1, <2>2
<1>3. ASSUME NEW r \in Reports, Service(r) PROVE IssueStep(n)
  <2>1. rep[r].at \in {"commenting", "reopening", "noting"} \/ rep[r].undo # "no" => rep[r].on \in Filed
    BY DEF Own, OwnReport
  <2>2. CASE Comment(r) \/ NoteReopen(r)
    BY <1>2, <2>1, <2>2 DEF Comment, NoteReopen
  <2>3. CASE RetractDelete(r)
    BY <1>1, <1>2, <2>1, <2>3 DEF RetractDelete
  <2>4. CASE RetractNote(r)
    <3> DEFINE i == rep[r].on
    <3>1. i \in Filed /\ last' = last /\ past' = past
      BY <2>1, <2>4 DEF RetractNote
    <3>2. issues' = [issues EXCEPT ![i].notes = @ + 1, ![i].updated = clock]
      BY <2>4 DEF RetractNote
    <3> HIDE DEF i
    <3>3. CASE n # i
      BY <1>0, <3>1, <3>2, <3>3 DEF IssueStep, LeftAlone
    <3>4. CASE n = i
      <4>1. /\ issues'[n].created = issues[n].created /\ issues'[n].updated = clock
            /\ issues'[n].labelled = issues[n].labelled /\ issues'[n].state = issues[n].state
        BY <1>0, <3>1, <3>2, <3>4 DEF Issue
      <4> QED BY <3>1, <3>4, <4>1 DEF IssueStep, OnlyTouched
    <3> QED BY <3>3, <3>4
  <2>5. CASE RetractClose(r)
    <3>1. rep[r].on \in Filed /\ last' = last /\ Closed(rep[r].on, issues[rep[r].on].labelled)
      BY <2>1, <2>5 DEF RetractClose
    <3>2. issues[rep[r].on].labelled \in BOOLEAN
      BY <1>0, <3>1 DEF Issue
    <3> QED BY <3>1, <3>2, CloseSteps
  <2>6. CASE Reopen(r)
    <3> DEFINE i == rep[r].on
    <3>1. i \in Filed /\ last' = last
      BY <2>1, <2>6 DEF Reopen
    <3>2. /\ issues' = [issues EXCEPT ![i].state = "open", ![i].updated = clock, ![i].labelled = TRUE]
          /\ past' = [past EXCEPT ![i].reopens = @ + 1, ![i].at = clock]
      BY <2>6 DEF Reopen, PatchOpen
    <3> HIDE DEF i
    <3>3. CASE n # i
      BY <1>0, <3>1, <3>2, <3>3 DEF IssueStep, LeftAlone
    <3>4. CASE n = i
      <4>1. /\ issues'[n].created = issues[n].created /\ issues'[n].updated = clock
            /\ issues'[n].labelled = TRUE /\ issues'[n].state = "open"
        BY <1>0, <3>1, <3>2, <3>4 DEF Issue
      <4>2. /\ past'[n].reopens = past[n].reopens + 1 /\ past'[n].at = clock
            /\ past'[n].closes = past[n].closes /\ past'[n].base = past[n].base
        BY <1>0, <3>1, <3>2, <3>4 DEF Past
      <4> QED BY <3>1, <3>4, <4>1, <4>2 DEF IssueStep, Reopened
    <3> QED BY <3>3, <3>4
  <2>7. CASE Create(r)
    <3>1. /\ last' = last + 1 /\ past' = past
          /\ issues' = [issues EXCEPT ![last + 1] =
                [state |-> "open", bug |-> rep[r].bug, by |-> r, labelled |-> FALSE,
                 notes |-> 0, created |-> clock, updated |-> clock]]
      BY <2>7 DEF Create
    <3>2. CASE n # last + 1
      BY <1>0, <3>1, <3>2 DEF IssueStep, LeftAlone
    <3>3. CASE n = last + 1
      BY <1>0, <3>1, <3>3 DEF IssueStep, FiledNow
    <3> QED BY <3>2, <3>3
  <2>8. CASE \/ LookupMisses(r) \/ (\E i \in Numbers : LookupFinds(r, i)) \/ LookupFails(r)
             \/ Probe(r) \/ ProbeFails(r) \/ CallRefused(r) \/ Retract(r) \/ RetractRefused(r)
    BY <1>1, <2>8 DEF LookupMisses, LookupFinds, LookupFails, Probe, ProbeFails, CallRefused,
       Retract, RetractRefused, tracker
  <2> QED BY <1>3, <2>2, <2>3, <2>4, <2>5, <2>6, <2>7, <2>8 DEF Service
<1>4. ASSUME NEW i \in Numbers, NEW l \in BOOLEAN, MaintainerCloses(i, l) PROVE IssueStep(n)
  BY <1>4, CloseSteps DEF MaintainerCloses
<1>5. ASSUME NEW s \in Sessions, Studio(s) PROVE IssueStep(n)
  BY <1>1, <1>5 DEF Studio, Crash, GiveUp, Undo, tracker
<1>6. ASSUME NEW r \in Reports, Hear(r) PROVE IssueStep(n)
  BY <1>1, <1>6 DEF Hear, tracker
<1>7. CASE Tick \/ UNCHANGED vars
  BY <1>1, <1>7 DEF Tick, tracker, vars
<1> QED BY <1>3, <1>4, <1>5, <1>6, <1>7 DEF Next

\* A report that a step leaves where it is; one that crashes; one whose lookup
\* found nothing; and one that leaves its lookup or its probe behind, or its
\* write.
Stays(q) ==
    /\ rep'[q].at = rep[q].at /\ rep'[q].now = rep[q].now /\ rep'[q].on = rep[q].on
    /\ rep'[q].page = rep[q].page /\ rep'[q].count = rep[q].count
    /\ rep'[q].action = rep[q].action /\ seen'[q] = seen[q]

Crashes(q) == rep[q].at = "new" /\ rep'[q].at = "asked" /\ seen'[q] = seen[q]

Starts(q) ==
    /\ rep[q].at = "asked" /\ rep'[q].at = "probing"
    /\ rep'[q].page = 1 /\ rep'[q].count = 0 /\ rep'[q].now = rep[q].now
    /\ seen'[q].upTo = last /\ seen'[q].probed = seen[q].probed
    /\ last' = last /\ issues' = issues /\ clock' = clock

Leaves(q) ==
    /\ rep[q].at \notin {"new", "answered"}
    /\ rep'[q].at \notin {"new", "asked", "probing", rep[q].at} /\ rep'[q].now = rep[q].now
    /\ seen'[q].upTo = seen[q].upTo /\ seen'[q].probed = seen[q].probed
    /\ rep'[q].at \in {"commenting", "reopening"} => \E i \in Numbers : LookupFinds(q, i)
    /\ rep'[q].at = "noting" => Reopen(q)
    /\ rep'[q].at = "answered" /\ rep'[q].action \in {"commented", "reopened"} =>
           \/ \E i \in Numbers : LookupFinds(q, i)
           \/ Comment(q) \/ NoteReopen(q)

ReportStep(q) == Stays(q) \/ Crashes(q) \/ Starts(q) \/ Probe(q) \/ Leaves(q)

\* An answer ends a report.
LEMMA AnswerEnds ==
    ASSUME TypeOK, NEW r \in Reports, NEW a \in Actions, rep' = Answer(r, a)
    PROVE  rep'[r].at = "answered" /\ rep'[r].now = rep[r].now /\ rep'[r].action = a
BY Typed DEF Answer

\* Every step does one of these to a report.
LEMMA ReportSteps ==
    ASSUME TypeOK, Own, [Next]_vars, NEW q \in Reports PROVE ReportStep(q)
<1>0. /\ rep \in [Reports -> Report] /\ seen \in [Reports -> Sight] /\ rep[q] \in Report
      /\ seen[q] \in Sight
  BY Typed
<1>1. ASSUME rep' = rep, seen' = seen PROVE ReportStep(q)
  BY <1>1 DEF ReportStep, Stays
<1>2. ASSUME NEW r \in Reports, NEW u \in Undos, rep' = [rep EXCEPT ![r].undo = u], seen' = seen
      PROVE  ReportStep(q)
  BY <1>0, <1>2 DEF ReportStep, Stays
<1>3. ASSUME Service(q) PROVE ReportStep(q)
  <2>1. CASE \/ Retract(q) \/ RetractNote(q) \/ RetractClose(q) \/ RetractDelete(q)
             \/ RetractRefused(q)
    <3>1. PICK u \in Undos : rep' = [rep EXCEPT ![q].undo = u]
      BY <2>1, FieldValues DEF Retract, Granted, RetractNote, RetractClose, RetractDelete, RetractRefused
    <3>2. seen' = seen
      BY <2>1 DEF Retract, RetractNote, RetractClose, RetractDelete, RetractRefused
    <3> QED BY <1>2, <3>1, <3>2
  <2>2. CASE Probe(q)
    BY <2>2 DEF ReportStep
  <2>3. CASE LookupMisses(q) \/ LookupFails(q)
    <3>1. /\ rep[q].at = "asked" /\ last' = last /\ issues' = issues /\ clock' = clock
          /\ rep' = [rep EXCEPT ![q].at = "probing", ![q].page = 1, ![q].count = 0]
      BY <2>3 DEF LookupMisses, LookupFails, tracker
    <3>2. /\ rep'[q].at = "probing" /\ rep'[q].page = 1 /\ rep'[q].count = 0
          /\ rep'[q].now = rep[q].now
      BY <1>0, <3>1
    <3>3. seen'[q].upTo = last /\ seen'[q].probed = seen[q].probed
      <4>1. CASE LookupMisses(q)
        BY <1>0, <4>1 DEF LookupMisses, Sight
      <4>2. CASE LookupFails(q)
        BY <1>0, <4>2 DEF LookupFails, Sight
      <4> QED BY <2>3, <4>1, <4>2
    <3> QED BY <3>1, <3>2, <3>3 DEF ReportStep, Starts
  <2>4. ASSUME NEW i \in Numbers, LookupFinds(q, i) PROVE ReportStep(q)
    <3>1. PICK at \in {"answered", "commenting", "reopening"}, a \in Actions :
              rep' = [rep EXCEPT ![q].on = i, ![q].at = at, ![q].action = a]
      BY <2>4, FieldValues DEF LookupFinds
    <3>2. rep'[q].at = at /\ rep'[q].now = rep[q].now
      BY <1>0, <3>1
    <3> DEFINE again == past[i].reopens > past[i].base
    <3>3. seen' = [seen EXCEPT ![q].closes = past[i].closes, ![q].reopens = past[i].reopens,
                      ![q].again = again]
      BY <2>4, Zenon DEF LookupFinds
    <3> HIDE DEF again
    <3>4. seen'[q].upTo = seen[q].upTo /\ seen'[q].probed = seen[q].probed
      BY <1>0, <3>3 DEF Sight
    <3>5. rep[q].at = "asked"
      BY <2>4 DEF LookupFinds
    <3>6. \E j \in Numbers : LookupFinds(q, j)
      BY <2>4
    <3>7. rep'[q].at \in {"answered", "commenting", "reopening"}
      BY <3>2
    <3> QED BY <3>2, <3>4, <3>5, <3>6, <3>7 DEF ReportStep, Leaves
  <2>5. CASE ProbeFails(q)
    <3>1. /\ rep[q].at = "probing" /\ seen' = seen
          /\ rep' = [rep EXCEPT ![q].at = "creating", ![q].page = 0, ![q].count = 0]
      BY <2>5 DEF ProbeFails
    <3>2. rep'[q].at = "creating" /\ rep'[q].now = rep[q].now
      BY <1>0, <3>1
    <3> QED BY <3>1, <3>2 DEF ReportStep, Leaves
  <2>6. CASE Create(q)
    <3>1. rep[q].at = "creating" /\ seen' = seen
      BY <2>6 DEF Create
    <3>2. \/ rep' = Answer(q, None)
          \/ rep' = [rep EXCEPT ![q].at = "answered", ![q].action = "created", ![q].on = last + 1]
      BY <2>6 DEF Create
    <3>3. rep'[q].at = "answered" /\ rep'[q].now = rep[q].now /\ rep'[q].action \in {None, "created"}
      <4>1. CASE rep' = Answer(q, None)
        BY <4>1, AnswerEnds, FieldValues
      <4>2. CASE rep' = [rep EXCEPT ![q].at = "answered", ![q].action = "created", ![q].on = last + 1]
        BY <1>0, <4>2
      <4> QED BY <3>2, <4>1, <4>2
    <3> QED BY <3>1, <3>3 DEF ReportStep, Leaves, None
  <2>7. CASE Comment(q) \/ NoteReopen(q)
    <3>1. rep[q].at \in {"commenting", "noting"} /\ seen' = seen
      BY <2>7 DEF Comment, NoteReopen
    <3>2. PICK a \in Actions : rep' = Answer(q, a)
      BY <2>7, FieldValues DEF Comment, NoteReopen, Answered
    <3>3. rep'[q].at = "answered" /\ rep'[q].now = rep[q].now
      BY <3>2, AnswerEnds
    <3> QED BY <2>7, <3>1, <3>3 DEF ReportStep, Leaves
  <2>8. CASE Reopen(q)
    <3>1. rep[q].at = "reopening" /\ seen' = seen
      BY <2>8 DEF Reopen
    <3>2. rep' = [rep EXCEPT ![q].at = "noting"] \/ rep' = Answer(q, None)
      BY <2>8 DEF Reopen
    <3>3. CASE rep' = [rep EXCEPT ![q].at = "noting"]
      <4>1. rep'[q].at = "noting" /\ rep'[q].now = rep[q].now
        BY <1>0, <3>3
      <4> QED BY <2>8, <3>1, <4>1 DEF ReportStep, Leaves
    <3>4. CASE rep' = Answer(q, None)
      <4>1. rep'[q].at = "answered" /\ rep'[q].now = rep[q].now /\ rep'[q].action = None
        BY <3>4, AnswerEnds, FieldValues
      <4> QED BY <3>1, <4>1 DEF ReportStep, Leaves, None
    <3> QED BY <3>2, <3>3, <3>4
  <2>9. CASE CallRefused(q)
    <3>1. /\ rep[q].at \in {"asked", "creating", "commenting", "reopening", "noting"}
          /\ seen' = seen /\ rep' = Answer(q, None)
      BY <2>9 DEF CallRefused
    <3>2. rep'[q].at = "answered" /\ rep'[q].now = rep[q].now /\ rep'[q].action = None
      BY <3>1, AnswerEnds, FieldValues
    <3> QED BY <3>1, <3>2 DEF ReportStep, Leaves, None
  <2> QED BY <1>3, <2>1, <2>2, <2>3, <2>4, <2>5, <2>6, <2>7, <2>8, <2>9 DEF Service
<1>4. ASSUME NEW r \in Reports, Service(r) PROVE ReportStep(q)
  <2>1. CASE r = q
    BY <1>3, <1>4, <2>1
  <2>2. CASE r # q
    BY <1>4, <2>2, OthersStay DEF ReportStep, Stays
  <2> QED BY <2>1, <2>2
<1>5. ASSUME NEW s \in Sessions, NEW r \in Reports, NEW b \in Bugs, Crash(s, r, b)
      PROVE  ReportStep(q)
  <2>1. /\ rep[r].at = "new" /\ seen' = seen
        /\ rep' = [rep EXCEPT ![r].at = "asked", ![r].owner = s, ![r].bug = b, ![r].now = clock]
    BY <1>5 DEF Crash
  <2>2. CASE r = q
    BY <1>0, <2>1, <2>2 DEF ReportStep, Crashes
  <2>3. CASE r # q
    BY <1>0, <2>1, <2>3 DEF ReportStep, Stays
  <2> QED BY <2>2, <2>3
<1>6. ASSUME NEW s \in Sessions, Undo(s) PROVE ReportStep(q)
  <2>1. tab[s].undoable \in Reports
    BY <1>6, Typed DEF Undo, Tab
  <2> QED BY <1>2, <1>6, <2>1, FieldValues DEF Undo
<1>7. ASSUME NEW s \in Sessions, NEW r \in Reports, GiveUp(s, r) PROVE ReportStep(q)
  BY <1>1, <1>7 DEF GiveUp
<1>8. ASSUME NEW r \in Reports, Hear(r) PROVE ReportStep(q)
  BY <1>1, <1>8 DEF Hear
<1>9. ASSUME NEW i \in Numbers, NEW l \in BOOLEAN, MaintainerCloses(i, l) PROVE ReportStep(q)
  BY <1>1, <1>9 DEF MaintainerCloses
<1>10. CASE Tick \/ UNCHANGED vars
  BY <1>1, <1>10 DEF Tick, vars
<1> QED BY <1>4, <1>5, <1>6, <1>7, <1>8, <1>9, <1>10 DEF Next, Studio

-----------------------------------------------------------------------------
(* The creation cap.                                                       *)

\* Issues stay filed in the order of their dates.
LEMMA NextDated ==
    ASSUME TypeOK, Own, Dated, [Next]_vars PROVE Dated'
<1>0. /\ clock \in Nat /\ clock' \in Nat /\ clock <= clock' /\ last \in Nat
      /\ \A n \in Numbers : issues[n].created \in Nat /\ issues[n].updated \in Nat
  <2>1. clock \in Nat /\ last \in Nat /\ issues \in [Numbers -> Issue]
    BY Typed, Bounds
  <2>2. clock' = clock \/ clock' = clock + 1
    BY TabsStay DEF Next, Studio, Crash, GiveUp, Undo, Hear, MaintainerCloses, Tick, vars
  <2> QED BY <2>1, <2>2 DEF Issue
<1>1. ASSUME NEW n \in Numbers
      PROVE  /\ issues'[n].created <= issues'[n].updated /\ issues'[n].updated <= clock'
             /\ n # last' \/ last' = last =>
                  issues'[n].created = issues[n].created \/ n \notin Filed'
             /\ last' = last + 1 /\ n = last' => issues'[n].created = clock
             /\ issues'[n].created = issues[n].created \/ n = last + 1
  <2>1. issues[n].created <= issues[n].updated /\ issues[n].updated <= clock
    BY DEF Dated
  <2>2. IssueStep(n)
    BY IssueSteps
  <2>3. CASE (last' = last \/ n # last + 1) /\ LeftAlone(n)
    BY <1>0, <2>1, <2>3 DEF LeftAlone
  <2>4. CASE last' = last /\ n \in Filed /\ (OnlyTouched(n) \/ Reopened(n) \/ ClosedNow(n))
    BY <1>0, <2>1, <2>4 DEF OnlyTouched, Reopened, ClosedNow, Filed
  <2>5. CASE FiledNow(n)
    BY <1>0, <2>1, <2>5 DEF FiledNow
  <2> QED BY <2>2, <2>3, <2>4, <2>5 DEF IssueStep
<1>2. last' = last \/ last' = last + 1
  BY NewIssue, CreateFiles
<1>3. ASSUME NEW i \in Filed', NEW j \in Filed', i < j
      PROVE  issues'[i].created <= issues'[j].created
  <2>0. i \in Numbers /\ j \in Numbers
    BY <1>0, <1>2, NextTypes, Bounds DEF Filed, TypeOK, Numbers
  <2>1. i \in Filed /\ issues'[i].created = issues[i].created
    BY <1>0, <1>1, <1>2, <1>3, <2>0 DEF Filed
  <2>2. CASE j \in Filed
    BY <1>0, <1>1, <1>2, <1>3, <2>0, <2>1, <2>2 DEF Dated, Filed
  <2>3. CASE j \notin Filed
    <3>1. issues'[j].created = clock
      BY <1>0, <1>1, <1>2, <2>0, <2>3 DEF Filed
    <3>2. issues[i].created <= clock
      BY <1>0, <2>0 DEF Dated
    <3> QED BY <2>1, <3>1, <3>2
  <2> QED BY <2>2, <2>3
<1> QED BY <1>1, <1>3 DEF Dated

\* What is in a report's window stays in it, and moves back in the listing.
LEMMA WindowStays ==
    ASSUME TypeOK, Own, Looked, Dated, [Next]_vars, NEW r \in Reports,
           rep'[r].now = rep[r].now, seen'[r].upTo = seen[r].upTo
    PROVE  /\ InWindow(r)' = InWindow(r)
           /\ \A n \in Nat : Among(r, n)' \subseteq Among(r, n)
           /\ InWindow(r) \subseteq Filed /\ InWindow(r) \subseteq Listed(Since(r))
<1>0. /\ last \in Nat /\ last' \in Nat /\ last <= last' /\ seen[r].upTo \in Nat /\ seen[r].upTo <= last
      /\ clock \in Nat /\ \A n \in Numbers : issues[n].created \in Nat /\ issues[n].updated \in Nat
      /\ Since(r) \in Int /\ last' \in 0 .. MaxIssues /\ last \in 0 .. MaxIssues
  BY Typed, NextTypes, PastStays, Bounds, LimitsArePositive DEF TypeOK, Looked, Sight, Issue, Since, Report
<1>a. IsFiniteSet(Filed')
  <2>1. Filed' = 1 .. last' /\ 1 \in Int /\ last' \in Int
    BY <1>0 DEF Filed
  <2> QED BY <2>1, FS_Interval
<1>1. ASSUME NEW n \in Filed
      PROVE  /\ n \in Filed' /\ issues'[n].created = issues[n].created
             /\ issues[n].updated <= issues'[n].updated /\ issues'[n].updated \in Nat
             /\ issues[n].created <= issues[n].updated
  <2>0. n \in Numbers /\ n # last + 1 /\ n \in Filed'
    BY <1>0, Typed DEF Filed
  <2>1. issues[n].created <= issues[n].updated /\ issues[n].updated <= clock
    BY <2>0 DEF Dated
  <2>2. IssueStep(n)
    BY <2>0, IssueSteps
  <2>3. CASE (last' = last \/ n # last + 1) /\ LeftAlone(n)
    BY <1>0, <2>0, <2>1, <2>3 DEF LeftAlone
  <2>4. CASE last' = last /\ n \in Filed /\ (OnlyTouched(n) \/ Reopened(n) \/ ClosedNow(n))
    BY <1>0, <2>0, <2>1, <2>4 DEF OnlyTouched, Reopened, ClosedNow
  <2>5. CASE FiledNow(n)
    BY <2>0, <2>5 DEF FiledNow
  <2> QED BY <2>2, <2>3, <2>4, <2>5 DEF IssueStep
<1>2. Since(r)' = Since(r)
  BY DEF Since
<1>3. 1 .. seen[r].upTo \subseteq Filed
  BY <1>0 DEF Filed
<1>4. InWindow(r)' = InWindow(r) /\ InWindow(r) \subseteq Filed
  BY <1>1, <1>2, <1>3 DEF InWindow
<1>5. InWindow(r) \subseteq Listed(Since(r))
  <2>1. ASSUME NEW j \in InWindow(r) PROVE issues[j].updated >= Since(r)
    <3>1. j \in Filed /\ issues[j].created >= Since(r) /\ j \in Numbers
      BY <1>4, Typed DEF InWindow
    <3> QED BY <1>0, <1>1, <3>1
  <2> QED BY <1>4, <2>1 DEF Listed
<1>6. ASSUME NEW i \in Filed PROVE Rank(Since(r), i) <= Rank(Since(r), i)'
  <2> DEFINE before == {j \in Listed(Since(r)) : j >= i}
             after == {j \in Listed(Since(r))' : j >= i}
  <2>1. ASSUME NEW j \in Listed(Since(r)) PROVE j \in Listed(Since(r))'
    <3>1. j \in Filed /\ issues[j].updated >= Since(r) /\ j \in Numbers
      BY Typed DEF Listed
    <3>2. issues'[j].updated >= Since(r)
      BY <1>0, <1>1, <3>1
    <3> QED BY <1>1, <1>2, <3>1, <3>2 DEF Listed
  <2>2. before \subseteq after
    BY <2>1
  <2>3. before \subseteq Filed /\ after \subseteq Filed'
    BY DEF Listed
  <2>4. IsFiniteSet(after) /\ Cardinality(after) \in Nat
    BY <1>a, <2>3, FS_Subset, FS_CardinalityType
  <2>5. Cardinality(before) <= Cardinality(after)
    BY <2>2, <2>4, FS_Subset
  <2> QED BY <2>5, <1>2 DEF Rank
<1>7. ASSUME NEW n \in Nat PROVE Among(r, n)' \subseteq Among(r, n)
  <2>1. ASSUME NEW j \in Among(r, n)' PROVE j \in Among(r, n)
    <3>1. j \in InWindow(r) /\ Rank(Since(r), j)' <= n /\ j \in Filed
      BY <1>4, <2>1 DEF Among
    <3>2. Rank(Since(r), j) <= Rank(Since(r), j)'
      BY <1>6, <3>1
    <3>3. Rank(Since(r), j) \in Nat /\ Rank(Since(r), j)' \in Nat
      <4>1. Rank(Since(r), j) \in Nat
        BY <1>0, RankCounts
      <4>2. Rank(Since(r), j)' \in Nat
        <5>1. {k \in Listed(Since(r))' : k >= j} \subseteq Filed'
          BY DEF Listed
        <5>3. Rank(Since(r), j)' = Cardinality({k \in Listed(Since(r))' : k >= j})
          BY DEF Rank
        <5>4. IsFiniteSet({k \in Listed(Since(r))' : k >= j})
          BY <1>a, <5>1, FS_Subset
        <5> QED BY <5>3, <5>4, FS_CardinalityType
      <4> QED BY <4>1, <4>2
    <3> QED BY <3>1, <3>2, <3>3 DEF Among
  <2> QED BY <2>1
<1> QED BY <1>4, <1>5, <1>7

\* The fresh issues of the page a report reads, and its count with them.
Fresh(r) == {i \in Page(Since(r), rep[r].page) : issues[i].created >= Since(r)}
Count(r) == rep[r].count + Cardinality(Fresh(r))

\* The probe's arithmetic: a page read with the count so far.
LEMMA ProbeCounts ==
    ASSUME TypeOK, Looked, Dated, NEW r \in Reports, rep[r].at = "probing", Counting(r)
    PROVE  /\ Count(r) \in Nat
           /\ Cardinality(Among(r, rep[r].page * PerPage)) <= Count(r)
           /\ \/ Cardinality(InWindow(r)) <= Count(r)
              \/ /\ rep[r].page * PerPage <= Count(r)
                 /\ Cardinality(Page(Since(r), rep[r].page)) >= PerPage
                 /\ Cardinality(Fresh(r)) # 0
<1> DEFINE since == Since(r)
           p == rep[r].page
           page == Page(since, p)
           fresh == Fresh(r)
           count == Count(r)
           low == (p - 1) * PerPage
           all == Among(r, p * PerPage)
           old == Among(r, low)
<1>0. /\ last \in 0 .. MaxIssues /\ p \in Nat /\ p >= 1 /\ rep[r].count \in Nat
      /\ seen[r].upTo \in Nat /\ seen[r].upTo <= last /\ since \in Int
      /\ \A n \in Numbers : issues[n].created \in Nat /\ issues[n].updated \in Nat
  BY Typed, LimitsArePositive DEF Counting, Looked, Sight, Issue, Since, Report
<1>1. PerPage \in Nat \ {0} /\ low \in Nat /\ p * PerPage \in Nat /\ p * PerPage = low + PerPage
  BY <1>0, LimitsArePositive
<1>2. Cardinality(old) <= rep[r].count /\ (Cardinality(InWindow(r)) <= rep[r].count \/ low <= rep[r].count)
  BY DEF Counting
<1>3. page \subseteq Filed /\ Filed \subseteq Numbers /\ last \in Nat
  BY <1>0, Bounds, Typed DEF Page
<1>4. InWindow(r) \subseteq Filed /\ InWindow(r) \subseteq Listed(since)
  <2>1. InWindow(r) \subseteq Filed
    BY <1>0, <1>3 DEF InWindow, Filed
  <2>2. ASSUME NEW j \in InWindow(r) PROVE issues[j].updated >= since
    <3>1. issues[j].created >= since /\ j \in Numbers
      BY <1>3, <2>1 DEF InWindow
    <3>2. issues[j].created <= issues[j].updated
      BY <3>1 DEF Dated
    <3> QED BY <1>0, <3>1, <3>2
  <2> QED BY <2>1, <2>2 DEF Listed
<1>5. \A i : Rank(since, i) \in Nat
  BY <1>0, RankCounts
<1>d. fresh = {i \in page : issues[i].created >= since}
  BY DEF Fresh
<1>6. page = {i \in Listed(since) : Rank(since, i) > low /\ Rank(since, i) <= p * PerPage}
  BY DEF Page, Listed, Rank
<1>7. /\ IsFiniteSet(old) /\ IsFiniteSet(fresh) /\ IsFiniteSet(all) /\ IsFiniteSet(InWindow(r))
      /\ IsFiniteSet(page)
      /\ Cardinality(old) \in Nat /\ Cardinality(fresh) \in Nat /\ Cardinality(all) \in Nat
      /\ Cardinality(InWindow(r)) \in Nat /\ Cardinality(page) \in Nat
  <2>1. old \subseteq Filed /\ fresh \subseteq Filed /\ all \subseteq Filed
    BY <1>3, <1>4, <1>d DEF Among
  <2> HIDE DEF old, fresh, all, page
  <2> QED BY <1>0, <1>3, <1>4, <2>1, FiledCounts
<1>c. count = rep[r].count + Cardinality(fresh)
  BY DEF Count
<1>8. count \in Nat
  BY <1>0, <1>7, <1>c
<1>9. Cardinality(all) <= count
  <2>1. ASSUME NEW j \in all PROVE j \in old \cup fresh
    <3>1. /\ j \in InWindow(r) /\ j \in Listed(since) /\ Rank(since, j) <= p * PerPage
          /\ issues[j].created >= since
      BY <1>4 DEF Among, InWindow
    <3>2. CASE Rank(since, j) <= low
      BY <3>1, <3>2 DEF Among
    <3>3. CASE ~(Rank(since, j) <= low)
      <4>1. Rank(since, j) > low
        BY <1>1, <1>5, <3>3
      <4> QED BY <1>6, <1>d, <3>1, <4>1
    <3> QED BY <3>2, <3>3
  <2> HIDE DEF old, fresh, all
  <2>2. all \subseteq old \cup fresh
    BY <2>1
  <2>3. /\ IsFiniteSet(old \cup fresh)
        /\ Cardinality(old \cup fresh) = Cardinality(old) + Cardinality(fresh) - Cardinality(old \cap fresh)
    BY <1>7, FS_Union
  <2>4. Cardinality(old \cap fresh) \in Nat
    BY <1>7, FS_Subset, FS_CardinalityType
  <2>5. Cardinality(all) <= Cardinality(old \cup fresh)
    BY <2>2, <2>3, FS_Subset
  <2>6. Cardinality(old) <= rep[r].count
    BY <1>2
  <2>7. /\ rep[r].count \in Nat /\ Cardinality(old) \in Nat /\ Cardinality(fresh) \in Nat
        /\ Cardinality(all) \in Nat
    BY <1>0, <1>7
  <2> HIDE DEF since, p, page, low
  <2>8. count = rep[r].count + Cardinality(fresh)
    BY <1>c
  <2>9. Cardinality(old \cup fresh) <= count
    BY <2>3, <2>4, <2>6, <2>7, <2>8
  <2> QED BY <1>8, <2>3, <2>4, <2>5, <2>7, <2>9
<1>10. CASE Cardinality(InWindow(r)) <= rep[r].count
  <2>1. Cardinality(InWindow(r)) \in Nat /\ rep[r].count \in Nat /\ Cardinality(fresh) \in Nat
    BY <1>0, <1>7
  <2> HIDE DEF fresh, count
  <2>2. Cardinality(InWindow(r)) <= count
    BY <1>10, <1>c, <2>1
  <2> QED BY <1>8, <1>9, <2>2 DEF count
<1>11. CASE InWindow(r) \subseteq all
  <2> HIDE DEF all
  <2>1. Cardinality(InWindow(r)) <= Cardinality(all)
    BY <1>7, <1>11, FS_Subset
  <2>2. all = Among(r, p * PerPage)
    BY DEF all
  <2> QED BY <1>7, <1>8, <1>9, <2>1, <2>2
<1>12. CASE low <= rep[r].count /\ ~(InWindow(r) \subseteq all)
  <2>1. PICK j \in InWindow(r) : j \notin all
    BY <1>12
  <2>2. j \in Listed(since) /\ Rank(since, j) > p * PerPage /\ j \in Filed
    <3>1. j \in Listed(since) /\ ~(Rank(since, j) <= p * PerPage) /\ j \in Filed
      BY <1>4, <2>1 DEF Among
    <3> QED BY <1>1, <1>5, <3>1
  <2>3. PerPage <= Cardinality(page)
    BY <1>0, <2>2, FullPage
  <2>4. ASSUME NEW i \in page PROVE issues[i].created >= since
    <3>1. i \in Listed(since) /\ i \in Filed /\ Rank(since, i) <= p * PerPage
      BY <1>3, <1>6
    <3>2. j < i
      <4>1. CASE i <= j
        <5> DEFINE fromi == {k \in Listed(since) : k >= i}
                   fromj == {k \in Listed(since) : k >= j}
        <5>1. fromj \subseteq fromi /\ fromi \subseteq Filed
          BY <1>3, <2>2, <3>1, <4>1 DEF Listed, Filed
        <5>2. IsFiniteSet(fromi)
          BY <1>0, <5>1, FiledCounts
        <5>3. Cardinality(fromj) <= Cardinality(fromi)
          BY <5>1, <5>2, FS_Subset
        <5>4. Rank(since, j) <= Rank(since, i)
          BY <5>3 DEF Rank
        <5> QED BY <1>1, <1>5, <2>2, <3>1, <5>4
      <4> QED BY <2>2, <3>1, <4>1 DEF Filed
    <3>3. issues[j].created <= issues[i].created /\ issues[j].created >= since
      BY <2>1, <2>2, <3>1, <3>2 DEF Dated, InWindow
    <3> QED BY <1>0, <1>3, <2>2, <3>1, <3>3
  <2>5. fresh = page
    BY <1>d, <2>4
  <2>6. Cardinality(fresh) # 0 /\ p * PerPage <= count
    <3>1. low <= rep[r].count
      BY <1>12
    <3>2. /\ rep[r].count \in Nat /\ Cardinality(fresh) \in Nat /\ PerPage \in Nat \ {0}
          /\ low \in Nat /\ p * PerPage = low + PerPage
      BY <1>0, <1>1, <1>7
    <3>3. PerPage <= Cardinality(fresh)
      BY <2>3, <2>5
    <3> HIDE DEF since, p, page, low, fresh
    <3> QED BY <1>c, <3>1, <3>2, <3>3
  <2> QED BY <1>8, <1>9, <2>3, <2>6
<1> QED BY <1>2, <1>10, <1>11, <1>12

\* As many pages as the probe may read hold the whole cap.
LEMMA PagesHoldCap ==
    ASSUME NEW p \in Nat, p >= MaxPages PROVE p * PerPage >= CreateCap
<1>0. PerPage \in Nat \ {0} /\ CreateCap \in Nat \ {0}
  BY LimitsArePositive
<1>1. MaxPages \in Int /\ MaxPages * PerPage >= CreateCap
  BY <1>0 DEF MaxPages
<1>2. p * PerPage >= MaxPages * PerPage
  BY <1>0, <1>1
<1>3. p * PerPage \in Int /\ MaxPages * PerPage \in Int
  BY <1>0, <1>1
<1> QED BY <1>0, <1>1, <1>2, <1>3

\* A page of the probe keeps the count, and lets through only with room.
LEMMA ProbeKeepsRoom ==
    ASSUME TypeOK, Own, Looked, Dated, [Next]_vars, NEW r \in Reports, Probe(r),
           Counting(r), HadRoom(r)
    PROVE  Counting(r)' /\ HadRoom(r)'
<1> DEFINE page == Page(Since(r), rep[r].page)
<1>0. /\ rep \in [Reports -> Report] /\ seen \in [Reports -> Sight] /\ rep[r].page \in Nat
      /\ rep[r].at = "probing" /\ rep[r].page >= 1 /\ ~seen[r].probed
      /\ issues' = issues /\ last' = last /\ CreateCap \in Nat /\ PerPage \in Nat \ {0}
  <2>1. rep[r].at = "probing" /\ issues' = issues /\ last' = last
    BY DEF Probe, tracker
  <2>2. rep \in [Reports -> Report] /\ rep[r].page \in Nat /\ seen \in [Reports -> Sight]
    BY Typed DEF Report
  <2>3. rep[r].page >= 1 /\ ~seen[r].probed
    BY <2>1 DEF Counting, HadRoom
  <2>4. CreateCap \in Nat /\ PerPage \in Nat \ {0}
    BY LimitsArePositive
  <2> QED BY <2>1, <2>2, <2>3, <2>4
<1>1. /\ Count(r) \in Nat
      /\ Cardinality(Among(r, rep[r].page * PerPage)) <= Count(r)
      /\ \/ Cardinality(InWindow(r)) <= Count(r)
         \/ /\ rep[r].page * PerPage <= Count(r)
            /\ Cardinality(page) >= PerPage /\ Cardinality(Fresh(r)) # 0
  BY <1>0, ProbeCounts
<1>2. \/ Count(r) >= CreateCap /\ rep' = Answer(r, None) /\ seen' = seen
      \/ /\ ~(Count(r) >= CreateCap)
         /\ Cardinality(page) < PerPage \/ Cardinality(Fresh(r)) = 0 \/ rep[r].page >= MaxPages
         /\ rep' = [rep EXCEPT ![r].at = "creating", ![r].page = 0, ![r].count = 0]
         /\ seen' = [seen EXCEPT ![r].probed = TRUE]
      \/ /\ rep' = [rep EXCEPT ![r].page = @ + 1, ![r].count = Count(r)] /\ seen' = seen
  BY DEF Probe, Since, Fresh, Count
<1>3. CASE Count(r) >= CreateCap /\ rep' = Answer(r, None) /\ seen' = seen
  <2>1. rep'[r].at = "answered"
    BY <1>3, AnswerEnds, FieldValues
  <2> QED BY <1>0, <1>3, <2>1 DEF Counting, HadRoom
<1>4. CASE /\ ~(Count(r) >= CreateCap)
           /\ Cardinality(page) < PerPage \/ Cardinality(Fresh(r)) = 0 \/ rep[r].page >= MaxPages
           /\ rep' = [rep EXCEPT ![r].at = "creating", ![r].page = 0, ![r].count = 0]
           /\ seen' = [seen EXCEPT ![r].probed = TRUE]
  <2>1. rep'[r].at = "creating" /\ rep'[r].now = rep[r].now /\ seen'[r].upTo = seen[r].upTo
    BY <1>0, <1>4 DEF Sight
  <2>2. InWindow(r)' = InWindow(r)
    BY <2>1, WindowStays
  <2>3. InWindow(r) \subseteq Filed
    BY <2>1, WindowStays
  <2>4. Cardinality(InWindow(r)) \in Nat /\ Cardinality(page) \in Nat /\ rep[r].page * PerPage \in Nat
    <3>1. page \subseteq Filed
      BY DEF Page
    <3>2. rep[r].page * PerPage \in Nat
      BY <1>0
    <3> QED BY <2>3, <3>1, <3>2, FiledCounts, Typed
  <2>5. Cardinality(InWindow(r)) < CreateCap
    <3>1. CASE Cardinality(InWindow(r)) <= Count(r)
      BY <1>0, <1>1, <1>4, <2>4, <3>1
    <3>2. CASE /\ rep[r].page * PerPage <= Count(r)
               /\ Cardinality(page) >= PerPage /\ Cardinality(Fresh(r)) # 0
      <4>1. rep[r].page >= MaxPages
        BY <1>0, <1>4, <2>4, <3>2
      <4>2. rep[r].page * PerPage >= CreateCap
        BY <1>0, <4>1, PagesHoldCap
      <4> QED BY <1>0, <1>1, <1>4, <2>4, <3>2, <4>2
    <3> QED BY <1>1, <3>1, <3>2
  <2> QED BY <2>1, <2>2, <2>5 DEF Counting, HadRoom
<1>5. CASE rep' = [rep EXCEPT ![r].page = @ + 1, ![r].count = Count(r)] /\ seen' = seen
  <2>1. /\ rep'[r].at = "probing" /\ rep'[r].now = rep[r].now /\ rep'[r].page = rep[r].page + 1
        /\ rep'[r].count = Count(r) /\ seen'[r] = seen[r]
    BY <1>0, <1>5
  <2>2. InWindow(r)' = InWindow(r) /\ Since(r)' = Since(r)
    BY <2>1, WindowStays DEF Since
  <2>3. \A i : Rank(Since(r), i)' = Rank(Since(r), i)
    BY <1>0, <2>2 DEF Rank, Listed, Filed
  <2>4. (rep'[r].page - 1) * PerPage = rep[r].page * PerPage
    BY <1>0, <2>1
  <2>5. Among(r, rep[r].page * PerPage)' = {j \in InWindow(r) : Rank(Since(r), j) <= (rep[r].page * PerPage)'}
    BY <2>2, <2>3 DEF Among
  <2>6. Among(r, (rep[r].page - 1) * PerPage)' = Among(r, rep[r].page * PerPage)
    BY <2>2, <2>3, <2>4 DEF Among
  <2>7. Counting(r)'
    <3>1. rep'[r].page >= 1
      BY <1>0, <2>1
    <3>2. Cardinality(Among(r, (rep[r].page - 1) * PerPage)') <= rep'[r].count
      BY <1>1, <2>1, <2>6
    <3>3. Cardinality(InWindow(r)') <= rep'[r].count \/ (rep'[r].page - 1) * PerPage <= rep'[r].count
      BY <1>1, <2>1, <2>2, <2>4
    <3> QED BY <3>1, <3>2, <3>3 DEF Counting
  <2>8. HadRoom(r)'
    BY <1>0, <2>1 DEF HadRoom
  <2> QED BY <2>7, <2>8
<1> QED BY <1>2, <1>3, <1>4, <1>5

\* Every step keeps what probes have counted.
LEMMA NextRoom ==
    ASSUME TypeOK, Own, Looked, RoomInv, [Next]_vars PROVE RoomInv'
<1>1. Dated'
  BY NextDated DEF RoomInv
<1>2. ASSUME NEW r \in Reports PROVE Counting(r)' /\ HadRoom(r)'
  <2>0. /\ Dated /\ Counting(r) /\ HadRoom(r) /\ last \in 0 .. MaxIssues
        /\ rep[r].page \in Nat /\ rep[r].count \in Nat
    BY Typed DEF RoomInv, Report
  <2>1. CASE Stays(r)
    <3>1. InWindow(r)' = InWindow(r) /\ InWindow(r) \subseteq Filed
      BY <2>0, <2>1, WindowStays DEF Stays
    <3>2. HadRoom(r)'
      BY <2>0, <2>1, <3>1 DEF HadRoom, Stays
    <3>3. ASSUME rep[r].at = "probing" PROVE Counting(r)'
      <4> DEFINE n == (rep[r].page - 1) * PerPage
      <4>1. rep[r].page >= 1 /\ PerPage \in Nat
        BY <2>0, <3>3, LimitsArePositive DEF Counting
      <4>2. n \in Nat /\ n' = n
        BY <2>0, <2>1, <4>1 DEF Stays
      <4>3. Among(r, n)' \subseteq Among(r, n)
        <5> HIDE DEF n
        <5>1. \A m \in Nat : Among(r, m)' \subseteq Among(r, m)
          BY <2>0, <2>1, WindowStays DEF Stays
        <5>2. Among(r, n)' = {j \in InWindow(r)' : Rank(Since(r), j)' <= n}
          BY <4>2 DEF Among
        <5> QED BY <4>2, <5>1, <5>2 DEF Among
      <4>4. Among(r, n) \subseteq Filed
        BY <3>1 DEF Among
      <4>5. IsFiniteSet(Among(r, n)) /\ Cardinality(Among(r, n)) \in Nat
        BY <2>0, <4>4, FiledCounts
      <4>6. /\ Cardinality(Among(r, n)') <= Cardinality(Among(r, n))
            /\ Cardinality(Among(r, n)') \in Nat
        BY <4>3, <4>5, FS_Subset, FS_CardinalityType
      <4>7. Cardinality(Among(r, n)) <= rep[r].count
        BY <2>0, <3>3 DEF Counting
      <4>8. Cardinality(Among(r, n)') <= rep[r].count
        BY <2>0, <4>5, <4>6, <4>7
      <4> QED BY <2>0, <2>1, <3>1, <3>3, <4>8 DEF Counting, Stays
    <3>4. rep[r].at # "probing" => Counting(r)'
      BY <2>1 DEF Counting, Stays
    <3> QED BY <3>2, <3>3, <3>4
  <2>2. CASE Crashes(r)
    BY <2>0, <2>2 DEF Counting, HadRoom, Crashes
  <2>3. CASE Starts(r)
    <3>1. HadRoom(r)'
      BY <2>0, <2>3 DEF HadRoom, Starts
    <3>2. (rep'[r].page - 1) * PerPage = 0 /\ rep'[r].page >= 1 /\ rep'[r].count = 0
      BY <2>3, LimitsArePositive DEF Starts
    <3>3. Among(r, (rep[r].page - 1) * PerPage)' = {}
      <4>1. seen'[r].upTo = last' /\ Since(r)' = Since(r) /\ Dated' /\ Looked' /\ TypeOK'
        BY <1>1, <2>3, NextLooked, NextTypes DEF Starts, Since
      <4>2. InWindow(r)' \subseteq Filed'
        BY <4>1 DEF InWindow, Filed
      <4>3. ASSUME NEW j \in InWindow(r)' PROVE Rank(Since(r), j)' >= 1 /\ Rank(Since(r), j)' \in Nat
        <5>1. j \in Listed(Since(r))
          <6>1. issues[j].created >= Since(r) /\ j \in Filed /\ j \in Numbers
            BY <2>3, <4>1, <4>2, <4>3, Typed DEF InWindow, Starts, Filed
          <6>2. issues[j].created <= issues[j].updated
            BY <2>0, <6>1 DEF Dated
          <6>3. issues[j].created \in Nat /\ issues[j].updated \in Nat /\ Since(r) \in Int
            BY <6>1, Typed, LimitsArePositive DEF Issue, Since, Report
          <6> QED BY <6>1, <6>2, <6>3 DEF Listed
        <5>2. Rank(Since(r), j)' = Rank(Since(r), j)
          BY <2>3, <4>1 DEF Rank, Listed, Filed, Starts
        <5> QED BY <2>0, <5>1, <5>2, RankCounts
      <4>4. ASSUME NEW j \in InWindow(r)' PROVE ~(Rank(Since(r), j)' <= 0)
        BY <4>3
      <4> QED BY <3>2, <4>4 DEF Among
    <3>4. Cardinality(Among(r, (rep[r].page - 1) * PerPage)') <= rep'[r].count
      BY <3>2, <3>3, FS_EmptySet
    <3> QED BY <3>1, <3>2, <3>4 DEF Counting
  <2>4. CASE Probe(r)
    BY <2>0, <2>4, ProbeKeepsRoom
  <2>5. CASE Leaves(r)
    <3>1. InWindow(r)' = InWindow(r)
      BY <2>0, <2>5, WindowStays DEF Leaves
    <3> QED BY <2>0, <2>5, <3>1 DEF Counting, HadRoom, Leaves
  <2> QED BY <2>1, <2>2, <2>3, <2>4, <2>5, ReportSteps DEF ReportStep
<1> QED BY <1>1, <1>2 DEF RoomInv

-----------------------------------------------------------------------------
(* When a reopen is due.                                                   *)

\* The label and the history of an issue keep step.
LEMMA NextMarked ==
    ASSUME TypeOK, Own, Marked, Dated, [Next]_vars PROVE Marked'
<1>1. SUFFICES ASSUME NEW n \in Numbers
               PROVE  /\ past'[n].base <= past'[n].reopens
                      /\ issues'[n].labelled <=> past'[n].base < past'[n].reopens
                      /\ past'[n].at <= issues'[n].updated
                      /\ IF n \in Filed' THEN issues'[n].state \in {"open", "closed"}
                                         ELSE ~issues'[n].labelled
  BY DEF Marked
<1>2. /\ past[n].base <= past[n].reopens
      /\ issues[n].labelled <=> past[n].base < past[n].reopens
      /\ past[n].at <= issues[n].updated /\ issues[n].updated <= clock
      /\ IF n \in Filed THEN issues[n].state \in {"open", "closed"} ELSE ~issues[n].labelled
  BY DEF Marked, Dated
<1>3. /\ past[n].base \in Nat /\ past[n].reopens \in Nat /\ past[n].at \in Nat
      /\ issues[n].updated \in Nat /\ clock \in Nat /\ issues[n].labelled \in BOOLEAN /\ last \in Nat
  BY Typed, Bounds DEF Issue, Past
<1>4. CASE (last' = last \/ n # last + 1) /\ LeftAlone(n)
  <2>1. last' = last \/ last' = last + 1
    BY NewIssue, CreateFiles
  <2>2. n \in Filed' <=> n \in Filed
    BY <1>3, <1>4, <2>1 DEF Filed, Numbers
  <2> QED BY <1>2, <1>4, <2>2 DEF LeftAlone
<1>5. CASE last' = last /\ n \in Filed /\ (OnlyTouched(n) \/ Reopened(n) \/ ClosedNow(n))
  <2>0. n \in Filed'
    BY <1>5 DEF Filed
  <2>1. CASE OnlyTouched(n)
    BY <1>2, <1>3, <1>5, <2>0, <2>1 DEF OnlyTouched
  <2>2. CASE Reopened(n)
    BY <1>2, <1>3, <1>5, <2>0, <2>2 DEF Reopened
  <2>3. CASE ClosedNow(n)
    BY <1>2, <1>3, <1>5, <2>0, <2>3 DEF ClosedNow
  <2> QED BY <1>5, <2>1, <2>2, <2>3
<1>6. CASE FiledNow(n)
  <2>1. n \notin Filed /\ n \in Filed'
    BY <1>3, <1>6 DEF FiledNow, Filed, Numbers
  <2> QED BY <1>2, <1>3, <1>6, <2>1 DEF FiledNow
<1> QED BY <1>4, <1>5, <1>6, IssueSteps DEF IssueStep

\* What a lookup that finds an issue leaves in the report.
LEMMA Found ==
    ASSUME TypeOK, Marked, NEW r \in Reports, NEW i \in Numbers, LookupFinds(r, i)
    PROVE  /\ issues' = issues /\ past' = past /\ rep'[r].on = i /\ rep'[r].now = rep[r].now
           /\ seen'[r].closes = past[i].closes /\ seen'[r].reopens = past[i].reopens
           /\ seen'[r].again <=> issues[i].labelled
           /\ rep'[r].at = "answered" =>
                  issues[i].state = "open" \/ issues[i].labelled
           /\ rep'[r].at = "commenting" => issues[i].state = "open"
           /\ rep'[r].at = "reopening" /\ issues[i].labelled =>
                  rep[r].now - past[i].at >= ReopenCooldown
           /\ rep'[r].at \in {"answered", "commenting", "reopening"}
<1> DEFINE again == past[i].reopens > past[i].base
           silent == \/ issues[i].state = "open" /\ Capped(r, i)
                     \/ issues[i].state = "closed" /\ Suppressed(r, i)
           at == IF silent THEN "answered"
                 ELSE IF issues[i].state = "open" THEN "commenting" ELSE "reopening"
           a == IF silent THEN "commented" ELSE None
<1>1. /\ rep \in [Reports -> Report] /\ seen \in [Reports -> Sight] /\ i \in Filed
      /\ past[i].reopens \in Nat /\ past[i].base \in Nat /\ past[i].at \in Nat
      /\ rep[r].now \in Nat /\ issues[i].updated \in Nat /\ ReopenCooldown \in Nat
      /\ issues[i].labelled \in BOOLEAN
  <2>1. i \in Filed
    BY DEF LookupFinds, Newest, Existing, Matches
  <2> QED BY <2>1, Typed, LimitsArePositive DEF Past, Report, Issue
<1>2. /\ issues[i].labelled <=> again
      /\ past[i].at <= issues[i].updated /\ issues[i].state \in {"open", "closed"}
  BY <1>1 DEF Marked
<1>3. rep' = [rep EXCEPT ![r].on = i, ![r].at = at, ![r].action = a]
  BY DEF LookupFinds
<1>4. seen' = [seen EXCEPT ![r].closes = past[i].closes, ![r].reopens = past[i].reopens,
                  ![r].again = again]
  BY Zenon DEF LookupFinds
<1>5. issues' = issues /\ past' = past
  BY DEF LookupFinds, tracker
<1>6. at \in {"answered", "commenting", "reopening"}
  OBVIOUS
<1>7. at = "answered" => issues[i].state = "open" \/ issues[i].labelled
  BY DEF Suppressed
<1>8. at = "commenting" => issues[i].state = "open"
  OBVIOUS
<1>9. at = "reopening" /\ issues[i].labelled => rep[r].now - past[i].at >= ReopenCooldown
  <2>1. ASSUME at = "reopening", issues[i].labelled PROVE rep[r].now - past[i].at >= ReopenCooldown
    <3>1. ~(rep[r].now - issues[i].updated < ReopenCooldown)
      BY <1>2, <2>1 DEF Suppressed
    <3> QED BY <1>1, <1>2, <3>1
  <2> QED BY <2>1
<1> HIDE DEF again, at, a
<1>10. rep'[r].on = i /\ rep'[r].now = rep[r].now /\ rep'[r].at = at
  BY <1>1, <1>3 DEF Report
<1>11. /\ seen'[r].closes = past[i].closes /\ seen'[r].reopens = past[i].reopens
       /\ seen'[r].again = again
  BY <1>1, <1>4 DEF Sight
<1> QED BY <1>2, <1>5, <1>6, <1>7, <1>8, <1>9, <1>10, <1>11

\* What a report saw bears out what it does until its write.
LEMMA NextTold ==
    ASSUME TypeOK, Own, Marked, Dated, [Next]_vars, NEW r \in Reports, Told(r) PROVE Told(r)'
<1>1. CASE Stays(r)
  <2>1. SUFFICES ASSUME rep[r].at \in {"commenting", "reopening", "noting"} PROVE Told(r)'
    BY <1>1 DEF Told, Stays
  <2> DEFINE i == rep[r].on
  <2>2. i \in Filed /\ i \in Numbers /\ i # last + 1
    BY <2>1, Typed DEF Own, OwnReport, Filed
  <2>3. /\ seen[r].closes <= past[i].closes /\ seen[r].reopens <= past[i].reopens
        /\ rep[r].at # "reopening" /\ past[i].closes = seen[r].closes => issues[i].state = "open"
        /\ rep[r].at = "reopening" /\ seen[r].again /\ seen[r].reopens = past[i].reopens =>
               rep[r].now - past[i].at >= ReopenCooldown
    BY <2>1 DEF Told
  <2>4. /\ past[i].closes \in Nat /\ past[i].reopens \in Nat /\ seen[r].closes \in Nat
        /\ seen[r].reopens \in Nat
    BY <2>2, Typed DEF Past, Sight
  <2>5. IssueStep(i)
    BY <2>2, IssueSteps
  <2>6. i' = i /\ rep'[r].at = rep[r].at /\ rep'[r].now = rep[r].now /\ seen'[r] = seen[r]
    BY <1>1 DEF Stays
  <2> HIDE DEF i
  <2>7. /\ seen[r].closes <= past'[i].closes /\ seen[r].reopens <= past'[i].reopens
        /\ rep[r].at # "reopening" /\ past'[i].closes = seen[r].closes => issues'[i].state = "open"
        /\ rep[r].at = "reopening" /\ seen[r].again /\ seen[r].reopens = past'[i].reopens =>
               rep[r].now - past'[i].at >= ReopenCooldown
    <3>1. CASE LeftAlone(i)
      BY <2>3, <3>1 DEF LeftAlone
    <3>2. CASE OnlyTouched(i)
      BY <2>3, <3>2 DEF OnlyTouched
    <3>3. CASE Reopened(i)
      BY <2>3, <2>4, <3>3 DEF Reopened
    <3>4. CASE ClosedNow(i)
      BY <2>3, <2>4, <3>4 DEF ClosedNow
    <3>5. CASE FiledNow(i)
      BY <2>2, <3>5 DEF FiledNow
    <3> QED BY <2>5, <3>1, <3>2, <3>3, <3>4, <3>5 DEF IssueStep
  <2>8. rep'[r].on = i
    BY <2>6 DEF i
  <2> QED BY <2>6, <2>7, <2>8 DEF Told
<1>2. CASE Crashes(r) \/ Starts(r)
  BY <1>2 DEF Told, Crashes, Starts
<1>3. CASE Probe(r)
  <2>1. \/ rep' = Answer(r, None)
        \/ rep' = [rep EXCEPT ![r].at = "creating", ![r].page = 0, ![r].count = 0]
        \/ \E c : rep' = [rep EXCEPT ![r].page = @ + 1, ![r].count = c]
    BY <1>3 DEF Probe
  <2>2. rep[r].at = "probing" /\ rep \in [Reports -> Report]
    BY <1>3, Typed DEF Probe
  <2>3. rep'[r].at \in {"answered", "creating", "probing"}
    <3>1. CASE rep' = Answer(r, None)
      BY <3>1, AnswerEnds, FieldValues
    <3>2. CASE rep' = [rep EXCEPT ![r].at = "creating", ![r].page = 0, ![r].count = 0]
      BY <2>2, <3>2
    <3>3. ASSUME NEW c, rep' = [rep EXCEPT ![r].page = @ + 1, ![r].count = c]
          PROVE  rep'[r].at = "probing"
      BY <2>2, <3>3
    <3> QED BY <2>1, <3>1, <3>2, <3>3
  <2> QED BY <2>3 DEF Told
<1>4. CASE Leaves(r)
  <2>1. ASSUME NEW i \in Numbers, LookupFinds(r, i) PROVE Told(r)'
    <3>1. past[i].closes \in Nat /\ past[i].reopens \in Nat
      BY Typed DEF Past
    <3> QED BY <2>1, <3>1, Found DEF Told
  <2>2. CASE Reopen(r)
    <3> DEFINE i == rep[r].on
    <3>1. /\ rep[r].at = "reopening" /\ seen' = seen
          /\ issues' = [issues EXCEPT ![i].state = "open", ![i].updated = clock, ![i].labelled = TRUE]
          /\ past' = [past EXCEPT ![i].reopens = @ + 1, ![i].at = clock]
          /\ rep' = [rep EXCEPT ![r].at = "noting"] \/ rep' = Answer(r, None)
      BY <2>2 DEF Reopen, PatchOpen
    <3>2. i \in Numbers
      BY <3>1, Typed DEF Own, OwnReport
    <3>3. seen[r].closes <= past[i].closes /\ seen[r].reopens <= past[i].reopens
      BY <3>1 DEF Told
    <3>4. /\ past[i].closes \in Nat /\ past[i].reopens \in Nat
          /\ seen[r].closes \in Nat /\ seen[r].reopens \in Nat
          /\ past \in [Numbers -> Past] /\ issues \in [Numbers -> Issue] /\ rep \in [Reports -> Report]
      BY <3>2, Typed DEF Past, Sight
    <3>5. rep'[r].on = rep[r].on /\ rep'[r].at \in {"noting", "answered"}
      <4>1. CASE rep' = [rep EXCEPT ![r].at = "noting"]
        BY <3>4, <4>1
      <4>2. CASE rep' = Answer(r, None)
        BY <3>4, <4>2 DEF Answer
      <4> QED BY <3>1, <4>1, <4>2
    <3>6. rep'[r].at \in {"noting", "answered"}
      BY <3>5
    <3>7. rep'[r].on = i
      BY <3>5
    <3> HIDE DEF i
    <3>8. /\ issues'[i].state = "open" /\ past'[i].closes = past[i].closes
          /\ past'[i].reopens = past[i].reopens + 1
      BY <3>1, <3>2, <3>4 DEF Issue, Past
    <3>9. seen'[r].closes <= past'[i].closes /\ seen'[r].reopens <= past'[i].reopens
      BY <3>1, <3>3, <3>4, <3>8
    <3> QED BY <3>6, <3>7, <3>8, <3>9 DEF Told
  <2>3. CASE rep'[r].at \notin {"commenting", "reopening", "noting"}
    BY <2>3 DEF Told
  <2> QED BY <1>4, <2>1, <2>2, <2>3 DEF Leaves
<1> QED BY <1>1, <1>2, <1>3, <1>4, ReportSteps DEF ReportStep

\* A recurrence the studio is told of leaves its issue open.
LEMMA AcknowledgedIsOpen ==
    ASSUME TypeOK, Own, Marked, [Next]_vars, NEW r \in Reports, Told(r),
           Acknowledges(r), ~Reclosed(r), ~seen'[r].again
    PROVE  issues'[rep'[r].on].state = "open"
<1>0. /\ rep[r].at # "answered" /\ rep'[r].at = "answered"
      /\ rep'[r].action \in {"commented", "reopened"}
      /\ past'[rep'[r].on].closes = seen'[r].closes
  BY DEF Acknowledges, Reclosed
<1>1. ~Stays(r) /\ ~Crashes(r) /\ ~Starts(r)
  BY <1>0 DEF Stays, Crashes, Starts
<1>2. ~Probe(r)
  <2>1. SUFFICES ASSUME Probe(r) PROVE FALSE
    OBVIOUS
  <2>2. \/ rep' = Answer(r, None)
        \/ rep' = [rep EXCEPT ![r].at = "creating", ![r].page = 0, ![r].count = 0]
        \/ \E c : rep' = [rep EXCEPT ![r].page = @ + 1, ![r].count = c]
    BY <2>1 DEF Probe
  <2>3. rep[r].at = "probing" /\ rep \in [Reports -> Report]
    BY <2>1, Typed DEF Probe
  <2>4. CASE rep' = Answer(r, None)
    BY <1>0, <2>4, AnswerEnds, FieldValues DEF None
  <2>5. CASE rep' = [rep EXCEPT ![r].at = "creating", ![r].page = 0, ![r].count = 0]
    BY <1>0, <2>3, <2>5
  <2>6. ASSUME NEW c, rep' = [rep EXCEPT ![r].page = @ + 1, ![r].count = c] PROVE FALSE
    BY <1>0, <2>3, <2>6
  <2> QED BY <2>2, <2>4, <2>5, <2>6
<1>3. ASSUME NEW i \in Numbers, LookupFinds(r, i) PROVE issues'[rep'[r].on].state = "open"
  BY <1>0, <1>3, Found
<1>4. CASE Comment(r) \/ NoteReopen(r)
  <2> DEFINE i == rep[r].on
  <2>1. /\ rep[r].at \in {"commenting", "noting"} /\ seen' = seen /\ past' = past
        /\ issues' = Touched(i)
    BY <1>4 DEF Comment, NoteReopen
  <2>2. PICK a \in Actions : rep' = Answer(r, a)
    BY <1>4, FieldValues DEF Comment, NoteReopen, Answered
  <2>3. rep'[r].on = i
    BY <2>2, Typed DEF Answer
  <2>4. i \in Numbers
    BY <2>1, Typed DEF Own, OwnReport
  <2>5. issues[i].state = "open"
    BY <1>0, <2>1, <2>3 DEF Told
  <2> HIDE DEF i
  <2>6. issues'[i].state = "open"
    BY <2>1, <2>4, <2>5, Typed DEF Touched, Issue
  <2> QED BY <2>3, <2>6
<1> QED BY <1>0, <1>1, <1>2, <1>3, <1>4, ReportSteps DEF ReportStep, Leaves

-----------------------------------------------------------------------------
(* The cap and the reopens, for ever.                                      *)

CapInv == Inv /\ RoomInv /\ DueInv

LEMMA InitCap == Init => CapInv
<1> SUFFICES ASSUME Init PROVE CapInv
  OBVIOUS
<1>1. Filed = {} /\ TypeOK
  BY InitTypes DEF Init, Filed
<1>2. RoomInv
  BY <1>1 DEF Init, RoomInv, Dated, Counting, HadRoom
<1>3. DueInv
  BY <1>1 DEF Init, DueInv, Marked, Told
<1> QED BY <1>2, <1>3, InitInv DEF CapInv

LEMMA NextCap == CapInv /\ [Next]_vars => CapInv'
<1> SUFFICES ASSUME CapInv, [Next]_vars PROVE CapInv'
  OBVIOUS
<1>1. Inv /\ TypeOK /\ Own /\ Looked /\ RoomInv /\ Dated /\ Marked /\ \A r \in Reports : Told(r)
  BY DEF CapInv, Inv, RoomInv, DueInv
<1>2. Inv'
  BY <1>1, Inductive
<1>3. RoomInv'
  BY <1>1, NextRoom
<1>4. Marked' /\ \A r \in Reports : Told(r)'
  BY <1>1, NextMarked, NextTold
<1> QED BY <1>2, <1>3, <1>4 DEF CapInv, DueInv

LEMMA AlwaysCap == Spec => []CapInv
BY InitCap, NextCap, PTL DEF Spec

\* FR-106: a report whose probe was read to its end files an issue only if
\* its window had room when the probe began, for every cap and page size.
THEOREM CrashCreationHadRoom == Spec => []CreationHadRoom
<1>1. ASSUME CapInv PROVE CreationHadRoom
  <2>1. ASSUME NEW i \in Filed PROVE issues[i].by \in Reports
    BY <1>1 DEF CapInv, Inv, Looked
  <2>2. \A r \in Reports : HadRoom(r)
    BY <1>1 DEF CapInv, RoomInv
  <2> QED BY <2>1, <2>2 DEF CreationHadRoom, HadRoom, InWindow, Since
<1> QED BY <1>1, AlwaysCap, PTL

\* FR-095, FR-095a: an acknowledged recurrence leaves its issue open, and no
\* reopen the report could see is repeated within the cooldown.
THEOREM CrashReopensWhenDue == Spec => ReopensWhenDue
<1>1. ASSUME CapInv, [Next]_vars
      PROVE  \A r \in Reports :
                /\ Acknowledges(r) /\ ~Reclosed(r) /\ ~seen'[r].again =>
                       issues'[rep'[r].on].state = "open"
                /\ ReopensNow(r) /\ seen[r].again /\ seen[r].reopens = past[rep[r].on].reopens =>
                       rep[r].now - past[rep[r].on].at >= ReopenCooldown
  <2>1. TypeOK /\ Own /\ Marked /\ \A r \in Reports : Told(r)
    BY <1>1 DEF CapInv, Inv, DueInv
  <2>2. ASSUME NEW r \in Reports, ReopensNow(r), seen[r].again,
               seen[r].reopens = past[rep[r].on].reopens
        PROVE  rep[r].now - past[rep[r].on].at >= ReopenCooldown
    BY <2>1, <2>2 DEF ReopensNow, Told
  <2> QED BY <1>1, <2>1, <2>2, AcknowledgedIsOpen
<1>2. CapInv /\ [Next]_vars =>
        [\A r \in Reports :
            /\ Acknowledges(r) /\ ~Reclosed(r) /\ ~seen'[r].again =>
                   issues'[rep'[r].on].state = "open"
            /\ ReopensNow(r) /\ seen[r].again /\ seen[r].reopens = past[rep[r].on].reopens =>
                   rep[r].now - past[rep[r].on].at >= ReopenCooldown]_vars
  BY <1>1
<1> QED BY <1>2, AlwaysCap, PTL DEF Spec, ReopensWhenDue

=============================================================================
