--------------------------- MODULE DecisionReplay ---------------------------
(* How the working copy is kept in step with the author's decisions.        *)
(* Completing a step records its answers as decisions, re-derives the       *)
(* decisions that depend on them and folds the decisions over the starting  *)
(* keyboard in their derived order, resuming at a checkpoint of an earlier  *)
(* fold where that is enough (completeStep.ts, rebuildWorkingCopy.ts,       *)
(* recalculate.ts, replayCheckpoints.ts, replayKeyboard.ts).  The live      *)
(* extraction pass writes decisions as well and folds nothing               *)
(* (liveExtraction.ts).  The registry is cut down to one decision for each  *)
(* way a decision can act; see Order.                                       *)
EXTENDS Naturals, FiniteSets, SequencesExt

CONSTANTS
    None,     \* no record, no start, nothing folded
    Bases,    \* keyboards to start from; also the texts taken from them
    Answers   \* what the author can answer

\* What a decision can hold: texts, answers, choices, lists and layouts.
Values == Bases \cup Answers
              \cup {"own", "confirm", "edit", "bullets", "letters", "carve", ""}

Records == [value : Values, prov : {"extracted", "default", "asked"},
            inactive : BOOLEAN]

ASSUME ReplayAssumption == None \notin Values /\ None \notin Records

VARIABLES
    start,      \* the starting point and how it was taken, or None
    decisions,  \* decisionStore: decision -> record or None
    copy,       \* the working copy's channels
    trail,      \* sessionTrail: the checkpoints of the last folds
    trailOurs,  \* sessionTrailBase is the present startIr
    settled     \* history variable: since the last fold that started early
                \* enough, no extraction pass has written a record

vars == <<start, decisions, copy, trail, trailOurs, settled>>

-----------------------------------------------------------------------------
(* The registry, cut down.                                                  *)

\* The derived order: the registry's own order where nothing is required.
\*   letters   standard-letters: answered, writes the IR
\*   welcome   help-welcome-paragraph: taken from the start, writes the help
\*             documents, composed from all help decisions
\*   entry     help-history-entry: has a default, opens bullets
\*   bullets   help-history-bullets: asked only where entry is "edit"
\*   contact   help-contact-info: defaults to the author's address
\*   author    author-name and author-email: answered
\*   holder    copyright-holder: taken from the start, writes the
\*             attribution, composed from author and holder
\*   carve     carved-layout: the editor records it, no fold follows
Order == <<"letters", "welcome", "entry", "bullets", "contact", "author",
           "holder", "carve">>
Ids == ToSet(Order)
Position(d) == CHOOSE i \in DOMAIN Order : Order[i] = d

Requires(d) == CASE d = "bullets" -> {"entry"}
                 [] d = "holder" -> {"author"}
                 [] OTHER -> {}

\* No chain of requirements in the slice is longer than one.
Closure(changed) == {d \in Ids : Requires(d) \cap changed # {}}

\* Routing reads the value whether or not its record is inactive.
Active(d, ds) ==
    d = "bullets" => ds["entry"] # None /\ ds["entry"].value = "edit"

\* A module's extract, for the starting point s.
Extract(d, s) ==
    CASE d = "welcome" -> IF s.mode = "adapt" THEN s.base ELSE None
      [] d = "holder" -> s.base
      [] OTHER -> None

\* A module's lookup default.
LookupDefault(d, ds) ==
    CASE d = "entry" -> "confirm"
      [] d = "contact" -> IF ds["author"] = None THEN None
                          ELSE ds["author"].value
      [] OTHER -> None

SeedWhen(d, s) == d = "holder" => s.track = "adapt"

Record(v, p) == [value |-> v, prov |-> p, inactive |-> FALSE]
Seeded(r) == r # None /\ r.prov \in {"extracted", "default"}

\* runLiveExtraction: active modules seed what the author has not answered.
Extracted(ds, s) ==
    LET Open(d) == /\ ds[d] = None \/ Seeded(ds[d])
                   /\ Active(d, ds) /\ SeedWhen(d, s)
    IN [d \in Ids |->
            IF Open(d) /\ Extract(d, s) # None
            THEN Record(Extract(d, s), "extracted")
            ELSE IF Open(d) /\ LookupDefault(d, ds) # None
            THEN Record(LookupDefault(d, ds), "default")
            ELSE ds[d]]

-----------------------------------------------------------------------------
(* Recalculation (recalculate.ts).                                          *)

\* MUTANT: provenance first, so an answer is kept whatever its gate says.
RevisitedByProvenance(d, ds, s) ==
    LET r == ds[d]
    IN IF r.prov = "asked" THEN r
       ELSE IF ~ Active(d, ds) THEN [r EXCEPT !.inactive = TRUE]
       ELSE [r EXCEPT !.inactive = FALSE]

\* Gates first, then the value by its provenance; answers are kept.
Revisited(d, ds, s) ==
    LET r == ds[d]
        fresh == IF r.prov = "extracted" THEN Extract(d, s)
                 ELSE IF r.prov = "default" THEN LookupDefault(d, ds)
                 ELSE None
    IN IF ~ Active(d, ds) THEN [r EXCEPT !.inactive = TRUE]
       ELSE IF r.inactive THEN [r EXCEPT !.inactive = FALSE]
       ELSE IF fresh # None THEN [r EXCEPT !.value = fresh]
       ELSE r

\* What is visited: the closure, the inactive records, or everything.
Visited(d, ds, changed, visitAll) ==
    /\ d \notin changed /\ ds[d] # None
    /\ visitAll \/ d \in Closure(changed) \/ ds[d].inactive

Recalculated(ds, s, changed, visitAll) ==
    [d \in Ids |-> IF Visited(d, ds, changed, visitAll)
                   THEN Revisited(d, ds, s) ELSE ds[d]]

-----------------------------------------------------------------------------
(* Replay (replayKeyboard.ts, replayCheckpoints.ts).                        *)

Channels == {"help", "attribution", "carve"}
Blank(s) == [base |-> s.base, letters |-> None, help |-> None,
             attribution |-> None, carve |-> None]

\* helpDocsFromDecisions and deriveAttribution compose from the whole set.
HelpDocs(ds) ==
    [welcome |-> ds["welcome"].value,
     contact |-> IF ds["contact"] = None THEN None ELSE ds["contact"].value]
Attribution(ds) ==
    [author |-> ds["author"].value,
     holder |-> IF ds["holder"] = None THEN None ELSE ds["holder"].value]

\* What the module of d does to the folded state, whatever its own record.
Applied(d, st, ds) ==
    CASE d = "letters" -> [st EXCEPT !.letters = ds[d].value]
      [] d = "welcome" /\ ds[d].value # "" -> [st EXCEPT !.help = HelpDocs(ds)]
      [] d = "holder" /\ ds["author"] # None ->
            [st EXCEPT !.attribution = Attribution(ds)]
      [] d = "carve" -> [st EXCEPT !.carve = ds[d].value]
      [] OTHER -> st

Fold(d, st, ds) ==
    IF ds[d] = None \/ ds[d].inactive THEN st ELSE Applied(d, st, ds)

\* The trail that keeps the first n checkpoints of tr and goes on from the
\* last of them, folding one decision after the other.
Replay(tr, n, ds) ==
    LET after[i \in n .. Len(Order) + 1] ==
            IF i = n THEN tr[n] ELSE Fold(Order[i - 1], after[i - 1], ds)
    IN SubSeq(tr, 1, n) \o [k \in 1 .. Len(Order) + 1 - n |-> after[n + k]]

FullTrail(ds, s) == Replay(<<Blank(s)>>, 1, ds)
FullReplay(ds, s) == Last(FullTrail(ds, s))

\* How many decisions stand before the earliest changed one.
ResumeIndex(changed) ==
    (CHOOSE n \in {Position(d) : d \in changed} :
        \A d \in changed : n <= Position(d)) - 1

\* A resume needs a changed decision, one before it and a whole trail.
Usable(tr, changed) ==
    /\ changed # {}
    /\ ResumeIndex(changed) > 0
    /\ Len(tr) = Len(Order) + 1

\* Everything up to the resume point is kept, the rest is folded again.
Resumed(tr, ds, s, changed) ==
    IF Usable(tr, changed) THEN Replay(tr, ResumeIndex(changed) + 1, ds)
    ELSE FullTrail(ds, s)

-----------------------------------------------------------------------------
(* Rebuilding (rebuildWorkingCopy.ts).                                      *)

\* A channel the fold never wrote leaves the working copy's as it stands.
Install(wc, st) ==
    [ch \in DOMAIN st |->
        IF ch \in Channels /\ st[ch] = None THEN wc[ch] ELSE st[ch]]

\* The decisions whose record the recalculation touched join the changed.
Touched(ds, ds2, changed) == changed \cup {d \in Ids : ds2[d] # ds[d]}

\* MUTANT: the trail of another starting keyboard is gone on with.
SessionTrailAny == IF trail = <<>> THEN <<Blank(start)>> ELSE trail

\* Reseeded where it does not belong to the present starting keyboard.
SessionTrail == IF trail = <<>> \/ ~ trailOurs THEN <<Blank(start)>> ELSE trail

\* recalculateForStartingPointChange: everything is visited, nothing resumed.
RebuildForStart(ds, s, wc) ==
    /\ decisions' = Recalculated(ds, s, {}, TRUE)
    /\ trail' = FullTrail(decisions', s)
    /\ trailOurs' = TRUE
    /\ copy' = Install(wc, Last(trail'))
    /\ settled' = TRUE

\* rebuildWorkingCopyFromStores
Rebuild(ds, wc, changed) ==
    /\ decisions' = Recalculated(ds, start, changed, FALSE)
    /\ LET touched == Touched(ds, decisions', changed)
       IN /\ trail' = Resumed(SessionTrail, decisions', start, touched)
          /\ settled' = \/ settled
                        \/ ~ Usable(SessionTrail, touched)
                        \/ ResumeIndex(touched) < Position("welcome")
    /\ trailOurs' = TRUE
    /\ copy' = Install(wc, Last(trail'))

-----------------------------------------------------------------------------
(* Completing a step (completeStep.ts).                                     *)

\* An answer equal to the proposal it was seeded with stays a proposal.
Answered(ds, ans) ==
    [d \in Ids |->
        IF d \notin DOMAIN ans THEN ds[d]
        ELSE Record(ans[d], IF Seeded(ds[d]) /\ ds[d].value = ans[d]
                            THEN "default" ELSE "asked")]

\* applyDecisionEffects: what was answered, then what requires it.
Effects(wc, ds, ids) ==
    LET due == {d \in {"letters", "welcome", "holder"} :
                    d \in ids \/ Requires(d) \cap ids # {}}
    IN FoldLeft(LAMBDA st, d : IF d \in due THEN Applied(d, st, ds) ELSE st,
                wc, Order)

\* ans: the answers of the step, without those the author left untouched.
Complete(ans) ==
    LET ds == Answered(decisions, ans)
    IN /\ start # None
       /\ Rebuild(ds, Effects(copy, ds, DOMAIN ans), DOMAIN ans)
       /\ UNCHANGED start

\* The answers f, without those that are None.
Given(f) == [d \in {e \in DOMAIN f : f[e] # None} |-> f[d]]

\* What a text question can be left with: own words, or the seeded proposal.
Texts(d) == {"own"} \cup (IF Seeded(decisions[d]) THEN {decisions[d].value} ELSE {})

CompleteCharacters == Complete([letters |-> "letters"])

\* The welcome paragraph may be blank only where the keyboard was opened.
CompleteHelp ==
    /\ start # None
    /\ \E w \in Texts("welcome") \cup (IF start.mode = "adapt" THEN {""} ELSE {}),
          e \in {"confirm", "edit", None}, b \in {"bullets", None},
          c \in Texts("contact") \cup {None} :
           /\ b # None => e = "edit"
           /\ Complete(Given([welcome |-> w, entry |-> e, bullets |-> b,
                              contact |-> c]))

CompleteAttribution ==
    \E a \in Answers, h \in Texts("holder") \cup {None} :
        Complete(Given([author |-> a, holder |-> h]))

\* The carve gallery changes the working copy itself and records the result.
CompleteCarve ==
    /\ start # None
    /\ decisions' = [decisions EXCEPT !["carve"] = Record("carve", "asked")]
    /\ copy' = [copy EXCEPT !.carve = "carve"]
    /\ UNCHANGED <<start, trail, trailOurs, settled>>

-----------------------------------------------------------------------------
(* Starting points, questions, reloads.                                     *)

\* A question without a record is shown: the extraction pass runs again.
PushQuestion ==
    /\ start # None
    /\ decisions' = Extracted(decisions, start)
    /\ settled' = (settled /\ decisions' = decisions)
    /\ UNCHANGED <<start, copy, trail, trailOurs>>

\* The first commit of a base: extraction, no recalculation.
PickStart ==
    /\ start = None
    /\ \E b \in Bases, m \in {"copy", "adapt"} :
           /\ start' = [base |-> b, mode |-> m, track |-> m]
           /\ copy' = Blank(start')
           /\ decisions' = Extracted(decisions, start')
    /\ trailOurs' = FALSE
    /\ settled' = FALSE
    /\ UNCHANGED trail

\* instantiateFromStart: the IR and the carve are the new base's, the help
\* documents and the attribution stay.
Instantiated(s) == [copy EXCEPT !.base = s.base, !.letters = None, !.carve = None]

\* Another base, in the base step of a copy.
SwitchStart ==
    /\ start # None /\ start.mode = "copy" /\ start.track = "copy"
    /\ \E b \in Bases \ {start.base} :
           /\ start' = [start EXCEPT !.base = b]
           /\ RebuildForStart(Extracted(decisions, start'), start', Instantiated(start'))

\* Another base, in the picker of the output screen: always a copy, the
\* recorded track stays and nothing is extracted.
SwitchInOutput ==
    /\ start # None
    /\ \E b \in Bases \ {start.base} :
           /\ start' = [start EXCEPT !.base = b, !.mode = "copy"]
           /\ RebuildForStart(decisions, start', Instantiated(start'))

\* The stores come back from the draft, the trail does not.
Reload ==
    /\ trail' = <<>>
    /\ trailOurs' = FALSE
    /\ UNCHANGED <<start, decisions, copy, settled>>

\* The stores are reset, the module's trail is not.
StartOver ==
    /\ start # None
    /\ start' = None
    /\ decisions' = [d \in Ids |-> None]
    /\ copy' = None
    /\ trailOurs' = FALSE
    /\ settled' = FALSE
    /\ UNCHANGED trail

Init ==
    /\ start = None
    /\ decisions = [d \in Ids |-> None]
    /\ copy = None
    /\ trail = <<>>
    /\ trailOurs = FALSE
    /\ settled = FALSE

Next ==
    \/ CompleteCharacters \/ CompleteHelp \/ CompleteAttribution \/ CompleteCarve
    \/ PushQuestion \/ PickStart \/ SwitchStart \/ SwitchInOutput
    \/ Reload \/ StartOver

Spec == Init /\ [][Next]_vars

-----------------------------------------------------------------------------
(* Properties.                                                              *)

\* The working copy the author goes on with is the one a fold of the whole
\* decision set over the starting keyboard gives, in every channel that fold
\* writes: whether the rebuild resumed at a checkpoint or not, and across
\* carves recorded without a fold, switches of the base, other projects in
\* the same session and reloads.  Not claimed where the extraction pass has
\* written records since: the checkpoints then stand for older decisions.
InstalledIsReplay ==
    settled =>
        LET full == FullReplay(decisions, start)
        IN \A ch \in DOMAIN full :
            \/ ch \in Channels /\ full[ch] = None
            \/ copy[ch] = full[ch]

\* A recorded answer behind a gate is set aside exactly while its gate is
\* closed: an answer given again, a gate re-opened and a recalculation for
\* another base all leave the flag as routing has it, and the answer itself
\* is neither lost nor replaced.
GatedAnswerFollowsGate ==
    decisions["bullets"] # None =>
        /\ decisions["bullets"].inactive = ~ Active("bullets", decisions)
        /\ decisions["bullets"].value = "bullets"
        /\ decisions["bullets"].prov = "asked"
=============================================================================
