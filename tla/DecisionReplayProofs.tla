------------------------ MODULE DecisionReplayProofs ------------------------
(* Proofs about DecisionReplay: what the author goes on with is a fold of   *)
(* the whole decision set, and an answer behind a gate is set aside exactly *)
(* while the gate is closed.  The replay is a recursive function over the   *)
(* places of the order; that there is one is shown by writing its values    *)
(* out, and what it returns is then read off place by place.  The invariant *)
(* has a part for the decisions, one for the checkpoints and one for the    *)
(* working copy.                                                            *)
EXTENDS DecisionReplay, FiniteSetTheorems, SequenceTheorems, TLAPS

Starts == [base : Bases, mode : {"copy", "adapt"}, track : {"copy", "adapt"}]

-----------------------------------------------------------------------------
(* The decisions.                                                           *)

\* Records are records.
Typed(ds) == ds \in [Ids -> Records \cup {None}]

\* Only the decision behind the gate is ever set aside.
OthersActive(ds) ==
    \A d \in Ids \ {"bullets"} : ds[d] # None => ~ ds[d].inactive

\* The gate: asked, or at its lookup default.
GateValue(ds) ==
    ds["entry"] # None =>
        /\ ds["entry"].prov \in {"asked", "default"}
        /\ ds["entry"].prov = "default" => ds["entry"].value = "confirm"

\* The decision behind the gate is only ever answered.
BulletsAsked(ds) ==
    ds["bullets"] # None =>
        ds["bullets"].value = "bullets" /\ ds["bullets"].prov = "asked"

Sound(ds) == Typed(ds) /\ OthersActive(ds) /\ GateValue(ds) /\ BulletsAsked(ds)

\* The flag is as routing has it.
Gated(ds) ==
    ds["bullets"] # None => (ds["bullets"].inactive <=> ~ Active("bullets", ds))

DecisionInv ==
    /\ start # None => start \in Starts
    /\ Sound(decisions)
    /\ Gated(decisions)

-----------------------------------------------------------------------------
(* The trail.                                                               *)

\* One checkpoint for the start and one for each decision.
Whole(tr) == tr \in Seq({tr[i] : i \in DOMAIN tr}) /\ Len(tr) = 9

\* tr is a whole trail whose first n folds are those of ds.
FoldsTo(tr, n, ds) ==
    /\ Whole(tr)
    /\ \A i \in 1 .. n : tr[i + 1] = Fold(Order[i], tr[i], ds)

\* A trail of the present start begins at that start; its fold of the
\* letters stands, and with settled every fold does but that of the carve.
TrailInv ==
    trailOurs /\ trail # <<>> =>
        /\ trail[1] = Blank(start)
        /\ FoldsTo(trail, IF settled THEN 7 ELSE 1, decisions)

Fields == {"base", "letters", "help", "attribution", "carve"}

\* cp shows what ds replayed over s writes.
Shows(cp, ds, s) ==
    LET full == FullReplay(ds, s)
    IN /\ DOMAIN cp = Fields /\ DOMAIN full = Fields
       /\ \A ch \in Fields : \/ ch \in Channels /\ full[ch] = None
                             \/ cp[ch] = full[ch]

CopyInv == settled => Shows(copy, decisions, start)

ReplayInv == DecisionInv /\ TrailInv /\ CopyInv

-----------------------------------------------------------------------------
(* The registry.                                                            *)

\* The decisions, by name.
LEMMA IdsAre ==
    Ids = {"letters", "welcome", "entry", "bullets", "contact", "author",
           "holder", "carve"}
  BY DEF Ids, ToSet, Order

\* Their order, place by place.
LEMMA OrderIs ==
    /\ Len(Order) = 8
    /\ Order[1] = "letters" /\ Order[2] = "welcome" /\ Order[3] = "entry"
    /\ Order[4] = "bullets" /\ Order[5] = "contact" /\ Order[6] = "author"
    /\ Order[7] = "holder" /\ Order[8] = "carve"
    /\ \A d \in Ids : \E i \in 1 .. 8 : Order[i] = d
    /\ \A i \in 1 .. 8 : Order[i] \in Ids
    /\ \A i, j \in 1 .. 8 : Order[i] = Order[j] => i = j
  BY DEF Ids, ToSet, Order

\* Each decision has one place in the order.
LEMMA PositionIs ==
    ASSUME NEW i \in 1 .. 8
    PROVE  Position(Order[i]) = i
  <1>1. \A j \in DOMAIN Order : Order[j] = Order[i] <=> j = i
    BY OrderIs DEF Order
  <1>2. i \in DOMAIN Order
    BY DEF Order
  <1> QED  BY <1>1, <1>2 DEF Position

\* And each place has its decision.
LEMMA PositionOf ==
    ASSUME NEW d \in Ids
    PROVE  Position(d) \in 1 .. 8 /\ Order[Position(d)] = d
  <1>1. PICK i \in 1 .. 8 : Order[i] = d
    BY OrderIs
  <1> QED  BY <1>1, PositionIs

LEMMA WelcomeIsSecond == Position("welcome") = 2
  BY PositionIs, OrderIs

\* The resume point stands before every changed decision and just before one.
LEMMA ResumeIndexIs ==
    ASSUME NEW changed \in SUBSET Ids, changed # {}
    PROVE  /\ ResumeIndex(changed) \in 0 .. 7
           /\ \A d \in changed : ResumeIndex(changed) < Position(d)
  <1> DEFINE S == {Position(d) : d \in changed}
             Least(n) == \A d \in changed : n <= Position(d)
  <1>1. \A n \in S : n \in 1 .. 8
    BY PositionOf
  <1>2. \A m, n \in S : m \in Int /\ n \in Int
    BY <1>1
  <1>3. \E n \in S : \A m \in S : n <= m
    <2>1. S # {}
      OBVIOUS
    <2> HIDE DEF S
    <2>2. PICK k \in S : TRUE
      BY <2>1
    <2>3. CASE 1 \in S  BY <2>3, <1>1
    <2>4. CASE 1 \notin S /\ 2 \in S  BY <2>4, <1>1
    <2>5. CASE {1, 2} \cap S = {} /\ 3 \in S  BY <2>5, <1>1
    <2>6. CASE {1, 2, 3} \cap S = {} /\ 4 \in S  BY <2>6, <1>1
    <2>7. CASE {1, 2, 3, 4} \cap S = {} /\ 5 \in S  BY <2>7, <1>1
    <2>8. CASE {1, 2, 3, 4, 5} \cap S = {} /\ 6 \in S  BY <2>8, <1>1
    <2>9. CASE {1, 2, 3, 4, 5, 6} \cap S = {} /\ 7 \in S  BY <2>9, <1>1
    <2>10. CASE {1, 2, 3, 4, 5, 6, 7} \cap S = {}  BY <2>10, <2>2, <1>1
    <2> QED  BY <2>3, <2>4, <2>5, <2>6, <2>7, <2>8, <2>9, <2>10
  <1>4. \E n \in S : Least(n)
    BY <1>3
  <1>5. ResumeIndex(changed) = (CHOOSE n \in S : Least(n)) - 1
    BY DEF ResumeIndex
  <1> DEFINE least == CHOOSE n \in S : Least(n)
  <1>6. least \in S /\ Least(least)
    <2> HIDE DEF S, Least
    <2> QED  BY <1>4
  <1>7. least \in 1 .. 8 /\ \A d \in changed : least <= Position(d)
    BY <1>1, <1>6
  <1> HIDE DEF least
  <1>8. \A d \in changed : Position(d) \in Int
    BY PositionOf
  <1>9. ResumeIndex(changed) = least - 1
    BY <1>5 DEF least
  <1> QED  BY <1>7, <1>8, <1>9

-----------------------------------------------------------------------------
(* The fold.                                                                *)

\* The decisions no fold reads.
LEMMA FoldsNothing ==
    ASSUME NEW d \in {"entry", "bullets", "contact", "author"}, NEW st, NEW ds
    PROVE  Fold(d, st, ds) = st
  BY DEF Fold, Applied

\* What the fold of a decision reads of the others.
LEMMA FoldReads ==
    ASSUME NEW d \in Ids, NEW st, NEW ds, NEW ds2,
           ds2[d] = ds[d],
           d = "welcome" => ds2["contact"] = ds["contact"],
           d = "holder" => ds2["author"] = ds["author"]
    PROVE  Fold(d, st, ds2) = Fold(d, st, ds)
  <1>1. CASE d = "letters"
    BY <1>1 DEF Fold, Applied
  <1>2. CASE d = "welcome"
    BY <1>2 DEF Fold, Applied, HelpDocs
  <1>3. CASE d = "holder"
    BY <1>3 DEF Fold, Applied, Attribution
  <1>4. CASE d = "carve"
    BY <1>4 DEF Fold, Applied
  <1>5. CASE d \in {"entry", "bullets", "contact", "author"}
    BY <1>5, FoldsNothing
  <1> QED  BY <1>1, <1>2, <1>3, <1>4, <1>5, IdsAre

\* A fold writes no channel that was not there.
LEMMA FoldDomain ==
    ASSUME NEW d \in Ids, NEW st, NEW ds, DOMAIN st = Fields
    PROVE  DOMAIN Fold(d, st, ds) = Fields
  BY IdsAre DEF Fold, Applied, Fields

\* The carve's fold writes the carve alone.
LEMMA CarveFold ==
    ASSUME NEW st, NEW ds, DOMAIN st = Fields,
           NEW ch \in Fields \ {"carve"}
    PROVE  Fold("carve", st, ds)[ch] = st[ch]
  BY DEF Fold, Applied, Fields

-----------------------------------------------------------------------------
(* Replaying.                                                               *)

\* The folds of ds from the place n on, as the recursive function that
\* Replay goes by.
Chain(f, n, st, ds) ==
    f = [i \in n .. 9 |-> IF i = n THEN st ELSE Fold(Order[i - 1], f[i - 1], ds)]

\* There is such a function: its values written out.
LEMMA ChainExists ==
    ASSUME NEW n \in 1 .. 8, NEW st, NEW ds
    PROVE  \E f : Chain(f, n, st, ds)
  <1> DEFINE v1 == st
             v2 == IF 2 <= n THEN st ELSE Fold(Order[1], v1, ds)
             v3 == IF 3 <= n THEN st ELSE Fold(Order[2], v2, ds)
             v4 == IF 4 <= n THEN st ELSE Fold(Order[3], v3, ds)
             v5 == IF 5 <= n THEN st ELSE Fold(Order[4], v4, ds)
             v6 == IF 6 <= n THEN st ELSE Fold(Order[5], v5, ds)
             v7 == IF 7 <= n THEN st ELSE Fold(Order[6], v6, ds)
             v8 == IF 8 <= n THEN st ELSE Fold(Order[7], v7, ds)
             v9 == Fold(Order[8], v8, ds)
             V(i) == IF i = 1 THEN v1 ELSE IF i = 2 THEN v2
                     ELSE IF i = 3 THEN v3 ELSE IF i = 4 THEN v4
                     ELSE IF i = 5 THEN v5 ELSE IF i = 6 THEN v6
                     ELSE IF i = 7 THEN v7 ELSE IF i = 8 THEN v8 ELSE v9
             f == [i \in n .. 9 |-> V(i)]
  <1>1. \A i \in 1 .. 9 : i <= n => V(i) = st
    OBVIOUS
  <1>2. \A i \in 2 .. 9 : i > n => V(i) = Fold(Order[i - 1], V(i - 1), ds)
    <2> TAKE i \in 2 .. 9
    <2> HAVE i > n
    <2>1. CASE i = 2  BY <2>1
    <2>2. CASE i = 3  BY <2>2
    <2>3. CASE i = 4  BY <2>3
    <2>4. CASE i = 5  BY <2>4
    <2>5. CASE i = 6  BY <2>5
    <2>6. CASE i = 7  BY <2>6
    <2>7. CASE i = 8  BY <2>7
    <2>8. CASE i = 9  BY <2>8
    <2>9. i = 2 \/ i = 3 \/ i = 4 \/ i = 5 \/ i = 6 \/ i = 7 \/ i = 8 \/ i = 9
      OBVIOUS
    <2> HIDE DEF V
    <2> QED  BY <2>1, <2>2, <2>3, <2>4, <2>5, <2>6, <2>7, <2>8, <2>9
  <1> HIDE DEF V
  <1>3. ASSUME NEW i \in n .. 9
        PROVE  V(i) = IF i = n THEN st ELSE Fold(Order[i - 1], f[i - 1], ds)
    <2>1. CASE i = n
      BY <2>1, <1>1
    <2>2. CASE i # n
      <3>1. i \in 2 .. 9 /\ i > n /\ i - 1 \in n .. 9
        BY <2>2
      <3> QED  BY <3>1, <2>2, <1>2
    <2> QED  BY <2>1, <2>2
  <1>4. f = [i \in n .. 9 |->
                IF i = n THEN st ELSE Fold(Order[i - 1], f[i - 1], ds)]
    BY <1>3
  <1> QED  BY <1>4 DEF Chain

\* What a replay returns: the checkpoints it keeps, then one fold after the
\* other, to the last decision.
LEMMA ReplayIs ==
    ASSUME NEW S, NEW tr \in Seq(S), NEW n \in 1 .. 8, n <= Len(tr), NEW ds
    PROVE  LET R == Replay(tr, n, ds)
           IN /\ Whole(R)
              /\ \A i \in 1 .. n : R[i] = tr[i]
              /\ \A i \in n .. 8 : R[i + 1] = Fold(Order[i], R[i], ds)
  <1> DEFINE after == CHOOSE f : Chain(f, n, tr[n], ds)
             T == {after[i] : i \in n .. 9} \cup S
             folded == [k \in 1 .. 9 - n |-> after[n + k]]
             R == SubSeq(tr, 1, n) \o folded
  <1>1. Chain(after, n, tr[n], ds)
    BY ChainExists
  <1> HIDE DEF after
  <1>2. after[n] = tr[n] /\ \A i \in n + 1 .. 9 : after[i] = Fold(Order[i - 1], after[i - 1], ds)
    BY <1>1 DEF Chain
  <1>3. folded \in Seq(T) /\ Len(folded) = 9 - n
    <2>1. 9 - n \in Nat /\ \A k \in 1 .. 9 - n : n + k \in n .. 9
      OBVIOUS
    <2>2. folded \in [1 .. 9 - n -> T]
      BY <2>1
    <2>3. folded \in Seq(T) /\ DOMAIN folded = 1 .. 9 - n
      BY <2>1, <2>2, SeqDef
    <2> QED  BY <2>1, <2>3
  <1>4. SubSeq(tr, 1, n) \in Seq(T) /\ Len(SubSeq(tr, 1, n)) = n
        /\ \A i \in 1 .. n : SubSeq(tr, 1, n)[i] = tr[i]
    OBVIOUS
  <1>5. R \in Seq(T) /\ Len(R) = 9
    BY <1>3, <1>4
  <1>6. \A i \in 1 .. n : R[i] = tr[i]
    BY <1>3, <1>4
  <1>7. \A i \in n .. 9 : R[i] = after[i]
    <2> TAKE i \in n .. 9
    <2>1. CASE i = n
      BY <2>1, <1>2, <1>6
    <2>2. CASE i # n
      <3>1. i - n \in 1 .. 9 - n /\ i = n + (i - n)
        BY <2>2
      <3>2. R[i] = folded[i - n]
        BY <3>1, <1>3, <1>4
      <3> QED  BY <3>1, <3>2
    <2> QED  BY <2>1, <2>2
  <1>8. \A i \in n .. 8 : R[i + 1] = Fold(Order[i], R[i], ds)
    <2> TAKE i \in n .. 8
    <2>1. i \in n .. 9 /\ i + 1 \in n .. 9 /\ i + 1 \in n + 1 .. 9 /\ (i + 1) - 1 = i
      OBVIOUS
    <2> HIDE DEF R
    <2> QED  BY <2>1, <1>7, <1>2
  <1>9. R = Replay(tr, n, ds)
    BY OrderIs DEF Replay, after, Chain
  <1>10. R \in Seq({R[i] : i \in DOMAIN R})
    <2> HIDE DEF R
    <2>1. DOMAIN R = 1 .. 9
      BY <1>5
    <2>2. R = [i \in 1 .. 9 |-> R[i]]
      BY <1>5, <2>1
    <2> DEFINE U == {R[i] : i \in DOMAIN R}
    <2>3. R \in [1 .. 9 -> U]
      BY <2>1, <2>2
    <2> HIDE DEF U
    <2>4. R \in Seq(U)
      BY <2>3, SeqDef
    <2> QED  BY <2>4 DEF U
  <1> HIDE DEF R
  <1>11. Whole(R)
    BY <1>5, <1>10 DEF Whole
  <1> QED  BY <1>6, <1>8, <1>9, <1>11

\* A whole trail from a start on, and the replay it ends in.
LEMMA FullTrailIs ==
    ASSUME NEW ds, NEW s
    PROVE  FullTrail(ds, s)[1] = Blank(s) /\ FoldsTo(FullTrail(ds, s), 8, ds)
  <1> DEFINE first == <<Blank(s)>>
  <1>1. first \in Seq({Blank(s)}) /\ Len(first) = 1 /\ first[1] = Blank(s)
    OBVIOUS
  <1> HIDE DEF first
  <1>2. FullTrail(ds, s) = Replay(first, 1, ds)
    BY DEF FullTrail, first
  <1>3. /\ Whole(Replay(first, 1, ds))
        /\ \A i \in 1 .. 1 : Replay(first, 1, ds)[i] = first[i]
        /\ \A i \in 1 .. 8 : Replay(first, 1, ds)[i + 1]
                = Fold(Order[i], Replay(first, 1, ds)[i], ds)
    <2>1. PICK S : first \in Seq(S)
      BY <1>1
    <2>2. 1 \in 1 .. 8 /\ 1 <= Len(first)
      BY <1>1
    <2> QED  BY <2>1, <2>2, ReplayIs
  <1> QED  BY <1>1, <1>2, <1>3 DEF FoldsTo

\* The trail of a start and a set of decisions is determined by them, up to
\* the place their folds reach.
LEMMA OneTrail ==
    ASSUME NEW tr, NEW tr2, NEW ds,
           FoldsTo(tr, 8, ds), FoldsTo(tr2, 8, ds), tr[1] = tr2[1]
    PROVE  Last(tr) = Last(tr2)
  <1>1. tr[2] = tr2[2]  BY DEF FoldsTo
  <1>2. tr[3] = tr2[3]  BY <1>1 DEF FoldsTo
  <1>3. tr[4] = tr2[4]  BY <1>2 DEF FoldsTo
  <1>4. tr[5] = tr2[5]  BY <1>3 DEF FoldsTo
  <1>5. tr[6] = tr2[6]  BY <1>4 DEF FoldsTo
  <1>6. tr[7] = tr2[7]  BY <1>5 DEF FoldsTo
  <1>7. tr[8] = tr2[8]  BY <1>6 DEF FoldsTo
  <1>8. tr[9] = tr2[9]  BY <1>7 DEF FoldsTo
  <1> QED  BY <1>8 DEF FoldsTo, Whole, Last

\* Every checkpoint of a trail from a start has the fields of the fold.
LEMMA TrailDomains ==
    ASSUME NEW tr, NEW ds, NEW s, FoldsTo(tr, 8, ds), tr[1] = Blank(s),
           NEW i \in 1 .. 9
    PROVE  DOMAIN tr[i] = Fields
  <1> USE OrderIs, FoldDomain DEF FoldsTo
  <1>1. DOMAIN tr[1] = Fields  BY DEF Blank, Fields
  <1>2. DOMAIN tr[2] = Fields  BY <1>1
  <1>3. DOMAIN tr[3] = Fields  BY <1>2
  <1>4. DOMAIN tr[4] = Fields  BY <1>3
  <1>5. DOMAIN tr[5] = Fields  BY <1>4
  <1>6. DOMAIN tr[6] = Fields  BY <1>5
  <1>7. DOMAIN tr[7] = Fields  BY <1>6
  <1>8. DOMAIN tr[8] = Fields  BY <1>7
  <1>9. DOMAIN tr[9] = Fields  BY <1>8
  <1>10. i = 1 \/ i = 2 \/ i = 3 \/ i = 4 \/ i = 5 \/ i = 6 \/ i = 7 \/ i = 8 \/ i = 9
    OBVIOUS
  <1> QED  BY <1>1, <1>2, <1>3, <1>4, <1>5, <1>6, <1>7, <1>8, <1>9, <1>10

\* The author's carve, recorded without a fold, leaves every other fold.
LEMMA CarveAlone ==
    ASSUME NEW ds, NEW ds2, NEW s, \A d \in Ids \ {"carve"} : ds2[d] = ds[d],
           NEW ch \in Fields \ {"carve"}
    PROVE  FullReplay(ds2, s)[ch] = FullReplay(ds, s)[ch]
  <1> DEFINE tr == FullTrail(ds, s)
             tr2 == FullTrail(ds2, s)
  <1>1. /\ FoldsTo(tr, 8, ds) /\ FoldsTo(tr2, 8, ds2)
        /\ tr[1] = Blank(s) /\ tr2[1] = Blank(s)
    BY FullTrailIs
  <1> HIDE DEF tr, tr2
  <1>2. \A i \in 1 .. 7 : \A st : Fold(Order[i], st, ds2) = Fold(Order[i], st, ds)
    BY FoldReads, OrderIs, IdsAre
  <1>3. tr2[2] = tr[2]  BY <1>1, <1>2 DEF FoldsTo
  <1>4. tr2[3] = tr[3]  BY <1>1, <1>2, <1>3 DEF FoldsTo
  <1>5. tr2[4] = tr[4]  BY <1>1, <1>2, <1>4 DEF FoldsTo
  <1>6. tr2[5] = tr[5]  BY <1>1, <1>2, <1>5 DEF FoldsTo
  <1>7. tr2[6] = tr[6]  BY <1>1, <1>2, <1>6 DEF FoldsTo
  <1>8. tr2[7] = tr[7]  BY <1>1, <1>2, <1>7 DEF FoldsTo
  <1>9. tr2[8] = tr[8]  BY <1>1, <1>2, <1>8 DEF FoldsTo
  <1>10. tr[9] = Fold("carve", tr[8], ds) /\ tr2[9] = Fold("carve", tr2[8], ds2)
    BY <1>1, OrderIs DEF FoldsTo
  <1>11. DOMAIN tr[8] = Fields
    BY <1>1, TrailDomains
  <1>12. tr2[9][ch] = tr[9][ch]
    BY <1>9, <1>10, <1>11, CarveFold
  <1>13. FullReplay(ds, s) = tr[9] /\ FullReplay(ds2, s) = tr2[9]
    BY <1>1 DEF FoldsTo, Whole, FullReplay, Last, tr, tr2
  <1> QED  BY <1>12, <1>13

\* What is installed is what was replayed, but for channels never written.
LEMMA InstallIs ==
    ASSUME NEW wc, NEW st, DOMAIN st = Fields
    PROVE  /\ DOMAIN Install(wc, st) = Fields
           /\ \A ch \in DOMAIN st : \/ ch \in Channels /\ st[ch] = None
                                    \/ Install(wc, st)[ch] = st[ch]
  BY DEF Install

-----------------------------------------------------------------------------
(* The handlers' effect on the decisions.                                   *)

\* None is nothing a decision holds.
LEMMA NoneIsNoValue ==
    /\ None \notin Bases /\ None \notin Answers /\ None \notin Records
    /\ None \notin {"own", "confirm", "edit", "bullets", "letters", "carve", ""}
  BY ReplayAssumption DEF Values

\* A new record is one, and not set aside.
LEMMA RecordIs ==
    ASSUME NEW v \in Values, NEW p \in {"extracted", "default", "asked"}
    PROVE  /\ Record(v, p) \in Records /\ Record(v, p) # None
           /\ Record(v, p).value = v /\ Record(v, p).prov = p
           /\ ~ Record(v, p).inactive
  <1>1. Record(v, p) \in Records
    BY DEF Record, Records
  <1> QED  BY <1>1, NoneIsNoValue DEF Record

\* What may be looked up or extracted.
\* A starting point gives the welcome paragraph and the holder.
LEMMA ExtractIs ==
    ASSUME NEW d \in Ids, NEW s \in Starts
    PROVE  /\ Extract(d, s) \in Values \cup {None}
           /\ Extract(d, s) # None => d \in {"welcome", "holder"}
  BY IdsAre DEF Extract, Starts, Values

\* The gate and the contact have defaults.
LEMMA LookupDefaultIs ==
    ASSUME NEW d \in Ids, NEW ds, Typed(ds)
    PROVE  /\ LookupDefault(d, ds) \in Values \cup {None}
           /\ LookupDefault(d, ds) # None => d \in {"entry", "contact"}
           /\ LookupDefault("entry", ds) = "confirm"
  BY IdsAre DEF LookupDefault, Typed, Values, Records

\* Nothing but the bullets is ever behind a gate.
LEMMA GatesAre ==
    ASSUME NEW d \in Ids \ {"bullets"}, NEW ds
    PROVE  Active(d, ds)
  BY DEF Active

\* What a change can have recalculated.
LEMMA ClosureIs ==
    ASSUME NEW changed \in SUBSET Ids
    PROVE  /\ "bullets" \in Closure(changed) <=> "entry" \in changed
           /\ Closure(changed) \subseteq {"bullets", "holder"}
  BY IdsAre DEF Closure, Requires

\* The extraction pass: it writes proposals, and none behind the gate.
LEMMA ExtractedKeeps ==
    ASSUME NEW ds, Sound(ds), Gated(ds), NEW s \in Starts
    PROVE  LET ds2 == Extracted(ds, s)
           IN /\ Sound(ds2) /\ Gated(ds2)
              /\ ds2["letters"] = ds["letters"]
  <1> DEFINE ds2 == Extracted(ds, s)
             Open(d) == /\ ds[d] = None \/ Seeded(ds[d])
                        /\ Active(d, ds) /\ SeedWhen(d, s)
  <1>1. \A d \in Ids :
            ds2[d] = IF Open(d) /\ Extract(d, s) # None
                     THEN Record(Extract(d, s), "extracted")
                     ELSE IF Open(d) /\ LookupDefault(d, ds) # None
                     THEN Record(LookupDefault(d, ds), "default")
                     ELSE ds[d]
    BY DEF Extracted
  <1>2. ds2 = [d \in Ids |-> ds2[d]]
    BY DEF Extracted
  <1> HIDE DEF ds2
  <1>3. ASSUME NEW d \in Ids
        PROVE  /\ ds2[d] \in Records \cup {None}
               /\ \/ ds2[d] = ds[d]
                  \/ /\ ds2[d] # None /\ ~ ds2[d].inactive
                     /\ d \in {"welcome", "holder", "entry", "contact"}
    <2>1. ds[d] \in Records \cup {None}
      BY DEF Sound, Typed
    <2>2. CASE Open(d) /\ Extract(d, s) # None
      <3>1. ds2[d] = Record(Extract(d, s), "extracted") /\ Extract(d, s) \in Values
        BY <1>1, <2>2, ExtractIs
      <3>2. d \in {"welcome", "holder"}
        BY <2>2, ExtractIs
      <3> QED  BY <3>1, <3>2, RecordIs
    <2>3. CASE ~ (Open(d) /\ Extract(d, s) # None) /\ Open(d) /\ LookupDefault(d, ds) # None
      <3>1. /\ ds2[d] = Record(LookupDefault(d, ds), "default")
            /\ LookupDefault(d, ds) \in Values
        BY <1>1, <2>3, LookupDefaultIs DEF Sound
      <3>2. d \in {"entry", "contact"}
        BY <2>3, LookupDefaultIs DEF Sound
      <3> QED  BY <3>1, <3>2, RecordIs
    <2>4. CASE ~ (Open(d) /\ Extract(d, s) # None)
               /\ ~ (Open(d) /\ LookupDefault(d, ds) # None)
      <3>1. ds2[d] = ds[d]
        BY <1>1, <2>4
      <3> QED  BY <3>1, <2>1
    <2> QED  BY <2>2, <2>3, <2>4
  <1>4. ds2["bullets"] = ds["bullets"] /\ ds2["letters"] = ds["letters"]
    BY <1>3, IdsAre
  <1>5. \/ ds2["entry"] = ds["entry"]
        \/ /\ ds2["entry"] = Record("confirm", "default")
           /\ ds["entry"] = None \/ Seeded(ds["entry"])
    <2>1. "entry" \in Ids
      BY IdsAre
    <2>2. Extract("entry", s) = None /\ LookupDefault("entry", ds) = "confirm"
      BY <2>1, ExtractIs, LookupDefaultIs DEF Sound
    <2> QED  BY <1>1, <2>1, <2>2
  <1>6. Record("confirm", "default") # None
        /\ Record("confirm", "default").value = "confirm"
        /\ Record("confirm", "default").prov = "default"
    BY RecordIs DEF Values
  <1>7. Sound(ds2)
    <2>1. Typed(ds2)
      BY <1>2, <1>3 DEF Typed
    <2>2. OthersActive(ds2)
      BY <1>3 DEF OthersActive, Sound
    <2>3. GateValue(ds2)
      BY <1>5, <1>6 DEF GateValue, Sound
    <2>4. BulletsAsked(ds2)
      BY <1>4 DEF BulletsAsked, Sound
    <2> QED  BY <2>1, <2>2, <2>3, <2>4 DEF Sound
  <1>8. Active("bullets", ds2) <=> Active("bullets", ds)
    <2>1. CASE ds2["entry"] = ds["entry"]
      BY <2>1 DEF Active
    <2>2. CASE ds2["entry"] # ds["entry"]
      <3>1. ~ Active("bullets", ds2)
        BY <2>2, <1>5, <1>6 DEF Active
      <3>2. ~ Active("bullets", ds)
        BY <2>2, <1>5 DEF Active, Sound, GateValue, Seeded
      <3> QED  BY <3>1, <3>2
    <2> QED  BY <2>1, <2>2
  <1>9. Gated(ds2)
    BY <1>4, <1>8 DEF Gated
  <1> QED  BY <1>4, <1>7, <1>9 DEF ds2

\* One record recalculated: outside the gate only its value can change, and
\* behind the gate only its flag.
LEMMA RevisitedIs ==
    ASSUME NEW ds, Sound(ds), NEW s \in Starts, NEW d \in Ids, ds[d] # None
    PROVE  LET r == Revisited(d, ds, s)
           IN /\ r \in Records /\ r # None /\ r.prov = ds[d].prov
              /\ d # "bullets" => ~ r.inactive
              /\ d = "entry" /\ ds["entry"].prov = "default" => r.value = "confirm"
              /\ d = "entry" /\ ds["entry"].prov = "asked" => r = ds["entry"]
              /\ d = "bullets" => /\ r.value = "bullets"
                                  /\ r.inactive <=> ~ Active("bullets", ds)
  <1> DEFINE r == ds[d]
             fresh == IF r.prov = "extracted" THEN Extract(d, s)
                      ELSE IF r.prov = "default" THEN LookupDefault(d, ds)
                      ELSE None
             r2 == Revisited(d, ds, s)
  <1>1. r \in Records
    BY DEF Sound, Typed
  <1>2. fresh \in Values \cup {None}
    BY ExtractIs, LookupDefaultIs DEF Sound
  <1>3. r2 = IF ~ Active(d, ds) THEN [r EXCEPT !.inactive = TRUE]
             ELSE IF r.inactive THEN [r EXCEPT !.inactive = FALSE]
             ELSE IF fresh # None THEN [r EXCEPT !.value = fresh]
             ELSE r
    BY DEF Revisited
  <1> HIDE DEF r2
  <1>4. r2 \in Records /\ r2.prov = r.prov
    <2> HIDE DEF r, fresh
    <2> QED  BY <1>1, <1>2, <1>3 DEF Records
  <1>5. CASE d # "bullets"
    <2>1. Active(d, ds) /\ ~ r.inactive
      BY <1>5, GatesAre DEF Sound, OthersActive
    <2>2. r2 = IF fresh # None THEN [r EXCEPT !.value = fresh] ELSE r
      BY <1>3, <2>1
    <2>3. ~ r2.inactive
      <3> HIDE DEF r, fresh
      <3> QED  BY <1>1, <2>1, <2>2 DEF Records
    <2>4. ASSUME d = "entry", r.prov = "default"
          PROVE  r2.value = "confirm"
      <3>1. fresh = "confirm" /\ fresh # None
        BY <2>4, LookupDefaultIs, NoneIsNoValue DEF Sound
      <3> HIDE DEF r, fresh
      <3> QED  BY <1>1, <2>2, <3>1 DEF Records
    <2>5. ASSUME d = "entry", r.prov = "asked"
          PROVE  r2 = r
      BY <2>2, <2>5
    <2> QED  BY <1>4, <1>5, <2>3, <2>4, <2>5, NoneIsNoValue DEF r2
  <1>6. CASE d = "bullets"
    <2>1. r.value = "bullets" /\ r.prov = "asked" /\ fresh = None
      BY <1>6 DEF Sound, BulletsAsked
    <2>2. r2 = IF ~ Active(d, ds) THEN [r EXCEPT !.inactive = TRUE]
               ELSE IF r.inactive THEN [r EXCEPT !.inactive = FALSE]
               ELSE r
      BY <1>3, <2>1
    <2>3. r2.value = "bullets"
      <3> HIDE DEF r, fresh
      <3> QED  BY <1>1, <2>1, <2>2 DEF Records
    <2>4. r.inactive \in BOOLEAN
      BY <1>1 DEF Records
    <2>5. Active(d, ds) \in BOOLEAN
      BY DEF Active
    <2>6. r2.inactive <=> ~ Active(d, ds)
      <3> HIDE DEF r, fresh
      <3> QED  BY <1>1, <2>2, <2>4, <2>5 DEF Records
    <2> QED  BY <1>4, <1>6, <2>3, <2>6, NoneIsNoValue DEF r2
  <1> QED  BY <1>5, <1>6

\* Recalculation puts the flag right wherever the gate may have moved, and
\* touches nothing else than the bullets and the holder unless it visits all.
LEMMA RecalculatedKeeps ==
    ASSUME NEW ds, Sound(ds), NEW s \in Starts, NEW changed \in SUBSET Ids,
           NEW visitAll \in BOOLEAN,
           \/ Gated(ds)
           \/ "bullets" \notin changed /\ (visitAll \/ "entry" \in changed)
    PROVE  LET ds2 == Recalculated(ds, s, changed, visitAll)
           IN /\ Sound(ds2) /\ Gated(ds2)
              /\ ~ visitAll => \A d \in Ids \ {"bullets", "holder"} : ds2[d] = ds[d]
  <1> DEFINE ds2 == Recalculated(ds, s, changed, visitAll)
  <1>1. \A d \in Ids :
            ds2[d] = IF Visited(d, ds, changed, visitAll)
                     THEN Revisited(d, ds, s) ELSE ds[d]
    BY DEF Recalculated
  <1>2. ds2 = [d \in Ids |-> ds2[d]]
    BY DEF Recalculated
  <1> HIDE DEF ds2
  <1>3. \A d \in Ids : Visited(d, ds, changed, visitAll) => ds[d] # None
    BY DEF Visited
  <1>4. Typed(ds2)
    <2>1. \A d \in Ids : ds2[d] \in Records \cup {None}
      BY <1>1, <1>3, RevisitedIs DEF Sound, Typed
    <2> QED  BY <1>2, <2>1 DEF Typed
  <1>5. OthersActive(ds2)
    BY <1>1, <1>3, RevisitedIs DEF Sound, OthersActive
  <1>6. /\ GateValue(ds2)
        /\ ds2["entry"] = None <=> ds["entry"] = None
        /\ ds["entry"] # None => ds2["entry"].value = ds["entry"].value
    <2>1. "entry" \in Ids
      BY IdsAre
    <2>2. CASE Visited("entry", ds, changed, visitAll)
      <3>1. ds2["entry"] = Revisited("entry", ds, s) /\ ds["entry"] # None
        BY <1>1, <1>3, <2>1, <2>2
      <3> QED  BY <2>1, <3>1, RevisitedIs DEF Sound, GateValue
    <2>3. CASE ~ Visited("entry", ds, changed, visitAll)
      <3>1. ds2["entry"] = ds["entry"]
        BY <1>1, <2>1, <2>3
      <3> QED  BY <3>1 DEF Sound, GateValue
    <2> QED  BY <2>2, <2>3
  <1>7. Active("bullets", ds2) <=> Active("bullets", ds)
    BY <1>6 DEF Active
  <1>8. BulletsAsked(ds2) /\ Gated(ds2)
    <2>1. "bullets" \in Ids
      BY IdsAre
    <2>2. CASE Visited("bullets", ds, changed, visitAll)
      <3>1. ds2["bullets"] = Revisited("bullets", ds, s) /\ ds["bullets"] # None
        BY <1>1, <1>3, <2>1, <2>2
      <3> QED  BY <2>1, <3>1, <1>7, RevisitedIs DEF Sound, BulletsAsked, Gated
    <2>3. CASE ~ Visited("bullets", ds, changed, visitAll)
      <3>1. ds2["bullets"] = ds["bullets"]
        BY <1>1, <2>1, <2>3
      <3>2. ds["bullets"] # None => Gated(ds)
        BY <2>3, ClosureIs DEF Visited
      <3> QED  BY <3>1, <3>2, <1>7 DEF Sound, BulletsAsked, Gated
    <2> QED  BY <2>2, <2>3
  <1>9. ASSUME ~ visitAll, NEW d \in Ids \ {"bullets", "holder"}
        PROVE  ds2[d] = ds[d]
    <2>1. ~ Visited(d, ds, changed, visitAll)
      BY <1>9, ClosureIs DEF Visited, Sound, OthersActive
    <2> QED  BY <1>1, <2>1
  <1> QED  BY <1>4, <1>5, <1>6, <1>8, <1>9 DEF Sound, ds2

\* What a step can be answered with.
Answerable(ans) ==
    /\ DOMAIN ans \subseteq Ids /\ DOMAIN ans # {}
    /\ \A d \in DOMAIN ans : ans[d] \in Values
    /\ "entry" \in DOMAIN ans => ans["entry"] \in {"confirm", "edit"}
    /\ "bullets" \in DOMAIN ans =>
           /\ "entry" \in DOMAIN ans /\ ans["entry"] = "edit"
           /\ ans["bullets"] = "bullets"
    /\ "contact" \in DOMAIN ans => "welcome" \in DOMAIN ans

\* Recording answers, before the flag is put right.
LEMMA AnsweredKeeps ==
    ASSUME NEW ds, Sound(ds), Gated(ds), NEW ans, Answerable(ans)
    PROVE  LET ds2 == Answered(ds, ans)
           IN /\ Sound(ds2)
              /\ Gated(ds2) \/ ("bullets" \notin DOMAIN ans /\ "entry" \in DOMAIN ans)
              /\ \A d \in Ids \ DOMAIN ans : ds2[d] = ds[d]
  <1> DEFINE ds2 == Answered(ds, ans)
             P(d) == IF Seeded(ds[d]) /\ ds[d].value = ans[d]
                     THEN "default" ELSE "asked"
  <1>1. \A d \in Ids : ds2[d] = IF d \notin DOMAIN ans THEN ds[d]
                                ELSE Record(ans[d], P(d))
    BY DEF Answered
  <1>2. ds2 = [d \in Ids |-> ds2[d]]
    BY DEF Answered
  <1> HIDE DEF ds2
  <1>3. \A d \in Ids : P(d) \in {"extracted", "default", "asked"}
    OBVIOUS
  <1>4. ASSUME NEW d \in DOMAIN ans
        PROVE  /\ ds2[d] \in Records /\ ds2[d] # None /\ ~ ds2[d].inactive
               /\ ds2[d].value = ans[d] /\ ds2[d].prov = P(d)
    <2>1. d \in Ids /\ ans[d] \in Values
      BY DEF Answerable
    <2>2. ds2[d] = Record(ans[d], P(d))
      BY <1>1, <2>1
    <2> HIDE DEF P
    <2> QED  BY <1>3, <2>1, <2>2, RecordIs
  <1>5. \A d \in Ids \ DOMAIN ans : ds2[d] = ds[d]
    BY <1>1
  <1>6. Typed(ds2)
    <2>1. \A d \in Ids : ds2[d] \in Records \cup {None}
      BY <1>4, <1>5 DEF Sound, Typed
    <2> QED  BY <1>2, <2>1 DEF Typed
  <1>7. OthersActive(ds2)
    BY <1>4, <1>5 DEF Sound, OthersActive
  <1>8. GateValue(ds2)
    <2>1. CASE "entry" \in DOMAIN ans
      <3>1. ds2["entry"].value = ans["entry"] /\ ds2["entry"].prov = P("entry")
        BY <1>4, <2>1
      <3>2. P("entry") \in {"asked", "default"}
        OBVIOUS
      <3>3. P("entry") = "default" => ans["entry"] = "confirm"
        BY DEF Sound, GateValue, Seeded
      <3> HIDE DEF P
      <3> QED  BY <3>1, <3>2, <3>3 DEF GateValue
    <2>2. CASE "entry" \notin DOMAIN ans
      BY <2>2, <1>5, IdsAre DEF Sound, GateValue
    <2> QED  BY <2>1, <2>2
  <1>9. BulletsAsked(ds2)
    <2>1. CASE "bullets" \in DOMAIN ans
      <3>1. P("bullets") = "asked"
        BY DEF Sound, BulletsAsked, Seeded
      <3> HIDE DEF P
      <3> QED  BY <1>4, <2>1, <3>1 DEF Answerable, BulletsAsked
    <2>2. CASE "bullets" \notin DOMAIN ans
      BY <2>2, <1>5, IdsAre DEF Sound, BulletsAsked
    <2> QED  BY <2>1, <2>2
  <1>10. Gated(ds2) \/ ("bullets" \notin DOMAIN ans /\ "entry" \in DOMAIN ans)
    <2>1. CASE "bullets" \in DOMAIN ans
      <3>1. ds2["entry"] # None /\ ds2["entry"].value = "edit"
        BY <1>4, <2>1 DEF Answerable
      <3>2. Active("bullets", ds2)
        BY <3>1 DEF Active
      <3>3. ~ ds2["bullets"].inactive
        BY <1>4, <2>1
      <3>4. Gated(ds2)
        BY <3>2, <3>3 DEF Gated
      <3> QED  BY <3>4
    <2>2. CASE "bullets" \notin DOMAIN ans /\ "entry" \notin DOMAIN ans
      <3>1. ds2["bullets"] = ds["bullets"] /\ ds2["entry"] = ds["entry"]
        BY <1>5, <2>2, IdsAre
      <3>2. Active("bullets", ds2) <=> Active("bullets", ds)
        BY <3>1 DEF Active
      <3>3. Gated(ds2)
        BY <3>1, <3>2 DEF Gated
      <3> QED  BY <3>3
    <2> QED  BY <2>1, <2>2
  <1> QED  BY <1>5, <1>6, <1>7, <1>8, <1>9, <1>10 DEF Sound, ds2

-----------------------------------------------------------------------------
(* The handlers.                                                            *)

\* Installing a whole fold.
LEMMA InstalledFrom ==
    ASSUME NEW tr, NEW ds, NEW s, NEW wc, NEW cp,
           FoldsTo(tr, 8, ds), tr[1] = Blank(s), cp = Install(wc, Last(tr))
    PROVE  Shows(cp, ds, s)
  <1>1. Last(tr) = FullReplay(ds, s)
    BY FullTrailIs, OneTrail DEF FullReplay
  <1>2. Last(tr) = tr[9]
    BY DEF FoldsTo, Whole, Last
  <1>3. DOMAIN Last(tr) = Fields
    BY <1>2, TrailDomains
  <1> QED  BY <1>1, <1>3, InstallIs DEF Shows

\* A whole trail is one up to any place.
LEMMA FewerFolds ==
    ASSUME NEW tr, NEW ds, FoldsTo(tr, 8, ds)
    PROVE  FoldsTo(tr, 1, ds) /\ FoldsTo(tr, 7, ds)
  BY DEF FoldsTo

\* Another starting point: every fold is made again.
LEMMA RebuildForStartKeeps ==
    ASSUME ReplayInv, NEW ds, Sound(ds), Gated(ds), NEW wc,
           start' \in Starts, RebuildForStart(ds, start', wc)
    PROVE  ReplayInv'
  <1>1. Sound(decisions') /\ Gated(decisions')
    BY RecalculatedKeeps DEF RebuildForStart
  <1>2. FoldsTo(trail', 8, decisions') /\ trail'[1] = Blank(start')
    BY FullTrailIs DEF RebuildForStart
  <1>3. copy' = Install(wc, Last(trail'))
    BY DEF RebuildForStart
  <1>4. CopyInv'
    BY <1>2, <1>3, InstalledFrom DEF CopyInv
  <1>5. TrailInv'
    BY <1>2, FewerFolds DEF TrailInv
  <1> QED  BY <1>1, <1>4, <1>5 DEF ReplayInv, DecisionInv

\* Answers recorded: whether the rebuild resumes or not, the trail stands for
\* the decisions as far as it has to.
LEMMA CompleteKeeps ==
    ASSUME ReplayInv, NEW ans, Answerable(ans), Complete(ans)
    PROVE  ReplayInv'
  <1> DEFINE ds == Answered(decisions, ans)
             touched == Touched(ds, decisions', DOMAIN ans)
             r == ResumeIndex(touched)
             wc == Effects(copy, ds, DOMAIN ans)
  <1>1. /\ start \in Starts /\ start # None /\ start' = start
        /\ Sound(decisions) /\ Gated(decisions)
    BY DEF Complete, ReplayInv, DecisionInv
  <1>2. Rebuild(ds, wc, DOMAIN ans)
    BY DEF Complete
  <1>3. DOMAIN ans \in SUBSET Ids
    BY DEF Answerable
  <1>4. /\ Sound(ds)
        /\ Gated(ds) \/ ("bullets" \notin DOMAIN ans /\ "entry" \in DOMAIN ans)
        /\ \A d \in Ids \ DOMAIN ans : ds[d] = decisions[d]
    BY <1>1, AnsweredKeeps
  <1> HIDE DEF ds, wc
  <1>5. /\ Sound(decisions') /\ Gated(decisions')
        /\ \A d \in Ids \ {"bullets", "holder"} : decisions'[d] = ds[d]
    BY <1>1, <1>2, <1>3, <1>4, RecalculatedKeeps DEF Rebuild
  <1>6. touched \in SUBSET Ids /\ touched # {}
    BY <1>3 DEF Answerable, Touched
  <1>7. \A d \in Ids \ touched : decisions'[d] = decisions[d]
    BY <1>4 DEF Touched
  <1>8. "contact" \in touched => "welcome" \in touched
    BY <1>5, IdsAre DEF Touched, Answerable
  <1>9. /\ trail' = Resumed(SessionTrail, decisions', start, touched)
        /\ settled' = \/ settled
                      \/ ~ Usable(SessionTrail, touched)
                      \/ r < Position("welcome")
        /\ copy' = Install(wc, Last(trail'))
    BY <1>2 DEF Rebuild
  <1>10. r \in 0 .. 7 /\ \A d \in touched : r < Position(d)
    BY <1>6, ResumeIndexIs
  <1> HIDE DEF touched, r
  <1>11. /\ trail'[1] = Blank(start) /\ FoldsTo(trail', 1, decisions')
         /\ settled' => FoldsTo(trail', 8, decisions')
    <2>1. CASE ~ Usable(SessionTrail, touched)
      <3>1. trail' = FullTrail(decisions', start)
        BY <1>9, <2>1 DEF Resumed
      <3> QED  BY <3>1, FullTrailIs, FewerFolds
    <2>2. CASE Usable(SessionTrail, touched)
      <3>1. r \in 1 .. 7 /\ Len(SessionTrail) = 9
        BY <1>10, <2>2, OrderIs DEF Usable, r
      <3>2. SessionTrail = trail /\ trailOurs /\ trail # <<>>
        BY <3>1 DEF SessionTrail
      <3>3. trail' = Replay(trail, r + 1, decisions')
        BY <1>9, <2>2, <3>2 DEF Resumed, r
      <3> DEFINE m == IF settled THEN 7 ELSE 1
      <3>4. trail[1] = Blank(start) /\ FoldsTo(trail, m, decisions)
        BY <3>2 DEF ReplayInv, TrailInv
      <3>5. /\ Whole(trail')
            /\ \A i \in 1 .. r + 1 : trail'[i] = trail[i]
            /\ \A i \in r + 1 .. 8 :
                  trail'[i + 1] = Fold(Order[i], trail'[i], decisions')
        <4>1. r + 1 \in 1 .. 8 /\ r + 1 <= Len(trail)
          <5>1. Len(trail) = 9
            BY <3>1, <3>2
          <5> QED  BY <5>1, <3>1
        <4>2. PICK S : trail \in Seq(S)
          BY <3>4 DEF FoldsTo, Whole
        <4> QED  BY <3>3, <4>1, <4>2, ReplayIs
      <3>6. \A i \in 1 .. r : Order[i] \in Ids \ touched
        <4> TAKE i \in 1 .. r
        <4>1. i \in 1 .. 8 /\ i <= r
          BY <3>1
        <4>2. Position(Order[i]) = i /\ Order[i] \in Ids
          BY <4>1, PositionIs, OrderIs
        <4> QED  BY <4>1, <4>2, <1>10, <3>1
      <3>7. \A i \in 1 .. r : \A st :
                Fold(Order[i], st, decisions') = Fold(Order[i], st, decisions)
        <4> TAKE i \in 1 .. r
        <4> TAKE st
        <4>1. i \in 1 .. 8 /\ Order[i] \in Ids \ touched
          BY <3>1, <3>6
        <4>2. Order[i] = "welcome" => decisions'["contact"] = decisions["contact"]
          BY <4>1, <1>7, <1>8, IdsAre
        <4>3. Order[i] = "holder" => decisions'["author"] = decisions["author"]
          <5>1. SUFFICES ASSUME i = 7 PROVE decisions'["author"] = decisions["author"]
            BY <4>1, OrderIs
          <5>2. 6 \in 1 .. r
            BY <5>1, <3>1
          <5> QED  BY <5>2, <3>6, <1>7, OrderIs
        <4> QED  BY <4>1, <4>2, <4>3, <1>7, FoldReads
      <3>8. \A i \in 1 .. r : i <= m =>
                trail'[i + 1] = Fold(Order[i], trail'[i], decisions')
        <4> TAKE i \in 1 .. r
        <4> HAVE i <= m
        <4>1. i \in 1 .. m /\ i \in 1 .. r + 1 /\ i + 1 \in 1 .. r + 1
          BY <3>1
        <4> HIDE DEF m
        <4>2. trail[i + 1] = Fold(Order[i], trail[i], decisions)
          BY <4>1, <3>4 DEF FoldsTo
        <4> QED  BY <4>1, <4>2, <3>5, <3>7
      <3>9. FoldsTo(trail', 1, decisions')
        BY <3>1, <3>5, <3>8 DEF FoldsTo
      <3>10. ASSUME settled' PROVE FoldsTo(trail', 8, decisions')
        <4>1. settled \/ r = 1
          <5>1. settled \/ r < Position("welcome")
            BY <3>10, <1>9, <2>2
          <5> QED  BY <5>1, <3>1, WelcomeIsSecond
        <4>2. \A i \in 1 .. 8 : i \in r + 1 .. 8 \/ (i \in 1 .. r /\ i <= m)
          BY <4>1, <3>1
        <4> HIDE DEF m
        <4> QED  BY <4>2, <3>5, <3>8 DEF FoldsTo
      <3> QED  BY <3>1, <3>4, <3>5, <3>9, <3>10
    <2> QED  BY <2>1, <2>2
  <1>12. TrailInv'
    BY <1>1, <1>11, FewerFolds DEF TrailInv
  <1>13. CopyInv'
    <2>1. SUFFICES ASSUME settled' PROVE Shows(copy', decisions', start')
      BY <1>1 DEF CopyInv
    <2>2. FoldsTo(trail', 8, decisions') /\ trail'[1] = Blank(start')
      BY <2>1, <1>1, <1>11
    <2> QED  BY <1>9, <2>2, InstalledFrom
  <1> QED  BY <1>1, <1>5, <1>12, <1>13 DEF ReplayInv, DecisionInv

\* A text question is left with something a decision can hold.
LEMMA TextsAre ==
    ASSUME ReplayInv, NEW d \in Ids
    PROVE  Texts(d) \subseteq Values
  <1>1. Seeded(decisions[d]) => decisions[d] \in Records
    BY DEF ReplayInv, DecisionInv, Sound, Typed, Seeded
  <1> QED  BY <1>1 DEF Texts, Records, Values

\* The three steps of questions, each an instance of CompleteKeeps.
LEMMA CompleteCharactersKeeps ==
    ASSUME ReplayInv, CompleteCharacters
    PROVE  ReplayInv'
  <1> DEFINE ans == [letters |-> "letters"]
  <1>1. Answerable(ans)
    <2>1. DOMAIN ans = {"letters"} /\ ans["letters"] \in Values
      BY DEF Values
    <2> HIDE DEF ans
    <2> QED  BY <2>1, IdsAre DEF Answerable
  <1> QED  BY <1>1, CompleteKeeps DEF CompleteCharacters

LEMMA CompleteHelpKeeps ==
    ASSUME ReplayInv, CompleteHelp
    PROVE  ReplayInv'
  <1>1. PICK w \in Texts("welcome") \cup (IF start.mode = "adapt" THEN {""} ELSE {}),
             e \in {"confirm", "edit", None}, b \in {"bullets", None},
             c \in Texts("contact") \cup {None} :
               /\ b # None => e = "edit"
               /\ Complete(Given([welcome |-> w, entry |-> e, bullets |-> b,
                                  contact |-> c]))
    BY DEF CompleteHelp
  <1> DEFINE f == [welcome |-> w, entry |-> e, bullets |-> b, contact |-> c]
             ans == Given(f)
  <1>2. w \in Values /\ c \in Values \cup {None}
    BY TextsAre, IdsAre DEF Values
  <1>3. DOMAIN f = {"welcome", "entry", "bullets", "contact"}
    OBVIOUS
  <1>4. /\ DOMAIN ans = {d \in {"welcome", "entry", "bullets", "contact"} : f[d] # None}
        /\ \A d \in DOMAIN ans : ans[d] = f[d]
    BY <1>3 DEF Given
  <1>5. w # None
    BY <1>2, ReplayAssumption
  <1>6. Answerable(ans)
    <2>1. DOMAIN ans \subseteq Ids /\ "welcome" \in DOMAIN ans
      BY <1>4, <1>5, IdsAre
    <2>2. \A d \in DOMAIN ans : ans[d] \in Values
      <3>1. e \in Values \cup {None} /\ b \in Values \cup {None}
        BY DEF Values
      <3>2. \A d \in {"welcome", "entry", "bullets", "contact"} :
                f[d] \in Values \cup {None}
        <4>1. f["welcome"] = w /\ f["entry"] = e /\ f["bullets"] = b /\ f["contact"] = c
          OBVIOUS
        <4> HIDE DEF f
        <4> QED  BY <4>1, <1>2, <3>1
      <3> HIDE DEF f
      <3> QED  BY <1>4, <3>2
    <2>3. "entry" \in DOMAIN ans => ans["entry"] \in {"confirm", "edit"}
      BY <1>4
    <2>4. "bullets" \in DOMAIN ans =>
              /\ "entry" \in DOMAIN ans /\ ans["entry"] = "edit"
              /\ ans["bullets"] = "bullets"
      BY <1>1, <1>4, NoneIsNoValue
    <2> HIDE DEF ans
    <2> QED  BY <2>1, <2>2, <2>3, <2>4 DEF Answerable
  <1> QED  BY <1>1, <1>6, CompleteKeeps

LEMMA CompleteAttributionKeeps ==
    ASSUME ReplayInv, CompleteAttribution
    PROVE  ReplayInv'
  <1>1. PICK a \in Answers, h \in Texts("holder") \cup {None} :
               Complete(Given([author |-> a, holder |-> h]))
    BY DEF CompleteAttribution
  <1> DEFINE f == [author |-> a, holder |-> h]
             ans == Given(f)
  <1>2. a \in Values /\ h \in Values \cup {None}
    BY TextsAre, IdsAre DEF Values
  <1>3. DOMAIN f = {"author", "holder"}
    OBVIOUS
  <1>4. /\ DOMAIN ans = {d \in {"author", "holder"} : f[d] # None}
        /\ \A d \in DOMAIN ans : ans[d] = f[d]
    BY <1>3 DEF Given
  <1>5. a # None
    BY <1>2, ReplayAssumption
  <1>6. Answerable(ans)
    <2>1. DOMAIN ans \subseteq Ids /\ "author" \in DOMAIN ans
      BY <1>4, <1>5, IdsAre
    <2>2. \A d \in DOMAIN ans : ans[d] \in Values
      BY <1>2, <1>4
    <2>3. /\ "entry" \notin DOMAIN ans /\ "bullets" \notin DOMAIN ans
          /\ "contact" \notin DOMAIN ans
      BY <1>4
    <2> HIDE DEF ans
    <2> QED  BY <2>1, <2>2, <2>3 DEF Answerable
  <1> QED  BY <1>1, <1>6, CompleteKeeps

\* A carve recorded without a fold: it comes last, and the working copy has
\* it already.
LEMMA CompleteCarveKeeps ==
    ASSUME ReplayInv, CompleteCarve
    PROVE  ReplayInv'
  <1>1. /\ decisions' = [decisions EXCEPT !["carve"] = Record("carve", "asked")]
        /\ copy' = [copy EXCEPT !.carve = "carve"]
        /\ start' = start /\ trail' = trail /\ trailOurs' = trailOurs
        /\ settled' = settled
    BY DEF CompleteCarve
  <1>2. Sound(decisions) /\ Gated(decisions) /\ (start # None => start \in Starts)
    BY DEF ReplayInv, DecisionInv
  <1>3. /\ Record("carve", "asked") \in Records /\ Record("carve", "asked") # None
        /\ ~ Record("carve", "asked").inactive
        /\ Record("carve", "asked").value = "carve"
    BY RecordIs DEF Values
  <1>4. /\ decisions'["carve"] = Record("carve", "asked")
        /\ \A d \in Ids \ {"carve"} : decisions'[d] = decisions[d]
        /\ decisions' \in [Ids -> Records \cup {None}]
    BY <1>1, <1>2, <1>3, IdsAre DEF Sound, Typed
  <1>5. DecisionInv'
    <2>1. decisions'["bullets"] = decisions["bullets"] /\ decisions'["entry"] = decisions["entry"]
      BY <1>4, IdsAre
    <2>2. Typed(decisions') /\ OthersActive(decisions')
      BY <1>2, <1>3, <1>4 DEF Typed, OthersActive, Sound
    <2>3. GateValue(decisions') /\ BulletsAsked(decisions')
      BY <1>2, <2>1 DEF GateValue, BulletsAsked, Sound
    <2>4. Gated(decisions')
      BY <1>2, <2>1 DEF Gated, Active
    <2> QED  BY <1>1, <1>2, <2>2, <2>3, <2>4 DEF DecisionInv, Sound
  <1>6. \A i \in 1 .. 7 : \A st :
            Fold(Order[i], st, decisions') = Fold(Order[i], st, decisions)
    BY <1>4, FoldReads, OrderIs, IdsAre
  <1>7. TrailInv'
    <2> DEFINE m == IF settled THEN 7 ELSE 1
    <2>1. SUFFICES ASSUME trailOurs, trail # <<>>
                   PROVE  trail[1] = Blank(start) /\ FoldsTo(trail, m, decisions')
      BY <1>1 DEF TrailInv
    <2>2. trail[1] = Blank(start) /\ FoldsTo(trail, m, decisions)
      BY <2>1 DEF ReplayInv, TrailInv
    <2>3. \A i \in 1 .. m : i \in 1 .. 7
      OBVIOUS
    <2> HIDE DEF m
    <2> QED  BY <1>6, <2>2, <2>3 DEF FoldsTo
  <1>8. CopyInv'
    <2>1. SUFFICES ASSUME settled PROVE Shows(copy', decisions', start')
      BY <1>1 DEF CopyInv
    <2> DEFINE full == FullReplay(decisions, start)
               full2 == FullReplay(decisions', start)
               tr == FullTrail(decisions', start)
    <2>2. Shows(copy, decisions, start)
      BY <2>1 DEF ReplayInv, CopyInv
    <2>3. FoldsTo(tr, 8, decisions') /\ tr[1] = Blank(start)
      BY FullTrailIs
    <2>4. full2 = tr[9] /\ tr[9] = Fold("carve", tr[8], decisions')
          /\ DOMAIN tr[8] = Fields /\ DOMAIN tr[9] = Fields
      <3>1. full2 = Last(tr)
        BY DEF FullReplay
      <3> HIDE DEF tr, full2
      <3>2. Last(tr) = tr[9]
        BY <2>3 DEF FoldsTo, Whole, Last
      <3>3. tr[9] = Fold("carve", tr[8], decisions')
        BY <2>3, OrderIs DEF FoldsTo
      <3> QED  BY <2>3, <3>1, <3>2, <3>3, TrailDomains
    <2>5. full2["carve"] = "carve"
      BY <2>4, <1>3, <1>4 DEF Fold, Applied, Fields
    <2>6. \A ch \in Fields \ {"carve"} : full2[ch] = full[ch]
      BY <1>4, CarveAlone
    <2> HIDE DEF full, full2, tr
    <2>7. DOMAIN copy' = Fields /\ copy'["carve"] = "carve"
          /\ \A ch \in Fields \ {"carve"} : copy'[ch] = copy[ch]
      BY <1>1, <2>2 DEF Shows, Fields
    <2>8. DOMAIN full2 = Fields
      BY <2>4
    <2>9. \A ch \in Fields : \/ ch \in Channels /\ full2[ch] = None
                             \/ copy'[ch] = full2[ch]
      BY <2>2, <2>5, <2>6, <2>7 DEF Shows, full
    <2> QED  BY <1>1, <2>7, <2>8, <2>9 DEF Shows, full2
  <1> QED  BY <1>5, <1>7, <1>8 DEF ReplayInv

\* A record the pass writes unsettles the trail, but for its first fold.
LEMMA PushQuestionKeeps ==
    ASSUME ReplayInv, PushQuestion
    PROVE  ReplayInv'
  <1>1. /\ start # None /\ start' = start /\ copy' = copy /\ trail' = trail
        /\ trailOurs' = trailOurs /\ decisions' = Extracted(decisions, start)
        /\ settled' = (settled /\ decisions' = decisions)
    BY DEF PushQuestion
  <1>2. start \in Starts /\ Sound(decisions) /\ Gated(decisions)
    BY <1>1 DEF ReplayInv, DecisionInv
  <1>3. /\ Sound(decisions') /\ Gated(decisions')
        /\ decisions'["letters"] = decisions["letters"]
    BY <1>1, <1>2, ExtractedKeeps
  <1>4. DecisionInv'
    BY <1>1, <1>2, <1>3 DEF DecisionInv
  <1>5. CASE settled /\ decisions' = decisions
    <2>1. settled' <=> settled
      BY <1>1, <1>5
    <2>2. TrailInv' /\ CopyInv'
      BY <1>1, <1>5, <2>1 DEF ReplayInv, TrailInv, CopyInv
    <2> QED  BY <1>4, <2>2 DEF ReplayInv
  <1>6. CASE ~ (settled /\ decisions' = decisions)
    <2>1. ~ settled'
      BY <1>1, <1>6
    <2>2. \A st : Fold("letters", st, decisions') = Fold("letters", st, decisions)
      BY <1>3, FoldReads, IdsAre
    <2>3. TrailInv'
      BY <1>1, <2>1, <2>2, OrderIs DEF ReplayInv, TrailInv, FoldsTo
    <2> QED  BY <1>4, <2>1, <2>3 DEF ReplayInv, CopyInv
  <1> QED  BY <1>5, <1>6

\* The first base: the trail is another's until something is folded.
LEMMA PickStartKeeps ==
    ASSUME ReplayInv, PickStart
    PROVE  ReplayInv'
  <1>1. PICK b \in Bases, m \in {"copy", "adapt"} :
            /\ start' = [base |-> b, mode |-> m, track |-> m]
            /\ decisions' = Extracted(decisions, start')
    BY DEF PickStart
  <1>2. ~ trailOurs' /\ ~ settled'
    BY DEF PickStart
  <1>3. start' \in Starts
    BY <1>1 DEF Starts
  <1>4. Sound(decisions') /\ Gated(decisions')
    BY <1>1, <1>3, ExtractedKeeps DEF ReplayInv, DecisionInv
  <1> QED  BY <1>2, <1>3, <1>4 DEF ReplayInv, DecisionInv, TrailInv, CopyInv

\* Both switches of the base fold everything again.
LEMMA SwitchStartKeeps ==
    ASSUME ReplayInv, SwitchStart
    PROVE  ReplayInv'
  <1>1. PICK b \in Bases :
            /\ start' = [start EXCEPT !.base = b]
            /\ RebuildForStart(Extracted(decisions, start'), start',
                               Instantiated(start'))
    BY DEF SwitchStart
  <1>2. start \in Starts /\ Sound(decisions) /\ Gated(decisions)
    BY DEF SwitchStart, ReplayInv, DecisionInv
  <1>3. start' \in Starts
    BY <1>1, <1>2 DEF Starts
  <1>4. Sound(Extracted(decisions, start')) /\ Gated(Extracted(decisions, start'))
    BY <1>2, <1>3, ExtractedKeeps
  <1> QED  BY <1>1, <1>3, <1>4, RebuildForStartKeeps

LEMMA SwitchInOutputKeeps ==
    ASSUME ReplayInv, SwitchInOutput
    PROVE  ReplayInv'
  <1>1. PICK b \in Bases :
            /\ start' = [start EXCEPT !.base = b, !.mode = "copy"]
            /\ RebuildForStart(decisions, start', Instantiated(start'))
    BY DEF SwitchInOutput
  <1>2. start \in Starts /\ Sound(decisions) /\ Gated(decisions)
    BY DEF SwitchInOutput, ReplayInv, DecisionInv
  <1>3. start' \in Starts
    BY <1>1, <1>2 DEF Starts
  <1> QED  BY <1>1, <1>2, <1>3, RebuildForStartKeeps

\* A reload brings back the stores and no trail.
LEMMA ReloadKeeps ==
    ASSUME ReplayInv, Reload
    PROVE  ReplayInv'
  <1>1. /\ ~ trailOurs' /\ start' = start /\ decisions' = decisions
        /\ copy' = copy /\ settled' = settled
    BY DEF Reload
  <1> QED  BY <1>1 DEF ReplayInv, DecisionInv, TrailInv, CopyInv

\* Nothing is recorded.
LEMMA NothingRecorded ==
    Sound([d \in Ids |-> None]) /\ Gated([d \in Ids |-> None])
  <1>1. "entry" \in Ids /\ "bullets" \in Ids
    BY IdsAre
  <1> QED  BY <1>1 DEF Sound, Gated, Typed, OthersActive, GateValue, BulletsAsked

\* Starting over empties the stores and leaves the trail to nobody.
LEMMA StartOverKeeps ==
    ASSUME ReplayInv, StartOver
    PROVE  ReplayInv'
  <1>1. /\ start' = None /\ decisions' = [d \in Ids |-> None]
        /\ ~ trailOurs' /\ ~ settled'
    BY DEF StartOver
  <1> QED  BY <1>1, NothingRecorded DEF ReplayInv, DecisionInv, TrailInv, CopyInv

\* The invariant holds at first, and every step keeps it.
LEMMA ReplayInit == Init => ReplayInv
  BY NothingRecorded DEF Init, ReplayInv, DecisionInv, TrailInv, CopyInv

LEMMA ReplayNext == ReplayInv /\ [Next]_vars => ReplayInv'
  <1> SUFFICES ASSUME ReplayInv, [Next]_vars PROVE ReplayInv'
    OBVIOUS
  <1>1. CASE UNCHANGED vars
    BY <1>1 DEF vars, ReplayInv, DecisionInv, TrailInv, CopyInv
  <1>2. CASE Next
    BY <1>2, CompleteCharactersKeeps, CompleteHelpKeeps, CompleteAttributionKeeps,
       CompleteCarveKeeps, PushQuestionKeeps, PickStartKeeps, SwitchStartKeeps,
       SwitchInOutputKeeps, ReloadKeeps, StartOverKeeps DEF Next
  <1> QED  BY <1>1, <1>2

LEMMA ReplayAlways == Spec => []ReplayInv
  BY ReplayInit, ReplayNext, PTL DEF Spec

-----------------------------------------------------------------------------
(* The theorems.                                                            *)

\* The working copy is the fold of the whole decision set over the starting
\* keyboard, for any set of bases and of answers: a rebuild resumed at a
\* checkpoint gives what a full replay gives (replayCheckpoints.ts).
THEOREM RebuildIsReplay == Spec => []InstalledIsReplay
  <1>1. ReplayInv => InstalledIsReplay
    BY DEF ReplayInv, CopyInv, Shows, InstalledIsReplay
  <1> QED  BY <1>1, ReplayAlways, PTL

\* The answer behind a gate is set aside exactly while the gate is closed,
\* and is neither lost nor replaced (recalculate.ts).
THEOREM GateRulesItsAnswer == Spec => []GatedAnswerFollowsGate
  <1>1. ASSUME ReplayInv PROVE GatedAnswerFollowsGate
    <2>1. Sound(decisions) /\ Gated(decisions) /\ "bullets" \in Ids
      BY <1>1, IdsAre DEF ReplayInv, DecisionInv
    <2>2. SUFFICES ASSUME decisions["bullets"] # None
                   PROVE  /\ decisions["bullets"].inactive = ~ Active("bullets", decisions)
                          /\ decisions["bullets"].value = "bullets"
                          /\ decisions["bullets"].prov = "asked"
      BY DEF GatedAnswerFollowsGate
    <2>3. decisions["bullets"].inactive \in BOOLEAN
      BY <2>1, <2>2 DEF Sound, Typed, Records
    <2>4. decisions["bullets"].inactive <=> ~ Active("bullets", decisions)
      BY <2>1, <2>2 DEF Gated
    <2>5. decisions["bullets"].inactive = ~ Active("bullets", decisions)
      BY <2>3, <2>4
    <2> QED  BY <2>1, <2>2, <2>5 DEF Sound, BulletsAsked
  <1> QED  BY <1>1, ReplayAlways, PTL
=============================================================================
