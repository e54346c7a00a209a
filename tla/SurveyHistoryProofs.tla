------------------------- MODULE SurveyHistoryProofs -------------------------
(***************************************************************************)
(* Proofs about SurveyHistory, for drafts resumed anywhere in the walk and *)
(* for any number of moves and detours.                                    *)
(*                                                                         *)
(* TypeInv is inductive.  TrailInv relates the stack Back pops to the path *)
(* the author walked: the path goes up the walk, and without the helps the *)
(* two are the same.  PlainInv relates the stack to the browser's entries: *)
(* there is a place in the survey for every entry up to the present one,   *)
(* such that from an entry of the survey to the next one is a Back.        *)
(*                                                                         *)
(* What WithoutHelp leaves of a sequence is proved by induction on its     *)
(* length.  An induction is stated over a set of numbers (NatAll), which   *)
(* follows from the well-foundedness of the naturals.                      *)
(***************************************************************************)
EXTENDS SurveyHistory, WellFoundedInduction, SequenceTheorems, TLAPS

\* A set of naturals has a least member.
LEMMA NatMin ==
    ASSUME NEW T, T \subseteq Nat, T # {}
    PROVE  \E x \in T : \A y \in T : x <= y
  <1> DEFINE R == OpToRel(<, Nat)
  <1>1. IsWellFoundedOn(R, Nat)
    BY NatLessThanWellFounded
  <1>2. \A x, y \in Nat : y < x => <<y, x>> \in R
    BY DEF OpToRel
  <1> HIDE DEF R
  <1>3. PICK x \in T : \A y \in T : ~ (<<y, x>> \in R)
    BY <1>1, WFMin
  <1>4. \A y \in T : x <= y
    <2> TAKE y \in T
    <2>1. x \in Nat /\ y \in Nat
      OBVIOUS
    <2>2. ~ (y < x)
      BY <1>2, <1>3, <2>1
    <2> QED  BY <2>1, <2>2
  <1> QED  BY <1>4

\* Its induction: a set that has 0 and with each number the next has them all.
LEMMA NatAll ==
    ASSUME NEW T, 0 \in T, \A n \in Nat : n \in T => n + 1 \in T
    PROVE  Nat \subseteq T
  <1>1. SUFFICES ASSUME Nat \ T # {} PROVE FALSE
    OBVIOUS
  <1>2. PICK x \in Nat \ T : \A y \in Nat \ T : x <= y
    BY <1>1, NatMin
  <1>3. x \in Nat /\ x # 0
    BY <1>2
  <1>4. x - 1 \in Nat /\ ~ (x <= x - 1)
    BY <1>3
  <1>5. x - 1 \in T
    BY <1>2, <1>4
  <1>6. (x - 1) + 1 \in T
    BY <1>4, <1>5
  <1>7. (x - 1) + 1 = x
    BY <1>3
  <1> QED  BY <1>2, <1>6, <1>7

-----------------------------------------------------------------------------
\* The sequence without its helps

Keeps(seq, n, kept) ==
    kept = [i \in 0 .. n |->
              IF i = 0 THEN << >>
              ELSE IF seq[i] = "help" THEN kept[i - 1] ELSE Append(kept[i - 1], seq[i])]

LEMMA KeepsSteps ==
    ASSUME NEW seq, NEW n \in Nat, NEW kept, Keeps(seq, n, kept)
    PROVE  /\ kept[0] = << >>
           /\ \A i \in 1 .. n :
                kept[i] = IF seq[i] = "help" THEN kept[i - 1]
                          ELSE Append(kept[i - 1], seq[i])
  <1>1. 0 \in 0 .. n /\ \A i \in 1 .. n : i \in 0 .. n /\ i # 0
    OBVIOUS
  <1> QED  BY <1>1 DEF Keeps

LEMMA KeepsExists ==
    ASSUME NEW seq
    PROVE  \A n \in Nat : \E kept : Keeps(seq, n, kept)
  <1> DEFINE T == {n \in Nat : \E kept : Keeps(seq, n, kept)}
  <1>1. 0 \in T
    <2> DEFINE kept == [i \in 0 .. 0 |-> << >>]
    <2>1. Keeps(seq, 0, kept)
      BY DEF Keeps
    <2> QED  BY <2>1
  <1>2. ASSUME NEW n \in Nat, n \in T PROVE n + 1 \in T
    <2>1. PICK kept : Keeps(seq, n, kept)
      BY <1>2
    <2> DEFINE last == IF seq[n + 1] = "help" THEN kept[n] ELSE Append(kept[n], seq[n + 1])
               next == [i \in 0 .. n + 1 |-> IF i = n + 1 THEN last ELSE kept[i]]
               def == [i \in 0 .. n + 1 |->
                         IF i = 0 THEN << >>
                         ELSE IF seq[i] = "help" THEN next[i - 1]
                         ELSE Append(next[i - 1], seq[i])]
    <2>2. ASSUME NEW i \in 0 .. n + 1 PROVE next[i] = def[i]
      <3>1. CASE i = 0
        <4>1. 0 \in 0 .. n + 1 /\ 0 # n + 1
          OBVIOUS
        <4> QED  BY <2>1, <3>1, <4>1, KeepsSteps
      <3>2. CASE i = n + 1
        <4>1. n \in 0 .. n + 1 /\ n # n + 1 /\ n + 1 \in 0 .. n + 1 /\ n + 1 # 0 /\ (n + 1) - 1 = n
          OBVIOUS
        <4>2. next[n] = kept[n]
          BY <4>1
        <4> QED  BY <3>2, <4>1, <4>2
      <3>3. CASE i \in 1 .. n
        <4>1. i - 1 \in 0 .. n + 1 /\ i - 1 # n + 1 /\ i # 0 /\ i # n + 1
          BY <3>3
        <4>2. next[i - 1] = kept[i - 1] /\ next[i] = kept[i]
          BY <4>1
        <4> QED  BY <2>1, <3>3, <4>1, <4>2, KeepsSteps
      <3> QED  BY <3>1, <3>2, <3>3
    <2>3. DOMAIN next = 0 .. n + 1 /\ DOMAIN def = 0 .. n + 1
      OBVIOUS
    <2>4. next = def
      BY <2>2, <2>3
    <2>5. Keeps(seq, n + 1, next)
      BY <2>4 DEF Keeps
    <2> QED  BY <2>5
  <1>3. Nat \subseteq T
    <2> HIDE DEF T
    <2> QED  BY <1>1, <1>2, NatAll
  <1> QED  BY <1>3

\* The operator is the last value of such a function.
LEMMA WithoutHelpIs ==
    ASSUME NEW S, NEW seq \in Seq(S)
    PROVE  \E kept : Keeps(seq, Len(seq), kept) /\ WithoutHelp(seq) = kept[Len(seq)]
  <1> DEFINE kept == CHOOSE g : Keeps(seq, Len(seq), g)
  <1>1. Len(seq) \in Nat
    OBVIOUS
  <1>2. Keeps(seq, Len(seq), kept)
    BY <1>1, KeepsExists
  <1>3. WithoutHelp(seq) = kept[Len(seq)]
    BY DEF WithoutHelp, Keeps
  <1> QED  BY <1>2, <1>3

\* One more element.
LEMMA WithoutHelpAppend ==
    ASSUME NEW S, NEW seq \in Seq(S), NEW x \in S
    PROVE  WithoutHelp(Append(seq, x)) =
              IF x = "help" THEN WithoutHelp(seq) ELSE Append(WithoutHelp(seq), x)
  <1> DEFINE more == Append(seq, x)
             n == Len(seq)
  <1>1. more \in Seq(S) /\ Len(more) = n + 1 /\ n \in Nat /\ more[n + 1] = x
        /\ \A i \in 1 .. n : more[i] = seq[i]
    OBVIOUS
  <1>2. PICK g : Keeps(seq, n, g) /\ WithoutHelp(seq) = g[n]
    BY WithoutHelpIs
  <1>3. PICK h : Keeps(more, n + 1, h) /\ WithoutHelp(more) = h[n + 1]
    BY <1>1, WithoutHelpIs
  <1> HIDE DEF more, n
  <1> DEFINE T == {i \in Nat : i <= n => h[i] = g[i]}
  <1>4. 0 \in T
    BY <1>1, <1>2, <1>3, KeepsSteps
  <1>5. ASSUME NEW i \in Nat, i \in T PROVE i + 1 \in T
    <2>1. SUFFICES ASSUME i + 1 <= n PROVE h[i + 1] = g[i + 1]
      OBVIOUS
    <2>2. i + 1 \in 1 .. n /\ i + 1 \in 1 .. n + 1 /\ (i + 1) - 1 = i /\ i <= n
      BY <1>1, <2>1
    <2>3. h[i] = g[i] /\ more[i + 1] = seq[i + 1]
      BY <1>1, <1>5, <2>2
    <2>4. g[i + 1] = IF seq[i + 1] = "help" THEN g[i] ELSE Append(g[i], seq[i + 1])
      BY <1>1, <1>2, <2>2, KeepsSteps
    <2>5. h[i + 1] = IF more[i + 1] = "help" THEN h[i] ELSE Append(h[i], more[i + 1])
      BY <1>1, <1>3, <2>2, KeepsSteps
    <2> QED  BY <2>3, <2>4, <2>5
  <1>6. Nat \subseteq T
    <2> HIDE DEF T
    <2> QED  BY <1>4, <1>5, NatAll
  <1>7. h[n] = g[n]
    BY <1>1, <1>6
  <1>8. n + 1 \in 1 .. n + 1 /\ (n + 1) - 1 = n
    BY <1>1
  <1>9. h[n + 1] = IF x = "help" THEN h[n] ELSE Append(h[n], x)
    BY <1>1, <1>3, <1>8, KeepsSteps
  <1> QED  BY <1>2, <1>3, <1>7, <1>9 DEF more

LEMMA WithoutHelpEmpty == WithoutHelp(<< >>) = << >>
  <1>1. << >> \in Seq({}) /\ Len(<< >>) = 0 /\ 0 \in Nat
    OBVIOUS
  <1>2. PICK g : Keeps(<< >>, 0, g) /\ WithoutHelp(<< >>) = g[0]
    BY <1>1, WithoutHelpIs
  <1> QED  BY <1>1, <1>2, KeepsSteps

\* A sequence that is not empty is its front and its last element.
LEMMA FrontLast ==
    ASSUME NEW S, NEW seq \in Seq(S), seq # << >>
    PROVE  /\ Front(seq) \in Seq(S) /\ Last(seq) \in S
           /\ Len(Front(seq)) = Len(seq) - 1 /\ Len(seq) \in Nat \ {0}
           /\ Last(seq) = seq[Len(seq)]
           /\ \A i \in 1 .. Len(seq) - 1 : Front(seq)[i] = seq[i]
           /\ seq = Append(Front(seq), Last(seq))
  <1>1. Len(seq) \in Nat \ {0}
    OBVIOUS
  <1>2. Front(seq) \in Seq(S) /\ Len(Front(seq)) = Len(seq) - 1
        /\ \A i \in 1 .. Len(seq) - 1 : Front(seq)[i] = seq[i]
    BY <1>1 DEF Front
  <1>3. Last(seq) = seq[Len(seq)] /\ Last(seq) \in S
    BY <1>1 DEF Last
  <1>4. seq = Append(Front(seq), Last(seq))
    BY <1>1, <1>2, <1>3
  <1> QED  BY <1>1, <1>2, <1>3, <1>4

LEMMA AppendEnds ==
    ASSUME NEW S, NEW seq \in Seq(S), NEW x \in S
    PROVE  /\ Append(seq, x) \in Seq(S) /\ Append(seq, x) # << >>
           /\ Front(Append(seq, x)) = seq /\ Last(Append(seq, x)) = x
  <1>1. Append(seq, x) \in Seq(S) /\ Len(Append(seq, x)) = Len(seq) + 1
        /\ Len(seq) \in Nat /\ \A i \in 1 .. Len(seq) : Append(seq, x)[i] = seq[i]
    OBVIOUS
  <1>4. Append(seq, x) # << >>
    BY <1>1
  <1>2. Last(Append(seq, x)) = x
    BY DEF Last
  <1>3. Front(Append(seq, x)) = seq
    BY <1>1 DEF Front
  <1> QED  BY <1>1, <1>2, <1>3, <1>4

HelpFree(seq) == \A i \in 1 .. Len(seq) : seq[i] # "help"

\* What is left are elements of the sequence, none of them help, and all of
\* them if there was no help.
LeavesOthers(S, seq) ==
    /\ WithoutHelp(seq) \in Seq(S)
    /\ HelpFree(WithoutHelp(seq))
    /\ HelpFree(seq) => WithoutHelp(seq) = seq

LEMMA WithoutHelpLeavesOthers ==
    ASSUME NEW S
    PROVE  \A seq \in Seq(S) : LeavesOthers(S, seq)
  <1> DEFINE T == {n \in Nat : \A seq \in Seq(S) : Len(seq) = n => LeavesOthers(S, seq)}
  <1>1. 0 \in T
    <2>1. SUFFICES ASSUME NEW seq \in Seq(S), Len(seq) = 0 PROVE LeavesOthers(S, seq)
      OBVIOUS
    <2>2. seq = << >> /\ << >> \in Seq(S)
      BY <2>1
    <2>3. LeavesOthers(S, << >>)
      <3>1. \A i \in 1 .. Len(<< >>) : << >>[i] # "help"
        <4>1. Len(<< >>) = 0
          OBVIOUS
        <4>2. 1 .. 0 = {}
          OBVIOUS
        <4> QED  BY <4>1, <4>2
      <3>2. HelpFree(<< >>)
        BY <3>1, Zenon DEF HelpFree
      <3> QED  BY <2>2, <3>2, WithoutHelpEmpty, Zenon DEF LeavesOthers
    <2> QED  BY <2>2, <2>3
  <1>2. ASSUME NEW n \in Nat, n \in T PROVE n + 1 \in T
    <2>1. SUFFICES ASSUME NEW seq \in Seq(S), Len(seq) = n + 1 PROVE LeavesOthers(S, seq)
      OBVIOUS
    <2>2. seq # << >>
      BY <2>1
    <2> DEFINE u == Front(seq)
               x == Last(seq)
    <2>10. u \in Seq(S) /\ x \in S /\ seq = Append(u, x)
      BY <2>2, FrontLast, Zenon
    <2>11. Len(u) = Len(seq) - 1
      BY <2>2, FrontLast, Zenon
    <2>3. u \in Seq(S) /\ x \in S /\ Len(u) = n /\ seq = Append(u, x)
      BY <2>1, <2>10, <2>11
    <2>4. x = seq[n + 1] /\ \A i \in 1 .. n : u[i] = seq[i]
      <3>1. x = seq[Len(seq)] /\ \A i \in 1 .. Len(seq) - 1 : u[i] = seq[i]
        BY <2>2, FrontLast, Zenon
      <3>2. Len(seq) = n + 1 /\ Len(seq) - 1 = n
        BY <2>1
      <3> QED  BY <3>1, <3>2
    <2> HIDE DEF u, x
    <2>5. LeavesOthers(S, u)
      BY <1>2, <2>3
    <2>6. WithoutHelp(seq) = IF x = "help" THEN WithoutHelp(u) ELSE Append(WithoutHelp(u), x)
      BY <2>3, WithoutHelpAppend
    <2>7. HelpFree(seq) => HelpFree(u) /\ x # "help"
      <3>1. \A i \in 1 .. n : i \in 1 .. n + 1
        OBVIOUS
      <3>2. n + 1 \in 1 .. n + 1
        OBVIOUS
      <3> QED  BY <2>1, <2>3, <2>4, <3>1, <3>2 DEF HelpFree
    <2>8. CASE x = "help"
      BY <2>5, <2>6, <2>7, <2>8 DEF LeavesOthers
    <2>9. CASE x # "help"
      <3>1. WithoutHelp(seq) = Append(WithoutHelp(u), x) /\ WithoutHelp(u) \in Seq(S)
        BY <2>5, <2>6, <2>9 DEF LeavesOthers
      <3>2. HelpFree(WithoutHelp(seq))
        BY <2>3, <2>5, <2>9, <3>1 DEF LeavesOthers, HelpFree
      <3> QED  BY <2>3, <2>5, <2>7, <3>1, <3>2 DEF LeavesOthers
    <2> QED  BY <2>8, <2>9
  <1>3. Nat \subseteq T
    <2> HIDE DEF T
    <2> QED  BY <1>1, <1>2, NatAll
  <1> QED  BY <1>3

LEMMA WithoutHelpTwice ==
    ASSUME NEW S, NEW seq \in Seq(S)
    PROVE  /\ WithoutHelp(seq) \in Seq(S)
           /\ WithoutHelp(WithoutHelp(seq)) = WithoutHelp(seq)
  BY WithoutHelpLeavesOthers DEF LeavesOthers

LEMMA WithoutHelpLast ==
    ASSUME NEW S, NEW seq \in Seq(S), WithoutHelp(seq) # << >>
    PROVE  Last(WithoutHelp(seq)) # "help" /\ Last(WithoutHelp(seq)) \in S
  BY WithoutHelpLeavesOthers, FrontLast DEF LeavesOthers, HelpFree

\* Its front has no help either.
LEMMA WithoutHelpFront ==
    ASSUME NEW S, NEW seq \in Seq(S), WithoutHelp(seq) # << >>
    PROVE  /\ Front(WithoutHelp(seq)) \in Seq(S)
           /\ WithoutHelp(Front(WithoutHelp(seq))) = Front(WithoutHelp(seq))
  <1> DEFINE w == WithoutHelp(seq)
             f == Front(w)
  <1>1. w \in Seq(S) /\ HelpFree(w)
    BY WithoutHelpLeavesOthers DEF LeavesOthers
  <1>2. f \in Seq(S) /\ Len(f) = Len(w) - 1 /\ \A i \in 1 .. Len(w) - 1 : f[i] = w[i]
    BY <1>1, FrontLast
  <1>3. HelpFree(f)
    BY <1>1, <1>2 DEF HelpFree
  <1> QED  BY <1>2, <1>3, WithoutHelpLeavesOthers DEF LeavesOthers

\* How the last element decides what is left.
LEMMA WithoutHelpEnd ==
    ASSUME NEW S, NEW seq \in Seq(S), seq # << >>
    PROVE  WithoutHelp(seq) =
              IF Last(seq) = "help" THEN WithoutHelp(Front(seq))
              ELSE Append(WithoutHelp(Front(seq)), Last(seq))
  <1>1. Front(seq) \in Seq(S) /\ Last(seq) \in S /\ seq = Append(Front(seq), Last(seq))
    BY FrontLast, Zenon
  <1> QED  BY <1>1, WithoutHelpAppend, Zenon

-----------------------------------------------------------------------------
\* Where a step is in a sequence, and the walk

Places(seq, x) == {i \in 1 .. Len(seq) : seq[i] = x}

LEMMA FoundIn ==
    ASSUME NEW seq, Len(seq) \in Nat, NEW x
    PROVE  IF Contains(seq, x)
           THEN FirstOf(seq, x) \in Places(seq, x) /\ LastOf(seq, x) \in Places(seq, x)
           ELSE FirstOf(seq, x) = 0 /\ LastOf(seq, x) = 0
  <1> DEFINE I == Places(seq, x)
  <1>1. Contains(seq, x) <=> I # {}
    BY DEF Contains, Places
  <1>2. FirstOf(seq, x) = IF I # {} THEN CHOOSE i \in I : \A j \in I : i <= j ELSE 0
    BY DEF FirstOf, SelectInSeq, Min, Places
  <1>3. LastOf(seq, x) = IF I # {} THEN CHOOSE i \in I : \A j \in I : i >= j ELSE 0
    BY DEF LastOf, SelectLastInSeq, Max, Places
  <1>4. I \subseteq Nat /\ \A i \in I : i <= Len(seq)
    BY DEF Places
  <1> HIDE DEF I
  <1>5. ASSUME I # {} PROVE \E i \in I : \A j \in I : i <= j
    BY <1>4, <1>5, NatMin
  <1>6. ASSUME I # {} PROVE \E i \in I : \A j \in I : i >= j
    <2> DEFINE D == {Len(seq) - i : i \in I}
    <2>1. D \subseteq Nat /\ D # {}
      <3>1. \A i \in I : Len(seq) - i \in Nat
        BY <1>4
      <3> QED  BY <1>6, <3>1
    <2>2. PICK d \in D : \A e \in D : d <= e
      <3> HIDE DEF D
      <3> QED  BY <2>1, NatMin
    <2>3. PICK i \in I : d = Len(seq) - i
      BY <2>2
    <2>4. \A j \in I : i >= j
      <3> TAKE j \in I
      <3>1. Len(seq) - j \in D
        OBVIOUS
      <3>2. Len(seq) - i <= Len(seq) - j
        BY <2>2, <2>3, <3>1
      <3>3. i \in Nat /\ j \in Nat
        BY <1>4
      <3> QED  BY <3>2, <3>3
    <2> QED  BY <2>4
  <1> QED  BY <1>1, <1>2, <1>3, <1>5, <1>6 DEF I

LEMMA FoundAt ==
    ASSUME NEW seq, Len(seq) \in Nat, NEW i \in 1 .. Len(seq),
           \A j \in 1 .. Len(seq) : seq[j] = seq[i] => j = i
    PROVE  FirstOf(seq, seq[i]) = i /\ LastOf(seq, seq[i]) = i
  <1>1. Contains(seq, seq[i])
    BY DEF Contains
  <1>2. FirstOf(seq, seq[i]) \in Places(seq, seq[i]) /\ LastOf(seq, seq[i]) \in Places(seq, seq[i])
    BY <1>1, FoundIn
  <1> QED  BY <1>2 DEF Places

Position(step) == FirstOf(Walk, step)

LEMMA WalkIs ==
    /\ Walk \in Seq(Steps) /\ Len(Walk) = 11
    /\ Steps = {"identity", "choose_base", "carve", "mechanisms", "touch_seed_source",
                "touch", "css", "help", "html", "icon", "done"}
    /\ Walk[1] = "identity" /\ Walk[2] = "choose_base" /\ Walk[3] = "carve"
    /\ Walk[4] = "mechanisms" /\ Walk[5] = "touch_seed_source" /\ Walk[6] = "touch"
    /\ Walk[7] = "css" /\ Walk[8] = "help" /\ Walk[9] = "html" /\ Walk[10] = "icon"
    /\ Walk[11] = "done"
  <1>1. Len(Walk) = 11 /\ DOMAIN Walk = 1 .. 11
    BY DEF Walk
  <1>2. /\ Walk[1] = "identity" /\ Walk[2] = "choose_base" /\ Walk[3] = "carve"
        /\ Walk[4] = "mechanisms" /\ Walk[5] = "touch_seed_source" /\ Walk[6] = "touch"
        /\ Walk[7] = "css" /\ Walk[8] = "help" /\ Walk[9] = "html" /\ Walk[10] = "icon"
        /\ Walk[11] = "done"
    BY DEF Walk
  <1>3. \A i \in 1 .. 11 : i = 1 \/ i = 2 \/ i = 3 \/ i = 4 \/ i = 5 \/ i = 6 \/ i = 7
                           \/ i = 8 \/ i = 9 \/ i = 10 \/ i = 11
    OBVIOUS
  <1>4. Steps = {Walk[i] : i \in 1 .. 11}
    BY <1>1 DEF Steps, ToSet
  <1>5. Steps = {"identity", "choose_base", "carve", "mechanisms", "touch_seed_source",
                 "touch", "css", "help", "html", "icon", "done"}
    BY <1>2, <1>3, <1>4
  <1>6. Walk \in Seq(Steps)
    BY <1>5 DEF Walk
  <1> QED  BY <1>1, <1>2, <1>5, <1>6

LEMMA PositionOf ==
    ASSUME NEW i \in 1 .. 11
    PROVE  Position(Walk[i]) = i
  <1>1. \A j \in 1 .. 11 : Walk[j] = Walk[i] => j = i
    <2>1. \A j \in 1 .. 11 : j = 1 \/ j = 2 \/ j = 3 \/ j = 4 \/ j = 5 \/ j = 6 \/ j = 7
                             \/ j = 8 \/ j = 9 \/ j = 10 \/ j = 11
      OBVIOUS
    <2> QED  BY <2>1, WalkIs
  <1>2. Len(Walk) \in Nat /\ i \in 1 .. Len(Walk)
        /\ \A j \in 1 .. Len(Walk) : Walk[j] = Walk[i] => j = i
    BY <1>1, WalkIs
  <1>3. FirstOf(Walk, Walk[i]) = i
    BY <1>2, FoundAt
  <1> QED  BY <1>3 DEF Position

LEMMA PositionIs ==
    /\ Position("identity") = 1 /\ Position("choose_base") = 2 /\ Position("carve") = 3
    /\ Position("mechanisms") = 4 /\ Position("touch_seed_source") = 5
    /\ Position("touch") = 6 /\ Position("css") = 7 /\ Position("help") = 8
    /\ Position("html") = 9 /\ Position("icon") = 10 /\ Position("done") = 11
    /\ \A s \in Steps : Position(s) \in 1 .. 11 /\ Walk[Position(s)] = s
  <1>1. /\ 1 \in 1 .. 11 /\ 2 \in 1 .. 11 /\ 3 \in 1 .. 11 /\ 4 \in 1 .. 11 /\ 5 \in 1 .. 11
        /\ 6 \in 1 .. 11 /\ 7 \in 1 .. 11 /\ 8 \in 1 .. 11 /\ 9 \in 1 .. 11
        /\ 10 \in 1 .. 11 /\ 11 \in 1 .. 11
    OBVIOUS
  <1>2. /\ Position("identity") = 1 /\ Position("choose_base") = 2 /\ Position("carve") = 3
        /\ Position("mechanisms") = 4 /\ Position("touch_seed_source") = 5
        /\ Position("touch") = 6 /\ Position("css") = 7 /\ Position("help") = 8
        /\ Position("html") = 9 /\ Position("icon") = 10 /\ Position("done") = 11
    BY <1>1, WalkIs, PositionOf
  <1> QED  BY <1>1, <1>2, WalkIs

\* Two steps at one place of the walk are one.
LEMMA PositionInjective ==
    ASSUME NEW s \in Steps, NEW u \in Steps, Position(s) = Position(u)
    PROVE  s = u
  BY PositionIs

\* Next leads ahead, but for the gate that holds.
LEMMA NextStepIs ==
    ASSUME NEW s \in Steps \ {"done"}
    PROVE  /\ NextStep(s) \in Steps
           /\ s = "help" /\ ~ covered => NextStep(s) = s
           /\ ~ (s = "help" /\ ~ covered) => Position(NextStep(s)) > Position(s)
           /\ NextStep(s) = "html" => s = "help"
           /\ NextStep(s) = "icon" => s = "html"
           /\ NextStep(s) = "done" => s = "icon"
           /\ NextStep(s) = "touch" => (s = "touch_seed_source" \/ (s = "mechanisms" /\ seed))
           /\ s = "icon" => NextStep(s) = "done"
  <1>1. CASE s = "mechanisms"
    BY <1>1, WalkIs, PositionIs DEF NextStep
  <1>2. CASE s = "help"
    BY <1>2, WalkIs, PositionIs DEF NextStep
  <1>3. CASE s \notin {"mechanisms", "help"}
    <2>1. NextStep(s) = Walk[Position(s) + 1]
      BY <1>3 DEF NextStep, Position
    <2>2. s \in {"identity", "choose_base", "carve", "touch_seed_source", "touch", "css",
                 "html", "icon"}
      BY <1>3, WalkIs
    <2>3. CASE s = "identity"
      <3>1. NextStep(s) = "choose_base"
        <4>1. Position(s) + 1 = 2
          BY <2>3, PositionIs
        <4> QED  BY <2>1, <4>1, WalkIs
      <3> QED  BY <2>3, <3>1, WalkIs, PositionIs
    <2>4. CASE s = "choose_base"
      <3>1. NextStep(s) = "carve"
        <4>1. Position(s) + 1 = 3
          BY <2>4, PositionIs
        <4> QED  BY <2>1, <4>1, WalkIs
      <3> QED  BY <2>4, <3>1, WalkIs, PositionIs
    <2>5. CASE s = "carve"
      <3>1. NextStep(s) = "mechanisms"
        <4>1. Position(s) + 1 = 4
          BY <2>5, PositionIs
        <4> QED  BY <2>1, <4>1, WalkIs
      <3> QED  BY <2>5, <3>1, WalkIs, PositionIs
    <2>6. CASE s = "touch_seed_source"
      <3>1. NextStep(s) = "touch"
        <4>1. Position(s) + 1 = 6
          BY <2>6, PositionIs
        <4> QED  BY <2>1, <4>1, WalkIs
      <3> QED  BY <2>6, <3>1, WalkIs, PositionIs
    <2>7. CASE s = "touch"
      <3>1. NextStep(s) = "css"
        <4>1. Position(s) + 1 = 7
          BY <2>7, PositionIs
        <4> QED  BY <2>1, <4>1, WalkIs
      <3> QED  BY <2>7, <3>1, WalkIs, PositionIs
    <2>8. CASE s = "css"
      <3>1. NextStep(s) = "help"
        <4>1. Position(s) + 1 = 8
          BY <2>8, PositionIs
        <4> QED  BY <2>1, <4>1, WalkIs
      <3> QED  BY <2>8, <3>1, WalkIs, PositionIs
    <2>9. CASE s = "html"
      <3>1. NextStep(s) = "icon"
        <4>1. Position(s) + 1 = 10
          BY <2>9, PositionIs
        <4> QED  BY <2>1, <4>1, WalkIs
      <3> QED  BY <2>9, <3>1, WalkIs, PositionIs
    <2>10. CASE s = "icon"
      <3>1. NextStep(s) = "done"
        <4>1. Position(s) + 1 = 11
          BY <2>10, PositionIs
        <4> QED  BY <2>1, <4>1, WalkIs
      <3> QED  BY <2>10, <3>1, WalkIs, PositionIs
    <2> QED  BY <2>2, <2>3, <2>4, <2>5, <2>6, <2>7, <2>8, <2>9, <2>10
  <1> QED  BY <1>1, <1>2, <1>3

-----------------------------------------------------------------------------
\* Types

\* Entries of other routes carry no step of the walk but the last.
Entries == {e \in [route : {Survey, Away}, step : Steps \union {NoTag}] :
                e.route = Away => e.step \in {NoTag, "done"}}

BrowserTyped ==
    /\ entries \in Seq(Entries)
    /\ at \in 1 .. Len(entries)
    /\ Mounted => prev = active

SessionTyped ==
    /\ active \in Steps
    /\ history \in Seq(Steps)
    /\ visited \in Seq(Steps)
    /\ trail \in Seq(Steps)

TypeInv == SessionTyped /\ BrowserTyped

LEMMA SanitizedIs ==
    ASSUME NEW S, NEW step, NEW stack \in Seq(S)
    PROVE  /\ Sanitized(step, stack) \in Seq(S)
           /\ Sanitized(step, Sanitized(step, stack)) = Sanitized(step, stack)
           /\ WithoutHelp(Sanitized(step, stack)) = WithoutHelp(stack)
           /\ step # "html" => Sanitized(step, stack) = WithoutHelp(stack)
  BY WithoutHelpTwice DEF Sanitized

LEMMA UpToIs ==
    ASSUME NEW S, NEW seq \in Seq(S), NEW i \in 0 .. Len(seq)
    PROVE  /\ UpTo(seq, i) \in Seq(S)
           /\ i > 0 => Len(UpTo(seq, i)) = i - 1
           /\ \A j \in 1 .. i - 1 : UpTo(seq, i)[j] = seq[j]
  <1>1. CASE i = 0
    <2>1. UpTo(seq, i) = << >>
      BY <1>1 DEF UpTo
    <2>2. << >> \in Seq(S) /\ ~ (i > 0)
      BY <1>1
    <2>3. \A j \in 1 .. i - 1 : FALSE
      BY <1>1
    <2> QED  BY <2>1, <2>2, <2>3, Zenon
  <1>2. CASE i \in 1 .. Len(seq)
    BY <1>2 DEF UpTo
  <1> QED  BY <1>1, <1>2

\* Cut at a place where a step is found.
LEMMA UpToFound ==
    ASSUME NEW S, NEW seq \in Seq(S), NEW x
    PROVE  UpTo(seq, FirstOf(seq, x)) \in Seq(S) /\ UpTo(seq, LastOf(seq, x)) \in Seq(S)
  <1>1. Len(seq) \in Nat
    OBVIOUS
  <1>2. FirstOf(seq, x) \in 0 .. Len(seq) /\ LastOf(seq, x) \in 0 .. Len(seq)
    BY <1>1, FoundIn DEF Places
  <1> QED  BY <1>2, UpToIs

LEMMA PushIs ==
    ASSUME NEW S, NEW stack \in Seq(S), NEW i \in 1 .. Len(stack), NEW e \in S
    PROVE  /\ Push(stack, i, e) \in Seq(S) /\ Len(Push(stack, i, e)) = i + 1
           /\ Push(stack, i, e)[i + 1] = e
           /\ \A j \in 1 .. i : Push(stack, i, e)[j] = stack[j]
  BY DEF Push

LEMMA EntryIs ==
    /\ \A s \in Steps \union {NoTag} : Entry(Survey, s) \in Entries
    /\ Entry(Away, NoTag) \in Entries /\ Entry(Away, "done") \in Entries
    /\ \A r, s : Entry(r, s).route = r /\ Entry(r, s).step = s
    /\ Survey # Away
    /\ NoTag \notin Steps
  BY WalkIs DEF Entry, Entries, Survey, Away, NoTag

LEMMA WithVisitedTyped ==
    ASSUME NEW seen \in Seq(Steps), NEW step \in Steps
    PROVE  WithVisited(seen, step) \in Seq(Steps)
  BY DEF WithVisited

LEMMA VisitedAfterTyped ==
    ASSUME visited \in Seq(Steps), active \in Steps, NEW to \in Steps
    PROVE  VisitedAfter(to) \in Seq(Steps)
  BY WithVisitedTyped DEF VisitedAfter

\* What the effects do to the browser.
LEMMA MountTagIs ==
    ASSUME NEW stack \in Seq(Entries), NEW i \in 1 .. Len(stack), stack[i].route = Survey,
           NEW step \in Steps, MountTag(stack, i, step)
    PROVE  /\ entries' \in Seq(Entries) /\ Len(entries') = Len(stack) /\ at' = i
           /\ prev' = step /\ entries'[i] = Entry(Survey, step)
           /\ \A j \in 1 .. Len(stack) : j # i => entries'[j] = stack[j]
           /\ \A j \in 1 .. Len(stack) : entries'[j].route = stack[j].route
  <1> DEFINE new == [stack[i] EXCEPT !.step = step]
  <1>1. stack[i] \in Entries
    OBVIOUS
  <1>2. new = Entry(Survey, step)
    BY <1>1 DEF Entries, Entry
  <1>3. entries' = [stack EXCEPT ![i] = new] /\ at' = i /\ prev' = step
    BY DEF MountTag
  <1>4. new \in Entries /\ new.route = Survey
    BY <1>2, EntryIs
  <1> HIDE DEF new
  <1>5. entries' \in Seq(Entries) /\ Len(entries') = Len(stack) /\ entries'[i] = new
        /\ \A j \in 1 .. Len(stack) : j # i => entries'[j] = stack[j]
    BY <1>3, <1>4
  <1> QED  BY <1>2, <1>3, <1>4, <1>5

LEMMA GoToSurveyIs ==
    ASSUME BrowserTyped, NEW step \in Steps, active' = step, GoToSurvey(step)
    PROVE  BrowserTyped'
  <1>1. CASE Mounted
    BY <1>1 DEF GoToSurvey, BrowserTyped, Mounted, route
  <1>2. CASE ~ Mounted
    <2> DEFINE stack == Push(entries, at, Entry(Survey, NoTag))
    <2>1. stack \in Seq(Entries) /\ at + 1 \in 1 .. Len(stack)
          /\ stack[at + 1] = Entry(Survey, NoTag)
      BY PushIs, EntryIs DEF BrowserTyped
    <2>2. MountTag(stack, at + 1, step)
      BY <1>2 DEF GoToSurvey
    <2> HIDE DEF stack
    <2>3. stack[at + 1].route = Survey
      BY <2>1, EntryIs
    <2>4. /\ entries' \in Seq(Entries) /\ Len(entries') = Len(stack) /\ at' = at + 1
          /\ prev' = step
      BY <2>1, <2>2, <2>3, MountTagIs
    <2> QED  BY <2>1, <2>4 DEF BrowserTyped, Mounted, route
  <1> QED  BY <1>1, <1>2

LEMMA PushAdvanceIs ==
    ASSUME BrowserTyped, NEW step \in Steps, active' = step, PushAdvance(step)
    PROVE  BrowserTyped'
  <1>1. CASE prev = step
    BY <1>1 DEF PushAdvance, BrowserTyped, Mounted, route
  <1>2. CASE prev # step
    <2>1. Entry(Survey, step) \in Entries
      BY EntryIs
    <2>2. entries' = Push(entries, at, Entry(Survey, step)) /\ at' = at + 1 /\ prev' = step
      BY <1>2 DEF PushAdvance
    <2>3. entries' \in Seq(Entries) /\ Len(entries') = at + 1
      BY <2>1, <2>2, PushIs DEF BrowserTyped
    <2> QED  BY <2>2, <2>3 DEF BrowserTyped, Mounted, route
  <1> QED  BY <1>1, <1>2

LEMMA PushFinishIs ==
    ASSUME BrowserTyped, PushFinish
    PROVE  /\ entries' \in Seq(Entries) /\ at' = at + 2 /\ Len(entries') = at + 2
           /\ \A i \in 1 .. at : entries'[i] = entries[i]
           /\ entries'[at + 1] = Entry(Away, NoTag) /\ entries'[at + 2] = Entry(Away, "done")
  <1> DEFINE stack == Push(entries, at, Entry(Away, NoTag))
  <1>1. stack \in Seq(Entries) /\ Len(stack) = at + 1 /\ stack[at + 1] = Entry(Away, NoTag)
        /\ \A j \in 1 .. at : stack[j] = entries[j]
    BY PushIs, EntryIs DEF BrowserTyped
  <1>2. entries' = stack \o << Entry(Away, "done") >> /\ at' = at + 2
    BY DEF PushFinish
  <1>3. Entry(Away, "done") \in Entries /\ at \in Nat
    BY EntryIs DEF BrowserTyped
  <1> HIDE DEF stack
  <1>4. << Entry(Away, "done") >> \in Seq(Entries) /\ Len(<< Entry(Away, "done") >>) = 1
        /\ << Entry(Away, "done") >>[1] = Entry(Away, "done")
    BY <1>3
  <1>5. entries' \in Seq(Entries) /\ Len(entries') = at + 2
    BY <1>1, <1>2, <1>3, <1>4
  <1>6. \A i \in 1 .. at + 1 : entries'[i] = stack[i]
    BY <1>1, <1>2, <1>3, <1>4
  <1>7. entries'[at + 2] = Entry(Away, "done")
    BY <1>1, <1>2, <1>3, <1>4
  <1> QED  BY <1>1, <1>2, <1>3, <1>5, <1>6, <1>7

\* Where a Back leads.
LEMMA BackTyped ==
    ASSUME SessionTyped, HasBack(active, history)
    PROVE  /\ BackTarget(active, history) \in Steps
           /\ StackAfterBack(active, history) \in Seq(Steps)
  <1> DEFINE clean == Sanitized(active, history)
  <1>1. clean \in Seq(Steps)
    BY SanitizedIs DEF SessionTyped
  <1>2. CASE active = "touch"
    <2>1. BackTarget(active, history) = "touch_seed_source"
          /\ StackAfterBack(active, history) = StackAfterChooser(clean)
      BY <1>2 DEF BackTarget, StackAfterBack
    <2> HIDE DEF clean
    <2>2. StackAfterChooser(clean) \in Seq(Steps)
      BY <1>1, FrontLast DEF StackAfterChooser
    <2> QED  BY <2>1, <2>2, WalkIs
  <1>3. CASE active # "touch"
    <2>1. BackTarget(active, history) = Last(clean) /\ clean # << >>
          /\ StackAfterBack(active, history) = Front(clean)
      BY <1>3 DEF BackTarget, StackAfterBack, HasBack
    <2> HIDE DEF clean
    <2> QED  BY <1>1, <2>1, FrontLast
  <1> QED  BY <1>2, <1>3

LEMMA StoreBackTyped ==
    ASSUME SessionTyped, HasBack(active, history), StoreBack, trail' = TrailAfterBack(active')
    PROVE  SessionTyped'
  <1>1. active' \in Steps /\ history' \in Seq(Steps) /\ visited' = visited
    BY BackTyped DEF StoreBack
  <1>2. trail' \in Seq(Steps)
    BY UpToFound DEF TrailAfterBack, SessionTyped
  <1> QED  BY <1>1, <1>2 DEF SessionTyped

LEMMA PrefixTyped ==
    ASSUME NEW S, NEW seq \in Seq(S), NEW k \in 1 .. Len(seq)
    PROVE  SubSeq(seq, 1, k) \in Seq(S)
  OBVIOUS

LEMMA InitTyped == Init => TypeInv
  <1> SUFFICES ASSUME Init PROVE TypeInv
    OBVIOUS
  <1>1. PICK k \in Resumed :
            /\ active = Walk[k]
            /\ history = Sanitized(Walk[k], UpTo(Walk, k))
            /\ visited = SubSeq(Walk, 1, k)
            /\ entries = << Entry(Survey, Walk[k]) >>
            /\ at = 1
            /\ prev = Walk[k]
            /\ trail = UpTo(Walk, k)
    BY DEF Init
  <1>2. k \in 1 .. 11 /\ k \in 0 .. Len(Walk) /\ Walk \in Seq(Steps)
    BY ResumedIsInWalk, WalkIs
  <1>3. Walk[k] \in Steps /\ SubSeq(Walk, 1, k) \in Seq(Steps) /\ UpTo(Walk, k) \in Seq(Steps)
    <2>1. UpTo(Walk, k) \in Seq(Steps)
      BY <1>2, UpToIs
    <2>2. k \in 1 .. Len(Walk)
      BY <1>2, WalkIs
    <2>3. SubSeq(Walk, 1, k) \in Seq(Steps)
      BY <1>2, <2>2, PrefixTyped
    <2> QED  BY <1>2, <2>1, <2>2, <2>3
  <1>4. Sanitized(Walk[k], UpTo(Walk, k)) \in Seq(Steps)
    BY <1>3, SanitizedIs
  <1>5. Entry(Survey, Walk[k]) \in Entries
    BY <1>3, EntryIs
  <1> QED  BY <1>1, <1>3, <1>4, <1>5 DEF TypeInv, SessionTyped, BrowserTyped, Mounted

LEMMA CompleteTyped ==
    ASSUME TypeInv, Complete
    PROVE  TypeInv'
  <1> DEFINE to == NextStep(active)
  <1>1. active \in Steps \ {"done"} /\ to \in Steps
    BY NextStepIs DEF Complete, TypeInv, SessionTyped
  <1>2. /\ active' = to /\ history' = Append(history, active) /\ visited' = VisitedAfter(to)
        /\ trail' = IF to = active THEN trail ELSE Append(trail, active)
        /\ IF to = "done" THEN PushFinish ELSE PushAdvance(to)
    BY DEF Complete
  <1> HIDE DEF to
  <1>3. SessionTyped'
    BY <1>1, <1>2, VisitedAfterTyped DEF TypeInv, SessionTyped
  <1>4. CASE to = "done"
    <2>1. entries' \in Seq(Entries) /\ at' = at + 2 /\ Len(entries') = at + 2
          /\ entries'[at + 2] = Entry(Away, "done")
      BY <1>2, <1>4, PushFinishIs DEF TypeInv
    <2>2. ~ Mounted' /\ at \in Nat
      BY <2>1, EntryIs DEF Mounted, route, TypeInv, BrowserTyped
    <2> QED  BY <1>3, <2>1, <2>2 DEF TypeInv, BrowserTyped
  <1>5. CASE to # "done"
    BY <1>1, <1>2, <1>3, <1>5, PushAdvanceIs DEF TypeInv
  <1> QED  BY <1>4, <1>5

LEMMA InAppBackTyped ==
    ASSUME TypeInv, InAppBack
    PROVE  TypeInv'
  <1>1. SessionTyped'
    BY StoreBackTyped DEF InAppBack, TypeInv
  <1>2. BrowserTyped'
    BY DEF InAppBack, TypeInv, BrowserTyped, Mounted, route
  <1> QED  BY <1>1, <1>2 DEF TypeInv

LEMMA BrowserGoTyped ==
    ASSUME TypeInv, NEW to, BrowserGo(to)
    PROVE  TypeInv'
  <1>1. to \in 1 .. Len(entries)
    BY DEF BrowserGo
  <1>2. SessionTyped'
    <2>1. CASE Mounted /\ Accepts(entries[to])
      BY <2>1, StoreBackTyped DEF BrowserGo, TypeInv, Accepts
    <2>2. CASE ~ (Mounted /\ Accepts(entries[to]))
      BY <2>2 DEF BrowserGo, TypeInv, SessionTyped
    <2> QED  BY <2>1, <2>2
  <1>3. BrowserTyped'
    <2>1. CASE ~ Mounted /\ entries[to].route = Survey
      <3>1. MountTag(entries, to, active) /\ active' = active /\ active \in Steps
        BY <2>1 DEF BrowserGo, TypeInv, SessionTyped
      <3>2. /\ entries' \in Seq(Entries) /\ Len(entries') = Len(entries) /\ at' = to
            /\ prev' = active
        BY <1>1, <2>1, <3>1, MountTagIs DEF TypeInv, BrowserTyped
      <3> QED  BY <1>1, <3>1, <3>2 DEF BrowserTyped
    <2>2. CASE ~ (~ Mounted /\ entries[to].route = Survey)
      <3>1. at' = to /\ entries' = entries /\ prev' = IF Mounted THEN active' ELSE prev
        BY <2>2 DEF BrowserGo
      <3>2. Mounted' => Mounted
        BY <2>2, <3>1 DEF Mounted, route
      <3> QED  BY <1>1, <3>1, <3>2 DEF TypeInv, BrowserTyped
    <2> QED  BY <2>1, <2>2
  <1> QED  BY <1>2, <1>3 DEF TypeInv

LEMMA JumpTyped ==
    ASSUME TypeInv, NEW target \in Steps, JumpToStep(target)
    PROVE  TypeInv'
  <1>1. Sanitized(active, history) \in Seq(Steps)
    BY SanitizedIs DEF TypeInv, SessionTyped
  <1>2. Rebuilt(target) \in Seq(Steps)
    BY UpToFound, SanitizedIs DEF Rebuilt, TypeInv, SessionTyped
  <1>3. StackAfterJump(target) \in Seq(Steps)
    BY <1>1, <1>2, UpToFound DEF StackAfterJump
  <1>4. SessionTyped'
    BY <1>3, VisitedAfterTyped DEF JumpToStep, Untrack, TypeInv, SessionTyped
  <1>5. BrowserTyped'
    BY GoToSurveyIs DEF JumpToStep, TypeInv
  <1> QED  BY <1>4, <1>5 DEF TypeInv

LEMMA GalleryTyped ==
    ASSUME TypeInv, NEW target \in {"mechanisms", "touch"}, BackToUnfinishedGallery(target)
    PROVE  TypeInv'
  <1> DEFINE clean == Sanitized(active, history)
  <1>1. clean \in Seq(Steps) /\ target \in Steps
    BY SanitizedIs, WalkIs DEF TypeInv, SessionTyped
  <1>2. history' = IF clean = << >> THEN clean ELSE Front(clean)
    BY DEF BackToUnfinishedGallery
  <1> HIDE DEF clean
  <1>3. history' \in Seq(Steps)
    BY <1>1, <1>2, FrontLast
  <1>4. SessionTyped'
    BY <1>1, <1>3 DEF BackToUnfinishedGallery, Untrack, TypeInv, SessionTyped
  <1>5. BrowserTyped'
    BY <1>1, GoToSurveyIs DEF BackToUnfinishedGallery, TypeInv
  <1> QED  BY <1>4, <1>5 DEF TypeInv

LEMMA ChooseStartTyped ==
    ASSUME TypeInv, BackToChooseStart
    PROVE  TypeInv'
  <1> DEFINE clean == Sanitized(active, history)
  <1>1. clean \in Seq(Steps) /\ "choose_base" \in Steps
    BY SanitizedIs, WalkIs DEF TypeInv, SessionTyped
  <1>2. history' = IF Contains(clean, "choose_base")
                   THEN UpTo(clean, FirstOf(clean, "choose_base")) ELSE << >>
    BY DEF BackToChooseStart
  <1> HIDE DEF clean
  <1>3. history' \in Seq(Steps)
    BY <1>1, <1>2, UpToFound
  <1>4. SessionTyped'
    BY <1>1, <1>3 DEF BackToChooseStart, Untrack, TypeInv, SessionTyped
  <1>5. BrowserTyped'
    BY <1>1, GoToSurveyIs DEF BackToChooseStart, TypeInv
  <1> QED  BY <1>4, <1>5 DEF TypeInv

LEMMA StartOverTyped ==
    ASSUME TypeInv, StartOver
    PROVE  TypeInv'
  <1>1. "identity" \in Steps /\ << >> \in Seq(Steps) /\ << "identity" >> \in Seq(Steps)
    BY WalkIs
  <1>2. SessionTyped'
    BY <1>1 DEF StartOver, SessionTyped
  <1>3. BrowserTyped'
    BY <1>1, PushAdvanceIs DEF StartOver, TypeInv
  <1> QED  BY <1>2, <1>3 DEF TypeInv

LEMMA TabsTyped ==
    ASSUME TypeInv, LeaveTab \/ ReturnToTab
    PROVE  TypeInv'
  <1>1. SessionTyped'
    BY DEF LeaveTab, ReturnToTab, store, ghosts, TypeInv, SessionTyped
  <1>2. CASE LeaveTab
    <2>1. entries' = Push(entries, at, Entry(Away, NoTag)) /\ at' = at + 1
      BY <1>2 DEF LeaveTab
    <2>2. entries' \in Seq(Entries) /\ Len(entries') = at + 1
          /\ entries'[at + 1] = Entry(Away, NoTag)
      BY <2>1, PushIs, EntryIs DEF TypeInv, BrowserTyped
    <2>3. ~ Mounted'
      BY <2>1, <2>2, EntryIs DEF Mounted, route
    <2> QED  BY <1>1, <2>1, <2>2, <2>3 DEF TypeInv, BrowserTyped
  <1>3. CASE ReturnToTab
    <2>1. GoToSurvey(active) /\ active' = active
      BY <1>3 DEF ReturnToTab, store
    <2> QED  BY <1>1, <2>1, GoToSurveyIs DEF TypeInv, SessionTyped
  <1> QED  BY <1>2, <1>3

LEMMA ReloadTyped ==
    ASSUME TypeInv, Reload
    PROVE  TypeInv'
  <1>1. SessionTyped'
    BY SanitizedIs DEF Reload, ghosts, TypeInv, SessionTyped
  <1>2. CASE Mounted
    <2>1. MountTag(entries, at, active) /\ active' = active
      BY <1>2 DEF Reload
    <2>2. /\ entries' \in Seq(Entries) /\ Len(entries') = Len(entries) /\ at' = at
          /\ prev' = active
      BY <1>2, <2>1, MountTagIs DEF TypeInv, SessionTyped, BrowserTyped, Mounted, route
    <2> QED  BY <1>1, <2>1, <2>2 DEF TypeInv, BrowserTyped
  <1>3. CASE ~ Mounted
    BY <1>1, <1>3 DEF Reload, TypeInv, BrowserTyped, Mounted, route
  <1> QED  BY <1>2, <1>3

LEMMA NextTyped == TypeInv /\ [Next]_vars => TypeInv'
  <1> SUFFICES ASSUME TypeInv, [Next]_vars PROVE TypeInv'
    OBVIOUS
  <1>1. CASE Complete  BY <1>1, CompleteTyped
  <1>2. CASE InAppBack  BY <1>2, InAppBackTyped
  <1>3. CASE BrowserBack \/ BrowserForward
    BY <1>3, BrowserGoTyped DEF BrowserBack, BrowserForward
  <1>4. CASE \E target \in Steps : JumpToStep(target)  BY <1>4, JumpTyped
  <1>5. CASE \E target \in {"mechanisms", "touch"} : BackToUnfinishedGallery(target)
    BY <1>5, GalleryTyped
  <1>6. CASE BackToChooseStart  BY <1>6, ChooseStartTyped
  <1>7. CASE StartOver  BY <1>7, StartOverTyped
  <1>8. CASE LeaveTab \/ ReturnToTab  BY <1>8, TabsTyped
  <1>9. CASE Reload  BY <1>9, ReloadTyped
  <1>10. CASE UNCHANGED vars
    BY <1>10 DEF vars, TypeInv, SessionTyped, BrowserTyped, Mounted, route
  <1> QED  BY <1>1, <1>2, <1>3, <1>4, <1>5, <1>6, <1>7, <1>8, <1>9, <1>10 DEF Next

-----------------------------------------------------------------------------
\* Back

\* Only Back takes the author back in a move of the walk.
LEMMA BackedIsBack ==
    ASSUME [Next]_vars, Backed
    PROVE  HasBack(active, history) /\ StoreBack
  <1>1. CASE Complete
    BY <1>1 DEF Complete, Backed
  <1>2. CASE InAppBack
    BY <1>2 DEF InAppBack
  <1>3. CASE BrowserBack \/ BrowserForward
    <2>1. PICK to : BrowserGo(to)
      BY <1>3 DEF BrowserBack, BrowserForward
    <2>2. Mounted /\ Accepts(entries[to])
      BY <2>1 DEF BrowserGo, Backed
    <2> QED  BY <2>1, <2>2 DEF BrowserGo, Accepts
  <1>4. CASE \E target \in Steps : JumpToStep(target)
    BY <1>4 DEF JumpToStep, Detouring, Backed
  <1>5. CASE \E target \in {"mechanisms", "touch"} : BackToUnfinishedGallery(target)
    BY <1>5 DEF BackToUnfinishedGallery, Detouring, Backed
  <1>6. CASE BackToChooseStart
    BY <1>6 DEF BackToChooseStart, Detouring, Backed
  <1>7. CASE StartOver \/ LeaveTab \/ ReturnToTab \/ Reload
    BY <1>7 DEF StartOver, LeaveTab, ReturnToTab, Reload, Detouring, Backed
  <1>8. CASE UNCHANGED vars
    BY <1>8 DEF vars, Backed
  <1> QED  BY <1>1, <1>2, <1>3, <1>4, <1>5, <1>6, <1>7, <1>8 DEF Next

\* Off "html", the stack that is popped has no help on it.
LEMMA BackAvoidsGate ==
    ASSUME SessionTyped, HasBack(active, history), BackTarget(active, history) = "help"
    PROVE  active = "html"
  <1>1. SUFFICES ASSUME active # "html" PROVE FALSE
    OBVIOUS
  <1>2. active # "touch"
    BY DEF BackTarget
  <1>3. Sanitized(active, history) = WithoutHelp(history)
    BY <1>1, SanitizedIs DEF SessionTyped
  <1>4. WithoutHelp(history) # << >> /\ Last(WithoutHelp(history)) = "help"
    BY <1>2, <1>3 DEF HasBack, BackTarget
  <1> QED  BY <1>4, WithoutHelpLast DEF SessionTyped

\* However the author got there, by jumps and detours too, Back never lands on
\* the gate on help but from the step help leads to: the entries a blocked Next
\* left on the stack are passed over (sanitizeHistory, performManifestBack).
THEOREM SurveyGateNotResurfaced == Spec => GateNotResurfaced
  <1>1. Init => TypeInv
    BY InitTyped
  <1>2. TypeInv /\ [Next]_vars => TypeInv'
    BY NextTyped
  <1>3. TypeInv /\ [Next]_vars => [(Backed /\ active' = "help") => active = "html"]_vars
    BY BackedIsBack, BackAvoidsGate DEF StoreBack, TypeInv
  <1> QED  BY <1>1, <1>2, <1>3, PTL DEF Spec, GateNotResurfaced

-----------------------------------------------------------------------------
\* The stack and the walked path

\* The path is walked upwards, and but for helps it is what is on the stack.
\* On "html" a help on top of the stack is the last step of the path.
Upwards(seq) ==
    \A i, j \in 1 .. Len(seq) : i < j => Position(seq[i]) < Position(seq[j])
Below(seq, step) == \A i \in 1 .. Len(seq) : Position(seq[i]) < Position(step)

PathInv(step, stack, path) ==
    /\ Upwards(path)
    /\ Below(path, step)
    /\ WithoutHelp(stack) = WithoutHelp(path)
    /\ (step = "html" /\ stack # << >> /\ Last(stack) = "help")
           => (path # << >> /\ Last(path) = "help")

TrailInv == tracked => PathInv(active, history, trail)

LEMMA UpwardsCut ==
    ASSUME NEW seq \in Seq(Steps), Upwards(seq), NEW i \in 1 .. Len(seq)
    PROVE  /\ LastOf(seq, seq[i]) = i
           /\ Upwards(UpTo(seq, i)) /\ Below(UpTo(seq, i), seq[i])
  <1>1. Len(seq) \in Nat /\ \A j \in 1 .. Len(seq) : seq[j] \in Steps
    OBVIOUS
  <1>2. \A j \in 1 .. Len(seq) : Position(seq[j]) \in 1 .. 11
    BY <1>1, PositionIs
  <1>3. ASSUME NEW j \in 1 .. Len(seq), seq[j] = seq[i] PROVE j = i
    <2>1. ~ (i < j) /\ ~ (j < i)
      BY <1>2, <1>3 DEF Upwards
    <2> QED  BY <1>1, <2>1
  <1>4. LastOf(seq, seq[i]) = i
    BY <1>1, <1>3, FoundAt
  <1>5. Len(UpTo(seq, i)) = i - 1 /\ \A j \in 1 .. i - 1 : UpTo(seq, i)[j] = seq[j]
    BY UpToIs
  <1>6. \A j \in 1 .. i - 1 : j \in 1 .. Len(seq) /\ j < i
    BY <1>1
  <1> QED  BY <1>4, <1>5, <1>6 DEF Upwards, Below

\* Cut before its last element a sequence is its front.
LEMMA UpToEnd ==
    ASSUME NEW S, NEW seq \in Seq(S), seq # << >>
    PROVE  UpTo(seq, Len(seq)) = Front(seq)
  BY DEF UpTo, Front

\* Cut at a step on it, the path loses that step and a help after it.
LEMMA CutPath ==
    ASSUME NEW path \in Seq(Steps), Upwards(path), WithoutHelp(path) # << >>
    PROVE  LET x == Last(WithoutHelp(path)) IN
           /\ Contains(path, x)
           /\ WithoutHelp(UpTo(path, LastOf(path, x))) = Front(WithoutHelp(path))
           /\ Upwards(UpTo(path, LastOf(path, x)))
           /\ Below(UpTo(path, LastOf(path, x)), x)
  <1> DEFINE n == Len(path)
             y == Last(path)
             u == Front(path)
             x == Last(WithoutHelp(path))
  <1>1. path # << >>
    BY WithoutHelpEmpty
  <1>2. u \in Seq(Steps) /\ y \in Steps /\ n \in Nat \ {0} /\ y = path[n] /\ Len(u) = n - 1
    BY <1>1, FrontLast
  <1>3. WithoutHelp(path) = IF y = "help" THEN WithoutHelp(u) ELSE Append(WithoutHelp(u), y)
    BY <1>1, WithoutHelpEnd, Zenon
  <1>4. \A i \in 1 .. n - 1 : u[i] = path[i]
    BY <1>1, FrontLast, Zenon
  <1>5. WithoutHelp(u) \in Seq(Steps)
    BY <1>2, WithoutHelpTwice
  <1>6. UpTo(path, n) = u
    BY <1>1, UpToEnd
  <1> HIDE DEF n, y, u
  <1>7. CASE y # "help"
    <2>1. x = y /\ Front(WithoutHelp(path)) = WithoutHelp(u)
      BY <1>2, <1>3, <1>5, <1>7, AppendEnds
    <2>2. n \in 1 .. Len(path) /\ path[n] = x
      BY <1>2, <2>1 DEF n
    <2> HIDE DEF x
    <2>3. LastOf(path, x) = n /\ Upwards(UpTo(path, n)) /\ Below(UpTo(path, n), x)
      BY <2>2, UpwardsCut
    <2>4. Contains(path, x)
      BY <2>2 DEF Contains
    <2> QED  BY <1>6, <2>1, <2>3, <2>4 DEF x
  <1>8. CASE y = "help"
    <2>1. WithoutHelp(path) = WithoutHelp(u) /\ u # << >>
      BY <1>3, <1>8, WithoutHelpEmpty
    <2> DEFINE z == Last(u)
               v == Front(u)
    <2>2. v \in Seq(Steps) /\ z \in Steps /\ z = u[n - 1] /\ n - 1 \in 1 .. n - 1
      BY <1>2, <2>1, FrontLast
    <2>3. WithoutHelp(u) = IF z = "help" THEN WithoutHelp(v) ELSE Append(WithoutHelp(v), z)
      BY <1>2, <2>1, WithoutHelpEnd, Zenon
    <2>4. UpTo(u, n - 1) = v
      BY <1>2, <2>1, UpToEnd
    <2> HIDE DEF z, v
    <2>5. z = path[n - 1] /\ n - 1 \in 1 .. n /\ n \in 1 .. n /\ n - 1 < n
      BY <1>2, <1>4, <2>2
    <2>6. z # "help"
      <3>1. Position(path[n - 1]) < Position(path[n])
        BY <2>5 DEF Upwards, n
      <3> QED  BY <1>2, <1>8, <2>5, <3>1, PositionIs
    <2>7. x = z /\ Front(WithoutHelp(path)) = WithoutHelp(v)
      BY <2>1, <2>2, <2>3, <2>6, AppendEnds, WithoutHelpTwice
    <2>8. n - 1 \in 1 .. Len(path) /\ path[n - 1] = x
      BY <2>5, <2>7 DEF n
    <2> HIDE DEF x
    <2>9. LastOf(path, x) = n - 1 /\ Upwards(UpTo(path, n - 1)) /\ Below(UpTo(path, n - 1), x)
      BY <2>8, UpwardsCut
    <2>10. UpTo(path, n - 1) = v
      <3>1. n - 1 \in 0 .. Len(path) /\ n - 1 \in 0 .. Len(u) /\ n - 1 > 0
        BY <1>2, <2>2 DEF n
      <3>2. /\ UpTo(path, n - 1) \in Seq(Steps) /\ Len(UpTo(path, n - 1)) = (n - 1) - 1
            /\ \A j \in 1 .. (n - 1) - 1 : UpTo(path, n - 1)[j] = path[j]
        BY <3>1, UpToIs
      <3>3. /\ v \in Seq(Steps) /\ Len(v) = (n - 1) - 1
            /\ \A j \in 1 .. (n - 1) - 1 : v[j] = u[j]
        BY <1>2, <2>4, <3>1, UpToIs
      <3>4. \A j \in 1 .. (n - 1) - 1 : u[j] = path[j]
        BY <1>2, <1>4
      <3> QED  BY <3>2, <3>3, <3>4
    <2>11. Contains(path, x)
      BY <2>8 DEF Contains
    <2> QED  BY <2>7, <2>9, <2>10, <2>11 DEF x
  <1> QED  BY <1>7, <1>8

\* Back leads along the path, and cuts it where it leads.
LEMMA BackCutsPath ==
    ASSUME SessionTyped, PathInv(active, history, trail), HasBack(active, history)
    PROVE  LET x == BackTarget(active, history) IN
           /\ \/ active = "touch" /\ x = "touch_seed_source"
              \/ trail # << >> /\ x = Last(trail)
              \/ WithoutHelp(trail) # << >> /\ x = Last(WithoutHelp(trail))
           /\ PathInv(x, StackAfterBack(active, history), TrailAfterBack(x))
  <1> DEFINE clean == Sanitized(active, history)
             w == WithoutHelp(trail)
             x == BackTarget(active, history)
             left == StackAfterBack(active, history)
  <1>1. /\ active \in Steps /\ history \in Seq(Steps) /\ trail \in Seq(Steps)
        /\ Upwards(trail) /\ Below(trail, active) /\ WithoutHelp(history) = w
    BY DEF SessionTyped, PathInv
  <1>2. clean \in Seq(Steps) /\ WithoutHelp(clean) = w
        /\ (active # "html" => clean = w)
    BY <1>1, SanitizedIs
  <1>3. w \in Seq(Steps) /\ WithoutHelp(w) = w
    BY <1>1, WithoutHelpTwice
  <1>4. ASSUME w # << >>, x = Last(w)
        PROVE  /\ TrailAfterBack(x) = UpTo(trail, LastOf(trail, x))
               /\ Upwards(TrailAfterBack(x)) /\ Below(TrailAfterBack(x), x)
               /\ WithoutHelp(TrailAfterBack(x)) = Front(w)
               /\ Front(w) \in Seq(Steps) /\ WithoutHelp(Front(w)) = Front(w)
    <2>1. /\ Contains(trail, x)
          /\ WithoutHelp(UpTo(trail, LastOf(trail, x))) = Front(w)
          /\ Upwards(UpTo(trail, LastOf(trail, x))) /\ Below(UpTo(trail, LastOf(trail, x)), x)
      BY <1>1, <1>4, CutPath
    <2>2. Front(w) \in Seq(Steps) /\ WithoutHelp(Front(w)) = Front(w)
      BY <1>1, <1>4, WithoutHelpFront
    <2> HIDE DEF x, w
    <2> QED  BY <2>1, <2>2 DEF TrailAfterBack
  \* What the front of the stack leaves cannot end in a help.
  <1>5. ASSUME w # << >>, Front(w) # << >> PROVE Last(Front(w)) # "help"
    <2>1. Front(w) \in Seq(Steps) /\ WithoutHelp(Front(w)) = Front(w)
      BY <1>1, <1>5, WithoutHelpFront
    <2> DEFINE f == Front(w)
    <2> HIDE DEF f, w
    <2>2. f \in Seq(Steps) /\ WithoutHelp(f) = f /\ f # << >>
      BY <1>5, <2>1 DEF f
    <2> QED  BY <2>2, WithoutHelpLast DEF f
  <1>6. CASE active = "touch"
    <2>1. x = "touch_seed_source" /\ left = StackAfterChooser(w)
      BY <1>2, <1>6 DEF BackTarget, StackAfterBack
    <2>2. CASE w # << >> /\ Last(w) = "touch_seed_source"
      <3>1. left = Front(w)
        BY <2>1, <2>2 DEF StackAfterChooser
      <3> HIDE DEF x, w, left
      <3> QED  BY <1>4, <1>6, <2>1, <2>2, <3>1 DEF PathInv, x, left, w
    <2>3. CASE ~ (w # << >> /\ Last(w) = "touch_seed_source")
      <3>1. left = w
        BY <2>1, <2>3 DEF StackAfterChooser
      <3>2. ASSUME NEW i \in 1 .. Len(trail)
            PROVE  Position(trail[i]) < Position("touch_seed_source")
        <4>1. Position(trail[i]) < 6 /\ trail[i] \in Steps
          BY <1>1, <1>6, PositionIs DEF Below
        <4>2. SUFFICES ASSUME trail[i] = "touch_seed_source" PROVE FALSE
          BY <4>1, PositionIs, PositionInjective, WalkIs
        <4>3. ASSUME NEW j \in 1 .. Len(trail), i < j PROVE FALSE
          <5>1. Position(trail[i]) < Position(trail[j]) /\ Position(trail[j]) < 6
                /\ trail[j] \in Steps
            BY <1>1, <1>6, <4>3, PositionIs DEF Upwards, Below
          <5> QED  BY <4>2, <5>1, PositionIs
        <4>4. Len(trail) \in 1 .. Len(trail) /\ ~ (i < Len(trail)) /\ trail # << >>
          BY <1>1, <4>3
        <4>5. i = Len(trail)
          BY <1>1, <4>4
        <4>6. Last(trail) = "touch_seed_source"
          BY <4>2, <4>5 DEF Last
        <4>7. w = Append(WithoutHelp(Front(trail)), "touch_seed_source")
          BY <1>1, <4>4, <4>6, WithoutHelpEnd
        <4>8. WithoutHelp(Front(trail)) \in Seq(Steps) /\ "touch_seed_source" \in Steps
          BY <1>1, <4>4, FrontLast, WithoutHelpTwice, WalkIs
        <4> HIDE DEF w
        <4> QED  BY <2>3, <4>7, <4>8, AppendEnds
      <3>3. ~ Contains(trail, "touch_seed_source")
        BY <3>2, PositionIs DEF Contains
      <3>4. TrailAfterBack(x) = trail
        BY <2>1, <3>3 DEF TrailAfterBack
      <3>5. Below(trail, x)
        BY <2>1, <3>2 DEF Below
      <3> HIDE DEF x, w, left
      <3> QED  BY <1>1, <1>3, <1>6, <2>1, <3>1, <3>4, <3>5 DEF PathInv, x, left, w
    <2> QED  BY <2>2, <2>3
  <1>7. CASE active # "touch" /\ active # "html"
    <2>1. w # << >> /\ x = Last(w) /\ left = Front(w)
      BY <1>2, <1>7 DEF BackTarget, StackAfterBack, HasBack
    <2> HIDE DEF x, w, left
    <2> QED  BY <1>4, <1>5, <2>1 DEF PathInv, x, left, w
  <1>8. CASE active = "html"
    <2>1. history # << >> /\ x = Last(history) /\ left = Front(history)
      BY <1>8 DEF BackTarget, StackAfterBack, HasBack, Sanitized
    <2>2. Front(history) \in Seq(Steps) /\ Last(history) \in Steps
      BY <1>1, <2>1, FrontLast
    <2>3. w = IF x = "help" THEN WithoutHelp(left) ELSE Append(WithoutHelp(left), x)
      BY <1>1, <2>1, WithoutHelpEnd, Zenon
    <2>4. CASE x = "help"
      <3>1. trail # << >> /\ Last(trail) = "help"
        BY <1>8, <2>1, <2>4 DEF PathInv
      <3>2. Len(trail) \in 1 .. Len(trail) /\ trail[Len(trail)] = x
        <4>1. Last(trail) = trail[Len(trail)]
          BY <1>1, <3>1, FrontLast, Zenon
        <4> QED  BY <1>1, <2>4, <3>1, <4>1
      <3>3. LastOf(trail, x) = Len(trail) /\ Contains(trail, x)
        BY <1>1, <3>2, UpwardsCut DEF Contains
      <3>4. TrailAfterBack(x) = UpTo(trail, Len(trail))
        BY <3>3 DEF TrailAfterBack
      <3>5. Upwards(UpTo(trail, Len(trail))) /\ Below(UpTo(trail, Len(trail)), x)
        BY <1>1, <3>2, UpwardsCut
      <3>6. WithoutHelp(UpTo(trail, Len(trail))) = w
        <4>1. UpTo(trail, Len(trail)) = Front(trail)
          BY <1>1, <3>1, UpToEnd
        <4> QED  BY <1>1, <3>1, <4>1, WithoutHelpEnd
      <3> HIDE DEF x, w, left
      <3> QED  BY <2>3, <2>4, <3>1, <3>4, <3>5, <3>6 DEF PathInv, x, left, w
    <2>5. CASE x # "help"
      <3>1. WithoutHelp(left) \in Seq(Steps)
        BY <2>1, <2>2, WithoutHelpTwice
      <3> HIDE DEF x, w, left
      <3>2. w # << >> /\ x = Last(w) /\ Front(w) = WithoutHelp(left)
        BY <2>1, <2>2, <2>3, <2>5, <3>1, AppendEnds
      <3>3. x # "html"
        <4>1. Below(UpTo(trail, LastOf(trail, x)), x) /\ Contains(trail, x)
          BY <1>1, <3>2, CutPath DEF w
        <4> QED  BY <1>1, <1>8, <4>1, PositionIs DEF Below, Contains
      <3> QED  BY <1>4, <3>2, <3>3 DEF PathInv, x, left, w
    <2> QED  BY <2>4, <2>5
  <1> QED  BY <1>6, <1>7, <1>8

LEMMA InitPath == Init => TrailInv
  <1> SUFFICES ASSUME Init PROVE PathInv(active, history, trail)
    BY DEF TrailInv
  <1>1. PICK k \in Resumed :
            /\ active = Walk[k]
            /\ history = Sanitized(Walk[k], UpTo(Walk, k))
            /\ trail = UpTo(Walk, k)
    BY DEF Init
  <1>2. k \in 1 .. Len(Walk) /\ k \in 1 .. 11 /\ Walk \in Seq(Steps)
    BY ResumedIsInWalk, WalkIs
  <1>3. Upwards(Walk)
    BY WalkIs, PositionOf DEF Upwards
  <1>4. Upwards(trail) /\ Below(trail, active) /\ trail \in Seq(Steps)
    BY <1>1, <1>2, <1>3, UpwardsCut, UpToIs
  <1>5. WithoutHelp(history) = WithoutHelp(trail)
    BY <1>1, <1>4, SanitizedIs
  <1>6. active = "html" => history = trail
    BY <1>1 DEF Sanitized
  <1> QED  BY <1>4, <1>5, <1>6 DEF PathInv

LEMMA CompletePath ==
    ASSUME SessionTyped, TrailInv, Complete
    PROVE  TrailInv'
  <1>1. SUFFICES ASSUME tracked PROVE PathInv(active', history', trail')
    BY DEF TrailInv, Complete
  <1> DEFINE to == NextStep(active)
  <1>2. /\ active \in Steps \ {"done"} /\ history \in Seq(Steps) /\ trail \in Seq(Steps)
        /\ Upwards(trail) /\ Below(trail, active)
        /\ WithoutHelp(history) = WithoutHelp(trail)
    BY <1>1 DEF SessionTyped, TrailInv, PathInv, Complete
  <1>3. /\ active' = to
        /\ history' = Append(history, active)
        /\ trail' = IF to = active THEN trail ELSE Append(trail, active)
    BY DEF Complete
  <1>4. /\ to \in Steps
        /\ to = active => active = "help"
        /\ to # active => Position(to) > Position(active)
        /\ to = "html" => active = "help"
    <2>1. Position(active) \in 1 .. 11 /\ Position(to) \in 1 .. 11
      BY <1>2, NextStepIs, PositionIs
    <2> QED  BY <1>2, <2>1, NextStepIs
  <1> HIDE DEF to
  <1>5. WithoutHelp(history') =
          IF active = "help" THEN WithoutHelp(history) ELSE Append(WithoutHelp(history), active)
    BY <1>2, <1>3, WithoutHelpAppend
  <1>6. CASE to = active
    BY <1>2, <1>3, <1>4, <1>5, <1>6 DEF PathInv
  <1>7. CASE to # active
    <2>1. trail' = Append(trail, active) /\ Last(trail') = active /\ trail' # << >>
      BY <1>2, <1>3, <1>7, AppendEnds
    <2>2. WithoutHelp(trail') = WithoutHelp(history')
      BY <1>2, <1>5, <2>1, WithoutHelpAppend
    <2>3. \A i \in 1 .. Len(trail') :
            \/ i \in 1 .. Len(trail) /\ trail'[i] = trail[i]
            \/ i = Len(trail) + 1 /\ trail'[i] = active
      BY <1>2, <2>1
    <2>4. \A i \in 1 .. Len(trail) : Position(trail[i]) < Position(active)
                                      /\ Position(trail[i]) \in Int
      BY <1>2, PositionIs DEF Below
    <2>5. Position(active) \in Int /\ Position(to) \in Int /\ Len(trail) \in Nat
      BY <1>2, <1>4, PositionIs
    <2>6. Upwards(trail')
      <3> SUFFICES ASSUME NEW i \in 1 .. Len(trail'), NEW j \in 1 .. Len(trail'), i < j
                   PROVE  Position(trail'[i]) < Position(trail'[j])
        BY DEF Upwards
      <3>1. i \in 1 .. Len(trail) /\ trail'[i] = trail[i]
        BY <2>1, <2>3, <2>5, <1>2
      <3>2. CASE j \in 1 .. Len(trail) /\ trail'[j] = trail[j]
        BY <1>2, <3>1, <3>2 DEF Upwards
      <3>3. CASE trail'[j] = active
        BY <2>4, <3>1, <3>3
      <3> QED  BY <2>3, <3>2, <3>3
    <2>7. Below(trail', to)
      <3> SUFFICES ASSUME NEW i \in 1 .. Len(trail') PROVE Position(trail'[i]) < Position(to)
        BY DEF Below
      <3>1. CASE trail'[i] = active
        BY <1>4, <1>7, <2>5, <3>1
      <3>2. CASE i \in 1 .. Len(trail) /\ trail'[i] = trail[i]
        BY <1>4, <1>7, <2>4, <2>5, <3>2
      <3> QED  BY <2>3, <3>1, <3>2
    <2> QED  BY <1>3, <1>4, <2>1, <2>2, <2>6, <2>7 DEF PathInv
  <1> QED  BY <1>6, <1>7

LEMMA StoreBackPath ==
    ASSUME SessionTyped, TrailInv, HasBack(active, history), StoreBack,
           trail' = TrailAfterBack(active'), tracked' = tracked
    PROVE  TrailInv'
  BY BackCutsPath DEF StoreBack, TrailInv

LEMMA NextPath == SessionTyped /\ TrailInv /\ [Next]_vars => TrailInv'
  <1> SUFFICES ASSUME SessionTyped, TrailInv, [Next]_vars PROVE TrailInv'
    OBVIOUS
  <1>1. CASE Complete  BY <1>1, CompletePath
  <1>2. CASE InAppBack
    BY <1>2, StoreBackPath DEF InAppBack
  <1>3. CASE BrowserBack \/ BrowserForward
    <2>1. PICK to : BrowserGo(to)
      BY <1>3 DEF BrowserBack, BrowserForward
    <2>2. CASE Mounted /\ Accepts(entries[to])
      BY <2>1, <2>2, StoreBackPath DEF BrowserGo, Accepts
    <2>3. CASE ~ (Mounted /\ Accepts(entries[to]))
      BY <2>1, <2>3 DEF BrowserGo, TrailInv
    <2> QED  BY <2>2, <2>3
  <1>4. CASE \E target \in Steps : JumpToStep(target)
    BY <1>4 DEF JumpToStep, Untrack, TrailInv
  <1>5. CASE \E target \in {"mechanisms", "touch"} : BackToUnfinishedGallery(target)
    BY <1>5 DEF BackToUnfinishedGallery, Untrack, TrailInv
  <1>6. CASE BackToChooseStart
    BY <1>6 DEF BackToChooseStart, Untrack, TrailInv
  <1>7. CASE StartOver
    <2>1. active' = "identity" /\ history' = << >> /\ trail' = << >>
      BY <1>7 DEF StartOver
    <2>2. \A i \in 1 .. Len(<< >>) : FALSE
      <3>1. Len(<< >>) = 0 /\ 1 .. 0 = {}
        OBVIOUS
      <3> QED  BY <3>1
    <2>3. PathInv("identity", << >>, << >>)
      BY <2>2 DEF PathInv, Upwards, Below
    <2> QED  BY <2>1, <2>3 DEF TrailInv
  <1>8. CASE LeaveTab \/ ReturnToTab
    BY <1>8 DEF LeaveTab, ReturnToTab, store, ghosts, TrailInv
  <1>9. CASE Reload
    <2>1. /\ active' = active /\ trail' = trail /\ tracked' = tracked
          /\ history' = Sanitized(active, history)
      BY <1>9 DEF Reload, ghosts
    <2>2. WithoutHelp(history') = WithoutHelp(history)
      BY <2>1, SanitizedIs DEF SessionTyped
    <2>3. active = "html" => history' = history
      BY <2>1 DEF Sanitized
    <2> QED  BY <2>1, <2>2, <2>3 DEF TrailInv, PathInv
  <1>10. CASE UNCHANGED vars
    BY <1>10 DEF vars, TrailInv
  <1> QED  BY <1>1, <1>2, <1>3, <1>4, <1>5, <1>6, <1>7, <1>8, <1>9, <1>10 DEF Next

\* Next and Back undo each other: whatever the two did before, over tabs,
\* reloads and fresh starts, Back leads to the step the author walked from,
\* leaving out at most a passed help (popHistory, backToTouchSeedSource).
THEOREM SurveyBackRetraces == Spec => BackRetraces
  <1>1. Init => TypeInv /\ TrailInv
    BY InitTyped, InitPath
  <1>2. TypeInv /\ TrailInv /\ [Next]_vars => (TypeInv /\ TrailInv)'
    BY NextTyped, NextPath DEF TypeInv
  <1>3. TypeInv /\ TrailInv /\ [Next]_vars =>
          [(Backed /\ tracked) =>
               \/ active = "touch" /\ active' = "touch_seed_source"
               \/ StepBehind(trail)
               \/ StepBehind(WithoutHelp(trail))]_vars
    BY BackedIsBack, BackCutsPath DEF StoreBack, TypeInv, TrailInv, StepBehind
  <1> QED  BY <1>1, <1>2, <1>3, PTL DEF Spec, BackRetraces

-----------------------------------------------------------------------------
\* The browser's entries and the stack

\* Two entries of the survey next to each other.
Joined(es, i) == es[i].route = Survey /\ es[i + 1].route = Survey

\* Where the author would be, at each entry up to the present one: from entry
\* to entry of the survey it is one Back, past another route it is the same.
Link(es, i, steps, stacks) ==
    IF Joined(es, i)
    THEN /\ es[i].step = steps[i]
         /\ HasBack(steps[i + 1], stacks[i + 1])
         /\ BackTarget(steps[i + 1], stacks[i + 1]) = steps[i]
         /\ stacks[i] = Sanitized(steps[i], StackAfterBack(steps[i + 1], stacks[i + 1]))
    ELSE steps[i] = steps[i + 1] /\ stacks[i] = stacks[i + 1]

Inner == Steps \ {"icon", "done"}

Chained(es, n, step, stack) ==
    \E steps \in [1 .. n -> Inner], stacks \in [1 .. n -> Seq(Steps)] :
        /\ steps[n] = step
        /\ stacks[n] = Sanitized(step, stack)
        /\ \A i \in 1 .. n - 1 : Link(es, i, steps, stacks)

\* The last steps are reached with plain histories only by a resumed draft.
Apart(es, n) == \A i \in 1 .. n - 1 : ~ Joined(es, i)

Placed(es, n, step, stack) ==
    IF step \in {"icon", "done"} THEN Apart(es, n) ELSE Chained(es, n, step, stack)

PlainInv == plain =>
    /\ history \in Seq(Steps \ {"done"})
    /\ Mounted => entries[at].step = active
    /\ Placed(entries, at, active, history)

\* Back depends on the stack only through its sanitized form.
LEMMA BackOfSanitized ==
    ASSUME NEW step, NEW stack \in Seq(Steps)
    PROVE  LET clean == Sanitized(step, stack) IN
           /\ clean \in Seq(Steps)
           /\ HasBack(step, clean) <=> HasBack(step, stack)
           /\ BackTarget(step, clean) = BackTarget(step, stack)
           /\ StackAfterBack(step, clean) = StackAfterBack(step, stack)
  <1>1. Sanitized(step, stack) \in Seq(Steps)
        /\ Sanitized(step, Sanitized(step, stack)) = Sanitized(step, stack)
    BY SanitizedIs
  <1> QED  BY <1>1 DEF HasBack, BackTarget, StackAfterBack

LEMMA BackStays ==
    ASSUME NEW S, NEW step, NEW stack \in Seq(S), HasBack(step, stack)
    PROVE  /\ StackAfterBack(step, stack) \in Seq(S)
           /\ step # "touch" => BackTarget(step, stack) \in S
  <1> DEFINE clean == Sanitized(step, stack)
  <1>1. clean \in Seq(S)
    BY SanitizedIs
  <1>2. CASE step = "touch"
    <2>1. StackAfterBack(step, stack) = StackAfterChooser(clean)
      BY <1>2 DEF StackAfterBack
    <2> HIDE DEF clean
    <2> QED  BY <1>1, <1>2, <2>1, FrontLast DEF StackAfterChooser
  <1>3. CASE step # "touch"
    <2>1. /\ BackTarget(step, stack) = Last(clean) /\ clean # << >>
          /\ StackAfterBack(step, stack) = Front(clean)
      BY <1>3 DEF BackTarget, StackAfterBack, HasBack
    <2> HIDE DEF clean
    <2> QED  BY <1>1, <2>1, FrontLast
  <1> QED  BY <1>2, <1>3

\* The chain one entry back.
LEMMA ChainPop ==
    ASSUME NEW es, NEW n \in Nat, n > 1, NEW step, NEW stack \in Seq(Steps),
           Chained(es, n, step, stack)
    PROVE  IF Joined(es, n - 1)
           THEN /\ HasBack(step, stack)
                /\ es[n - 1].step \in Inner
                /\ BackTarget(step, stack) = es[n - 1].step
                /\ Chained(es, n - 1, es[n - 1].step, StackAfterBack(step, stack))
           ELSE Chained(es, n - 1, step, stack)
  <1>1. PICK steps \in [1 .. n -> Inner], stacks \in [1 .. n -> Seq(Steps)] :
            /\ steps[n] = step
            /\ stacks[n] = Sanitized(step, stack)
            /\ \A i \in 1 .. n - 1 : Link(es, i, steps, stacks)
    BY DEF Chained
  <1> DEFINE steps2 == [i \in 1 .. n - 1 |-> steps[i]]
             stacks2 == [i \in 1 .. n - 1 |-> stacks[i]]
  <1>2. n - 1 \in 1 .. n - 1 /\ (n - 1) + 1 = n /\ 1 .. n - 1 \subseteq 1 .. n
    OBVIOUS
  <1>3. steps2 \in [1 .. n - 1 -> Inner] /\ stacks2 \in [1 .. n - 1 -> Seq(Steps)]
    BY <1>2
  <1>4. steps2[n - 1] = steps[n - 1] /\ stacks2[n - 1] = stacks[n - 1]
        /\ steps[n - 1] \in Inner
    BY <1>2
  <1>5. ASSUME NEW i \in 1 .. (n - 1) - 1 PROVE Link(es, i, steps2, stacks2)
    <2>1. i \in 1 .. n - 1 /\ i + 1 \in 1 .. n - 1
      OBVIOUS
    <2>2. /\ steps2[i] = steps[i] /\ steps2[i + 1] = steps[i + 1]
          /\ stacks2[i] = stacks[i] /\ stacks2[i + 1] = stacks[i + 1]
      BY <2>1
    <2>3. Link(es, i, steps, stacks)
      BY <1>1, <2>1
    <2> HIDE DEF steps2, stacks2
    <2> QED  BY <2>2, <2>3 DEF Link
  <1>6. Link(es, n - 1, steps, stacks)
    BY <1>1, <1>2
  <1> HIDE DEF steps2, stacks2
  <1>7. CASE Joined(es, n - 1)
    <2>1. /\ es[n - 1].step = steps[n - 1]
          /\ HasBack(step, Sanitized(step, stack))
          /\ BackTarget(step, Sanitized(step, stack)) = steps[n - 1]
          /\ stacks[n - 1] =
               Sanitized(steps[n - 1], StackAfterBack(step, Sanitized(step, stack)))
      BY <1>1, <1>2, <1>6, <1>7 DEF Link
    <2>2. /\ HasBack(step, stack) /\ BackTarget(step, stack) = es[n - 1].step
          /\ stacks[n - 1] = Sanitized(es[n - 1].step, StackAfterBack(step, stack))
      BY <2>1, BackOfSanitized
    <2>3. Chained(es, n - 1, es[n - 1].step, StackAfterBack(step, stack))
      BY <1>3, <1>4, <1>5, <2>1, <2>2 DEF Chained
    <2> QED  BY <1>4, <1>7, <2>1, <2>2, <2>3
  <1>8. CASE ~ Joined(es, n - 1)
    <2>1. steps[n - 1] = step /\ stacks[n - 1] = Sanitized(step, stack)
      BY <1>1, <1>2, <1>6, <1>8 DEF Link
    <2>2. Chained(es, n - 1, step, stack)
      BY <1>3, <1>4, <1>5, <2>1 DEF Chained
    <2> QED  BY <1>8, <2>2
  <1> QED  BY <1>7, <1>8

\* The chain one entry on, which is one Back away or the same place.
LEMMA ChainPush ==
    ASSUME NEW es, NEW es2, NEW n \in Nat \ {0}, NEW step, NEW stack \in Seq(Steps),
           Chained(es, n, step, stack),
           \A i \in 1 .. n : es2[i] = es[i],
           NEW step2 \in Inner, NEW stack2 \in Seq(Steps),
           IF Joined(es2, n)
           THEN /\ es[n].step = step
                /\ HasBack(step2, stack2)
                /\ BackTarget(step2, stack2) = step
                /\ Sanitized(step, StackAfterBack(step2, stack2)) = Sanitized(step, stack)
           ELSE step2 = step /\ stack2 = stack
    PROVE  Chained(es2, n + 1, step2, stack2)
  <1>1. PICK steps \in [1 .. n -> Inner], stacks \in [1 .. n -> Seq(Steps)] :
            /\ steps[n] = step
            /\ stacks[n] = Sanitized(step, stack)
            /\ \A i \in 1 .. n - 1 : Link(es, i, steps, stacks)
    BY DEF Chained
  <1> DEFINE clean == Sanitized(step2, stack2)
             steps2 == [i \in 1 .. n + 1 |-> IF i = n + 1 THEN step2 ELSE steps[i]]
             stacks2 == [i \in 1 .. n + 1 |-> IF i = n + 1 THEN clean ELSE stacks[i]]
  <1>2. /\ clean \in Seq(Steps)
        /\ HasBack(step2, clean) <=> HasBack(step2, stack2)
        /\ BackTarget(step2, clean) = BackTarget(step2, stack2)
        /\ StackAfterBack(step2, clean) = StackAfterBack(step2, stack2)
    BY BackOfSanitized
  <1>8. step2 = step /\ stack2 = stack => clean = Sanitized(step, stack)
    OBVIOUS
  <1> HIDE DEF clean
  <1>3. steps2 \in [1 .. n + 1 -> Inner] /\ stacks2 \in [1 .. n + 1 -> Seq(Steps)]
    <2>1. \A i \in 1 .. n + 1 : i = n + 1 \/ i \in 1 .. n
      OBVIOUS
    <2> QED  BY <1>2, <2>1
  <1>4. steps2[n + 1] = step2 /\ stacks2[n + 1] = clean
    OBVIOUS
  <1>5. \A i \in 1 .. n : steps2[i] = steps[i] /\ stacks2[i] = stacks[i]
    OBVIOUS
  <1> HIDE DEF steps2, stacks2
  <1>6. ASSUME NEW i \in 1 .. (n + 1) - 1 PROVE Link(es2, i, steps2, stacks2)
    <2>1. CASE i = n
      <3>1. i \in 1 .. n /\ steps2[i] = step /\ stacks2[i] = Sanitized(step, stack)
            /\ steps2[i + 1] = step2 /\ stacks2[i + 1] = clean /\ es2[i] = es[n]
        BY <1>1, <1>4, <1>5, <2>1
      <3> QED  BY <1>2, <1>8, <2>1, <3>1 DEF Link
    <2>2. CASE i # n
      <3>1. i \in 1 .. n - 1 /\ i \in 1 .. n /\ i + 1 \in 1 .. n
        BY <2>2
      <3>2. Link(es, i, steps, stacks) /\ es2[i] = es[i] /\ es2[i + 1] = es[i + 1]
        BY <1>1, <3>1
      <3>3. /\ steps2[i] = steps[i] /\ steps2[i + 1] = steps[i + 1]
            /\ stacks2[i] = stacks[i] /\ stacks2[i + 1] = stacks[i + 1]
        BY <1>5, <3>1
      <3> QED  BY <3>2, <3>3 DEF Link, Joined
    <2> QED  BY <2>1, <2>2
  <1>7. stacks2[n + 1] = Sanitized(step2, stack2)
    BY <1>4 DEF clean
  <1> QED  BY <1>3, <1>4, <1>6, <1>7 DEF Chained

\* What the chain reads of the entries and of the stack.
LEMMA ChainFrame ==
    ASSUME NEW es, NEW es2, NEW n \in Nat \ {0}, NEW step, NEW stack, NEW stack2,
           Chained(es, n, step, stack),
           \A i \in 1 .. n : es2[i].route = es[i].route,
           \A i \in 1 .. n - 1 : es2[i].step = es[i].step,
           Sanitized(step, stack2) = Sanitized(step, stack)
    PROVE  Chained(es2, n, step, stack2)
  <1>1. PICK steps \in [1 .. n -> Inner], stacks \in [1 .. n -> Seq(Steps)] :
            /\ steps[n] = step
            /\ stacks[n] = Sanitized(step, stack)
            /\ \A i \in 1 .. n - 1 : Link(es, i, steps, stacks)
    BY DEF Chained
  <1>2. ASSUME NEW i \in 1 .. n - 1 PROVE Link(es2, i, steps, stacks)
    <2>1. i \in 1 .. n /\ i + 1 \in 1 .. n
      OBVIOUS
    <2>2. /\ es2[i].step = es[i].step /\ es2[i].route = es[i].route
          /\ es2[i + 1].route = es[i + 1].route /\ Link(es, i, steps, stacks)
      BY <1>1, <2>1
    <2> QED  BY <2>2 DEF Link, Joined
  <1> QED  BY <1>1, <1>2 DEF Chained

LEMMA PlacedFrame ==
    ASSUME NEW es, NEW es2, NEW n \in Nat \ {0}, NEW step, NEW stack, NEW stack2,
           Placed(es, n, step, stack),
           \A i \in 1 .. n : es2[i].route = es[i].route,
           \A i \in 1 .. n - 1 : es2[i].step = es[i].step,
           Sanitized(step, stack2) = Sanitized(step, stack)
    PROVE  Placed(es2, n, step, stack2)
  <1>1. CASE step \in {"icon", "done"}
    <2>1. \A i \in 1 .. n - 1 : i \in 1 .. n /\ i + 1 \in 1 .. n
      OBVIOUS
    <2> QED  BY <1>1, <2>1 DEF Placed, Apart, Joined
  <1>2. CASE step \notin {"icon", "done"}
    BY <1>2, ChainFrame DEF Placed
  <1> QED  BY <1>1, <1>2

\* An entry of another route on top, or the survey's on top of another route.
LEMMA PlacedAway ==
    ASSUME NEW es, NEW es2, NEW n \in Nat \ {0}, NEW step \in Steps, NEW stack \in Seq(Steps),
           Placed(es, n, step, stack),
           \A i \in 1 .. n : es2[i] = es[i],
           ~ Joined(es2, n)
    PROVE  Placed(es2, n + 1, step, stack)
  <1>1. CASE step \in {"icon", "done"}
    <2> SUFFICES ASSUME NEW i \in 1 .. (n + 1) - 1 PROVE ~ Joined(es2, i)
      BY <1>1 DEF Placed, Apart
    <2>1. CASE i = n
      BY <2>1
    <2>2. CASE i # n
      <3>1. i \in 1 .. n - 1 /\ i \in 1 .. n /\ i + 1 \in 1 .. n
        BY <2>2
      <3> QED  BY <1>1, <3>1 DEF Placed, Apart, Joined
    <2> QED  BY <2>1, <2>2
  <1>2. CASE step \notin {"icon", "done"}
    <2>1. step \in Inner /\ Chained(es, n, step, stack)
      BY <1>2 DEF Inner, Placed
    <2>2. Chained(es2, n + 1, step, stack)
      BY <2>1, ChainPush
    <2> QED  BY <1>2, <2>2 DEF Placed
  <1> QED  BY <1>1, <1>2

LEMMA PlacedPop ==
    ASSUME NEW es, NEW n \in Nat, n > 1, NEW step, NEW stack \in Seq(Steps),
           Placed(es, n, step, stack), ~ Joined(es, n - 1)
    PROVE  Placed(es, n - 1, step, stack)
  <1>1. CASE step \in {"icon", "done"}
    <2>1. \A i \in 1 .. (n - 1) - 1 : i \in 1 .. n - 1
      OBVIOUS
    <2> QED  BY <1>1, <2>1 DEF Placed, Apart
  <1>2. CASE step \notin {"icon", "done"}
    BY <1>2, ChainPop DEF Placed
  <1> QED  BY <1>1, <1>2

LEMMA InitPlain == Init => PlainInv
  <1> SUFFICES ASSUME Init PROVE PlainInv
    OBVIOUS
  <1>1. PICK k \in Resumed :
            /\ active = Walk[k]
            /\ history = Sanitized(Walk[k], UpTo(Walk, k))
            /\ entries = << Entry(Survey, Walk[k]) >>
            /\ at = 1
    BY DEF Init
  <1>2. k \in 1 .. Len(Walk) /\ k \in 1 .. 11 /\ Walk[k] \in Steps /\ Walk \in Seq(Steps)
    BY ResumedIsInWalk, WalkIs
  <1>3. UpTo(Walk, k) \in Seq(Steps) /\ Len(UpTo(Walk, k)) = k - 1
        /\ \A j \in 1 .. k - 1 : UpTo(Walk, k)[j] = Walk[j]
    BY <1>2, UpToIs
  <1>4. ASSUME NEW j \in 1 .. k - 1 PROVE Walk[j] \in Steps \ {"done"}
    <2>1. j \in 1 .. 11 /\ j # 11 /\ j \in 1 .. Len(Walk)
      BY <1>2, WalkIs
    <2>2. Position(Walk[j]) = j
      BY <2>1, PositionOf
    <2> QED  BY <1>2, <2>1, <2>2, PositionIs
  <1>5. UpTo(Walk, k) \in Seq(Steps \ {"done"})
    <2> DEFINE u == UpTo(Walk, k)
    <2>1. u \in Seq(Steps) /\ \A j \in 1 .. Len(u) : u[j] \in Steps \ {"done"}
      BY <1>3, <1>4
    <2> HIDE DEF u
    <2>2. u \in Seq(Steps \ {"done"})
      BY <2>1
    <2> QED  BY <2>2 DEF u
  <1>6. history \in Seq(Steps \ {"done"}) /\ history \in Seq(Steps)
    BY <1>1, <1>3, <1>5, SanitizedIs
  <1>7. Mounted => entries[at].step = active
    BY <1>1, EntryIs
  <1>8. Apart(entries, at)
    BY <1>1 DEF Apart
  <1>9. ASSUME active \notin {"icon", "done"} PROVE Chained(entries, at, active, history)
    <2> DEFINE steps == [i \in 1 .. 1 |-> active]
               stacks == [i \in 1 .. 1 |-> Sanitized(active, history)]
    <2>1. Sanitized(active, history) \in Seq(Steps) /\ active \in Inner
      BY <1>1, <1>2, <1>6, <1>9, SanitizedIs DEF Inner
    <2>2. /\ steps \in [1 .. 1 -> Inner] /\ stacks \in [1 .. 1 -> Seq(Steps)]
          /\ steps[1] = active /\ stacks[1] = Sanitized(active, history)
      BY <2>1
    <2>3. \A i \in 1 .. 1 - 1 : Link(entries, i, steps, stacks)
      OBVIOUS
    <2> HIDE DEF steps, stacks
    <2> QED  BY <1>1, <2>2, <2>3 DEF Chained
  <1> QED  BY <1>6, <1>7, <1>8, <1>9 DEF PlainInv, Placed

LEMMA CompletePlain ==
    ASSUME TypeInv, PlainInv, Complete, plain'
    PROVE  PlainInv'
  <1> DEFINE to == NextStep(active)
             n == at
  <1>1. /\ active \in Steps \ {"done", "html"} /\ Mounted /\ ~ (active = "mechanisms" /\ seed)
        /\ history \in Seq(Steps) /\ history \in Seq(Steps \ {"done"})
        /\ entries[n].step = active /\ Placed(entries, n, active, history)
        /\ prev = active
    BY DEF Complete, PlainInv, TypeInv, SessionTyped, BrowserTyped
  <1>2. /\ active' = to
        /\ history' = Append(history, active)
        /\ IF to = "done" THEN PushFinish ELSE PushAdvance(to)
    BY DEF Complete
  <1>3. /\ to \in Steps
        /\ to = "html" => active = "help"
        /\ to # "icon"
        /\ (to = "done") <=> (active = "icon")
        /\ to = "touch" => active = "touch_seed_source"
        /\ to = active => active = "help"
    <2>1. Position(active) \in 1 .. 11
      BY <1>1, PositionIs
    <2> QED  BY <1>1, <2>1, NextStepIs
  <1> HIDE DEF to
  <1>4. history' \in Seq(Steps \ {"done"}) /\ history' \in Seq(Steps)
    BY <1>1, <1>2
  <1>5. WithoutHelp(history') =
          IF active = "help" THEN WithoutHelp(history) ELSE Append(WithoutHelp(history), active)
    BY <1>1, <1>2, WithoutHelpAppend
  <1>6. entries \in Seq(Entries) /\ n \in 1 .. Len(entries) /\ n \in Nat \ {0}
    BY DEF TypeInv, BrowserTyped
  <1>7. CASE to = "done"
    <2>1. /\ at' = n + 2
          /\ \A i \in 1 .. n : entries'[i] = entries[i]
          /\ entries'[n + 1] = Entry(Away, NoTag) /\ entries'[n + 2] = Entry(Away, "done")
      BY <1>2, <1>7, PushFinishIs DEF TypeInv
    <2>2. Apart(entries, n)
      BY <1>1, <1>3, <1>7 DEF Placed
    <2>3. Apart(entries', n + 2)
      <3> SUFFICES ASSUME NEW i \in 1 .. (n + 2) - 1 PROVE ~ Joined(entries', i)
        BY DEF Apart
      <3>1. CASE i = n \/ i = n + 1
        <4>1. i + 1 = n + 1 \/ i + 1 = n + 2
          BY <1>6, <3>1
        <4> QED  BY <2>1, <4>1, EntryIs DEF Joined
      <3>2. CASE i # n /\ i # n + 1
        <4>1. i \in 1 .. n - 1 /\ i \in 1 .. n /\ i + 1 \in 1 .. n
          BY <1>6, <3>2
        <4> QED  BY <2>1, <2>2, <4>1 DEF Apart, Joined
      <3> QED  BY <3>1, <3>2
    <2>4. ~ Mounted'
      BY <2>1, EntryIs DEF Mounted, route
    <2> QED  BY <1>2, <1>4, <1>7, <2>1, <2>3, <2>4 DEF PlainInv, Placed
  <1>8. CASE to = active
    <2>1. entries' = entries /\ at' = at /\ to # "done" /\ to = "help"
      BY <1>1, <1>2, <1>3, <1>8 DEF PushAdvance
    <2>2. Sanitized("help", history') = Sanitized("help", history)
      BY <1>3, <1>5, <1>8 DEF Sanitized
    <2>3. Placed(entries', n, active, history')
      BY <1>1, <1>6, <1>8, <2>1, <2>2, PlacedFrame
    <2> QED  BY <1>1, <1>2, <1>4, <1>8, <2>1, <2>3 DEF PlainInv
  <1>9. CASE to # "done" /\ to # active
    <2>1. entries' = Push(entries, n, Entry(Survey, to)) /\ at' = n + 1
      BY <1>1, <1>2, <1>9 DEF PushAdvance
    <2>2. /\ entries'[n + 1] = Entry(Survey, to)
          /\ \A i \in 1 .. n : entries'[i] = entries[i]
      BY <1>3, <1>6, <2>1, PushIs, EntryIs
    <2>3. to \in Inner /\ Chained(entries, n, active, history)
      BY <1>1, <1>3, <1>9 DEF Inner, Placed
    <2>4. /\ HasBack(to, history')
          /\ BackTarget(to, history') = active
          /\ Sanitized(active, StackAfterBack(to, history')) = Sanitized(active, history)
      <3>1. /\ WithoutHelp(history) \in Seq(Steps)
            /\ WithoutHelp(WithoutHelp(history)) = WithoutHelp(history)
            /\ Sanitized(active, history) = WithoutHelp(history)
        BY <1>1, WithoutHelpTwice DEF Sanitized
      <3> DEFINE clean == Sanitized(to, history')
                 rest == IF to = "html" THEN history ELSE WithoutHelp(history)
      <3>2. active = "help" => to = "html"
        BY <1>1, <1>9, NextStepIs, WalkIs, PositionIs DEF to, NextStep
      <3>3. clean = Append(rest, active) /\ rest \in Seq(Steps)
            /\ Sanitized(active, rest) = WithoutHelp(history)
        BY <1>1, <1>2, <1>3, <1>5, <3>1, <3>2 DEF Sanitized
      <3> HIDE DEF clean, rest
      <3>4. clean # << >> /\ Last(clean) = active /\ Front(clean) = rest
        BY <1>1, <3>3, AppendEnds
      <3>5. HasBack(to, history')
        BY <3>4 DEF HasBack, clean
      <3>6. BackTarget(to, history') = active
        BY <1>3, <3>4 DEF BackTarget, clean
      <3>7. StackAfterBack(to, history') = rest
        BY <1>3, <3>4 DEF StackAfterBack, StackAfterChooser, clean
      <3> QED  BY <3>1, <3>3, <3>5, <3>6, <3>7
    <2>5. Chained(entries', n + 1, to, history')
      <3>1. Joined(entries', n)
        <4>1. n \in 1 .. n
          BY <1>6
        <4> QED  BY <1>1, <2>2, <4>1, EntryIs DEF Joined, Mounted, route
      <3> DEFINE es2 == entries'
      <3>2. IF Joined(es2, n)
            THEN /\ entries[n].step = active
                 /\ HasBack(to, history')
                 /\ BackTarget(to, history') = active
                 /\ Sanitized(active, StackAfterBack(to, history')) = Sanitized(active, history)
            ELSE to = active /\ history' = history
        BY <1>1, <2>4, <3>1
      <3>3. \A i \in 1 .. n : es2[i] = entries[i]
        BY <2>2
      <3> HIDE DEF es2, n
      <3>4. Chained(es2, n + 1, to, history')
        BY <1>1, <1>4, <1>6, <2>3, <3>2, <3>3, ChainPush
      <3> QED  BY <3>4 DEF es2
    <2>6. Placed(entries', n + 1, to, history')
      BY <2>3, <2>5 DEF Placed, Inner
    <2>7. entries'[n + 1].step = to
      BY <2>2, EntryIs
    <2> QED  BY <1>2, <1>4, <2>1, <2>6, <2>7 DEF PlainInv
  <1> QED  BY <1>7, <1>8, <1>9

\* With a plain history Back is accepted by the entry below, and by no other.
LEMMA PlainAccepts ==
    ASSUME TypeInv, PlainInv, plain, Mounted, NEW to \in 1 .. Len(entries),
           to < at \/ entries[to].route = Away,
           to = at - 1 \/ to = at + 1
    PROVE  IF entries[to].route = Survey
           THEN /\ to = at - 1 /\ Accepts(entries[to])
                /\ Chained(entries, to, entries[to].step, StackAfterBack(active, history))
                /\ BackTarget(active, history) = entries[to].step
                /\ entries[to].step \in Inner
           ELSE ~ Accepts(entries[to]) /\ entries[to].route = Away
  <1>1. /\ active \in Steps /\ history \in Seq(Steps) /\ history \in Seq(Steps \ {"done"})
        /\ at \in 1 .. Len(entries) /\ entries[to] \in Entries
        /\ Placed(entries, at, active, history)
    BY DEF TypeInv, SessionTyped, BrowserTyped, PlainInv
  <1>2. CASE entries[to].route = Survey
    <2>1. to = at - 1 /\ at \in Nat /\ at > 1 /\ to + 1 = at
      BY <1>1, <1>2, EntryIs
    <2>2. Joined(entries, at - 1)
      BY <1>2, <2>1 DEF Joined, Mounted, route
    <2>3. Chained(entries, at, active, history)
      <3>1. active \notin {"icon", "done"}
        <4>1. at - 1 \in 1 .. at - 1
          BY <2>1, <1>1
        <4> QED  BY <1>1, <2>2, <4>1 DEF Placed, Apart
      <3> QED  BY <1>1, <3>1 DEF Placed
    <2>4. /\ HasBack(active, history)
          /\ entries[at - 1].step \in Inner
          /\ BackTarget(active, history) = entries[at - 1].step
          /\ Chained(entries, at - 1, entries[at - 1].step, StackAfterBack(active, history))
      BY <1>1, <2>1, <2>2, <2>3, ChainPop
    <2>5. entries[to].step # NoTag
      BY <2>1, <2>4, EntryIs DEF Inner
    <2> QED  BY <1>2, <2>1, <2>4, <2>5 DEF Accepts
  <1>3. CASE entries[to].route # Survey
    <2>1. entries[to].route = Away /\ entries[to].step \in {NoTag, "done"}
      BY <1>1, <1>3 DEF Entries
    <2>2. ~ Accepts(entries[to])
      <3>1. SUFFICES ASSUME HasBack(active, history), BackTarget(active, history) = "done"
                     PROVE FALSE
        BY <2>1 DEF Accepts
      <3>2. active # "touch"
        BY <3>1 DEF BackTarget
      <3>3. BackTarget(active, history) \in Steps \ {"done"}
        BY <1>1, <3>1, <3>2, BackStays
      <3> QED  BY <3>1, <3>3
    <2> QED  BY <1>3, <2>1, <2>2
  <1> QED  BY <1>2, <1>3

LEMMA BrowserGoPlain ==
    ASSUME TypeInv, PlainInv, NEW to, BrowserGo(to), to = at - 1 \/ to = at + 1, plain'
    PROVE  PlainInv'
  <1>1. /\ plain /\ to \in 1 .. Len(entries)
        /\ to < at \/ entries[to].route = Away
    BY DEF BrowserGo
  <1>2. /\ active \in Steps /\ history \in Seq(Steps) /\ history \in Seq(Steps \ {"done"})
        /\ at \in 1 .. Len(entries) /\ entries \in Seq(Entries) /\ entries[to] \in Entries
        /\ Placed(entries, at, active, history) /\ at \in Nat \ {0}
    BY <1>1 DEF TypeInv, SessionTyped, BrowserTyped, PlainInv
  <1>3. CASE Mounted /\ entries[to].route = Survey
    <2>1. /\ to = at - 1 /\ Accepts(entries[to])
          /\ Chained(entries, to, entries[to].step, StackAfterBack(active, history))
          /\ BackTarget(active, history) = entries[to].step
          /\ entries[to].step \in Inner
      BY <1>1, <1>3, PlainAccepts
    <2>2. /\ active' = entries[to].step /\ history' = StackAfterBack(active, history)
          /\ at' = to /\ entries' = entries
      BY <1>3, <2>1 DEF BrowserGo, StoreBack
    <2>3. history' \in Seq(Steps \ {"done"})
      BY <1>2, <2>1, <2>2, BackStays DEF Accepts
    <2>4. Placed(entries', to, active', history')
      BY <2>1, <2>2 DEF Placed, Inner
    <2> QED  BY <2>2, <2>3, <2>4 DEF PlainInv
  <1>4. CASE ~ (Mounted /\ entries[to].route = Survey)
    <2>1. active' = active /\ history' = history /\ at' = to
      BY <1>1, <1>2, <1>4, PlainAccepts DEF BrowserGo, MountTag
    \* The two entries passed are not both of the survey.
    <2>2. to = at - 1 => ~ Joined(entries, at - 1)
      BY <1>2, <1>4 DEF Joined, Mounted, route
    <2>3. to = at + 1 => ~ Joined(entries, at)
      BY <1>1, <1>2, EntryIs DEF Joined
    <2>4. Placed(entries, to, active, history)
      <3>1. CASE to = at - 1
        BY <1>1, <1>2, <2>2, <3>1, PlacedPop
      <3>2. CASE to = at + 1
        BY <1>2, <2>3, <3>2, PlacedAway
      <3> QED  BY <3>1, <3>2
    <2>5. CASE ~ Mounted /\ entries[to].route = Survey
      <3>1. MountTag(entries, to, active)
        BY <2>5 DEF BrowserGo
      <3>2. /\ entries'[to] = Entry(Survey, active)
            /\ \A j \in 1 .. Len(entries) : j # to => entries'[j] = entries[j]
            /\ \A j \in 1 .. Len(entries) : entries'[j].route = entries[j].route
        BY <1>1, <1>2, <2>5, <3>1, MountTagIs
      <3>3. /\ to \in Nat \ {0}
            /\ \A i \in 1 .. to : entries'[i].route = entries[i].route
            /\ \A i \in 1 .. to - 1 : entries'[i].step = entries[i].step
        <4>1. \A i \in 1 .. to : i \in 1 .. Len(entries)
          BY <1>1, <1>2
        <4>2. \A i \in 1 .. to - 1 : i \in 1 .. Len(entries) /\ i # to
          BY <1>1, <1>2
        <4> QED  BY <1>1, <3>2, <4>1, <4>2
      <3>4. Placed(entries', to, active, history)
        <4> DEFINE es2 == entries'
        <4>1. /\ \A i \in 1 .. to : es2[i].route = entries[i].route
              /\ \A i \in 1 .. to - 1 : es2[i].step = entries[i].step
          BY <3>3
        <4> HIDE DEF es2
        <4>2. Placed(es2, to, active, history)
          BY <2>4, <3>3, <4>1, PlacedFrame
        <4> QED  BY <4>2 DEF es2
      <3>5. entries'[to].step = active
        BY <3>2, EntryIs
      <3> QED  BY <1>2, <2>1, <3>4, <3>5 DEF PlainInv
    <2>6. CASE entries[to].route # Survey
      <3>1. entries' = entries
        BY <2>6 DEF BrowserGo
      <3>2. ~ Mounted'
        BY <2>1, <2>6, <3>1 DEF Mounted, route
      <3> QED  BY <1>2, <2>1, <2>4, <3>1, <3>2 DEF PlainInv
    <2> QED  BY <1>4, <2>5, <2>6
  <1> QED  BY <1>3, <1>4

LEMMA TabsPlain ==
    ASSUME TypeInv, PlainInv, LeaveTab \/ ReturnToTab, plain'
    PROVE  PlainInv'
  <1>1. active' = active /\ history' = history /\ plain
    BY DEF LeaveTab, ReturnToTab, store, ghosts
  <1>2. /\ active \in Steps /\ history \in Seq(Steps) /\ history \in Seq(Steps \ {"done"})
        /\ at \in 1 .. Len(entries) /\ at \in Nat \ {0} /\ entries \in Seq(Entries)
        /\ Placed(entries, at, active, history)
    BY <1>1 DEF TypeInv, SessionTyped, BrowserTyped, PlainInv
  <1>3. /\ at' = at + 1 /\ \A i \in 1 .. at : entries'[i] = entries[i]
        /\ ~ Joined(entries', at)
        /\ Mounted' => entries'[at + 1].step = active
    <2>1. CASE LeaveTab
      <3>1. entries' = Push(entries, at, Entry(Away, NoTag)) /\ at' = at + 1
        BY <2>1 DEF LeaveTab
      <3>2. /\ entries'[at + 1] = Entry(Away, NoTag)
            /\ \A i \in 1 .. at : entries'[i] = entries[i]
        BY <1>2, <3>1, PushIs, EntryIs
      <3> QED  BY <3>1, <3>2, EntryIs DEF Joined, Mounted, route
    <2>2. CASE ReturnToTab
      <3> DEFINE stack == Push(entries, at, Entry(Survey, NoTag))
      <3>1. ~ Mounted /\ MountTag(stack, at + 1, active)
        BY <2>2 DEF ReturnToTab, GoToSurvey
      <3>2. /\ stack \in Seq(Entries) /\ Len(stack) = at + 1
            /\ stack[at + 1] = Entry(Survey, NoTag)
            /\ \A i \in 1 .. at : stack[i] = entries[i]
        BY <1>2, PushIs, EntryIs
      <3> HIDE DEF stack
      <3>3. stack[at + 1].route = Survey /\ at + 1 \in 1 .. Len(stack)
        BY <1>2, <3>2, EntryIs
      <3>4. /\ at' = at + 1 /\ entries'[at + 1] = Entry(Survey, active)
            /\ \A j \in 1 .. Len(stack) : j # at + 1 => entries'[j] = stack[j]
        BY <1>2, <3>1, <3>2, <3>3, MountTagIs
      <3>5. \A i \in 1 .. at : i \in 1 .. Len(stack) /\ i # at + 1
        BY <1>2, <3>2
      <3>6. \A i \in 1 .. at : entries'[i] = entries[i]
        BY <3>2, <3>4, <3>5
      <3>7. ~ Joined(entries', at)
        <4>1. at \in 1 .. at
          BY <1>2
        <4> QED  BY <3>1, <3>6, <4>1 DEF Joined, Mounted, route
      <3> QED  BY <3>4, <3>6, <3>7, EntryIs
    <2> QED  BY <2>1, <2>2
  <1>4. Placed(entries', at + 1, active, history)
    <2> DEFINE es2 == entries'
    <2>1. (\A i \in 1 .. at : es2[i] = entries[i]) /\ ~ Joined(es2, at)
      BY <1>3
    <2> HIDE DEF es2
    <2>2. Placed(es2, at + 1, active, history)
      BY <1>2, <2>1, PlacedAway
    <2> QED  BY <2>2 DEF es2
  <1> QED  BY <1>1, <1>2, <1>3, <1>4 DEF PlainInv

LEMMA ReloadPlain ==
    ASSUME TypeInv, PlainInv, Reload, plain'
    PROVE  PlainInv'
  <1>1. active' = active /\ history' = Sanitized(active, history) /\ plain
    BY DEF Reload, ghosts
  <1>2. /\ active \in Steps /\ history \in Seq(Steps) /\ history \in Seq(Steps \ {"done"})
        /\ at \in 1 .. Len(entries) /\ at \in Nat \ {0} /\ entries \in Seq(Entries)
        /\ Placed(entries, at, active, history)
    BY <1>1 DEF TypeInv, SessionTyped, BrowserTyped, PlainInv
  <1>3. history' \in Seq(Steps \ {"done"}) /\ Sanitized(active, history') = Sanitized(active, history)
    BY <1>1, <1>2, SanitizedIs
  <1>4. /\ at' = at
        /\ \A i \in 1 .. at : entries'[i].route = entries[i].route
        /\ \A i \in 1 .. at - 1 : entries'[i].step = entries[i].step
        /\ Mounted' => entries'[at].step = active
    <2>1. CASE Mounted
      <3>1. MountTag(entries, at, active)
        BY <2>1 DEF Reload
      <3>2. /\ at' = at /\ entries'[at] = Entry(Survey, active)
            /\ \A j \in 1 .. Len(entries) : j # at => entries'[j] = entries[j]
            /\ \A j \in 1 .. Len(entries) : entries'[j].route = entries[j].route
        BY <1>2, <2>1, <3>1, MountTagIs DEF Mounted, route
      <3>3. /\ \A i \in 1 .. at : i \in 1 .. Len(entries)
            /\ \A i \in 1 .. at - 1 : i \in 1 .. Len(entries) /\ i # at
        BY <1>2
      <3> QED  BY <3>2, <3>3, EntryIs
    <2>2. CASE ~ Mounted
      BY <2>2 DEF Reload, Mounted, route
    <2> QED  BY <2>1, <2>2
  <1>5. Placed(entries', at, active, history')
    <2> DEFINE es2 == entries'
               stack2 == history'
    <2>1. /\ \A i \in 1 .. at : es2[i].route = entries[i].route
          /\ \A i \in 1 .. at - 1 : es2[i].step = entries[i].step
          /\ Sanitized(active, stack2) = Sanitized(active, history)
      BY <1>3, <1>4
    <2> HIDE DEF es2, stack2
    <2>2. Placed(es2, at, active, stack2)
      BY <1>2, <2>1, PlacedFrame
    <2> QED  BY <2>2 DEF es2, stack2
  <1> QED  BY <1>1, <1>3, <1>4, <1>5 DEF PlainInv

LEMMA NextPlain == TypeInv /\ PlainInv /\ [Next]_vars => PlainInv'
  <1> SUFFICES ASSUME TypeInv, PlainInv, [Next]_vars, plain' PROVE PlainInv'
    BY DEF PlainInv
  <1>1. CASE Complete  BY <1>1, CompletePlain
  <1>2. CASE InAppBack  BY <1>2 DEF InAppBack
  <1>3. CASE BrowserBack \/ BrowserForward
    BY <1>3, BrowserGoPlain DEF BrowserBack, BrowserForward
  <1>4. CASE \E target \in Steps : JumpToStep(target)
    BY <1>4 DEF JumpToStep, Untrack
  <1>5. CASE \E target \in {"mechanisms", "touch"} : BackToUnfinishedGallery(target)
    BY <1>5 DEF BackToUnfinishedGallery, Untrack
  <1>6. CASE BackToChooseStart  BY <1>6 DEF BackToChooseStart, Untrack
  <1>7. CASE StartOver  BY <1>7 DEF StartOver
  <1>8. CASE LeaveTab \/ ReturnToTab  BY <1>8, TabsPlain
  <1>9. CASE Reload  BY <1>9, ReloadPlain
  <1>10. CASE UNCHANGED vars
    BY <1>10 DEF vars, PlainInv, Mounted, route
  <1> QED  BY <1>1, <1>2, <1>3, <1>4, <1>5, <1>6, <1>7, <1>8, <1>9, <1>10 DEF Next

\* As long as the author has moved by Next, the browser's Back and the tabs
\* only, the browser's entry names the step on screen, also after a reload
\* (useSurveyBrowserHistorySync: push, tag and the equality check).
THEOREM SurveyInLockstep == Spec => []InLockstep
  <1>1. Init => TypeInv /\ PlainInv
    BY InitTyped, InitPlain
  <1>2. TypeInv /\ PlainInv /\ [Next]_vars => (TypeInv /\ PlainInv)'
    BY NextTyped, NextPlain
  <1>3. TypeInv /\ PlainInv => InLockstep
    BY DEF PlainInv, InLockstep
  <1> QED  BY <1>1, <1>2, <1>3, PTL DEF Spec

=============================================================================
