--------------------------- MODULE MCRenameMerge ---------------------------
(* RenameMerge on small profiles.                                          *)
EXTENDS RenameMerge, TLC

CONSTANTS k1, k2, k3

TwoKeys == {k1, k2}
ThreeKeys == {k1, k2, k3}
TwoTimes == 1..2
ThreeTimes == 1..3

Nothing == [k \in Slots |-> None]
Rowless == [k \in Slots |-> "none"]
PendingEnvelope == [derived |-> None, savedAt |-> 1]

\* The pending slot as a session before a first instantiation leaves it, or as
\* one that followed an instantiated project does.
PendingSlot == {None, PendingEnvelope} \cup {[derived |-> k1, savedAt |-> 1]}

\* Records and rows of the keys; a row may have lost its record to a crash.
Filings(envelopes) ==
    {f \in [Keys -> [record : envelopes \cup {None, Broken}, row : Statuses]] :
        \A k \in Keys : f[k].record \in {None, Broken} => f[k].row # "submitted"}

Profile(f, legacy, pending) ==
    [records |-> [k \in Slots |-> IF k = Pending THEN pending ELSE f[k].record],
     legacy |-> legacy,
     rows |-> [k \in Slots |-> IF k = Pending THEN "none" ELSE f[k].row]]

Own(k) == [derived |-> k, savedAt |-> 1]

\* Indexed drafts of this release, any number of them filed under a stale key.
Chains == {Profile(f, Nothing, None) :
    f \in {g \in Filings([derived : Keys, savedAt : Times]) :
             \A k \in Keys : g[k].row = "none" => g[k].record = None}}

\* Two ids: records with and without rows, before instantiation or unreadable,
\* an older copy in the legacy slot, and the pending slot.
Leftovers == {Profile(f, legacy, pending) :
    f \in {g \in Filings([derived : TwoKeys \cup {None}, savedAt : TwoTimes]) :
             g[k3] = [record |-> None, row |-> "none"]},
    legacy \in {[k \in Slots |-> IF k \in L THEN Own(k) ELSE None] : L \in SUBSET TwoKeys},
    pending \in PendingSlot}

AllProfiles == Chains \cup Leftovers
=============================================================================
