----------------------------- MODULE DraftShelf -----------------------------
(***************************************************************************)
(* What "My keyboards" promises, without tabs, timers or pointers: a shelf *)
(* with at most one project per keyboard id. A draft may be written over   *)
(* and taken away; publishing freezes a project; what is frozen never      *)
(* changes again, it can only be taken off the shelf.                      *)
(***************************************************************************)
CONSTANTS
    ProjectKeys,  \* keyboard ids
    Content,      \* what a project record can hold
    NoProject     \* an empty place

VARIABLE shelf

Project(c, s) == [content |-> c, submitted |-> s]

\* A profile may come with drafts of an earlier release.
Init == shelf \in [ProjectKeys -> {NoProject} \cup {Project(c, FALSE) : c \in Content}]

IsSubmitted(k) == shelf[k] # NoProject /\ shelf[k].submitted

Kept(k) == shelf'[k] = shelf[k]
TakenAway(k) == shelf'[k] = NoProject
Written(k) == ~IsSubmitted(k) /\ shelf'[k] \in {Project(c, FALSE) : c \in Content}
Submitted(k) ==
    shelf[k] # NoProject /\ shelf'[k] = Project(shelf[k].content, TRUE)

\* A write may take prior filings away with it; publishing touches one project.
Next ==
    /\ shelf' = [k \in ProjectKeys |-> shelf'[k]]
    /\ \/ \E k \in ProjectKeys :
             Written(k) /\ \A j \in ProjectKeys \ {k} : Kept(j) \/ TakenAway(j)
       \/ \A k \in ProjectKeys : Kept(k) \/ TakenAway(k)
       \/ \E k \in ProjectKeys :
             Submitted(k) /\ \A j \in ProjectKeys \ {k} : Kept(j)

Spec == Init /\ [][Next]_shelf
=============================================================================
