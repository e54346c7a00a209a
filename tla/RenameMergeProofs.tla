------------------------- MODULE RenameMergeProofs -------------------------
(***************************************************************************)
(* Proofs about RenameMerge for every set of keyboard ids, every profile   *)
(* and every order of the rows, with deaths of the tab between any two     *)
(* writes and a storage that may refuse any of them.                       *)
(***************************************************************************)
EXTENDS RenameMerge, TLAPS

\* What may be stored at a slot.
Stored == Envelope \cup {None, Broken}

\* Records of a family come from the family, legacy records only disappear.
Origins ==
    /\ FamiliesApart
    /\ \A k \in Slots : disk.legacy[k] \in {None, found.legacy[k]}

\* The row and its candidate survivor always belong to the same families.
SameFamily ==
    stale # None => \A G \in Families : stale \in G <=> candidate \in G

\* What each step of a merge has established for the next one.
Prepared ==
    /\ pc = "chase" => IsStale(disk, stale)
    /\ pc \in {"relocate", "file", "erase"} =>
           /\ stale # candidate
           /\ Readable(disk, stale) # None /\ Readable(disk, candidate) # None
    /\ pc = "relocate" =>
           Readable(disk, stale).savedAt > Readable(disk, candidate).savedAt
    /\ pc \in {"file", "erase"} =>
           Readable(disk, candidate).savedAt >= Readable(disk, stale).savedAt

\* Nothing depends on the stale row any more.
KeptElsewhere ==
    \A G \in Families : \A k \in G :
        Readable(found, k) # None =>
            \E j \in G \ {stale} :
                /\ Readable(disk, j) # None
                /\ Readable(disk, j).savedAt >= Readable(found, k).savedAt

ContentInv ==
    /\ TypeOK /\ Origins /\ SameFamily /\ Prepared
    /\ NewestKept
    /\ pc = "eraseLegacy" => KeptElsewhere

-----------------------------------------------------------------------------
(* Types.                                                                  *)

\* The markers are no envelopes and no keys.
LEMMA Markers ==
    /\ None \notin Envelope /\ Broken \notin Envelope /\ Broken # None
    /\ None \notin Keys /\ None \notin Slots /\ Pending \notin Keys
BY RenameMergeAssumption DEF Slots

\* What is readable is an envelope.
LEMMA ReadableType ==
    ASSUME NEW d \in Storage, NEW k \in Slots
    PROVE  /\ Readable(d, k) \in Envelope \cup {None}
           /\ Readable(d, k) # None =>
                 /\ Readable(d, k).savedAt \in Nat
                 /\ Readable(d, k) \in {d.records[k], d.legacy[k]}
           /\ DerivedKey(d, k) \in Keys \cup {None}
<1>1. d.records[k] \in Stored /\ d.legacy[k] \in Stored
  BY DEF Storage, Stored
<1>2. Readable(d, k) \in Envelope \cup {None}
  BY <1>1, Markers DEF Readable, Stored
<1>3. Readable(d, k) # None => Readable(d, k) \in {d.records[k], d.legacy[k]}
  BY DEF Readable
<1>4. ASSUME Readable(d, k) # None
      PROVE  Readable(d, k).savedAt \in Nat
  BY <1>2, <1>4, RenameMergeAssumption DEF Envelope
<1>5. DerivedKey(d, k) \in Keys \cup {None}
  BY <1>2 DEF DerivedKey, Envelope
<1> QED BY <1>2, <1>3, <1>4, <1>5

\* Writing one slot or one row keeps a storage a storage.
LEMMA WriteType ==
    ASSUME NEW d \in Storage, NEW k
    PROVE  /\ \A e \in Stored : [d EXCEPT !.records[k] = e] \in Storage
           /\ \A e \in Stored : [d EXCEPT !.legacy[k] = e] \in Storage
           /\ \A s \in Statuses : [d EXCEPT !.rows[k] = s] \in Storage
BY DEF Storage, Stored

\* Every reachable state is well typed.
LEMMA TypeInit == Init => TypeOK
BY RenameMergeAssumption DEF Init, TypeOK

LEMMA TypeStep == TypeOK /\ [Next]_vars => TypeOK'
<1> SUFFICES ASSUME TypeOK, [Next]_vars PROVE TypeOK'
  OBVIOUS
<1> USE Markers
<1> DEFINE Steps == {"closed", "scan", "chase", "relocate", "file", "erase",
                     "eraseLegacy", "eraseRow", "open", "adopt"}
           Merging == {"chase", "relocate", "file", "erase", "eraseLegacy", "eraseRow"}
<1>1. disk \in Storage /\ found \in Storage /\ reconciled \in BOOLEAN /\ refused \in BOOLEAN
  BY DEF TypeOK
<1>2. /\ todo \in SUBSET Slots /\ remaining \in SUBSET Slots /\ visited \in SUBSET Slots
      /\ stale \in Keys \cup {None} /\ candidate \in Keys \cup {None}
      /\ pc \in Steps
      /\ pc \in Merging => stale # None /\ candidate # None
  BY DEF TypeOK
<1>3. Indexed(disk) \subseteq Slots /\ Keys \subseteq Slots
  BY DEF Indexed, Slots
<1>4. None \in Stored /\ "none" \in Statuses /\ "draft" \in Statuses
      /\ MergedStatus(disk) \in Statuses
  BY DEF Stored, Statuses, MergedStatus, StrongestStatus
<1>5. CASE Boot
  BY <1>1, <1>2, <1>3, <1>5 DEF Boot, TypeOK, history
<1>6. ASSUME NEW k \in Keys, Visit(k) PROVE TypeOK'
  <2>1. IsStale(disk, k) => DerivedKey(disk, k) \in Keys
    BY <1>1, <1>3, ReadableType DEF IsStale
  <2> QED BY <1>1, <1>2, <1>3, <1>6, <2>1 DEF Visit, TypeOK, history
<1>7. CASE Follow
  <2>1. candidate \in Keys => DerivedKey(disk, candidate) \in Keys \cup {None}
    BY <1>1, <1>3, ReadableType
  <2>2. candidate \in Keys
    BY <1>2, <1>7 DEF Follow
  <2>3. disk' = disk /\ found' = found /\ reconciled' = reconciled
        /\ refused' = refused /\ remaining' = remaining
    BY <1>7 DEF Follow, history
  <2>4. CASE NextRow
    BY <1>1, <1>2, <2>3, <2>4 DEF NextRow, TypeOK
  <2>5. CASE /\ DerivedKey(disk, candidate) \notin {None, candidate}
             /\ candidate' = DerivedKey(disk, candidate)
             /\ visited' = visited \cup {candidate}
             /\ UNCHANGED <<pc, todo, stale>>
    BY <1>1, <1>2, <1>3, <2>1, <2>2, <2>3, <2>5 DEF TypeOK
  <2>6. CASE /\ pc' \in {"relocate", "file", "erase"}
             /\ UNCHANGED <<todo, stale, candidate, visited>>
    BY <1>1, <1>2, <1>7, <2>3, <2>6 DEF TypeOK, Follow
  <2> QED BY <1>7, <2>4, <2>5, <2>6 DEF Follow
<1>8. CASE Relocate
  <2>1. stale \in Slots
    BY <1>2, <1>3, <1>8 DEF Relocate
  <2>2. Readable(disk, stale) \in Stored
    BY <1>1, <2>1, ReadableType DEF Stored
  <2>3. [disk EXCEPT !.records[candidate] = Readable(disk, stale)] \in Storage
    BY <1>1, <2>2, WriteType
  <2> QED BY <1>1, <1>2, <1>8, <2>3 DEF Relocate, NextRow, TypeOK
<1>9. CASE FileRow
  <2>1. [disk EXCEPT !.rows[candidate] = MergedStatus(disk)] \in Storage
    BY <1>1, <1>4, WriteType
  <2> QED BY <1>1, <1>2, <1>9, <2>1 DEF FileRow, TypeOK, walk
<1>10. CASE EraseRecord
  <2>1. [disk EXCEPT !.records[stale] = None] \in Storage
    BY <1>1, <1>4, WriteType
  <2> QED BY <1>1, <1>2, <1>10, <2>1 DEF EraseRecord, TypeOK, walk, history
<1>11. CASE EraseLegacy
  <2>1. [disk EXCEPT !.legacy[stale] = None] \in Storage
    BY <1>1, <1>4, WriteType
  <2> QED BY <1>1, <1>2, <1>11, <2>1 DEF EraseLegacy, TypeOK, walk, history
<1>12. CASE EraseRow
  <2>1. [disk EXCEPT !.rows[stale] = "none"] \in Storage
    BY <1>1, <1>4, WriteType
  <2> QED BY <1>1, <1>2, <1>12, <2>1 DEF EraseRow, NextRow, TypeOK, history
<1>13. CASE SetFlag
  BY <1>1, <1>2, <1>13 DEF SetFlag, TypeOK, history
<1>14. CASE List
  BY <1>1, <1>2, <1>14 DEF List, TypeOK, walk, history
<1>15. ASSUME NEW k \in Slots, Adopt(k) PROVE TypeOK'
  <2>1. [disk EXCEPT !.rows[k] = "draft"] \in Storage
    BY <1>1, <1>4, WriteType
  <2> QED BY <1>1, <1>2, <1>15, <2>1 DEF Adopt, TypeOK, walk
<1>16. CASE Listed
  BY <1>1, <1>2, <1>16 DEF Listed, TypeOK, walk, history
<1>17. CASE Close
  BY <1>1, <1>2, <1>17 DEF Close, TypeOK, history
<1>18. CASE UNCHANGED vars
  BY <1>1, <1>2, <1>18 DEF vars, TypeOK
<1> QED BY <1>5, <1>6, <1>7, <1>8, <1>9, <1>10, <1>11, <1>12, <1>13, <1>14,
           <1>15, <1>16, <1>17, <1>18 DEF Next

\* Every reachable state of the boot merge is well typed.
THEOREM RenameTypeCorrect == Spec => []TypeOK
BY TypeInit, TypeStep, PTL DEF Spec
-----------------------------------------------------------------------------
(* Content.                                                                *)

\* What stays outside a family is a family, too.
LEMMA Complement ==
    ASSUME TypeOK, NEW G \in Families
    PROVE  Keys \ G \in Families
<1>1. G \in SUBSET Keys /\ Family(G)
  BY DEF Families
<1>2. ASSUME NEW k \in Keys, NEW e \in {found.records[k], found.legacy[k]},
             e \notin {None, Broken}, e.derived # None
      PROVE  k \in Keys \ G <=> e.derived \in Keys \ G
  <2>1. k \in G <=> e.derived \in G
    BY <1>1, <1>2 DEF Family
  <2>2. e \in Envelope
    BY <1>2 DEF TypeOK, Storage, Slots
  <2>3. e.derived \in Keys
    BY <1>2, <2>2 DEF Envelope
  <2> QED BY <2>1, <2>3
<1>3. Family(Keys \ G)
  BY <1>2 DEF Family
<1> QED BY <1>3 DEF Families

\* What a slot shows now leads to a key of the same families.
LEMMA Linked ==
    ASSUME TypeOK, Origins, NEW G \in Families, NEW k \in Keys,
           DerivedKey(disk, k) # None
    PROVE  k \in G <=> DerivedKey(disk, k) \in G
<1> DEFINE e == Readable(disk, k)
<1>1. disk \in Storage /\ k \in Slots
  BY DEF TypeOK, Slots
<1>2. e # None /\ DerivedKey(disk, k) = e.derived
  BY DEF DerivedKey
<1>3. e \in Envelope /\ e \in {disk.records[k], disk.legacy[k]}
      /\ DerivedKey(disk, k) \in Keys
  BY <1>1, <1>2, ReadableType
<1>4. e \notin {None, Broken}
  BY <1>3, Markers
<1> HIDE DEF e
<1>5. ASSUME NEW H \in Families, k \in H PROVE e.derived \in H
  <2>1. H \in SUBSET Keys /\ Family(H)
    BY DEF Families
  <2>2. CASE e = disk.records[k]
    <3>1. PICK j \in H : e \in {found.records[j], found.legacy[j]}
      BY <1>4, <1>5, <2>2 DEF Origins, FamiliesApart
    <3> QED BY <1>2, <1>4, <2>1, <3>1 DEF Family
  <2>3. CASE e = disk.legacy[k]
    <3>1. e = found.legacy[k]
      BY <1>1, <1>4, <2>3 DEF Origins
    <3> QED BY <1>2, <1>4, <1>5, <2>1, <3>1 DEF Family
  <2> QED BY <1>3, <2>2, <2>3
<1>6. k \in G => e.derived \in G
  BY <1>5
<1>7. k \notin G => e.derived \in Keys \ G
  BY <1>5, Complement
<1> QED BY <1>2, <1>6, <1>7

\* A step that leaves the records alone keeps what is said about them.
LEMMA RecordsUntouched ==
    ASSUME disk'.records = disk.records, disk'.legacy = disk.legacy, found' = found
    PROVE  /\ \A k : /\ Readable(disk', k) = Readable(disk, k)
                     /\ DerivedKey(disk', k) = DerivedKey(disk, k)
                     /\ IsStale(disk', k) = IsStale(disk, k)
           /\ Families' = Families
           /\ Origins => Origins'
           /\ NewestKept => NewestKept'
           /\ stale' = stale /\ KeptElsewhere => KeptElsewhere'
<1>1. \A k : Readable(disk', k) = Readable(disk, k)
  BY DEF Readable
<1>2. \A k : DerivedKey(disk', k) = DerivedKey(disk, k)
  BY <1>1 DEF DerivedKey
<1>3. \A k : IsStale(disk', k) = IsStale(disk, k)
  BY <1>2 DEF IsStale
<1>4. Families' = Families
  BY DEF Families, Family
<1>5. Origins => Origins'
  BY <1>4 DEF Origins, FamiliesApart
<1>6. NewestKept => NewestKept'
  BY <1>1, <1>4 DEF NewestKept
<1>7. stale' = stale /\ KeptElsewhere => KeptElsewhere'
  BY <1>1, <1>4 DEF KeptElsewhere
<1> QED BY <1>1, <1>2, <1>3, <1>4, <1>5, <1>6, <1>7

LEMMA ContentInit == Init => ContentInv
<1> SUFFICES ASSUME Init PROVE ContentInv
  OBVIOUS
<1>1. TypeOK
  BY TypeInit
<1>2. disk = found /\ pc = "closed" /\ stale = None
  BY DEF Init
<1>3. FamiliesApart
  BY <1>2 DEF FamiliesApart
<1>4. Origins
  BY <1>2, <1>3 DEF Origins
<1>5. NewestKept
  <2> SUFFICES ASSUME NEW G \in Families, NEW k \in G, Readable(found, k) # None
               PROVE  Readable(disk, k).savedAt >= Readable(found, k).savedAt
    BY <1>2 DEF NewestKept
  <2>1. k \in Slots /\ found \in Storage
    BY <1>1 DEF Families, Slots, TypeOK
  <2> QED BY <1>2, <2>1, ReadableType
<1> QED BY <1>1, <1>2, <1>4, <1>5 DEF ContentInv, SameFamily, Prepared

\* Moving the newer content under the survivor's key.
LEMMA RelocateKeeps ==
    ASSUME ContentInv, TypeOK', pc = "relocate",
           disk' = [disk EXCEPT !.records[candidate] = Readable(disk, stale)],
           pc' = "file", UNCHANGED <<stale, candidate, found>>
    PROVE  ContentInv'
<1> DEFINE e == Readable(disk, stale)
<1>1. /\ TypeOK /\ Origins /\ SameFamily /\ NewestKept
      /\ disk \in Storage /\ found \in Storage
      /\ stale \in Keys /\ candidate \in Keys /\ stale # candidate
  BY DEF ContentInv, Prepared, TypeOK
<1>2. /\ e # None /\ Readable(disk, candidate) # None
      /\ e.savedAt > Readable(disk, candidate).savedAt
  BY DEF ContentInv, Prepared
<1>3. stale \in Slots /\ candidate \in Slots
  BY <1>1 DEF Slots
<1>4. /\ e \in Envelope /\ e \in {disk.records[stale], disk.legacy[stale]}
      /\ e.savedAt \in Nat /\ Readable(disk, candidate).savedAt \in Nat
  BY <1>1, <1>2, <1>3, ReadableType
<1> HIDE DEF e
<1>5. /\ disk'.records = [disk.records EXCEPT ![candidate] = e]
      /\ disk'.legacy = disk.legacy
      /\ candidate \in DOMAIN disk.records
  BY <1>1, <1>3 DEF e, Storage
<1>6. disk'.records[candidate] = e
      /\ \A k : k # candidate => disk'.records[k] = disk.records[k]
  BY <1>5
<1>7. Readable(disk', candidate) = e
      /\ \A k : k # candidate => Readable(disk', k) = Readable(disk, k)
  <2>1. e \notin {None, Broken}
    BY <1>4, Markers
  <2> QED BY <1>5, <1>6, <2>1 DEF Readable
<1>8. Families' = Families /\ found' = found
  BY DEF Families, Family
<1>9. Origins'
  <2>1. ASSUME NEW G \in Families, NEW k \in G, disk'.records[k] # None
        PROVE  \E j \in G : disk'.records[k] \in {found.records[j], found.legacy[j]}
    <3>1. CASE k # candidate
      BY <1>1, <1>6, <2>1, <3>1 DEF Origins, FamiliesApart
    <3>2. CASE k = candidate
      <4>1. stale \in G
        BY <1>1, <2>1, <3>2, Markers DEF SameFamily
      <4>2. CASE e = disk.records[stale]
        BY <1>1, <1>2, <1>6, <3>2, <4>1, <4>2 DEF Origins, FamiliesApart
      <4>3. CASE e = disk.legacy[stale]
        <5>1. e = found.legacy[stale]
          BY <1>1, <1>2, <1>3, <4>3 DEF Origins
        <5> QED BY <1>6, <3>2, <4>1, <5>1
      <4> QED BY <1>4, <4>2, <4>3
    <3> QED BY <3>1, <3>2
  <2>2. FamiliesApart'
    BY <1>8, <2>1 DEF FamiliesApart
  <2> QED BY <1>1, <1>5, <1>8, <2>2 DEF Origins
<1>10. NewestKept'
  <2>1. ASSUME NEW G \in Families, NEW k \in G, Readable(found, k) # None
        PROVE  \E j \in G : /\ Readable(disk', j) # None
                            /\ Readable(disk', j).savedAt >= Readable(found, k).savedAt
    <3>1. PICK j \in G : /\ Readable(disk, j) # None
                         /\ Readable(disk, j).savedAt >= Readable(found, k).savedAt
      BY <1>1, <2>1 DEF NewestKept
    <3>2. CASE j # candidate
      BY <1>7, <3>1, <3>2
    <3>3. CASE j = candidate
      <4>1. Readable(found, k).savedAt \in Nat
        <5>1. k \in Slots
          BY <2>1 DEF Families, Slots
        <5> QED BY <1>1, <2>1, <5>1, ReadableType
      <4>2. e.savedAt >= Readable(found, k).savedAt
        BY <1>2, <1>4, <3>1, <3>3, <4>1
      <4> QED BY <1>2, <1>7, <3>3, <4>2
    <3> QED BY <3>2, <3>3
  <2> QED BY <1>8, <2>1 DEF NewestKept
<1>11. SameFamily'
  BY <1>1, <1>8 DEF SameFamily
<1>12. Prepared'
  <2>1. Readable(disk', stale) = e
    BY <1>1, <1>7 DEF e
  <2>2. e.savedAt >= e.savedAt
    BY <1>4
  <2> QED BY <1>1, <1>2, <1>7, <2>1, <2>2 DEF Prepared
<1> QED BY <1>9, <1>10, <1>11, <1>12 DEF ContentInv

\* Removing the stale record: the survivor is at least as new.
LEMMA EraseRecordKeeps ==
    ASSUME ContentInv, TypeOK', pc = "erase",
           disk' = [disk EXCEPT !.records[stale] = None],
           pc' = "eraseLegacy", UNCHANGED <<stale, candidate, found>>
    PROVE  ContentInv'
<1>1. /\ Origins /\ SameFamily /\ NewestKept
      /\ disk \in Storage /\ found \in Storage
      /\ stale \in Keys /\ candidate \in Keys /\ stale # candidate
      /\ Readable(disk, stale) # None /\ Readable(disk, candidate) # None
      /\ Readable(disk, candidate).savedAt >= Readable(disk, stale).savedAt
  BY DEF ContentInv, Prepared, TypeOK
<1>2. stale \in Slots /\ candidate \in Slots
  BY <1>1 DEF Slots
<1>3. /\ disk'.records = [disk.records EXCEPT ![stale] = None]
      /\ disk'.legacy = disk.legacy
      /\ stale \in DOMAIN disk.records
  BY <1>1, <1>2 DEF Storage
<1>4. disk'.records[stale] = None
      /\ \A k : k # stale => disk'.records[k] = disk.records[k]
  BY <1>3
<1>5. \A k : k # stale => Readable(disk', k) = Readable(disk, k)
  BY <1>3, <1>4 DEF Readable
<1>6. Families' = Families
  BY DEF Families, Family
<1>7. Origins'
  <2>1. FamiliesApart'
    BY <1>1, <1>4, <1>6 DEF Origins, FamiliesApart
  <2> QED BY <1>1, <1>3, <2>1 DEF Origins
<1>8. KeptElsewhere'
  <2>1. ASSUME NEW G \in Families, NEW k \in G, Readable(found, k) # None
        PROVE  \E j \in G \ {stale} :
                  /\ Readable(disk', j) # None
                  /\ Readable(disk', j).savedAt >= Readable(found, k).savedAt
    <3>1. PICK j \in G : /\ Readable(disk, j) # None
                         /\ Readable(disk, j).savedAt >= Readable(found, k).savedAt
      BY <1>1, <2>1 DEF NewestKept
    <3>2. CASE j # stale
      BY <1>5, <3>1, <3>2
    <3>3. CASE j = stale
      <4>1. candidate \in G
        BY <1>1, <2>1, <3>3, Markers DEF SameFamily
      <4>2. /\ Readable(found, k).savedAt \in Nat
            /\ Readable(disk, stale).savedAt \in Nat
            /\ Readable(disk, candidate).savedAt \in Nat
        <5>1. k \in Slots
          BY <2>1 DEF Families, Slots
        <5> QED BY <1>1, <1>2, <2>1, <5>1, ReadableType
      <4>3. Readable(disk, candidate).savedAt >= Readable(found, k).savedAt
        BY <1>1, <3>1, <3>3, <4>2
      <4> QED BY <1>1, <1>5, <4>1, <4>3
    <3> QED BY <3>2, <3>3
  <2> QED BY <1>6, <2>1 DEF KeptElsewhere
<1>9. NewestKept'
  BY <1>8 DEF KeptElsewhere, NewestKept
<1>10. SameFamily'
  BY <1>1, <1>6 DEF SameFamily
<1> QED BY <1>7, <1>8, <1>9, <1>10 DEF ContentInv, Prepared

\* Removing the legacy record: nothing depended on it.
LEMMA EraseLegacyKeeps ==
    ASSUME ContentInv, TypeOK', pc = "eraseLegacy",
           disk' = [disk EXCEPT !.legacy[stale] = None],
           pc' = "eraseRow", UNCHANGED <<stale, candidate, found>>
    PROVE  ContentInv'
<1>1. /\ Origins /\ SameFamily /\ KeptElsewhere
      /\ disk \in Storage /\ stale \in Keys
  BY DEF ContentInv, TypeOK
<1>2. /\ disk'.legacy = [disk.legacy EXCEPT ![stale] = None]
      /\ disk'.records = disk.records
      /\ stale \in DOMAIN disk.legacy
  BY <1>1 DEF Storage, Slots
<1>3. disk'.legacy[stale] = None
      /\ \A k : k # stale => disk'.legacy[k] = disk.legacy[k]
  BY <1>2
<1>4. \A k : k # stale => Readable(disk', k) = Readable(disk, k)
  BY <1>2, <1>3 DEF Readable
<1>5. Families' = Families
  BY DEF Families, Family
<1>6. Origins'
  <2>1. FamiliesApart'
    BY <1>1, <1>2, <1>5 DEF Origins, FamiliesApart
  <2> QED BY <1>1, <1>3, <2>1 DEF Origins
<1>7. NewestKept'
  BY <1>1, <1>4, <1>5 DEF KeptElsewhere, NewestKept
<1>8. SameFamily'
  BY <1>1, <1>5 DEF SameFamily
<1> QED BY <1>6, <1>7, <1>8 DEF ContentInv, Prepared

\* Any other step of the pass writes no record.
LEMMA ContentStep == ContentInv /\ [Next]_vars => ContentInv'
<1> SUFFICES ASSUME ContentInv, [Next]_vars PROVE ContentInv'
  OBVIOUS
<1> USE Markers
<1>1. /\ TypeOK /\ Origins /\ SameFamily /\ Prepared /\ NewestKept
      /\ disk \in Storage /\ stale \in Keys \cup {None}
  BY DEF ContentInv, TypeOK
<1>2. TypeOK'
  BY <1>1, TypeStep
<1>3. ASSUME disk'.records = disk.records, disk'.legacy = disk.legacy, found' = found,
             SameFamily', Prepared', pc' # "eraseLegacy"
      PROVE  ContentInv'
  BY <1>1, <1>2, <1>3, RecordsUntouched DEF ContentInv
<1>4. ASSUME disk'.records = disk.records, disk'.legacy = disk.legacy, found' = found,
             stale' = None, pc' \in {"closed", "scan", "eraseRow", "open", "adopt"}
      PROVE  ContentInv'
  <2>1. SameFamily' /\ Prepared'
    BY <1>4 DEF SameFamily, Prepared
  <2> QED BY <1>3, <1>4, <2>1
<1>5. ASSUME disk'.records = disk.records, disk'.legacy = disk.legacy, found' = found,
             UNCHANGED <<stale, candidate>>,
             pc' \in {"closed", "scan", "eraseRow", "open", "adopt"}
      PROVE  ContentInv'
  <2>1. SameFamily' /\ Prepared'
    BY <1>1, <1>5, RecordsUntouched DEF SameFamily, Prepared
  <2> QED BY <1>3, <1>5, <2>1
<1>6. CASE Boot
  BY <1>5, <1>6 DEF Boot, history
<1>7. ASSUME NEW k \in Keys, Visit(k) PROVE ContentInv'
  <2>1. disk' = disk /\ found' = found /\ pc = "scan"
    BY <1>7 DEF Visit, history
  <2>2. CASE IsStale(disk, k)
    <3>1. pc' = "chase" /\ stale' = k /\ candidate' = DerivedKey(disk, k)
      BY <1>7, <2>2 DEF Visit
    <3>2. SameFamily'
      <4>1. \A G \in Families : k \in G <=> DerivedKey(disk, k) \in G
        BY <1>1, <2>2, Linked DEF IsStale
      <4> QED BY <2>1, <3>1, <4>1, RecordsUntouched DEF SameFamily
    <3>3. Prepared'
      BY <2>1, <2>2, <3>1 DEF Prepared
    <3> QED BY <1>3, <2>1, <3>1, <3>2, <3>3
  <2>3. CASE ~IsStale(disk, k)
    BY <1>5, <1>7, <2>1, <2>3 DEF Visit
  <2> QED BY <2>2, <2>3
<1>8. CASE Follow
  <2>1. disk' = disk /\ found' = found /\ pc = "chase"
    BY <1>8 DEF Follow, history
  <2>2. /\ stale \in Keys /\ candidate \in Keys /\ IsStale(disk, stale)
        /\ stale \in Slots /\ candidate \in Slots
    BY <1>1, <2>1 DEF TypeOK, Prepared, Slots
  <2>3. CASE NextRow
    BY <1>4, <2>1, <2>3 DEF NextRow
  <2>4. CASE /\ DerivedKey(disk, candidate) \notin {None, candidate}
             /\ candidate' = DerivedKey(disk, candidate)
             /\ UNCHANGED <<pc, stale>>
    <3>1. \A G \in Families : candidate \in G <=> candidate' \in G
      BY <1>1, <2>2, <2>4, Linked
    <3>2. SameFamily'
      BY <1>1, <2>1, <2>2, <2>4, <3>1, RecordsUntouched DEF SameFamily
    <3>3. Prepared'
      BY <2>1, <2>2, <2>4 DEF Prepared
    <3> QED BY <1>3, <2>1, <2>4, <3>2, <3>3
  <2>5. CASE /\ DerivedKey(disk, candidate) = candidate
             /\ pc' = IF Readable(disk, stale).savedAt > Readable(disk, candidate).savedAt
                      THEN "relocate"
                      ELSE IF MergedStatus(disk) = "submitted" THEN "file" ELSE "erase"
             /\ UNCHANGED <<stale, candidate>>
    <3>1. stale # candidate
      BY <2>2, <2>5 DEF IsStale
    <3>2. Readable(disk, stale) # None /\ Readable(disk, candidate) # None
      BY <2>2, <2>5 DEF IsStale, DerivedKey
    <3>3. /\ Readable(disk, stale).savedAt \in Nat
          /\ Readable(disk, candidate).savedAt \in Nat
      BY <1>1, <2>2, <3>2, ReadableType
    <3>4. SameFamily'
      BY <1>1, <2>1, <2>5, RecordsUntouched DEF SameFamily
    <3>5. Prepared'
      BY <2>1, <2>5, <3>1, <3>2, <3>3 DEF Prepared
    <3> QED BY <1>3, <2>1, <2>5, <3>4, <3>5
  <2> QED BY <1>8, <2>3, <2>4, <2>5 DEF Follow
<1>9. CASE Relocate
  <2>1. CASE /\ disk' = [disk EXCEPT !.records[candidate] = Readable(disk, stale)]
             /\ pc' = "file"
             /\ UNCHANGED <<stale, candidate>>
    BY <1>2, <1>9, <2>1, RelocateKeeps DEF Relocate
  <2>2. CASE NextRow /\ UNCHANGED disk
    BY <1>4, <1>9, <2>2 DEF Relocate, NextRow
  <2> QED BY <1>9, <2>1, <2>2 DEF Relocate
<1>10. CASE FileRow
  <2>1. /\ disk'.records = disk.records /\ disk'.legacy = disk.legacy
        /\ found' = found /\ UNCHANGED <<stale, candidate>>
        /\ pc = "file" /\ pc' = "erase"
    BY <1>1, <1>10 DEF FileRow, walk, Storage
  <2>2. SameFamily' /\ Prepared'
    BY <1>1, <2>1, RecordsUntouched DEF SameFamily, Prepared
  <2> QED BY <1>3, <2>1, <2>2
<1>11. CASE EraseRecord
  BY <1>2, <1>11, EraseRecordKeeps DEF EraseRecord, walk, history
<1>12. CASE EraseLegacy
  BY <1>2, <1>12, EraseLegacyKeeps DEF EraseLegacy, walk, history
<1>13. CASE EraseRow
  BY <1>1, <1>4, <1>13 DEF EraseRow, NextRow, history, Storage
<1>14. CASE SetFlag
  BY <1>5, <1>14 DEF SetFlag, history
<1>15. CASE List
  BY <1>5, <1>15 DEF List, walk, history
<1>16. ASSUME NEW k \in Slots, Adopt(k) PROVE ContentInv'
  <2>1. disk'.records = disk.records /\ disk'.legacy = disk.legacy
    BY <1>1, <1>16 DEF Adopt, Storage
  <2> QED BY <1>5, <1>16, <2>1 DEF Adopt, walk
<1>17. CASE Listed
  BY <1>5, <1>17 DEF Listed, walk, history
<1>18. CASE Close
  BY <1>4, <1>18 DEF Close, history
<1>19. CASE UNCHANGED vars
  <2>1. /\ UNCHANGED <<stale, candidate, pc, disk, found>>
    BY <1>19 DEF vars
  <2>2. SameFamily' /\ Prepared' /\ Families' = Families
    BY <1>1, <2>1, RecordsUntouched DEF SameFamily, Prepared
  <2> QED BY <1>2, <2>1, <2>2, RecordsUntouched DEF ContentInv
<1> QED BY <1>6, <1>7, <1>8, <1>9, <1>10, <1>11, <1>12, <1>13, <1>14, <1>15,
           <1>16, <1>17, <1>18, <1>19 DEF Next

\* Whatever is refused and whenever the tab dies, the newest content of every
\* keyboard stays on disk.
THEOREM RenameKeepsNewest == Spec => []NewestKept
<1>1. ContentInv => NewestKept
  BY DEF ContentInv
<1> QED BY <1>1, ContentInit, ContentStep, PTL DEF Spec

\* No content ever comes under an id of another keyboard.
THEOREM RenameKeepsApart == Spec => []FamiliesApart
<1>1. ContentInv => FamiliesApart
  BY DEF ContentInv, Origins
<1> QED BY <1>1, ContentInit, ContentStep, PTL DEF Spec

-----------------------------------------------------------------------------
(* Submissions.                                                            *)

Erasing == {"erase", "eraseLegacy", "eraseRow"}

\* Before the stale row goes, the survivor's row has its submission.
Carried ==
    /\ pc \in {"relocate", "file"} \cup Erasing => stale # candidate
    /\ pc \in Erasing /\ ~refused /\ disk.rows[stale] = "submitted" =>
           disk.rows[candidate] = "submitted"
    /\ pc = "adopt" => \A k \in todo : disk.rows[k] = "none"

SubmissionInv == ContentInv /\ Carried /\ SubmissionKept

LEMMA SubmissionInit == Init => SubmissionInv
<1> SUFFICES ASSUME Init PROVE Carried /\ SubmissionKept
  BY ContentInit DEF SubmissionInv
<1> QED BY DEF Init, Carried, SubmissionKept, Families, Erasing

\* A step that takes no submission away keeps them all.
LEMMA RowsKept ==
    ASSUME SubmissionKept, found' = found, refused' = refused \/ refused' = TRUE,
           \A j \in Keys : disk.rows[j] = "submitted" => disk'.rows[j] = "submitted"
    PROVE  SubmissionKept'
<1>1. Families' = Families
  BY DEF Families, Family
<1>2. CASE refused'
  BY <1>2 DEF SubmissionKept
<1>3. CASE ~refused'
  <2>1. ~refused
    BY <1>3
  <2>2. ASSUME NEW G \in Families, \E k \in G : found.rows[k] = "submitted"
        PROVE  \E j \in G : disk'.rows[j] = "submitted"
    BY <2>1, <2>2 DEF SubmissionKept, Families
  <2> QED BY <1>1, <2>2 DEF SubmissionKept
<1> QED BY <1>2, <1>3

LEMMA SubmissionStep == SubmissionInv /\ [Next]_vars => SubmissionInv'
<1> SUFFICES ASSUME SubmissionInv, [Next]_vars PROVE Carried' /\ SubmissionKept'
  BY ContentStep DEF SubmissionInv
<1>1. /\ TypeOK /\ SameFamily /\ Prepared /\ Carried /\ SubmissionKept
      /\ disk \in Storage /\ stale \in Keys \cup {None}
      /\ candidate \in Keys \cup {None}
      /\ refused \in BOOLEAN
  BY DEF SubmissionInv, ContentInv, TypeOK
<1>2. ASSUME disk'.rows = disk.rows, found' = found, refused' = refused \/ refused' = TRUE
      PROVE  SubmissionKept'
  BY <1>1, <1>2, RowsKept
<1>3. ASSUME disk'.rows = disk.rows, found' = found, refused' = refused \/ refused' = TRUE,
             pc' \in {"closed", "scan", "chase", "open"}
      PROVE  Carried' /\ SubmissionKept'
  BY <1>2, <1>3 DEF Carried, Erasing
<1>4. CASE Boot
  BY <1>3, <1>4 DEF Boot, history
<1>5. ASSUME NEW k \in Keys, Visit(k) PROVE Carried' /\ SubmissionKept'
  BY <1>3, <1>5 DEF Visit, history
<1>6. CASE Follow
  <2>1. disk' = disk /\ found' = found /\ refused' = refused
    BY <1>6 DEF Follow, history
  <2>2. CASE pc' \in {"scan", "chase"}
    BY <1>3, <2>1, <2>2
  <2>3. CASE /\ DerivedKey(disk, candidate) = candidate
             /\ pc' = IF Readable(disk, stale).savedAt > Readable(disk, candidate).savedAt
                      THEN "relocate"
                      ELSE IF MergedStatus(disk) = "submitted" THEN "file" ELSE "erase"
             /\ UNCHANGED <<stale, candidate>>
    <3>1. stale # candidate
      BY <1>1, <1>6, <2>3 DEF Follow, Prepared, IsStale
    <3>2. pc' = "erase" => disk.rows[stale] # "submitted"
      BY <2>3 DEF MergedStatus, StrongestStatus
    <3>3. Carried'
      BY <2>1, <2>3, <3>1, <3>2 DEF Carried, Erasing
    <3> QED BY <1>2, <2>1, <3>3
  <2> QED BY <1>6, <2>2, <2>3 DEF Follow, NextRow
<1>7. CASE Relocate
  <2>1. disk'.rows = disk.rows /\ found' = found
    BY <1>1, <1>7 DEF Relocate, Storage
  <2>2. CASE pc' = "file" /\ UNCHANGED <<stale, candidate, refused>>
    <3>1. Carried'
      BY <1>1, <1>7, <2>2 DEF Carried, Erasing, Relocate
    <3> QED BY <1>2, <2>1, <2>2, <3>1
  <2>3. CASE NextRow /\ refused' = TRUE
    BY <1>3, <2>1, <2>3 DEF NextRow
  <2> QED BY <1>7, <2>2, <2>3 DEF Relocate
<1>8. CASE FileRow
  <2>1. /\ pc' = "erase" /\ UNCHANGED <<stale, candidate, found>>
        /\ stale # candidate
    BY <1>1, <1>8 DEF FileRow, walk, Carried
  <2>2. CASE UNCHANGED disk /\ refused' = TRUE
    <3>1. Carried'
      BY <2>1, <2>2 DEF Carried, Erasing
    <3> QED BY <1>2, <2>1, <2>2, <3>1
  <2>3. CASE disk' = [disk EXCEPT !.rows[candidate] = MergedStatus(disk)] /\ UNCHANGED refused
    <3>1. candidate \in Keys /\ candidate \in DOMAIN disk.rows
      BY <1>1, <1>8 DEF FileRow, TypeOK, Storage, Slots
    <3>2. /\ disk'.rows[candidate] = MergedStatus(disk)
          /\ \A k : k # candidate => disk'.rows[k] = disk.rows[k]
      BY <2>3, <3>1
    <3>3. "submitted" \in {disk.rows[candidate], disk.rows[stale]} =>
              MergedStatus(disk) = "submitted"
      BY DEF MergedStatus, StrongestStatus
    <3>4. Carried'
      BY <2>1, <3>2, <3>3 DEF Carried, Erasing
    <3>5. SubmissionKept'
      BY <1>1, <2>1, <2>3, <3>2, <3>3, RowsKept
    <3> QED BY <3>4, <3>5
  <2> QED BY <1>8, <2>2, <2>3 DEF FileRow
<1>9. CASE EraseRecord \/ EraseLegacy
  <2>1. /\ disk'.rows = disk.rows /\ pc' \in {"eraseLegacy", "eraseRow"}
        /\ pc \in Erasing
        /\ UNCHANGED <<stale, candidate, found, refused>>
    BY <1>1, <1>9 DEF EraseRecord, EraseLegacy, walk, history, Storage, Erasing
  <2>2. Carried'
    BY <1>1, <2>1 DEF Carried, Erasing
  <2> QED BY <1>2, <2>1, <2>2
<1>10. CASE EraseRow
  <2>1. /\ stale \in Keys /\ candidate \in Keys /\ stale # candidate
        /\ stale \in DOMAIN disk.rows
    BY <1>1, <1>10 DEF EraseRow, TypeOK, Carried, Erasing, Storage, Slots
  <2>2. /\ pc = "eraseRow" /\ pc' = "scan" /\ found' = found /\ refused' = refused
        /\ \A k : k # stale => disk'.rows[k] = disk.rows[k]
    BY <1>10, <2>1 DEF EraseRow, NextRow, history
  <2>3. Carried'
    BY <2>2 DEF Carried, Erasing
  <2>4. Families' = Families
    BY <2>2 DEF Families, Family
  <2>5. ASSUME ~refused, NEW G \in Families, \E k \in G : found.rows[k] = "submitted"
        PROVE  \E j \in G : disk'.rows[j] = "submitted"
    <3>1. PICK j \in G : disk.rows[j] = "submitted"
      BY <1>1, <2>5 DEF SubmissionKept
    <3>2. CASE j = stale
      <4>1. disk.rows[candidate] = "submitted"
        BY <1>1, <2>2, <2>5, <3>1, <3>2 DEF Carried, Erasing
      <4>2. candidate \in G
        BY <1>1, <2>1, <2>5, <3>2, Markers DEF SameFamily
      <4> QED BY <2>1, <2>2, <4>1, <4>2
    <3>3. CASE j # stale
      BY <2>2, <3>1, <3>3
    <3> QED BY <3>2, <3>3
  <2>6. SubmissionKept'
    BY <2>2, <2>4, <2>5 DEF SubmissionKept
  <2> QED BY <2>3, <2>6
<1>11. CASE SetFlag
  BY <1>3, <1>11 DEF SetFlag, history
<1>12. CASE List
  <2>1. /\ disk' = disk /\ found' = found /\ refused' = refused
        /\ pc' = "adopt" /\ todo' = Slots \ Indexed(disk)
    BY <1>12 DEF List, history
  <2>2. Carried'
    BY <2>1 DEF Carried, Erasing, Indexed
  <2> QED BY <1>2, <2>1, <2>2
<1>13. ASSUME NEW k \in Slots, Adopt(k) PROVE Carried' /\ SubmissionKept'
  <2>1. /\ pc = "adopt" /\ pc' = "adopt" /\ k \in todo /\ todo' = todo \ {k}
        /\ found' = found /\ (refused' = refused \/ refused' = TRUE)
    BY <1>13 DEF Adopt
  <2>2. disk.rows[k] = "none" /\ k \in DOMAIN disk.rows
    BY <1>1, <2>1 DEF Carried, Storage
  <2>3. \A j : j # k => disk'.rows[j] = disk.rows[j]
    <3>1. disk' \in {disk, [disk EXCEPT !.rows[k] = "draft"]}
      BY <1>13 DEF Adopt
    <3>2. disk'.rows \in {disk.rows, [disk.rows EXCEPT ![k] = "draft"]}
      BY <1>1, <3>1 DEF Storage
    <3>3. CASE disk'.rows = [disk.rows EXCEPT ![k] = "draft"]
      BY <2>2, <3>3
    <3> QED BY <3>2, <3>3
  <2>4. Carried'
    BY <1>1, <2>1, <2>3 DEF Carried, Erasing
  <2>5. SubmissionKept'
    BY <1>1, <2>1, <2>2, <2>3, RowsKept
  <2> QED BY <2>4, <2>5
<1>14. CASE Listed
  BY <1>3, <1>14 DEF Listed, history
<1>15. CASE Close
  BY <1>3, <1>15 DEF Close, history
<1>16. CASE UNCHANGED vars
  <2>1. UNCHANGED <<disk, found, refused, pc, todo, stale, candidate>>
    BY <1>16 DEF vars
  <2>2. Carried'
    BY <1>1, <2>1 DEF Carried
  <2> QED BY <1>2, <2>1, <2>2
<1> QED BY <1>4, <1>5, <1>6, <1>7, <1>8, <1>9, <1>10, <1>11, <1>12, <1>13,
           <1>14, <1>15, <1>16 DEF Next

\* A submitted keyboard stays submitted under one of its ids, wherever the pass
\* is cut off, as long as the storage takes what is written.
THEOREM RenameKeepsSubmission == Spec => []SubmissionKept
<1>1. SubmissionInv => SubmissionKept
  BY DEF SubmissionInv
<1> QED BY <1>1, SubmissionInit, SubmissionStep, PTL DEF Spec

============================================================================
