---------------------------- MODULE StorageProofs ----------------------------
(***************************************************************************)
(* Proofs about Storage, for any sets of processes, groups, faces, names   *)
(* and labels, any limit and any number of commands.  One induction        *)
(* establishes IInv; the invariants that hold whatever overlaps and        *)
(* whatever is killed follow from it.  A second one establishes LoneIInv,  *)
(* which says what the command in progress may rely on when none overlaps; *)
(* the invariants of commands run one at a time follow from it.            *)
(***************************************************************************)
EXTENDS Storage, FiniteSetTheorems, TLAPS

-----------------------------------------------------------------------------
(* What the operations on a user's metadata do                             *)

LEMMA MetaOfParts ==
  ASSUME NEW d \in GroupIds \cup {None}, NEW L \in SUBSET GroupIds, NEW c \in [L -> Nat]
  PROVE  /\ UserMetaType([default |-> d, count |-> c])
         /\ Listed([default |-> d, count |-> c]) = L
  BY DEF UserMetaType, Listed

LEMMA PartsOfMeta ==
  ASSUME NEW u, UserMetaType(u)
  PROVE  /\ u = [default |-> u.default, count |-> u.count]
         /\ u.default \in GroupIds \cup {None}
         /\ Listed(u) \in SUBSET GroupIds /\ u.count \in [Listed(u) -> Nat]
         /\ \A g \in Listed(u) : u.count[g] \in Nat
  BY DEF UserMetaType, Listed

LEMMA EmptyMetaGood ==
  /\ UserMetaType(EmptyMeta) /\ Listed(EmptyMeta) = {}
  /\ DefaultListed(EmptyMeta) /\ HasDefault(EmptyMeta)
<1>1. [g \in {} |-> 0] \in [{} -> Nat]
  OBVIOUS
<1> QED BY <1>1, MetaOfParts DEF EmptyMeta, DefaultListed, HasDefault

\* A readable user has metadata of the type, with a listed default.
LEMMA UserGood ==
  ASSUME IInv, UserReadable
  PROVE  /\ UserMetaType(User) /\ DefaultListed(User)
         /\ ~overlap => HasDefault(User)
<1>1. CASE umeta = Absent
  BY <1>1, EmptyMetaGood DEF User
<1>2. CASE umeta # Absent
  BY <1>2 DEF User, IInv, TypeOK, UserReadable, DefaultsListed, LoneCommand, UserKnown
<1> QED BY <1>1, <1>2

LEMMA SettingDefault ==
  ASSUME NEW u, UserMetaType(u), NEW g \in Listed(u)
  PROVE  /\ UserMetaType([u EXCEPT !.default = g])
         /\ [u EXCEPT !.default = g].count = u.count
         /\ Listed([u EXCEPT !.default = g]) = Listed(u)
         /\ DefaultListed([u EXCEPT !.default = g])
         /\ HasDefault([u EXCEPT !.default = g])
<1>1. [u EXCEPT !.default = g] = [default |-> g, count |-> u.count]
  BY PartsOfMeta
<1>2. g \in GroupIds /\ g # None
  BY IdsAssumption, PartsOfMeta
<1> QED BY <1>1, <1>2, PartsOfMeta, MetaOfParts DEF DefaultListed, HasDefault

LEMMA UpsertGood ==
  ASSUME NEW u, UserMetaType(u), NEW g \in GroupIds, NEW n \in Nat
  PROVE  /\ UserMetaType(Upsert(u, g, n))
         /\ Listed(Upsert(u, g, n)) = Listed(u) \cup {g}
         /\ Upsert(u, g, n).default = u.default
         /\ \A h \in Listed(u) \cup {g} :
               Upsert(u, g, n).count[h] = IF h = g THEN n ELSE u.count[h]
<1> DEFINE L == Listed(u) \cup {g}
           c == [h \in L |-> IF h = g THEN n ELSE u.count[h]]
<1>1. Upsert(u, g, n) = [default |-> u.default, count |-> c]
  BY PartsOfMeta DEF Upsert
<1>2. u.default \in GroupIds \cup {None} /\ L \in SUBSET GroupIds /\ c \in [L -> Nat]
  BY PartsOfMeta
<1>3. UserMetaType(Upsert(u, g, n)) /\ Listed(Upsert(u, g, n)) = L
  <2> HIDE DEF L, c
  <2> QED BY <1>1, <1>2, MetaOfParts
<1> QED BY <1>1, <1>3

LEMMA WithDefaultGood ==
  ASSUME NEW u, UserMetaType(u), NEW g \in Listed(u), DefaultListed(u)
  PROVE  /\ UserMetaType(WithDefault(u, g)) /\ DefaultListed(WithDefault(u, g))
         /\ HasDefault(WithDefault(u, g))
         /\ Listed(WithDefault(u, g)) = Listed(u) /\ WithDefault(u, g).count = u.count
  BY SettingDefault DEF WithDefault, HasDefault

LEMMA WithoutGroupGood ==
  ASSUME NEW u, UserMetaType(u), DefaultListed(u), NEW g, NEW v \in WithoutGroup(u, g)
  PROVE  /\ UserMetaType(v) /\ DefaultListed(v) /\ HasDefault(v)
         /\ Listed(v) = Listed(u) \ {g} /\ \A h \in Listed(v) : v.count[h] = u.count[h]
<1>1. PICK d \in IF u.default \in {g, None} THEN Listed(u) \ {g} ELSE {u.default} :
         v = [default |-> d, count |-> Restrict(u.count, Listed(u) \ {g})]
  BY DEF WithoutGroup
<1>2. Restrict(u.count, Listed(u) \ {g}) \in [Listed(u) \ {g} -> Nat]
  BY PartsOfMeta DEF Restrict
<1>3. d \in Listed(u) \ {g} /\ Listed(u) \ {g} \in SUBSET GroupIds
  BY <1>1, PartsOfMeta DEF DefaultListed
<1>4. UserMetaType(v) /\ Listed(v) = Listed(u) \ {g}
  BY <1>1, <1>2, <1>3, MetaOfParts
<1>5. d # None
  BY <1>3, IdsAssumption
<1> QED BY <1>1, <1>3, <1>4, <1>5 DEF DefaultListed, HasDefault, Restrict

LEMMA CountIsNat == ASSUME NEW F \in SUBSET FaceIds PROVE Cardinality(F) \in Nat
  BY IdsAssumption, FS_Subset, FS_CardinalityType

-----------------------------------------------------------------------------
(* The inductive invariant                                                 *)

LEMMA InitIInv == Init => IInv
<1> SUFFICES ASSUME Init PROVE IInv
  OBVIOUS
<1> USE DEF Init
<1>1. TypeOK
  <2>1. started \in 0..MaxCommands
    BY MaxCommandsAssumption
  <2>2. DOMAIN usnap = Procs /\ \A p \in Procs : UserMetaType(usnap[p])
    BY EmptyMetaGood
  <2> QED BY <2>1, <2>2 DEF TypeOK, Stages
<1>2. TargetsKnown /\ KindsKnown /\ RemovedIsGone
  BY DEF TargetsKnown, KindsKnown, RemovedIsGone
<1>3. DefaultsListed /\ LoneCommand
  BY EmptyMetaGood DEF DefaultsListed, LoneCommand, UserKnown
<1> QED BY <1>1, <1>2, <1>3 DEF IInv

LEMMA AddToGroupIInv ==
  ASSUME IInv, NEW p \in Procs, NEW g \in GroupIds, AddToGroup(p, g) PROVE IInv'
<1> USE MaxCommandsAssumption DEF IInv, AddToGroup, Start, disk, memory
<1>1. usnap' = usnap
  OBVIOUS
<1>2. TypeOK'
  BY <1>1 DEF TypeOK, Stages, WriteGroupStages, WriteUserStages, TargetsKnown
<1>3. TargetsKnown' /\ KindsKnown'
  BY DEF TargetsKnown, KindsKnown, TypeOK
<1>4. RemovedIsGone'
  BY DEF RemovedIsGone, TypeOK
<1>5. DefaultsListed'
  BY <1>1 DEF DefaultsListed, TypeOK, UserKnown
<1>6. LoneCommand'
  BY <1>1 DEF LoneCommand, TypeOK, UserKnown, UserReadable, User
<1> QED BY <1>2, <1>3, <1>4, <1>5, <1>6

\* The group that becomes the default is a listed one.
LEMMA AddRepairsDefaultIInv ==
  ASSUME IInv, NEW p \in Procs, NEW g \in GroupIds, AddRepairsDefault(p, g) PROVE IInv'
<1> USE MaxCommandsAssumption DEF IInv, AddRepairsDefault, Start, disk
<1>1. \A q \in Procs : \/ usnap'[q] = usnap[q]
                        \/ /\ UserMetaType(usnap'[q]) /\ DefaultListed(usnap'[q])
                           /\ HasDefault(usnap'[q])
  BY UserGood, SettingDefault DEF TypeOK
<1>2. TypeOK'
  BY <1>1 DEF TypeOK, Stages, WriteGroupStages, WriteUserStages, TargetsKnown
<1>3. TargetsKnown' /\ KindsKnown'
  BY DEF TargetsKnown, KindsKnown, TypeOK
<1>4. RemovedIsGone'
  BY DEF RemovedIsGone, TypeOK
<1>5. DefaultsListed'
  BY <1>1 DEF DefaultsListed, TypeOK, UserKnown
<1>6. LoneCommand'
  BY <1>1 DEF LoneCommand, TypeOK, UserKnown, UserReadable, User
<1> QED BY <1>2, <1>3, <1>4, <1>5, <1>6

\* The first group a user gets becomes the default.
LEMMA AddToNewGroupIInv ==
  ASSUME IInv, NEW p \in Procs, NEW g \in GroupIds, NEW n \in Names, AddToNewGroup(p, g, n) PROVE IInv'
<1> USE MaxCommandsAssumption DEF IInv, AddToNewGroup, Start
<1> DEFINE u == Upsert(User, g, 0)
<1>0. UserMetaType(u) /\ g \in Listed(u) /\ DefaultListed(u)
  BY UserGood, UpsertGood DEF DefaultListed
<1> HIDE DEF u
<1>1. \A q \in Procs : \/ usnap'[q] = usnap[q]
                        \/ /\ UserMetaType(usnap'[q]) /\ DefaultListed(usnap'[q])
                           /\ HasDefault(usnap'[q])
  BY <1>0, WithDefaultGood DEF TypeOK, u
<1>2. TypeOK'
  BY <1>1 DEF TypeOK, Stages, WriteGroupStages, WriteUserStages, TargetsKnown
<1>3. TargetsKnown' /\ KindsKnown'
  BY DEF TargetsKnown, KindsKnown, TypeOK
<1>4. RemovedIsGone'
  BY DEF RemovedIsGone, TypeOK
<1>5. DefaultsListed'
  BY <1>1 DEF DefaultsListed, TypeOK, UserKnown
<1>6. LoneCommand'
  BY <1>1 DEF LoneCommand, TypeOK, UserKnown, UserReadable, User
<1> QED BY <1>2, <1>3, <1>4, <1>5, <1>6

LEMMA CreateWriteGroupIInv ==
  ASSUME IInv, NEW p \in Procs, CreateWriteGroup(p) PROVE IInv'
<1> USE DEF IInv, CreateWriteGroup, Goto, memory, targets, history
<1>1. usnap' = usnap
  OBVIOUS
<1>2. TypeOK'
  BY <1>1 DEF TypeOK, Stages, WriteGroupStages, WriteUserStages, TargetsKnown
<1>3. TargetsKnown' /\ KindsKnown'
  BY DEF TargetsKnown, KindsKnown, TypeOK
<1>4. RemovedIsGone'
  BY DEF RemovedIsGone, TypeOK
<1>5. DefaultsListed'
  BY <1>1 DEF DefaultsListed, TypeOK, UserKnown
<1>6. LoneCommand'
  BY <1>1 DEF LoneCommand, TypeOK, UserKnown, UserReadable, User
<1> QED BY <1>2, <1>3, <1>4, <1>5, <1>6

LEMMA SaveTargetIInv ==
  ASSUME IInv, NEW p \in Procs, SaveTarget(p) PROVE IInv'
<1> USE DEF IInv, SaveTarget, Goto, Exit, memory, targets, history
<1>1. \A q \in Procs : \/ usnap'[q] = usnap[q]
                        \/ /\ UserMetaType(usnap'[q]) /\ DefaultListed(usnap'[q])
                           /\ HasDefault(usnap'[q])
  BY EmptyMetaGood DEF TypeOK
<1>2. TypeOK'
  BY <1>1 DEF TypeOK, Stages, WriteGroupStages, WriteUserStages, TargetsKnown
<1>3. TargetsKnown' /\ KindsKnown'
  BY DEF TargetsKnown, KindsKnown, TypeOK
<1>4. RemovedIsGone'
  BY DEF RemovedIsGone, TypeOK
<1>5. DefaultsListed'
  BY <1>1 DEF DefaultsListed, TypeOK, UserKnown
<1>6. LoneCommand'
  BY <1>1 DEF LoneCommand, TypeOK, UserKnown, UserReadable, User
<1> QED BY <1>2, <1>3, <1>4, <1>5, <1>6

LEMMA AddChooseLabelIInv ==
  ASSUME IInv, NEW p \in Procs, NEW l \in Labels, AddChooseLabel(p, l) PROVE IInv'
<1> USE DEF IInv, AddChooseLabel, Goto, Chosen, disk, memory, history
<1>1. usnap' = usnap
  OBVIOUS
<1>2. TypeOK'
  BY <1>1 DEF TypeOK, Stages, WriteGroupStages, WriteUserStages, TargetsKnown
<1>3. TargetsKnown' /\ KindsKnown'
  BY DEF TargetsKnown, KindsKnown, TypeOK
<1>4. RemovedIsGone'
  BY DEF RemovedIsGone, TypeOK
<1>5. DefaultsListed'
  BY <1>1 DEF DefaultsListed, TypeOK, UserKnown
<1>6. LoneCommand'
  BY <1>1 DEF LoneCommand, TypeOK, UserKnown, UserReadable, User
<1> QED BY <1>2, <1>3, <1>4, <1>5, <1>6

LEMMA SaveCheckIInv ==
  ASSUME IInv, NEW p \in Procs, SaveCheck(p) PROVE IInv'
<1> USE DEF IInv, SaveCheck, Goto, disk, memory, targets, history
<1>1. usnap' = usnap
  OBVIOUS
<1>2. TypeOK'
  BY <1>1 DEF TypeOK, Stages, WriteGroupStages, WriteUserStages, TargetsKnown
<1>3. TargetsKnown' /\ KindsKnown'
  BY DEF TargetsKnown, KindsKnown, TypeOK
<1>4. RemovedIsGone'
  BY DEF RemovedIsGone, TypeOK
<1>5. DefaultsListed'
  BY <1>1 DEF DefaultsListed, TypeOK, UserKnown
<1>6. LoneCommand'
  BY <1>1 DEF LoneCommand, TypeOK, UserKnown, UserReadable, User
<1> QED BY <1>2, <1>3, <1>4, <1>5, <1>6

LEMMA SaveReadGroupIInv ==
  ASSUME IInv, NEW p \in Procs, SaveReadGroup(p) PROVE IInv'
<1> USE DEF IInv, SaveReadGroup, Goto, GroupReadable, disk, targets, history
<1>1. usnap' = usnap
  OBVIOUS
<1>2. TypeOK'
  BY <1>1 DEF TypeOK, Stages, WriteGroupStages, WriteUserStages, TargetsKnown
<1>3. TargetsKnown' /\ KindsKnown'
  BY DEF TargetsKnown, KindsKnown, TypeOK
<1>4. RemovedIsGone'
  BY DEF RemovedIsGone, TypeOK
<1>5. DefaultsListed'
  BY <1>1 DEF DefaultsListed, TypeOK, UserKnown
<1>6. LoneCommand'
  BY <1>1 DEF LoneCommand, TypeOK, UserKnown, UserReadable, User
<1> QED BY <1>2, <1>3, <1>4, <1>5, <1>6

\* A face gets an id that was never removed nor is about to be.
LEMMA SaveWriteFaceIInv ==
  ASSUME IInv, NEW p \in Procs, NEW f \in FaceIds, SaveWriteFace(p, f) PROVE IInv'
<1> USE DEF IInv, SaveWriteFace, Goto, WithFace, FreshFaces, history
<1>1. usnap' = usnap
  OBVIOUS
<1>2. TypeOK'
  BY <1>1 DEF TypeOK, Stages, WriteGroupStages, WriteUserStages, TargetsKnown, FaceFile
<1>3. TargetsKnown' /\ KindsKnown'
  BY DEF TargetsKnown, KindsKnown, TypeOK
<1>4. RemovedIsGone'
  BY DEF RemovedIsGone, TypeOK
<1>5. DefaultsListed'
  BY <1>1 DEF DefaultsListed, TypeOK, UserKnown
<1>6. LoneCommand'
  <2>1. /\ umeta' = umeta /\ kind' = kind /\ grp' = grp /\ overlap' = overlap
        /\ pc[p] = "writeFace" /\ pc' = [pc EXCEPT ![p] = "writeGroup"]
    OBVIOUS
  <2>2. kind[p] = "add"
    BY <2>1 DEF KindsKnown
  <2> HIDE DEF SaveWriteFace, Goto, WithFace, FreshFaces, history
  <2> QED BY <1>1, <2>1, <2>2 DEF LoneCommand, TypeOK, UserKnown, UserReadable, User
<1> QED BY <1>2, <1>3, <1>4, <1>5, <1>6

LEMMA WriteGroupIInv ==
  ASSUME IInv, NEW p \in Procs, WriteGroup(p) PROVE IInv'
<1> USE DEF IInv, WriteGroup, Goto, memory, targets, history
<1>1. usnap' = usnap
  OBVIOUS
<1>2. TypeOK'
  BY <1>1 DEF TypeOK, Stages, WriteGroupStages, WriteUserStages, TargetsKnown
<1>3. TargetsKnown' /\ KindsKnown'
  BY DEF TargetsKnown, KindsKnown, TypeOK
<1>4. RemovedIsGone'
  BY DEF RemovedIsGone, TypeOK
<1>5. DefaultsListed'
  BY <1>1 DEF DefaultsListed, TypeOK, UserKnown
<1>6. LoneCommand'
  BY <1>1 DEF LoneCommand, TypeOK, UserKnown, UserReadable, User
<1> QED BY <1>2, <1>3, <1>4, <1>5, <1>6

\* A removal alone does not add its group to a user that has none.
LEMMA ReadUserIInv ==
  ASSUME IInv, NEW p \in Procs, ReadUser(p) PROVE IInv'
<1> USE DEF IInv, ReadUser, Goto, disk, targets, history
<1> DEFINE u == Upsert(User, grp[p], Cardinality(gsnap[p]))
<1>0. /\ UserMetaType(u) /\ grp[p] \in Listed(u) /\ DefaultListed(u)
      /\ HasDefault(User) /\ grp[p] \in Listed(User) => HasDefault(u)
  <2>1. grp[p] \in GroupIds /\ Cardinality(gsnap[p]) \in Nat
    BY CountIsNat DEF TargetsKnown, TypeOK
  <2> QED BY <2>1, UserGood, UpsertGood DEF DefaultListed, HasDefault
<1> HIDE DEF u
<1>1. \A q \in Procs : \/ usnap'[q] = usnap[q]
                        \/ /\ UserMetaType(usnap'[q]) /\ DefaultListed(usnap'[q])
                           /\ ~overlap => HasDefault(usnap'[q])
  <2>1. CASE kind[p] = "add"
    BY <1>0, <2>1, WithDefaultGood DEF TypeOK, u
  <2>2. CASE kind[p] # "add"
    <3>1. kind[p] = "delete"
      BY <2>2 DEF KindsKnown
    <3>2. ~overlap => HasDefault(u)
      BY <1>0, <3>1, UserGood DEF LoneCommand
    <3> QED BY <1>0, <2>2, <3>2 DEF TypeOK, u
  <2> QED BY <2>1, <2>2
<1>2. TypeOK'
  BY <1>1 DEF TypeOK, Stages, WriteGroupStages, WriteUserStages, TargetsKnown
<1>3. TargetsKnown' /\ KindsKnown'
  BY DEF TargetsKnown, KindsKnown, TypeOK
<1>4. RemovedIsGone'
  BY DEF RemovedIsGone, TypeOK
<1>5. DefaultsListed'
  BY <1>1 DEF DefaultsListed, TypeOK, UserKnown
<1>6. LoneCommand'
  BY <1>1 DEF LoneCommand, TypeOK, UserKnown, UserReadable, User
<1> QED BY <1>2, <1>3, <1>4, <1>5, <1>6

LEMMA WriteUserIInv ==
  ASSUME IInv, NEW p \in Procs, WriteUser(p) PROVE IInv'
<1> USE DEF IInv, WriteUser, Exit
<1>1. \A q \in Procs : \/ usnap'[q] = usnap[q]
                        \/ /\ UserMetaType(usnap'[q]) /\ DefaultListed(usnap'[q])
                           /\ HasDefault(usnap'[q])
  BY EmptyMetaGood DEF TypeOK
<1>2. TypeOK'
  BY <1>1 DEF TypeOK, Stages, WriteGroupStages, WriteUserStages, TargetsKnown
<1>3. TargetsKnown' /\ KindsKnown'
  BY DEF TargetsKnown, KindsKnown, TypeOK
<1>4. RemovedIsGone'
  BY DEF RemovedIsGone, TypeOK
<1>5. DefaultsListed'
  BY <1>1 DEF DefaultsListed, TypeOK, UserKnown
<1>6. LoneCommand'
  BY <1>1 DEF LoneCommand, TypeOK, UserKnown, UserReadable, User
<1> QED BY <1>2, <1>3, <1>4, <1>5, <1>6

LEMMA DeleteFacesIInv ==
  ASSUME IInv, NEW p \in Procs, NEW g \in GroupIds, NEW F \in SUBSET FaceIds, DeleteFaces(p, g, F) PROVE IInv'
<1> USE MaxCommandsAssumption DEF IInv, DeleteFaces, Start, disk, memory
<1>1. usnap' = usnap
  OBVIOUS
<1>2. TypeOK'
  BY <1>1 DEF TypeOK, Stages, WriteGroupStages, WriteUserStages, TargetsKnown
<1>3. TargetsKnown' /\ KindsKnown'
  BY DEF TargetsKnown, KindsKnown, TypeOK
<1>4. RemovedIsGone'
  BY DEF RemovedIsGone, TypeOK
<1>5. DefaultsListed'
  BY <1>1 DEF DefaultsListed, TypeOK, UserKnown
<1>6. LoneCommand'
  BY <1>1 DEF LoneCommand, TypeOK, UserKnown, UserReadable, User
<1> QED BY <1>2, <1>3, <1>4, <1>5, <1>6

LEMMA DeleteReadGroupIInv ==
  ASSUME IInv, NEW p \in Procs, DeleteReadGroup(p) PROVE IInv'
<1> USE DEF IInv, DeleteReadGroup, Goto, GroupReadable, disk, targets, history
<1>1. usnap' = usnap
  OBVIOUS
<1>2. TypeOK'
  BY <1>1 DEF TypeOK, Stages, WriteGroupStages, WriteUserStages, TargetsKnown
<1>3. TargetsKnown' /\ KindsKnown'
  BY DEF TargetsKnown, KindsKnown, TypeOK
<1>4. RemovedIsGone'
  BY DEF RemovedIsGone, TypeOK
<1>5. DefaultsListed'
  BY <1>1 DEF DefaultsListed, TypeOK, UserKnown
<1>6. LoneCommand'
  BY <1>1 DEF LoneCommand, TypeOK, UserKnown, UserReadable, User
<1> QED BY <1>2, <1>3, <1>4, <1>5, <1>6

LEMMA DeleteFileIInv ==
  ASSUME IInv, NEW p \in Procs, NEW f \in FaceIds, DeleteFile(p, f) PROVE IInv'
<1> USE DEF IInv, DeleteFile, FileRemoved, memory, targets, history
<1>1. usnap' = usnap
  OBVIOUS
<1>2. TypeOK'
  BY <1>1 DEF TypeOK, Stages, WriteGroupStages, WriteUserStages, TargetsKnown
<1>3. TargetsKnown' /\ KindsKnown'
  BY DEF TargetsKnown, KindsKnown, TypeOK
<1>4. RemovedIsGone'
  BY DEF RemovedIsGone, TypeOK
<1>5. DefaultsListed'
  BY <1>1 DEF DefaultsListed, TypeOK, UserKnown
<1>6. LoneCommand'
  BY <1>1 DEF LoneCommand, TypeOK, UserKnown, UserReadable, User
<1> QED BY <1>2, <1>3, <1>4, <1>5, <1>6

\* Every file of a removal is gone before anything is written.
LEMMA DeleteFilesDoneIInv ==
  ASSUME IInv, NEW p \in Procs, DeleteFilesDone(p) PROVE IInv'
<1> USE DEF IInv, DeleteFilesDone, Goto, FileRemoved, disk, memory, targets, history
<1>1. usnap' = usnap
  OBVIOUS
<1>2. TypeOK'
  BY <1>1 DEF TypeOK, Stages, WriteGroupStages, WriteUserStages, TargetsKnown
<1>3. TargetsKnown' /\ KindsKnown'
  BY DEF TargetsKnown, KindsKnown, TypeOK
<1>4. RemovedIsGone'
  BY DEF RemovedIsGone, TypeOK
<1>5. DefaultsListed'
  BY <1>1 DEF DefaultsListed, TypeOK, UserKnown
<1>6. LoneCommand'
  BY <1>1 DEF LoneCommand, TypeOK, UserKnown, UserReadable, User
<1> QED BY <1>2, <1>3, <1>4, <1>5, <1>6

LEMMA DropGroupIInv ==
  ASSUME IInv, NEW p \in Procs, NEW g \in GroupIds, DropGroup(p, g) PROVE IInv'
<1> USE MaxCommandsAssumption DEF IInv, DropGroup, Start, disk, memory
<1>1. usnap' = usnap
  OBVIOUS
<1>2. TypeOK'
  BY <1>1 DEF TypeOK, Stages, WriteGroupStages, WriteUserStages, TargetsKnown
<1>3. TargetsKnown' /\ KindsKnown'
  BY DEF TargetsKnown, KindsKnown, TypeOK
<1>4. RemovedIsGone'
  BY DEF RemovedIsGone, TypeOK
<1>5. DefaultsListed'
  BY <1>1 DEF DefaultsListed, TypeOK, UserKnown
<1>6. LoneCommand'
  BY <1>1 DEF LoneCommand, TypeOK, UserKnown, UserReadable, User
<1> QED BY <1>2, <1>3, <1>4, <1>5, <1>6

LEMMA DropFaceIInv ==
  ASSUME IInv, NEW p \in Procs, NEW f \in FaceIds, DropFace(p, f) PROVE IInv'
<1> USE DEF IInv, DropFace, FileRemoved, memory, history
<1>1. usnap' = usnap
  OBVIOUS
<1>2. TypeOK'
  BY <1>1 DEF TypeOK, Stages, WriteGroupStages, WriteUserStages, TargetsKnown
<1>3. TargetsKnown' /\ KindsKnown'
  BY DEF TargetsKnown, KindsKnown, TypeOK
<1>4. RemovedIsGone'
  <2>1. pc[p] \in {"dropDir", "wipe"}
    BY DEF Emptying
  <2>2. \A e \in FaceIds : file'[e] = IF e = f THEN Absent ELSE file[e]
    BY DEF TypeOK
  <2>3. \A q \in Procs : todo'[q] = IF q = p THEN todo[q] \cup {f} ELSE todo[q]
    BY DEF TypeOK
  <2>4. \A q \in Procs : todo[q] \subseteq FaceIds
    BY DEF TypeOK
  <2>5. removed' = removed /\ removed \subseteq FaceIds /\ pc' = pc
    BY DEF TypeOK
  <2> HIDE DEF DropFace, FileRemoved, memory, history
  <2> QED BY <2>1, <2>2, <2>3, <2>4, <2>5 DEF RemovedIsGone
<1>5. DefaultsListed'
  BY <1>1 DEF DefaultsListed, TypeOK, UserKnown
<1>6. LoneCommand'
  BY <1>1 DEF LoneCommand, TypeOK, UserKnown, UserReadable, User
<1> QED BY <1>2, <1>3, <1>4, <1>5, <1>6

LEMMA DropGroupMetaIInv ==
  ASSUME IInv, NEW p \in Procs, NEW g \in GroupIds, DropGroupMeta(p, g) PROVE IInv'
<1> USE DEF IInv, DropGroupMeta, memory, targets, history
<1>1. usnap' = usnap
  OBVIOUS
<1>2. TypeOK'
  BY <1>1 DEF TypeOK, Stages, WriteGroupStages, WriteUserStages, TargetsKnown
<1>3. TargetsKnown' /\ KindsKnown'
  BY DEF TargetsKnown, KindsKnown, TypeOK
<1>4. RemovedIsGone'
  BY DEF RemovedIsGone, TypeOK
<1>5. DefaultsListed'
  BY <1>1 DEF DefaultsListed, TypeOK, UserKnown
<1>6. LoneCommand'
  BY <1>1 DEF LoneCommand, TypeOK, UserKnown, UserReadable, User
<1> QED BY <1>2, <1>3, <1>4, <1>5, <1>6

LEMMA DropUserMetaIInv ==
  ASSUME IInv, NEW p \in Procs, DropUserMeta(p) PROVE IInv'
<1> USE DEF IInv, DropUserMeta, UserKnown, memory, targets, history
<1>1. usnap' = usnap
  OBVIOUS
<1>2. TypeOK'
  BY <1>1 DEF TypeOK, Stages, WriteGroupStages, WriteUserStages, TargetsKnown
<1>3. TargetsKnown' /\ KindsKnown'
  BY DEF TargetsKnown, KindsKnown, TypeOK
<1>4. RemovedIsGone'
  BY DEF RemovedIsGone, TypeOK
<1>5. DefaultsListed'
  BY <1>1 DEF DefaultsListed, TypeOK, UserKnown
<1>6. LoneCommand'
  BY <1>1 DEF LoneCommand, TypeOK, UserKnown, UserReadable, User
<1> QED BY <1>2, <1>3, <1>4, <1>5, <1>6

LEMMA DropDirIInv ==
  ASSUME IInv, NEW p \in Procs, DropDir(p) PROVE IInv'
<1> USE DEF IInv, DropDir, Goto, memory, targets, history
<1>1. usnap' = usnap
  OBVIOUS
<1>2. TypeOK'
  BY <1>1 DEF TypeOK, Stages, WriteGroupStages, WriteUserStages, TargetsKnown
<1>3. TargetsKnown' /\ KindsKnown'
  BY DEF TargetsKnown, KindsKnown, TypeOK
<1>4. RemovedIsGone'
  BY DEF RemovedIsGone, TypeOK
<1>5. DefaultsListed'
  BY <1>1 DEF DefaultsListed, TypeOK, UserKnown
<1>6. LoneCommand'
  BY <1>1 DEF LoneCommand, TypeOK, UserKnown, UserReadable, User
<1> QED BY <1>2, <1>3, <1>4, <1>5, <1>6

LEMMA DropReadIInv ==
  ASSUME IInv, NEW p \in Procs, DropRead(p) PROVE IInv'
<1> USE DEF IInv, DropRead, Goto, disk, targets, history
<1>1. \A q \in Procs : \/ usnap'[q] = usnap[q]
                        \/ /\ UserMetaType(usnap'[q]) /\ DefaultListed(usnap'[q])
                           /\ HasDefault(usnap'[q])
  BY UserGood, WithoutGroupGood DEF TypeOK
<1>2. TypeOK'
  BY <1>1 DEF TypeOK, Stages, WriteGroupStages, WriteUserStages, TargetsKnown
<1>3. TargetsKnown' /\ KindsKnown'
  <2>1. /\ grp' = grp /\ lab' = lab /\ face' = face /\ kind' = kind
        /\ pc[p] = "dropRead"
        /\ \/ pc' = [pc EXCEPT ![p] = "wipe"]
           \/ pc' = [pc EXCEPT ![p] = "writeUser"]
    OBVIOUS
  <2>2. kind[p] = "drop"
    BY <2>1 DEF KindsKnown
  <2> HIDE DEF DropRead, Goto, disk, targets, history
  <2> QED BY <2>1, <2>2 DEF TargetsKnown, KindsKnown, TypeOK
<1>4. RemovedIsGone'
  BY DEF RemovedIsGone, TypeOK
<1>5. DefaultsListed'
  BY <1>1 DEF DefaultsListed, TypeOK, UserKnown
<1>6. LoneCommand'
  BY <1>1 DEF LoneCommand, TypeOK, UserKnown, UserReadable, User
<1> QED BY <1>2, <1>3, <1>4, <1>5, <1>6

LEMMA RemoveUserIInv ==
  ASSUME IInv, NEW p \in Procs, RemoveUser(p) PROVE IInv'
<1> USE MaxCommandsAssumption DEF IInv, RemoveUser, Start, disk, memory, targets
<1>1. usnap' = usnap
  OBVIOUS
<1>2. TypeOK'
  BY <1>1 DEF TypeOK, Stages, WriteGroupStages, WriteUserStages, TargetsKnown
<1>3. TargetsKnown' /\ KindsKnown'
  BY DEF TargetsKnown, KindsKnown, TypeOK
<1>4. RemovedIsGone'
  BY DEF RemovedIsGone, TypeOK
<1>5. DefaultsListed'
  BY <1>1 DEF DefaultsListed, TypeOK, UserKnown
<1>6. LoneCommand'
  BY <1>1 DEF LoneCommand, TypeOK, UserKnown, UserReadable, User
<1> QED BY <1>2, <1>3, <1>4, <1>5, <1>6

LEMMA WipeIInv ==
  ASSUME IInv, NEW p \in Procs, Wipe(p) PROVE IInv'
<1> USE DEF IInv, Wipe, Exit
<1>1. \A q \in Procs : \/ usnap'[q] = usnap[q]
                        \/ /\ UserMetaType(usnap'[q]) /\ DefaultListed(usnap'[q])
                           /\ HasDefault(usnap'[q])
  BY EmptyMetaGood DEF TypeOK
<1>2. TypeOK'
  BY <1>1 DEF TypeOK, Stages, WriteGroupStages, WriteUserStages, TargetsKnown
<1>3. TargetsKnown' /\ KindsKnown'
  BY DEF TargetsKnown, KindsKnown, TypeOK
<1>4. RemovedIsGone'
  BY DEF RemovedIsGone, TypeOK
<1>5. DefaultsListed'
  BY <1>1 DEF DefaultsListed, TypeOK, UserKnown
<1>6. LoneCommand'
  BY <1>1 DEF LoneCommand, TypeOK, UserKnown, UserReadable, User
<1> QED BY <1>2, <1>3, <1>4, <1>5, <1>6

LEMMA SetDefaultGroupIInv ==
  ASSUME IInv, NEW p \in Procs, NEW g \in GroupIds, SetDefaultGroup(p, g) PROVE IInv'
<1> USE MaxCommandsAssumption DEF IInv, SetDefaultGroup, Start, disk, targets
<1>1. \A q \in Procs : \/ usnap'[q] = usnap[q]
                        \/ /\ UserMetaType(usnap'[q]) /\ DefaultListed(usnap'[q])
                           /\ HasDefault(usnap'[q])
  BY UserGood, SettingDefault DEF TypeOK
<1>2. TypeOK'
  BY <1>1 DEF TypeOK, Stages, WriteGroupStages, WriteUserStages, TargetsKnown
<1>3. TargetsKnown' /\ KindsKnown'
  BY DEF TargetsKnown, KindsKnown, TypeOK
<1>4. RemovedIsGone'
  BY DEF RemovedIsGone, TypeOK
<1>5. DefaultsListed'
  BY <1>1 DEF DefaultsListed, TypeOK, UserKnown
<1>6. LoneCommand'
  BY <1>1 DEF LoneCommand, TypeOK, UserKnown, UserReadable, User
<1> QED BY <1>2, <1>3, <1>4, <1>5, <1>6

LEMMA AbandonIInv ==
  ASSUME IInv, NEW p \in Procs, Abandon(p) PROVE IInv'
<1> USE DEF IInv, Abandon, Cut, Exit, disk
<1>1. \A q \in Procs : \/ usnap'[q] = usnap[q]
                        \/ /\ UserMetaType(usnap'[q]) /\ DefaultListed(usnap'[q])
                           /\ HasDefault(usnap'[q])
  BY EmptyMetaGood DEF TypeOK
<1>2. TypeOK'
  BY <1>1 DEF TypeOK, Stages, WriteGroupStages, WriteUserStages, TargetsKnown
<1>3. TargetsKnown' /\ KindsKnown'
  BY DEF TargetsKnown, KindsKnown, TypeOK
<1>4. RemovedIsGone'
  BY DEF RemovedIsGone, TypeOK
<1>5. DefaultsListed'
  BY <1>1 DEF DefaultsListed, TypeOK, UserKnown
<1>6. LoneCommand'
  BY <1>1 DEF LoneCommand, TypeOK, UserKnown, UserReadable, User
<1> QED BY <1>2, <1>3, <1>4, <1>5, <1>6

LEMMA TearIInv ==
  ASSUME IInv, NEW p \in Procs, Tear(p) PROVE IInv'
<1> USE DEF IInv, Tear, Cut, Exit
<1>1. \A q \in Procs : \/ usnap'[q] = usnap[q]
                        \/ /\ UserMetaType(usnap'[q]) /\ DefaultListed(usnap'[q])
                           /\ HasDefault(usnap'[q])
  BY EmptyMetaGood DEF TypeOK
<1>2. TypeOK'
  BY <1>1 DEF TypeOK, Stages, WriteGroupStages, WriteUserStages, TargetsKnown
<1>3. TargetsKnown' /\ KindsKnown'
  BY DEF TargetsKnown, KindsKnown, TypeOK
<1>4. RemovedIsGone'
  BY DEF RemovedIsGone, TypeOK
<1>5. DefaultsListed'
  BY <1>1 DEF DefaultsListed, TypeOK, UserKnown
<1>6. LoneCommand'
  <2>1. /\ pc' = [pc EXCEPT ![p] = "idle"] /\ kind' = [kind EXCEPT ![p] = "none"]
        /\ grp' = [grp EXCEPT ![p] = None] /\ overlap' = overlap
        /\ umeta' = umeta \/ umeta' = Torn
        /\ pc[p] # "idle"
    BY DEF WriteGroupStages, WriteUserStages
  <2> HIDE DEF Tear, Cut, Exit
  <2>2. ASSUME ~overlap PROVE \A q \in Procs : pc'[q] = "idle"
    BY <2>1, <2>2 DEF LoneCommand, TypeOK
  <2>3. ~overlap /\ UserKnown' => HasDefault(umeta')
    BY <2>1 DEF LoneCommand, UserKnown
  <2>4. ~overlap => \A q \in Procs : HasDefault(usnap'[q])
    BY <1>1 DEF LoneCommand
  <2> QED BY <2>1, <2>2, <2>3, <2>4 DEF LoneCommand
<1> QED BY <1>2, <1>3, <1>4, <1>5, <1>6

LEMMA NextIInv == IInv /\ [Next]_vars => IInv'
<1> SUFFICES ASSUME IInv, [Next]_vars PROVE IInv'
  OBVIOUS
<1>1. CASE UNCHANGED vars
  BY <1>1 DEF vars, IInv, TypeOK, TargetsKnown, KindsKnown, RemovedIsGone, DefaultsListed,
              LoneCommand, UserKnown, UserReadable, User
<1>2. ASSUME NEW p \in Procs, Add(p) PROVE IInv'
  BY <1>2, AddToGroupIInv, AddRepairsDefaultIInv, AddToNewGroupIInv, CreateWriteGroupIInv,
     SaveTargetIInv, AddChooseLabelIInv, SaveCheckIInv, SaveReadGroupIInv, SaveWriteFaceIInv
     DEF Add
<1>3. ASSUME NEW p \in Procs, Remove(p) PROVE IInv'
  BY <1>3, DeleteFacesIInv, DeleteReadGroupIInv, DeleteFileIInv, DeleteFilesDoneIInv,
     DropGroupIInv, DropFaceIInv, DropGroupMetaIInv, DropUserMetaIInv, DropDirIInv,
     DropReadIInv, RemoveUserIInv, WipeIInv DEF Remove
<1>4. ASSUME NEW p \in Procs,
             \/ WriteGroup(p) \/ ReadUser(p) \/ WriteUser(p) \/ Abandon(p) \/ Tear(p)
             \/ \E g \in GroupIds : SetDefaultGroup(p, g)
      PROVE  IInv'
  BY <1>4, WriteGroupIInv, ReadUserIInv, WriteUserIInv, AbandonIInv, TearIInv,
     SetDefaultGroupIInv
<1> QED BY <1>1, <1>2, <1>3, <1>4 DEF Next

LEMMA AlwaysIInv == Spec => []IInv
<1> QED BY InitIInv, NextIInv, PTL DEF Spec

-----------------------------------------------------------------------------
(* Commands run one at a time: LoneIInv is inductive under IInv             *)

\* What a readable user lists has names, and names differ without overlap.
LEMMA UserIsNamed ==
  ASSUME IInv, LoneIInv, UserReadable
  PROVE  /\ \A g \in Listed(User) : gname[g] # None
         /\ ~overlap => NamesDiffer(User)
<1>1. CASE umeta = Absent
  BY <1>1, EmptyMetaGood DEF User, NamesDiffer
<1>2. CASE umeta # Absent
  BY <1>2 DEF User, LoneIInv, GroupsAreNamed, LoneNames, UserReadable, UserKnown
<1> QED BY <1>1, <1>2

\* Without overlap it lists the groups of the faces added, and its summaries agree
\* with the groups but for those the command in progress rewrites.
LEMMA UserIsSettled ==
  ASSUME IInv, LoneIInv, UserReadable, ~overlap
  PROVE  /\ \A f \in added : file[f].group \in Listed(User)
         /\ \A g \in Listed(User) \ stale :
               Settled(User, g) \/ \E q \in Procs : Rewrites(q, g)
<1>1. umeta # Torn /\ \A f \in added : UserKnown /\ file[f].group \in Listed(umeta)
  BY DEF LoneIInv, LoneAdded, AddedIsLoadable, UserReadable
<1>2. CASE umeta = Absent
  BY <1>1, <1>2, EmptyMetaGood DEF User, UserKnown
<1>3. CASE umeta # Absent
  BY <1>1, <1>3 DEF User, LoneIInv, LoneSummaries, UserReadable, UserKnown
<1> QED BY <1>2, <1>3

\* What a command writes can be read.
LEMMA WrittenIsReadable ==
  /\ \A u : UserMetaType(u) => u # Absent /\ u # Torn
  /\ \A F \in SUBSET FaceIds : F # Absent /\ F # Torn
  /\ \A e \in FaceFile : e # Absent
  BY SentinelsAssumption

LEMMA AddToGroupLone ==
  ASSUME IInv, IInv', LoneIInv, NEW p \in Procs, NEW g \in GroupIds, AddToGroup(p, g)
      PROVE LoneIInv'
<1> USE MaxCommandsAssumption DEF IInv, LoneIInv, AddToGroup, Start, disk, memory
<1>1. ~overlap' => ~overlap /\ \A q \in Procs \ {p} : pc[q] = "idle" /\ pc'[q] = "idle"
  BY DEF LoneCommand, TypeOK
<1>2. GroupsAreNamed'
  BY UserIsNamed DEF GroupsAreNamed, TypeOK, UserKnown
<1>3. LoneTarget'
  BY <1>1 DEF LoneTarget, TypeOK, UserReadable, User
<1>4. LoneNames'
  BY <1>1 DEF LoneNames, NamesDiffer, UserKnown, TypeOK
<1>5. LoneLabels'
  BY <1>1 DEF LoneLabels, LabelTaken, Loadable, GroupReadable, LabelsDiffer, TypeOK
<1>6. LoneAdded'
  BY <1>1 DEF LoneAdded, AddedIsLoadable, AddedIn, FilesOf, Loadable, GroupReadable,
      UserKnown, TypeOK
<1>7. LoneSummaries'
  BY <1>1 DEF LoneSummaries, Settled, Rewrites, GroupReadable, UserKnown, TypeOK
<1>8. LoneCapacity'
  BY <1>1 DEF LoneCapacity, BelowLimit, GroupReadable, User, TypeOK
<1> QED BY <1>2, <1>3, <1>4, <1>5, <1>6, <1>7, <1>8

LEMMA AddRepairsDefaultLone ==
  ASSUME IInv, IInv', LoneIInv, NEW p \in Procs, NEW g \in GroupIds,
      AddRepairsDefault(p, g) PROVE LoneIInv'
<1> USE MaxCommandsAssumption DEF IInv, LoneIInv, AddRepairsDefault, Start, disk
<1>1. ~overlap' => ~overlap /\ \A q \in Procs \ {p} : pc[q] = "idle" /\ pc'[q] = "idle"
  BY DEF LoneCommand, TypeOK
<1> DEFINE u == [User EXCEPT !.default = g]
<1>a. /\ Listed(u) = Listed(User) /\ u.count = User.count
      /\ \A h \in Listed(u) : gname[h] # None
      /\ ~overlap => NamesDiffer(u) /\ \A f \in added : file[f].group \in Listed(u)
  BY UserGood, SettingDefault, UserIsNamed, UserIsSettled DEF NamesDiffer
<1>b. ~overlap' => \A h \in Listed(u) \ stale : Settled(u, h)
  BY <1>1, <1>a, UserIsSettled DEF Rewrites, Settled
<1>c. /\ pc[p] = "idle" /\ pc' = [pc EXCEPT ![p] = "saveTarget"]
      /\ kind' = [kind EXCEPT ![p] = "add"] /\ grp' = [grp EXCEPT ![p] = g]
      /\ usnap' = [usnap EXCEPT ![p] = u] /\ g \in Listed(User)
      /\ UNCHANGED <<umeta, gmeta, file, gname, gsnap, face, lab, todo, added, removed, stale, cut>>
  OBVIOUS
<1> HIDE DEF u, AddRepairsDefault, Start, disk
<1>2. GroupsAreNamed'
  BY <1>1, <1>a, <1>b, <1>c DEF GroupsAreNamed, TypeOK, UserKnown
<1>3. LoneTarget'
  BY <1>1, <1>a, <1>b, <1>c DEF LoneTarget, TypeOK, UserReadable, User
<1>4. LoneNames'
  BY <1>1, <1>a, <1>b, <1>c DEF LoneNames, NamesDiffer, UserKnown, TypeOK
<1>5. LoneLabels'
  BY <1>1, <1>a, <1>b, <1>c DEF LoneLabels, LabelTaken, Loadable, GroupReadable,
      LabelsDiffer, TypeOK
<1>6. LoneAdded'
  BY <1>1, <1>a, <1>b, <1>c DEF LoneAdded, AddedIsLoadable, AddedIn, FilesOf, Loadable,
      GroupReadable, UserKnown, TypeOK
<1>7. LoneSummaries'
  BY <1>1, <1>a, <1>b, <1>c DEF LoneSummaries, Settled, Rewrites, GroupReadable,
      UserKnown, TypeOK
<1>8. LoneCapacity'
  BY <1>1, <1>a, <1>b, <1>c DEF LoneCapacity, BelowLimit, GroupReadable, User, TypeOK
<1> QED BY <1>2, <1>3, <1>4, <1>5, <1>6, <1>7, <1>8

\* A new group has a fresh name, no face yet and no place in the metadata.
LEMMA AddToNewGroupLone ==
  ASSUME IInv, IInv', LoneIInv, NEW p \in Procs, NEW g \in GroupIds, NEW n \in Names,
      AddToNewGroup(p, g, n) PROVE LoneIInv'
<1> USE MaxCommandsAssumption DEF IInv, LoneIInv, AddToNewGroup, Start
<1>1. ~overlap' => ~overlap /\ \A q \in Procs \ {p} : pc[q] = "idle" /\ pc'[q] = "idle"
  BY DEF LoneCommand, TypeOK
<1> DEFINE u == WithDefault(Upsert(User, g, 0), g)
<1>a. /\ Listed(u) = Listed(User) \cup {g} /\ u.count[g] = 0
      /\ \A h \in Listed(User) \ {g} : u.count[h] = User.count[h]
  BY UserGood, UpsertGood, WithDefaultGood DEF DefaultListed
<1>b. /\ pc[p] = "idle" /\ pc' = [pc EXCEPT ![p] = "createGroup"]
      /\ kind' = [kind EXCEPT ![p] = "add"] /\ grp' = [grp EXCEPT ![p] = g]
      /\ usnap' = [usnap EXCEPT ![p] = u] /\ gname' = [gname EXCEPT ![g] = n]
      /\ gname[g] = None /\ UserReadable /\ n # None
      /\ \A h \in Listed(User) : gname[h] # n
      /\ UNCHANGED <<umeta, gmeta, file, gsnap, face, lab, todo, added, removed, stale, cut>>
  BY IdsAssumption DEF NameTaken
<1>c. FilesOf(g) = {} /\ (UserKnown => g \notin Listed(umeta)) /\ g \notin Listed(User)
  BY <1>b, UserIsNamed DEF GroupsAreNamed, FilesOf
<1>d. Listed(User) \subseteq GroupIds
  BY <1>b, UserGood, PartsOfMeta
<1>e. ~overlap' => /\ \A f \in added : file[f].group \in Listed(u)
                   /\ \A h \in Listed(u) \ (stale \cup {g}) : Settled(u, h)
  BY <1>1, <1>a, <1>b, UserIsSettled DEF Rewrites, Settled
<1> HIDE DEF u, AddToNewGroup, Start
<1>2. GroupsAreNamed'
  BY <1>a, <1>b, <1>c, <1>d, UserIsNamed DEF GroupsAreNamed, TypeOK, UserKnown
<1>3. LoneTarget'
  BY <1>1, <1>a, <1>b, <1>c DEF LoneTarget, TypeOK, UserKnown
<1>4. LoneNames'
  BY <1>1, <1>a, <1>b, <1>c, <1>d, UserIsNamed DEF LoneNames, NamesDiffer, UserKnown,
      TypeOK, GroupsAreNamed
<1>5. LoneLabels'
  BY <1>1, <1>a, <1>b, <1>c, <1>e DEF LoneLabels, LabelTaken, Loadable, GroupReadable,
      LabelsDiffer, TypeOK
<1>6. LoneAdded'
  BY <1>1, <1>a, <1>b, <1>c, <1>e DEF LoneAdded, AddedIsLoadable, AddedIn, FilesOf,
      Loadable, GroupReadable, UserKnown, TypeOK
<1>7. LoneSummaries'
  BY <1>1, <1>a, <1>b, <1>c, <1>e DEF LoneSummaries, Settled, Rewrites, GroupReadable,
      UserKnown, TypeOK
<1>8. LoneCapacity'
  BY <1>1, <1>a, <1>b, <1>c, <1>e DEF LoneCapacity, BelowLimit, GroupReadable, User, TypeOK
<1> QED BY <1>2, <1>3, <1>4, <1>5, <1>6, <1>7, <1>8

LEMMA CreateWriteGroupLone ==
  ASSUME IInv, IInv', LoneIInv, NEW p \in Procs, CreateWriteGroup(p) PROVE LoneIInv'
<1> USE DEF IInv, LoneIInv, CreateWriteGroup, Goto, memory, targets, history
<1>1. ~overlap' => ~overlap /\ \A q \in Procs \ {p} : pc[q] = "idle" /\ pc'[q] = "idle"
  BY DEF LoneCommand, TypeOK
<1>a. /\ pc[p] = "createGroup" /\ pc' = [pc EXCEPT ![p] = "saveTarget"]
      /\ gmeta' = [gmeta EXCEPT ![grp[p]] = {}] /\ grp[p] \in GroupIds
      /\ UNCHANGED <<umeta, file, gname, kind, grp, face, lab, todo, gsnap, usnap, added, removed,
                     stale, overlap, cut>>
  BY DEF TargetsKnown
<1>b. {} # Absent /\ {} # Torn /\ Cardinality({}) = 0
  BY WrittenIsReadable, FS_EmptySet
<1>2. GroupsAreNamed'
  BY <1>1 DEF GroupsAreNamed, TypeOK, UserKnown
<1>3. LoneTarget'
  BY <1>1 DEF LoneTarget, TypeOK, UserReadable, User
<1>4. LoneNames'
  BY <1>1 DEF LoneNames, NamesDiffer, UserKnown, TypeOK
<1>5. LoneLabels'
  BY <1>1 DEF LoneLabels, LabelTaken, Loadable, GroupReadable, LabelsDiffer, TypeOK
<1>6. LoneAdded'
  BY <1>1, FS_EmptySet, WrittenIsReadable, MaxFacesAssumption DEF LoneAdded,
      AddedIsLoadable, AddedIn, FilesOf, Loadable, GroupReadable, UserKnown, TypeOK,
      TargetsKnown, LoneTarget
<1>7. LoneSummaries'
  <2> HIDE DEF CreateWriteGroup, Goto, memory, targets, history
  <2> SUFFICES ASSUME ~overlap' PROVE LoneSummaries'
    BY DEF LoneSummaries
  <2>1. UserKnown => grp[p] \notin Listed(umeta)
    BY <1>1, <1>a DEF LoneTarget
  <2>2. UserKnown => \A h \in Listed(umeta) \ stale : Settled(umeta, h)
    BY <1>1, <1>a DEF LoneSummaries, Rewrites
  <2>3. UserKnown' => \A h \in Listed(umeta)' \ stale' : Settled(umeta, h)'
    BY <1>a, <2>1, <2>2 DEF Settled, GroupReadable, UserKnown, TypeOK
  <2>4. \A h \in Listed(usnap[p]) \ (stale \cup {grp[p]}) : Settled(usnap[p], h)'
    BY <1>1, <1>a DEF LoneSummaries, Settled, GroupReadable, TypeOK
  <2>5. Settled(usnap[p], grp[p])'
    BY <1>1, <1>a, <1>b DEF LoneSummaries, Settled, GroupReadable, TypeOK
  <2> QED BY <1>1, <1>a, <2>3, <2>4, <2>5 DEF LoneSummaries, TypeOK
<1>8. LoneCapacity'
  BY <1>1, FS_EmptySet, WrittenIsReadable, MaxFacesAssumption DEF LoneCapacity,
      BelowLimit, GroupReadable, User, TypeOK, TargetsKnown, LoneTarget
<1> QED BY <1>2, <1>3, <1>4, <1>5, <1>6, <1>7, <1>8

\* What is saved is what the process read, with its new group or default.
LEMMA SaveTargetLone ==
  ASSUME IInv, IInv', LoneIInv, NEW p \in Procs, SaveTarget(p) PROVE LoneIInv'
<1> USE DEF IInv, LoneIInv, SaveTarget, Goto, Exit, memory, targets, history
<1>1. ~overlap' => ~overlap /\ \A q \in Procs \ {p} : pc[q] = "idle" /\ pc'[q] = "idle"
  BY DEF LoneCommand, TypeOK
<1>a. usnap[p] # Absent /\ usnap[p] # Torn /\ grp[p] \in GroupIds
  BY WrittenIsReadable DEF TypeOK, TargetsKnown
<1>b. /\ pc[p] = "saveTarget" /\ umeta' = usnap[p]
      /\ \/ /\ pc' = [pc EXCEPT ![p] = "label"] /\ kind' = kind /\ grp' = grp
            /\ usnap' = usnap /\ BelowLimit(usnap[p], grp[p])
         \/ /\ pc' = [pc EXCEPT ![p] = "idle"] /\ kind' = [kind EXCEPT ![p] = "none"]
            /\ grp' = [grp EXCEPT ![p] = None] /\ usnap' = [usnap EXCEPT ![p] = EmptyMeta]
      /\ UNCHANGED <<gmeta, file, gname, added, removed, stale, overlap, cut>>
      /\ kind[p] = "add"
  BY DEF KindsKnown
<1> HIDE DEF SaveTarget, Goto, Exit
<1>2. GroupsAreNamed'
  BY <1>1, <1>a, <1>b, EmptyMetaGood DEF GroupsAreNamed, TypeOK, UserKnown
<1>3. LoneTarget'
  BY <1>1, <1>a, <1>b, EmptyMetaGood DEF LoneTarget, TypeOK, UserReadable, User
<1>4. LoneNames'
  BY <1>1, <1>a, <1>b, EmptyMetaGood DEF LoneNames, NamesDiffer, UserKnown, TypeOK,
      GroupsAreNamed
<1>5. LoneLabels'
  BY <1>1, <1>a, <1>b DEF LoneLabels, LabelTaken, Loadable, GroupReadable, LabelsDiffer, TypeOK
<1>6. LoneAdded'
  BY <1>1, <1>a, <1>b, EmptyMetaGood DEF LoneAdded, AddedIsLoadable, AddedIn, FilesOf,
      Loadable, GroupReadable, UserKnown, TypeOK
<1>7. LoneSummaries'
  BY <1>1, <1>a, <1>b, EmptyMetaGood DEF LoneSummaries, Settled, Rewrites,
      GroupReadable, UserKnown, TypeOK
<1>8. LoneCapacity'
  BY <1>1, <1>a, <1>b DEF LoneCapacity, BelowLimit, GroupReadable, User, TypeOK
<1> QED BY <1>2, <1>3, <1>4, <1>5, <1>6, <1>7, <1>8

LEMMA AddChooseLabelLone ==
  ASSUME IInv, IInv', LoneIInv, NEW p \in Procs, NEW l \in Labels, AddChooseLabel(p, l)
      PROVE LoneIInv'
<1> USE DEF IInv, LoneIInv, AddChooseLabel, Goto, Chosen, disk, memory, history
<1>1. ~overlap' => ~overlap /\ \A q \in Procs \ {p} : pc[q] = "idle" /\ pc'[q] = "idle"
  BY DEF LoneCommand, TypeOK
<1>2. GroupsAreNamed'
  BY <1>1 DEF GroupsAreNamed, TypeOK, UserKnown
<1>3. LoneTarget'
  BY <1>1 DEF LoneTarget, TypeOK, UserReadable, User
<1>4. LoneNames'
  BY <1>1 DEF LoneNames, NamesDiffer, UserKnown, TypeOK
<1>5. LoneLabels'
  BY <1>1 DEF LoneLabels, LabelTaken, Loadable, GroupReadable, LabelsDiffer, TypeOK
<1>6. LoneAdded'
  BY <1>1 DEF LoneAdded, AddedIsLoadable, AddedIn, FilesOf, Loadable, GroupReadable,
      UserKnown, TypeOK
<1>7. LoneSummaries'
  BY <1>1 DEF LoneSummaries, Settled, Rewrites, GroupReadable, UserKnown, TypeOK
<1>8. LoneCapacity'
  BY <1>1 DEF LoneCapacity, BelowLimit, GroupReadable, User, TypeOK
<1> QED BY <1>2, <1>3, <1>4, <1>5, <1>6, <1>7, <1>8

LEMMA SaveCheckLone ==
  ASSUME IInv, IInv', LoneIInv, NEW p \in Procs, SaveCheck(p) PROVE LoneIInv'
<1> USE DEF IInv, LoneIInv, SaveCheck, Goto, disk, memory, targets, history
<1>1. ~overlap' => ~overlap /\ \A q \in Procs \ {p} : pc[q] = "idle" /\ pc'[q] = "idle"
  BY DEF LoneCommand, TypeOK
<1>2. GroupsAreNamed'
  BY <1>1 DEF GroupsAreNamed, TypeOK, UserKnown
<1>3. LoneTarget'
  BY <1>1 DEF LoneTarget, TypeOK, UserReadable, User
<1>4. LoneNames'
  BY <1>1 DEF LoneNames, NamesDiffer, UserKnown, TypeOK
<1>5. LoneLabels'
  BY <1>1 DEF LoneLabels, LabelTaken, Loadable, GroupReadable, LabelsDiffer, TypeOK
<1>6. LoneAdded'
  BY <1>1 DEF LoneAdded, AddedIsLoadable, AddedIn, FilesOf, Loadable, GroupReadable,
      UserKnown, TypeOK
<1>7. LoneSummaries'
  BY <1>1 DEF LoneSummaries, Settled, Rewrites, GroupReadable, UserKnown, TypeOK
<1>8. LoneCapacity'
  BY <1>1 DEF LoneCapacity, BelowLimit, GroupReadable, User, TypeOK
<1> QED BY <1>2, <1>3, <1>4, <1>5, <1>6, <1>7, <1>8

LEMMA SaveReadGroupLone ==
  ASSUME IInv, IInv', LoneIInv, NEW p \in Procs, SaveReadGroup(p) PROVE LoneIInv'
<1> USE DEF IInv, LoneIInv, SaveReadGroup, Goto, GroupReadable, disk, targets, history
<1>1. ~overlap' => ~overlap /\ \A q \in Procs \ {p} : pc[q] = "idle" /\ pc'[q] = "idle"
  BY DEF LoneCommand, TypeOK
<1>2. GroupsAreNamed'
  BY <1>1 DEF GroupsAreNamed, TypeOK, UserKnown
<1>3. LoneTarget'
  BY <1>1 DEF LoneTarget, TypeOK, UserReadable, User
<1>4. LoneNames'
  BY <1>1 DEF LoneNames, NamesDiffer, UserKnown, TypeOK
<1>5. LoneLabels'
  BY <1>1 DEF LoneLabels, LabelTaken, Loadable, GroupReadable, LabelsDiffer, TypeOK
<1>6. LoneAdded'
  BY <1>1 DEF LoneAdded, AddedIsLoadable, AddedIn, FilesOf, Loadable, GroupReadable,
      UserKnown, TypeOK
<1>7. LoneSummaries'
  BY <1>1 DEF LoneSummaries, Settled, Rewrites, GroupReadable, UserKnown, TypeOK
<1>8. LoneCapacity'
  BY <1>1 DEF LoneCapacity, BelowLimit, GroupReadable, User, TypeOK
<1> QED BY <1>2, <1>3, <1>4, <1>5, <1>6, <1>7, <1>8

\* The face gets a free label, and a place: the summary consulted is the group's.
LEMMA SaveWriteFaceLone ==
  ASSUME IInv, IInv', LoneIInv, NEW p \in Procs, NEW f \in FaceIds, SaveWriteFace(p, f)
      PROVE LoneIInv'
<1> USE DEF IInv, LoneIInv, SaveWriteFace, Goto, WithFace, FreshFaces, history
<1>1. ~overlap' => ~overlap /\ \A q \in Procs \ {p} : pc[q] = "idle" /\ pc'[q] = "idle"
  BY DEF LoneCommand, TypeOK
<1>a. /\ pc[p] = "writeFace" /\ pc' = [pc EXCEPT ![p] = "writeGroup"]
      /\ file' = [file EXCEPT ![f] = [group |-> grp[p], label |-> lab[p]]]
      /\ gsnap' = [gsnap EXCEPT ![p] = @ \cup {f}] /\ face' = [face EXCEPT ![p] = f]
      /\ file[f] = Absent /\ f \notin gsnap[p]
      /\ \A h \in GroupIds : GroupReadable(h) => f \notin gmeta[h]
      /\ grp[p] \in GroupIds /\ lab[p] \in Labels /\ kind[p] = "add"
      /\ UNCHANGED <<umeta, gmeta, gname, kind, grp, lab, todo, usnap, added, removed, stale,
                     overlap, cut>>
  BY DEF TargetsKnown, KindsKnown
<1> HIDE DEF SaveWriteFace, Goto, WithFace, FreshFaces, history
<1>2. GroupsAreNamed'
  BY <1>a, IdsAssumption DEF GroupsAreNamed, TypeOK, UserKnown
<1>3. LoneTarget'
  BY <1>1, <1>a DEF LoneTarget, TypeOK, UserReadable, User
<1>4. LoneNames'
  BY <1>1, <1>a DEF LoneNames, NamesDiffer, UserKnown, TypeOK
<1>5. LoneLabels'
  <2> SUFFICES ASSUME ~overlap' PROVE LoneLabels'
    BY DEF LoneLabels
  <2>1. ~LabelTaken(grp[p], lab[p]) /\ GroupReadable(grp[p]) /\ gsnap[p] = gmeta[grp[p]]
    BY <1>1, <1>a DEF LoneLabels
  <2>2. \A h \in GroupIds : GroupReadable(h) => LabelsDiffer(gmeta[h])'
    BY <1>1, <1>a DEF LoneLabels, LabelsDiffer, GroupReadable, TypeOK
  <2>3. \A e \in gsnap[p] : file[e] # Absent => file[e].label # lab[p]
    BY <2>1 DEF LabelTaken, Loadable
  <2>4. \A d, e \in gsnap[p] : file[d] # Absent /\ file[e] # Absent /\ file[d].label = file[e].label
                               => d = e
    BY <1>1, <1>a, <2>1 DEF LoneLabels, LabelsDiffer
  <2>5. LabelsDiffer(gsnap[p])'
    BY <1>a, <2>3, <2>4 DEF LabelsDiffer, TypeOK
  <2> QED BY <1>1, <1>a, <2>2, <2>5 DEF LoneLabels, TypeOK, GroupReadable
<1>6. LoneAdded'
  <2> SUFFICES ASSUME ~overlap' PROVE LoneAdded'
    BY DEF LoneAdded
  <2>1. f \notin added
    BY <1>1, <1>a DEF LoneAdded, AddedIsLoadable
  <2>2. AddedIsLoadable'
    BY <1>1, <1>a, <2>1 DEF LoneAdded, AddedIsLoadable, Loadable, GroupReadable,
        UserKnown, TypeOK
  <2>3. AddedIn(grp[p])' \subseteq gsnap'[p]
    BY <1>1, <1>a, <2>1 DEF LoneAdded, AddedIn, FilesOf, TypeOK
  <2>4. [group |-> grp[p], label |-> lab[p]] # Absent
    BY <1>a, WrittenIsReadable DEF FaceFile
  <2>5. f \in gsnap'[p] /\ f \in FilesOf(grp[p])'
    BY <1>a, <2>4 DEF FilesOf, TypeOK
  <2> QED BY <1>1, <1>a, <2>2, <2>3, <2>5 DEF LoneAdded, TypeOK
<1>7. LoneSummaries'
  BY <1>1, <1>a DEF LoneSummaries, Settled, Rewrites, GroupReadable, UserKnown, TypeOK
<1>8. LoneCapacity'
  <2> SUFFICES ASSUME ~overlap', ~cut' PROVE LoneCapacity'
    BY DEF LoneCapacity
  <2>1. stale = {} /\ BelowLimit(User, grp[p]) /\ UserReadable /\ grp[p] \in Listed(User)
    BY <1>1, <1>a DEF LoneCapacity, LoneTarget
  <2>2. Settled(User, grp[p]) /\ gsnap[p] = gmeta[grp[p]]
    BY <1>1, <1>a, <2>1, UserIsSettled DEF Rewrites, LoneLabels
  <2>3. Cardinality(gsnap[p]) < MaxFaces
    BY <2>1, <2>2 DEF Settled, BelowLimit
  <2>4. gsnap[p] \in SUBSET FaceIds /\ gsnap'[p] = gsnap[p] \cup {f}
    BY <1>a DEF TypeOK
  <2>5. Cardinality(gsnap'[p]) = Cardinality(gsnap[p]) + 1
    BY <1>a, <2>4, IdsAssumption, FS_Subset, FS_AddElement
  <2>6. Cardinality(gsnap'[p]) <= MaxFaces
    BY <2>3, <2>4, <2>5, CountIsNat, MaxFacesAssumption
  <2> QED BY <1>1, <1>a, <2>6 DEF LoneCapacity, GroupReadable, TypeOK
<1> QED BY <1>2, <1>3, <1>4, <1>5, <1>6, <1>7, <1>8

LEMMA WriteGroupLone ==
  ASSUME IInv, IInv', LoneIInv, NEW p \in Procs, WriteGroup(p) PROVE LoneIInv'
<1> USE DEF IInv, LoneIInv, WriteGroup, Goto, memory, targets, history
<1>1. ~overlap' => ~overlap /\ \A q \in Procs \ {p} : pc[q] = "idle" /\ pc'[q] = "idle"
  BY DEF LoneCommand, TypeOK
<1>a. gsnap[p] # Absent /\ gsnap[p] # Torn /\ grp[p] \in GroupIds
  BY WrittenIsReadable DEF TypeOK, TargetsKnown
<1>2. GroupsAreNamed'
  BY <1>1 DEF GroupsAreNamed, TypeOK, UserKnown
<1>3. LoneTarget'
  BY <1>1 DEF LoneTarget, TypeOK, UserReadable, User
<1>4. LoneNames'
  BY <1>1 DEF LoneNames, NamesDiffer, UserKnown, TypeOK
<1>5. LoneLabels'
  BY <1>1 DEF LoneLabels, LabelTaken, Loadable, GroupReadable, LabelsDiffer, TypeOK
<1>6. LoneAdded'
  BY <1>1, <1>a DEF LoneAdded, AddedIsLoadable, AddedIn, FilesOf, Loadable,
      GroupReadable, UserKnown, TypeOK
<1>7. LoneSummaries'
  BY <1>1 DEF LoneSummaries, Settled, Rewrites, GroupReadable, UserKnown, TypeOK
<1>8. LoneCapacity'
  BY <1>1 DEF LoneCapacity, BelowLimit, GroupReadable, User, TypeOK
<1> QED BY <1>2, <1>3, <1>4, <1>5, <1>6, <1>7, <1>8

\* The summary about to be written counts what the group's file now lists.
LEMMA ReadUserLone ==
  ASSUME IInv, IInv', LoneIInv, NEW p \in Procs, ReadUser(p) PROVE LoneIInv'
<1> USE DEF IInv, LoneIInv, ReadUser, Goto, disk, targets, history
<1>1. ~overlap' => ~overlap /\ \A q \in Procs \ {p} : pc[q] = "idle" /\ pc'[q] = "idle"
  BY DEF LoneCommand, TypeOK
<1> DEFINE u == IF kind[p] = "add"
                 THEN WithDefault(Upsert(User, grp[p], Cardinality(gsnap[p])), grp[p])
                 ELSE Upsert(User, grp[p], Cardinality(gsnap[p]))
<1>a. grp[p] \in GroupIds /\ gsnap[p] \in SUBSET FaceIds /\ kind[p] \in {"add", "delete"}
  BY DEF TargetsKnown, KindsKnown, TypeOK
<1>b. /\ Listed(u) = Listed(User) \cup {grp[p]}
      /\ u.count[grp[p]] = Cardinality(gsnap[p])
      /\ \A h \in Listed(User) \ {grp[p]} : u.count[h] = User.count[h]
  <2> DEFINE v == Upsert(User, grp[p], Cardinality(gsnap[p]))
  <2>1. /\ UserMetaType(v) /\ DefaultListed(v) /\ Listed(v) = Listed(User) \cup {grp[p]}
        /\ \A h \in Listed(User) \cup {grp[p]} :
              v.count[h] = IF h = grp[p] THEN Cardinality(gsnap[p]) ELSE User.count[h]
    BY <1>a, UserGood, UpsertGood, CountIsNat DEF DefaultListed
  <2>2. u = IF kind[p] = "add" THEN WithDefault(v, grp[p]) ELSE v
    OBVIOUS
  <2> HIDE DEF v, u, ReadUser
  <2>3. Listed(u) = Listed(v) /\ u.count = v.count
    BY <2>1, <2>2, WithDefaultGood
  <2> QED BY <2>1, <2>3
<1>c. gsnap[p] # Absent /\ gsnap[p] # Torn
  BY <1>a, WrittenIsReadable
<1>d. /\ pc[p] = "readUser" /\ pc' = [pc EXCEPT ![p] = "writeUser"]
      /\ usnap' = [usnap EXCEPT ![p] = u] /\ UserReadable
      /\ UNCHANGED <<umeta, gmeta, file, gname, kind, grp, face, lab, todo, gsnap, added, removed,
                     stale, overlap, cut>>
  OBVIOUS
<1>e. ~overlap => grp[p] \in Listed(User)
  BY <1>d DEF LoneTarget
<1>f. ~overlap => gmeta[grp[p]] = gsnap[p]
  BY <1>a, <1>d DEF LoneSummaries
<1>g. ~overlap => \A h \in Listed(User) \ (stale \cup {grp[p]}) : Settled(u, h)
  BY <1>1, <1>b, <1>d, UserIsSettled DEF Rewrites, Settled
<1>h. ~overlap => Settled(u, grp[p])
  BY <1>b, <1>c, <1>f DEF Settled, GroupReadable
<1> HIDE DEF u, ReadUser, Goto, disk, targets, history
<1>2. GroupsAreNamed'
  BY <1>a, <1>b, <1>d, UserIsNamed, IdsAssumption DEF GroupsAreNamed, TypeOK, UserKnown
<1>3. LoneTarget'
  BY <1>1, <1>b, <1>d, <1>e DEF LoneTarget, TypeOK, UserReadable, User
<1>4. LoneNames'
  BY <1>1, <1>b, <1>d, <1>e, UserIsNamed DEF LoneNames, NamesDiffer, UserKnown, TypeOK
<1>5. LoneLabels'
  BY <1>1, <1>d DEF LoneLabels, LabelTaken, Loadable, GroupReadable, LabelsDiffer, TypeOK
<1>6. LoneAdded'
  BY <1>1, <1>b, <1>d, <1>e, UserIsSettled DEF LoneAdded, AddedIsLoadable, AddedIn,
      FilesOf, Loadable, GroupReadable, UserKnown, TypeOK
<1>7. LoneSummaries'
  BY <1>1, <1>b, <1>d, <1>e, <1>f, <1>g, <1>h DEF LoneSummaries, Settled, Rewrites,
      GroupReadable, UserKnown, TypeOK
<1>8. LoneCapacity'
  BY <1>1, <1>d DEF LoneCapacity, BelowLimit, GroupReadable, User, TypeOK
<1> QED BY <1>2, <1>3, <1>4, <1>5, <1>6, <1>7, <1>8

\* The face reported added is in the group's file and the group is listed.
LEMMA WriteUserLone ==
  ASSUME IInv, IInv', LoneIInv, NEW p \in Procs, WriteUser(p) PROVE LoneIInv'
<1> USE DEF IInv, LoneIInv, WriteUser, Exit
<1>1. ~overlap' => ~overlap /\ \A q \in Procs \ {p} : pc[q] = "idle" /\ pc'[q] = "idle"
  BY DEF LoneCommand, TypeOK
<1>a. usnap[p] # Absent /\ usnap[p] # Torn
  BY WrittenIsReadable DEF TypeOK
<1>b. /\ pc[p] = "writeUser" /\ umeta' = usnap[p]
      /\ pc' = [pc EXCEPT ![p] = "idle"] /\ kind' = [kind EXCEPT ![p] = "none"]
      /\ grp' = [grp EXCEPT ![p] = None] /\ usnap' = [usnap EXCEPT ![p] = EmptyMeta]
      /\ stale' = stale \ (IF kind[p] = "default" THEN {} ELSE {grp[p]})
      /\ added' = IF kind[p] = "add" THEN added \cup {face[p]} ELSE added
      /\ UNCHANGED <<gmeta, file, gname, overlap, cut>>
  OBVIOUS
<1>c. kind[p] = "add" => face[p] \in FaceIds /\ grp[p] \in GroupIds \cup {None}
  BY <1>b DEF TargetsKnown, TypeOK
<1> HIDE DEF WriteUser, Exit
<1>2. GroupsAreNamed'
  BY <1>1, <1>a, <1>b, EmptyMetaGood DEF GroupsAreNamed, TypeOK, UserKnown
<1>3. LoneTarget'
  BY <1>1, <1>a, <1>b, EmptyMetaGood DEF LoneTarget, TypeOK, UserReadable, User
<1>4. LoneNames'
  BY <1>1, <1>a, <1>b, EmptyMetaGood DEF LoneNames, NamesDiffer, UserKnown, TypeOK
<1>5. LoneLabels'
  BY <1>1, <1>a, <1>b, EmptyMetaGood DEF LoneLabels, LabelTaken, Loadable,
      GroupReadable, LabelsDiffer, TypeOK
<1>6. LoneAdded'
  <2> SUFFICES ASSUME ~overlap' PROVE LoneAdded'
    BY DEF LoneAdded
  <2>1. \A q \in Procs : pc'[q] = "idle"
    BY <1>1, <1>b DEF TypeOK
  <2>2. ASSUME NEW f \in added
        PROVE  /\ file[f] # Absent /\ file[f].group \in Listed(usnap[p])
               /\ gmeta[file[f].group] # Torn => f \in Loadable(file[f].group)
    BY <1>1, <1>b DEF LoneAdded, AddedIsLoadable
  <2>3. ASSUME kind[p] = "add"
        PROVE  LET f == face[p]
               IN  /\ file[f] # Absent /\ file[f].group \in Listed(usnap[p])
                   /\ f \in Loadable(file[f].group)
    <3>1. face[p] \in gsnap[p] /\ face[p] \in FilesOf(grp[p])
      BY <1>1, <1>b, <2>3 DEF LoneAdded
    <3>2. grp[p] \in Listed(usnap[p]) /\ gmeta[grp[p]] = gsnap[p]
      BY <1>1, <1>b, <2>3 DEF LoneTarget, LoneSummaries
    <3>3. gsnap[p] # Absent /\ gsnap[p] # Torn
      BY WrittenIsReadable DEF TypeOK
    <3> QED BY <3>1, <3>2, <3>3 DEF Loadable, GroupReadable, FilesOf
  <2>4. AddedIsLoadable'
    BY <1>a, <1>b, <2>2, <2>3 DEF AddedIsLoadable, Loadable, GroupReadable, UserKnown
  <2> QED BY <2>1, <2>4 DEF LoneAdded
<1>7. LoneSummaries'
  BY <1>1, <1>a, <1>b, EmptyMetaGood DEF LoneSummaries, Settled, Rewrites,
      GroupReadable, UserKnown, TypeOK
<1>8. LoneCapacity'
  BY <1>1, <1>a, <1>b, EmptyMetaGood DEF LoneCapacity, BelowLimit, GroupReadable, User, TypeOK
<1> QED BY <1>2, <1>3, <1>4, <1>5, <1>6, <1>7, <1>8

LEMMA DeleteFacesLone ==
  ASSUME IInv, IInv', LoneIInv, NEW p \in Procs, NEW g \in GroupIds, NEW F \in SUBSET
      FaceIds, DeleteFaces(p, g, F) PROVE LoneIInv'
<1> USE MaxCommandsAssumption DEF IInv, LoneIInv, DeleteFaces, Start, disk, memory
<1>1. ~overlap' => ~overlap /\ \A q \in Procs \ {p} : pc[q] = "idle" /\ pc'[q] = "idle"
  BY DEF LoneCommand, TypeOK
<1>2. GroupsAreNamed'
  BY UserIsNamed DEF GroupsAreNamed, TypeOK, UserKnown
<1>3. LoneTarget'
  BY <1>1 DEF LoneTarget, TypeOK, UserReadable, User
<1>4. LoneNames'
  BY <1>1 DEF LoneNames, NamesDiffer, UserKnown, TypeOK
<1>5. LoneLabels'
  BY <1>1 DEF LoneLabels, LabelTaken, Loadable, GroupReadable, LabelsDiffer, TypeOK
<1>6. LoneAdded'
  BY <1>1 DEF LoneAdded, AddedIsLoadable, AddedIn, FilesOf, Loadable, GroupReadable,
      UserKnown, TypeOK
<1>7. LoneSummaries'
  BY <1>1 DEF LoneSummaries, Settled, Rewrites, GroupReadable, UserKnown, TypeOK
<1>8. LoneCapacity'
  BY <1>1 DEF LoneCapacity, BelowLimit, GroupReadable, User, TypeOK
<1> QED BY <1>2, <1>3, <1>4, <1>5, <1>6, <1>7, <1>8

LEMMA DeleteReadGroupLone ==
  ASSUME IInv, IInv', LoneIInv, NEW p \in Procs, DeleteReadGroup(p) PROVE LoneIInv'
<1> USE DEF IInv, LoneIInv, DeleteReadGroup, Goto, GroupReadable, disk, targets, history
<1>1. ~overlap' => ~overlap /\ \A q \in Procs \ {p} : pc[q] = "idle" /\ pc'[q] = "idle"
  BY DEF LoneCommand, TypeOK
<1>a. /\ grp[p] \in GroupIds /\ GroupReadable(grp[p]) /\ pc[p] = "delRead"
      /\ gsnap' = [gsnap EXCEPT ![p] = gmeta[grp[p]] \ todo[p]]
      /\ pc' = [pc EXCEPT ![p] = "delFiles"] /\ gmeta[grp[p]] \in SUBSET FaceIds
      /\ UNCHANGED <<umeta, gmeta, file, gname, kind, grp, face, lab, todo, usnap, stale, overlap, cut>>
  BY DEF TargetsKnown, TypeOK
<1>2. GroupsAreNamed'
  BY <1>1 DEF GroupsAreNamed, TypeOK, UserKnown
<1>3. LoneTarget'
  BY <1>1 DEF LoneTarget, TypeOK, UserReadable, User
<1>4. LoneNames'
  BY <1>1 DEF LoneNames, NamesDiffer, UserKnown, TypeOK
<1>5. LoneLabels'
  <2> HIDE DEF DeleteReadGroup, Goto, disk, targets, history
  <2>1. ~overlap => LabelsDiffer(gmeta[grp[p]] \ todo[p])
    BY <1>a DEF LoneLabels, LabelsDiffer
  <2> QED BY <1>1, <1>a, <2>1 DEF LoneLabels, LabelsDiffer, LabelTaken, Loadable, GroupReadable, TypeOK
<1>6. LoneAdded'
  BY <1>1 DEF LoneAdded, AddedIsLoadable, AddedIn, FilesOf, Loadable, GroupReadable,
      UserKnown, TypeOK
<1>7. LoneSummaries'
  BY <1>1 DEF LoneSummaries, Settled, Rewrites, GroupReadable, UserKnown, TypeOK
<1>8. LoneCapacity'
  <2> HIDE DEF DeleteReadGroup, Goto, disk, targets, history
  <2>1. Cardinality(gmeta[grp[p]] \ todo[p]) <= Cardinality(gmeta[grp[p]])
    BY <1>a, IdsAssumption, FS_Subset
  <2>2. Cardinality(gmeta[grp[p]] \ todo[p]) \in Nat /\ Cardinality(gmeta[grp[p]]) \in Nat
    BY <1>a, CountIsNat
  <2> QED BY <1>1, <1>a, <2>1, <2>2, MaxFacesAssumption DEF LoneCapacity, GroupReadable, TypeOK, User, BelowLimit
<1> QED BY <1>2, <1>3, <1>4, <1>5, <1>6, <1>7, <1>8

\* The faces being removed were taken out of those that must stay.
LEMMA DeleteFileLone ==
  ASSUME IInv, IInv', LoneIInv, NEW p \in Procs, NEW f \in FaceIds, DeleteFile(p, f)
      PROVE LoneIInv'
<1> USE DEF IInv, LoneIInv, DeleteFile, FileRemoved, memory, targets, history
<1>1. ~overlap' => ~overlap /\ \A q \in Procs \ {p} : pc[q] = "idle" /\ pc'[q] = "idle"
  BY DEF LoneCommand, TypeOK
<1>a. /\ pc[p] = "delFiles" /\ f \in todo[p] /\ file' = [file EXCEPT ![f] = Absent]
      /\ UNCHANGED <<umeta, gmeta, gname, pc, kind, grp, face, lab, todo, gsnap, usnap, added,
                     removed, stale, overlap, cut>>
      /\ kind[p] = "delete"
  BY DEF KindsKnown
<1>2. GroupsAreNamed'
  BY <1>1 DEF GroupsAreNamed, TypeOK, UserKnown
<1>3. LoneTarget'
  BY <1>1 DEF LoneTarget, TypeOK, UserReadable, User
<1>4. LoneNames'
  BY <1>1 DEF LoneNames, NamesDiffer, UserKnown, TypeOK
<1>5. LoneLabels'
  BY <1>1 DEF LoneLabels, LabelTaken, Loadable, GroupReadable, LabelsDiffer, TypeOK
<1>6. LoneAdded'
  <2> HIDE DEF DeleteFile, FileRemoved, memory, targets, history
  <2> SUFFICES ASSUME ~overlap' PROVE LoneAdded'
    BY DEF LoneAdded
  <2>1. f \notin added
    BY <1>1, <1>a DEF LoneAdded
  <2>2. AddedIsLoadable'
    BY <1>1, <1>a, <2>1 DEF LoneAdded, AddedIsLoadable, Loadable, GroupReadable,
        UserKnown, TypeOK
  <2>3. \A g : AddedIn(g)' = AddedIn(g)
    BY <1>a, <2>1 DEF AddedIn, FilesOf, TypeOK
  <2> QED BY <1>1, <1>a, <2>1, <2>2, <2>3 DEF LoneAdded
<1>7. LoneSummaries'
  BY <1>1 DEF LoneSummaries, Settled, Rewrites, GroupReadable, UserKnown, TypeOK
<1>8. LoneCapacity'
  BY <1>1 DEF LoneCapacity, BelowLimit, GroupReadable, User, TypeOK
<1> QED BY <1>2, <1>3, <1>4, <1>5, <1>6, <1>7, <1>8

LEMMA DeleteFilesDoneLone ==
  ASSUME IInv, IInv', LoneIInv, NEW p \in Procs, DeleteFilesDone(p) PROVE LoneIInv'
<1> USE DEF IInv, LoneIInv, DeleteFilesDone, Goto, FileRemoved, disk, memory, targets, history
<1>1. ~overlap' => ~overlap /\ \A q \in Procs \ {p} : pc[q] = "idle" /\ pc'[q] = "idle"
  BY DEF LoneCommand, TypeOK
<1>a. /\ pc[p] = "delFiles" /\ pc' = [pc EXCEPT ![p] = "writeGroup"]
      /\ UNCHANGED <<umeta, gmeta, file, gname, kind, grp, face, lab, todo, gsnap, usnap, added,
                     removed, stale, overlap, cut>>
      /\ kind[p] = "delete"
  BY DEF KindsKnown
<1>2. GroupsAreNamed'
  BY <1>1 DEF GroupsAreNamed, TypeOK, UserKnown
<1>3. LoneTarget'
  BY <1>1 DEF LoneTarget, TypeOK, UserReadable, User
<1>4. LoneNames'
  BY <1>1 DEF LoneNames, NamesDiffer, UserKnown, TypeOK
<1>5. LoneLabels'
  BY <1>1 DEF LoneLabels, LabelTaken, Loadable, GroupReadable, LabelsDiffer, TypeOK
<1>6. LoneAdded'
  <2> HIDE DEF DeleteFilesDone, Goto, FileRemoved, disk, memory, targets, history
  <2> QED BY <1>1, <1>a DEF LoneAdded, AddedIsLoadable, AddedIn, FilesOf, Loadable, GroupReadable, UserKnown, TypeOK
<1>7. LoneSummaries'
  BY <1>1 DEF LoneSummaries, Settled, Rewrites, GroupReadable, UserKnown, TypeOK
<1>8. LoneCapacity'
  BY <1>1 DEF LoneCapacity, BelowLimit, GroupReadable, User, TypeOK
<1> QED BY <1>2, <1>3, <1>4, <1>5, <1>6, <1>7, <1>8

LEMMA DropGroupLone ==
  ASSUME IInv, IInv', LoneIInv, NEW p \in Procs, NEW g \in GroupIds, DropGroup(p, g)
      PROVE LoneIInv'
<1> USE MaxCommandsAssumption DEF IInv, LoneIInv, DropGroup, Start, disk, memory
<1>1. ~overlap' => ~overlap /\ \A q \in Procs \ {p} : pc[q] = "idle" /\ pc'[q] = "idle"
  BY DEF LoneCommand, TypeOK
<1>2. GroupsAreNamed'
  BY UserIsNamed DEF GroupsAreNamed, TypeOK, UserKnown
<1>3. LoneTarget'
  BY <1>1 DEF LoneTarget, TypeOK, UserReadable, User
<1>4. LoneNames'
  BY <1>1 DEF LoneNames, NamesDiffer, UserKnown, TypeOK
<1>5. LoneLabels'
  BY <1>1 DEF LoneLabels, LabelTaken, Loadable, GroupReadable, LabelsDiffer, TypeOK
<1>6. LoneAdded'
  BY <1>1 DEF LoneAdded, AddedIsLoadable, AddedIn, FilesOf, Loadable, GroupReadable,
      UserKnown, TypeOK
<1>7. LoneSummaries'
  BY <1>1 DEF LoneSummaries, Settled, Rewrites, GroupReadable, UserKnown, TypeOK
<1>8. LoneCapacity'
  BY <1>1 DEF LoneCapacity, BelowLimit, GroupReadable, User, TypeOK
<1> QED BY <1>2, <1>3, <1>4, <1>5, <1>6, <1>7, <1>8

\* No face of a group being dropped has to stay.
LEMMA DropFaceLone ==
  ASSUME IInv, IInv', LoneIInv, NEW p \in Procs, NEW f \in FaceIds, DropFace(p, f) PROVE
      LoneIInv'
<1> USE DEF IInv, LoneIInv, DropFace, FileRemoved, memory, history
<1>1. ~overlap' => ~overlap /\ \A q \in Procs \ {p} : pc[q] = "idle" /\ pc'[q] = "idle"
  BY DEF LoneCommand, TypeOK, Emptying
<1>a. /\ file' = [file EXCEPT ![f] = Absent] /\ todo' = [todo EXCEPT ![p] = @ \cup {f}]
      /\ file[f] # Absent
      /\ \/ pc[p] = "dropDir" /\ file[f].group = grp[p]
         \/ pc[p] = "wipe"
      /\ UNCHANGED <<umeta, gmeta, gname, pc, kind, grp, face, lab, gsnap, usnap, added,
                     removed, stale, overlap, cut>>
  BY DEF Emptying
<1>2. GroupsAreNamed'
  BY <1>1 DEF GroupsAreNamed, TypeOK, UserKnown
<1>3. LoneTarget'
  <2> HIDE DEF DropFace, FileRemoved, memory, history
  <2> QED BY <1>1, <1>a DEF LoneTarget, TypeOK, UserReadable, User
<1>4. LoneNames'
  BY <1>1 DEF LoneNames, NamesDiffer, UserKnown, TypeOK
<1>5. LoneLabels'
  BY <1>1 DEF LoneLabels, LabelTaken, Loadable, GroupReadable, LabelsDiffer, TypeOK
<1>6. LoneAdded'
  <2> HIDE DEF DropFace, FileRemoved, memory, history
  <2> SUFFICES ASSUME ~overlap' PROVE LoneAdded'
    BY DEF LoneAdded
  <2>1. f \notin added
    BY <1>1, <1>a DEF LoneAdded, AddedIn, FilesOf, TypeOK
  <2>2. AddedIsLoadable'
    BY <1>1, <1>a, <2>1 DEF LoneAdded, AddedIsLoadable, Loadable, GroupReadable,
        UserKnown, TypeOK
  <2>3. \A g : AddedIn(g)' = AddedIn(g)
    BY <1>a, <2>1 DEF AddedIn, FilesOf, TypeOK
  <2> QED BY <1>1, <1>a, <2>1, <2>2, <2>3 DEF LoneAdded
<1>7. LoneSummaries'
  BY <1>1 DEF LoneSummaries, Settled, Rewrites, GroupReadable, UserKnown, TypeOK
<1>8. LoneCapacity'
  BY <1>1 DEF LoneCapacity, BelowLimit, GroupReadable, User, TypeOK
<1> QED BY <1>2, <1>3, <1>4, <1>5, <1>6, <1>7, <1>8

\* Torn group metadata lists nothing.
LEMMA DropGroupMetaLone ==
  ASSUME IInv, IInv', LoneIInv, NEW p \in Procs, NEW g \in GroupIds, DropGroupMeta(p, g)
      PROVE LoneIInv'
<1> USE DEF IInv, LoneIInv, DropGroupMeta, memory, targets, history
<1>1. ~overlap' => ~overlap /\ \A q \in Procs \ {p} : pc[q] = "idle" /\ pc'[q] = "idle"
  BY DEF LoneCommand, TypeOK, Emptying
<1>a. /\ gmeta' = [gmeta EXCEPT ![g] = Torn]
      /\ \/ pc[p] = "dropDir" /\ g = grp[p]
         \/ pc[p] = "wipe"
      /\ UNCHANGED <<umeta, file, gname, pc, kind, grp, face, lab, todo, gsnap, usnap, added,
                     removed, stale, overlap, cut>>
  BY DEF Emptying
<1>2. GroupsAreNamed'
  BY <1>1 DEF GroupsAreNamed, TypeOK, UserKnown
<1>3. LoneTarget'
  <2> HIDE DEF DropGroupMeta, memory, targets, history
  <2> QED BY <1>1, <1>a DEF LoneTarget, TypeOK, UserReadable, User
<1>4. LoneNames'
  BY <1>1 DEF LoneNames, NamesDiffer, UserKnown, TypeOK
<1>5. LoneLabels'
  <2> HIDE DEF DropGroupMeta, memory, targets, history
  <2> QED BY <1>1, <1>a DEF LoneLabels, LabelTaken, Loadable, GroupReadable, LabelsDiffer, TypeOK
<1>6. LoneAdded'
  BY <1>1 DEF LoneAdded, AddedIsLoadable, AddedIn, FilesOf, Loadable, GroupReadable,
      UserKnown, TypeOK
<1>7. LoneSummaries'
  <2> HIDE DEF DropGroupMeta, memory, targets, history
  <2> QED BY <1>1, <1>a DEF LoneSummaries, Settled, Rewrites, GroupReadable, UserKnown, TypeOK
<1>8. LoneCapacity'
  BY <1>1 DEF LoneCapacity, BelowLimit, GroupReadable, User, TypeOK
<1> QED BY <1>2, <1>3, <1>4, <1>5, <1>6, <1>7, <1>8

LEMMA DropUserMetaLone ==
  ASSUME IInv, IInv', LoneIInv, NEW p \in Procs, DropUserMeta(p) PROVE LoneIInv'
<1> USE DEF IInv, LoneIInv, DropUserMeta, UserKnown, memory, targets, history
<1>1. ~overlap' => ~overlap /\ \A q \in Procs \ {p} : pc[q] = "idle" /\ pc'[q] = "idle"
  BY DEF LoneCommand, TypeOK
<1>2. GroupsAreNamed'
  BY <1>1 DEF GroupsAreNamed, TypeOK, UserKnown
<1>3. LoneTarget'
  BY <1>1 DEF LoneTarget, TypeOK, UserReadable, User
<1>4. LoneNames'
  BY <1>1 DEF LoneNames, NamesDiffer, UserKnown, TypeOK
<1>5. LoneLabels'
  BY <1>1 DEF LoneLabels, LabelTaken, Loadable, GroupReadable, LabelsDiffer, TypeOK
<1>6. LoneAdded'
  BY <1>1 DEF LoneAdded, AddedIsLoadable, AddedIn, FilesOf, Loadable, GroupReadable,
      UserKnown, TypeOK
<1>7. LoneSummaries'
  BY <1>1 DEF LoneSummaries, Settled, Rewrites, GroupReadable, UserKnown, TypeOK
<1>8. LoneCapacity'
  BY <1>1 DEF LoneCapacity, BelowLimit, GroupReadable, User, TypeOK
<1> QED BY <1>2, <1>3, <1>4, <1>5, <1>6, <1>7, <1>8

LEMMA DropDirLone ==
  ASSUME IInv, IInv', LoneIInv, NEW p \in Procs, DropDir(p) PROVE LoneIInv'
<1> USE DEF IInv, LoneIInv, DropDir, Goto, memory, targets, history
<1>1. ~overlap' => ~overlap /\ \A q \in Procs \ {p} : pc[q] = "idle" /\ pc'[q] = "idle"
  BY DEF LoneCommand, TypeOK
<1>2. GroupsAreNamed'
  BY <1>1 DEF GroupsAreNamed, TypeOK, UserKnown
<1>3. LoneTarget'
  BY <1>1 DEF LoneTarget, TypeOK, UserReadable, User
<1>4. LoneNames'
  BY <1>1 DEF LoneNames, NamesDiffer, UserKnown, TypeOK
<1>5. LoneLabels'
  BY <1>1 DEF LoneLabels, LabelTaken, Loadable, GroupReadable, LabelsDiffer, TypeOK
<1>6. LoneAdded'
  BY <1>1 DEF LoneAdded, AddedIsLoadable, AddedIn, FilesOf, Loadable, GroupReadable,
      UserKnown, TypeOK
<1>7. LoneSummaries'
  BY <1>1 DEF LoneSummaries, Settled, Rewrites, GroupReadable, UserKnown, TypeOK
<1>8. LoneCapacity'
  BY <1>1 DEF LoneCapacity, BelowLimit, GroupReadable, User, TypeOK
<1> QED BY <1>2, <1>3, <1>4, <1>5, <1>6, <1>7, <1>8

\* Without other groups there is no face that has to stay.
LEMMA DropReadLone ==
  ASSUME IInv, IInv', LoneIInv, NEW p \in Procs, DropRead(p) PROVE LoneIInv'
<1> USE DEF IInv, LoneIInv, DropRead, Goto, disk, targets, history
<1>1. ~overlap' => ~overlap /\ \A q \in Procs \ {p} : pc[q] = "idle" /\ pc'[q] = "idle"
  BY DEF LoneCommand, TypeOK
<1> DEFINE g == grp[p]
<1>a. /\ pc[p] = "dropRead" /\ UserReadable /\ g \in Listed(User) /\ kind[p] = "drop"
      /\ UNCHANGED <<umeta, gmeta, file, gname, kind, grp, face, lab, todo, gsnap, added,
                     removed, stale, overlap, cut>>
  BY DEF KindsKnown
<1>b. \/ /\ Listed(User) = {g} /\ pc' = [pc EXCEPT ![p] = "wipe"] /\ usnap' = usnap
      \/ /\ pc' = [pc EXCEPT ![p] = "writeUser"]
         /\ \E u \in WithoutGroup(User, g) : usnap' = [usnap EXCEPT ![p] = u]
  OBVIOUS
<1>c. \A u \in WithoutGroup(User, g) :
        Listed(u) = Listed(User) \ {g} /\ \A h \in Listed(u) : u.count[h] = User.count[h]
  BY <1>a, UserGood, WithoutGroupGood
<1>d. ~overlap => /\ \A f \in added : file[f].group \in Listed(User) \ {g}
                  /\ \A h \in Listed(User) \ (stale \cup {g}) : Settled(User, h)
  <2> SUFFICES ASSUME ~overlap
               PROVE  /\ \A f \in added : file[f].group \in Listed(User) \ {g}
                      /\ \A h \in Listed(User) \ (stale \cup {g}) : Settled(User, h)
    OBVIOUS
  <2>1. AddedIn(g) = {} /\ \A f \in added : f \in FaceIds /\ file[f] # Absent
    BY <1>a DEF LoneAdded, AddedIsLoadable, TypeOK
  <2>2. \A f \in added : file[f].group # g
    BY <2>1 DEF AddedIn, FilesOf
  <2>3. \A h \in Listed(User) \ (stale \cup {g}) : ~\E q \in Procs : Rewrites(q, h)
    BY <1>1, <1>a DEF Rewrites
  <2> QED BY <1>a, <2>2, <2>3, UserIsSettled
<1>e. ~overlap /\ Listed(User) = {g} => added = {}
  BY <1>d
<1> HIDE DEF DropRead, Goto, disk, targets, history
<1>2. GroupsAreNamed'
  BY <1>a, <1>b, <1>c, UserIsNamed DEF GroupsAreNamed, TypeOK, UserKnown
<1>3. LoneTarget'
  BY <1>1, <1>a, <1>b, <1>c DEF LoneTarget, TypeOK, UserReadable, User
<1>4. LoneNames'
  BY <1>1, <1>a, <1>b, <1>c, UserIsNamed DEF LoneNames, NamesDiffer, UserKnown, TypeOK
<1>5. LoneLabels'
  BY <1>1, <1>a, <1>b DEF LoneLabels, LabelTaken, Loadable, GroupReadable, LabelsDiffer, TypeOK
<1>6. LoneAdded'
  BY <1>1, <1>a, <1>b, <1>c, <1>d, <1>e DEF LoneAdded, AddedIsLoadable, AddedIn,
      FilesOf, Loadable, GroupReadable, UserKnown, TypeOK
<1>7. LoneSummaries'
  BY <1>1, <1>a, <1>b, <1>c, <1>d, <1>e DEF LoneSummaries, Settled, Rewrites,
      GroupReadable, UserKnown, TypeOK
<1>8. LoneCapacity'
  BY <1>1, <1>a, <1>b DEF LoneCapacity, BelowLimit, GroupReadable, User, TypeOK
<1> QED BY <1>2, <1>3, <1>4, <1>5, <1>6, <1>7, <1>8

LEMMA RemoveUserLone ==
  ASSUME IInv, IInv', LoneIInv, NEW p \in Procs, RemoveUser(p) PROVE LoneIInv'
<1> USE MaxCommandsAssumption DEF IInv, LoneIInv, RemoveUser, Start, disk, memory, targets
<1>1. ~overlap' => ~overlap /\ \A q \in Procs \ {p} : pc[q] = "idle" /\ pc'[q] = "idle"
  BY DEF LoneCommand, TypeOK
<1>2. GroupsAreNamed'
  BY <1>1 DEF GroupsAreNamed, TypeOK, UserKnown
<1>3. LoneTarget'
  BY <1>1 DEF LoneTarget, TypeOK, UserReadable, User
<1>4. LoneNames'
  BY <1>1 DEF LoneNames, NamesDiffer, UserKnown, TypeOK
<1>5. LoneLabels'
  BY <1>1 DEF LoneLabels, LabelTaken, Loadable, GroupReadable, LabelsDiffer, TypeOK
<1>6. LoneAdded'
  BY <1>1 DEF LoneAdded, AddedIsLoadable, AddedIn, FilesOf, Loadable, GroupReadable,
      UserKnown, TypeOK
<1>7. LoneSummaries'
  BY <1>1 DEF LoneSummaries, Settled, Rewrites, GroupReadable, UserKnown, TypeOK
<1>8. LoneCapacity'
  BY <1>1 DEF LoneCapacity, BelowLimit, GroupReadable, User, TypeOK
<1> QED BY <1>2, <1>3, <1>4, <1>5, <1>6, <1>7, <1>8

\* Without a user nothing has to stay.
LEMMA WipeLone ==
  ASSUME IInv, IInv', LoneIInv, NEW p \in Procs, Wipe(p) PROVE LoneIInv'
<1> USE DEF IInv, LoneIInv, Wipe, Exit
<1>1. ~overlap' => ~overlap /\ \A q \in Procs \ {p} : pc[q] = "idle" /\ pc'[q] = "idle"
  BY DEF LoneCommand, TypeOK
<1>2. GroupsAreNamed'
  BY EmptyMetaGood DEF GroupsAreNamed, TypeOK, UserKnown, EmptyMeta, Listed
<1>3. LoneTarget'
  BY <1>1 DEF LoneTarget, TypeOK, UserReadable, User
<1>4. LoneNames'
  BY <1>1, EmptyMetaGood DEF LoneNames, NamesDiffer, UserKnown, TypeOK
<1>5. LoneLabels'
  BY <1>1 DEF LoneLabels, LabelTaken, Loadable, GroupReadable, LabelsDiffer, TypeOK
<1>6. LoneAdded'
  BY <1>1 DEF LoneAdded, AddedIsLoadable, AddedIn, FilesOf, Loadable, GroupReadable,
      UserKnown, TypeOK
<1>7. LoneSummaries'
  BY <1>1 DEF LoneSummaries, Settled, Rewrites, GroupReadable, UserKnown, TypeOK
<1>8. LoneCapacity'
  BY <1>1 DEF LoneCapacity, BelowLimit, GroupReadable, User, TypeOK
<1> QED BY <1>2, <1>3, <1>4, <1>5, <1>6, <1>7, <1>8

LEMMA SetDefaultGroupLone ==
  ASSUME IInv, IInv', LoneIInv, NEW p \in Procs, NEW g \in GroupIds, SetDefaultGroup(p,
      g) PROVE LoneIInv'
<1> USE MaxCommandsAssumption DEF IInv, LoneIInv, SetDefaultGroup, Start, disk, targets
<1>1. ~overlap' => ~overlap /\ \A q \in Procs \ {p} : pc[q] = "idle" /\ pc'[q] = "idle"
  BY DEF LoneCommand, TypeOK
<1> DEFINE u == [User EXCEPT !.default = g]
<1>a. /\ Listed(u) = Listed(User) /\ u.count = User.count
      /\ \A h \in Listed(u) : gname[h] # None
      /\ ~overlap => NamesDiffer(u) /\ \A f \in added : file[f].group \in Listed(u)
  BY UserGood, SettingDefault, UserIsNamed, UserIsSettled DEF NamesDiffer
<1>b. ~overlap' => \A h \in Listed(u) \ stale : Settled(u, h)
  BY <1>1, <1>a, UserIsSettled DEF Rewrites, Settled
<1>c. /\ pc[p] = "idle" /\ pc' = [pc EXCEPT ![p] = "writeUser"]
      /\ kind' = [kind EXCEPT ![p] = "default"] /\ grp[p] = None
      /\ usnap' = [usnap EXCEPT ![p] = u]
      /\ UNCHANGED <<umeta, gmeta, file, gname, grp, gsnap, face, lab, todo, added, removed, stale, cut>>
  BY DEF GroupsAreNamed
<1>d. None \notin Listed(u)
  BY <1>a, UserGood, PartsOfMeta, IdsAssumption
<1> HIDE DEF u, SetDefaultGroup, Start, disk, targets
<1>2. GroupsAreNamed'
  BY <1>1, <1>a, <1>b, <1>c, <1>d DEF GroupsAreNamed, TypeOK, UserKnown
<1>3. LoneTarget'
  BY <1>1, <1>a, <1>b, <1>c, <1>d DEF LoneTarget, TypeOK, UserReadable, User
<1>4. LoneNames'
  BY <1>1, <1>a, <1>b, <1>c, <1>d DEF LoneNames, NamesDiffer, UserKnown, TypeOK
<1>5. LoneLabels'
  BY <1>1, <1>a, <1>b, <1>c, <1>d DEF LoneLabels, LabelTaken, Loadable, GroupReadable,
      LabelsDiffer, TypeOK
<1>6. LoneAdded'
  BY <1>1, <1>a, <1>b, <1>c, <1>d DEF LoneAdded, AddedIsLoadable, AddedIn, FilesOf,
      Loadable, GroupReadable, UserKnown, TypeOK
<1>7. LoneSummaries'
  BY <1>1, <1>a, <1>b, <1>c, <1>d DEF LoneSummaries, Settled, Rewrites, GroupReadable,
      UserKnown, TypeOK
<1>8. LoneCapacity'
  BY <1>1, <1>a, <1>b, <1>c, <1>d DEF LoneCapacity, BelowLimit, GroupReadable, User, TypeOK
<1> QED BY <1>2, <1>3, <1>4, <1>5, <1>6, <1>7, <1>8

\* What is left half done is marked stale.
LEMMA AbandonLone ==
  ASSUME IInv, IInv', LoneIInv, NEW p \in Procs, Abandon(p) PROVE LoneIInv'
<1> USE DEF IInv, LoneIInv, Abandon, Cut, Exit, disk
<1>1. ~overlap' => ~overlap /\ \A q \in Procs \ {p} : pc[q] = "idle" /\ pc'[q] = "idle"
  BY DEF LoneCommand, TypeOK
<1>a. /\ pc[p] # "idle" /\ cut'
      /\ stale' = stale \cup (IF pc[p] = "wipe" THEN GroupIds ELSE {grp[p]} \ {None})
      /\ pc' = [pc EXCEPT ![p] = "idle"] /\ kind' = [kind EXCEPT ![p] = "none"]
      /\ grp' = [grp EXCEPT ![p] = None] /\ usnap' = [usnap EXCEPT ![p] = EmptyMeta]
      /\ UNCHANGED <<umeta, gmeta, file, gname, added, removed, overlap>>
  OBVIOUS
<1>b. UserKnown => Listed(umeta) \subseteq GroupIds
  BY PartsOfMeta DEF UserKnown, TypeOK
<1> HIDE DEF Abandon, Cut, Exit, disk
<1>2. GroupsAreNamed'
  BY <1>1, <1>a, EmptyMetaGood DEF GroupsAreNamed, TypeOK, UserKnown
<1>3. LoneTarget'
  BY <1>1, <1>a, EmptyMetaGood DEF LoneTarget, TypeOK, UserReadable, User
<1>4. LoneNames'
  BY <1>1, <1>a, EmptyMetaGood DEF LoneNames, NamesDiffer, UserKnown, TypeOK
<1>5. LoneLabels'
  BY <1>1, <1>a, EmptyMetaGood DEF LoneLabels, LabelTaken, Loadable, GroupReadable,
      LabelsDiffer, TypeOK
<1>6. LoneAdded'
  BY <1>1, <1>a, EmptyMetaGood DEF LoneAdded, AddedIsLoadable, AddedIn, FilesOf,
      Loadable, GroupReadable, UserKnown, TypeOK
<1>7. LoneSummaries'
  BY <1>1, <1>a, <1>b, IdsAssumption DEF LoneSummaries, Settled, Rewrites,
      GroupReadable, UserKnown, TypeOK
<1>8. LoneCapacity'
  BY <1>1, <1>a, EmptyMetaGood DEF LoneCapacity, BelowLimit, GroupReadable, User, TypeOK
<1> QED BY <1>2, <1>3, <1>4, <1>5, <1>6, <1>7, <1>8

\* What was written half is torn; the group it belongs to is stale.
LEMMA TearLone ==
  ASSUME IInv, IInv', LoneIInv, NEW p \in Procs, Tear(p) PROVE LoneIInv'
<1> USE DEF IInv, LoneIInv, Tear, Cut, Exit
<1>1. ~overlap' => ~overlap /\ \A q \in Procs \ {p} : pc[q] = "idle" /\ pc'[q] = "idle"
  BY DEF LoneCommand, TypeOK, WriteGroupStages, WriteUserStages
<1>a. /\ pc[p] # "idle" /\ pc[p] # "wipe" /\ cut'
      /\ stale' = stale \cup ({grp[p]} \ {None})
      /\ pc' = [pc EXCEPT ![p] = "idle"] /\ kind' = [kind EXCEPT ![p] = "none"]
      /\ grp' = [grp EXCEPT ![p] = None] /\ usnap' = [usnap EXCEPT ![p] = EmptyMeta]
      /\ \/ gmeta' = [gmeta EXCEPT ![grp[p]] = Torn] /\ umeta' = umeta
         \/ umeta' = Torn /\ gmeta' = gmeta
      /\ UNCHANGED <<file, gname, added, removed, overlap>>
  BY DEF WriteGroupStages, WriteUserStages
<1>b. UserKnown => Listed(umeta) \subseteq GroupIds
  BY PartsOfMeta DEF UserKnown, TypeOK
<1> HIDE DEF Tear, Cut, Exit
<1>2. GroupsAreNamed'
  BY <1>1, <1>a, EmptyMetaGood DEF GroupsAreNamed, TypeOK, UserKnown
<1>3. LoneTarget'
  BY <1>1, <1>a, EmptyMetaGood DEF LoneTarget, TypeOK, UserReadable, User
<1>4. LoneNames'
  BY <1>1, <1>a, EmptyMetaGood DEF LoneNames, NamesDiffer, UserKnown, TypeOK
<1>5. LoneLabels'
  BY <1>1, <1>a, EmptyMetaGood DEF LoneLabels, LabelTaken, Loadable, GroupReadable,
      LabelsDiffer, TypeOK
<1>6. LoneAdded'
  <2> SUFFICES ASSUME ~overlap' PROVE LoneAdded'
    BY DEF LoneAdded
  <2>1. AddedIsLoadable
    BY <1>1 DEF LoneAdded
  <2>2. CASE umeta' = Torn /\ gmeta' = gmeta
    BY <1>1, <1>a, <2>1, <2>2 DEF AddedIsLoadable, LoneAdded, Loadable, GroupReadable, TypeOK
  <2>3. CASE gmeta' = [gmeta EXCEPT ![grp[p]] = Torn] /\ umeta' = umeta
    <3>1. \A h \in GroupIds : gmeta'[h] # Torn => Loadable(h)' = Loadable(h)
      BY <1>a, <2>3 DEF Loadable, GroupReadable, TypeOK
    <3>2. \A h \in GroupIds : gmeta'[h] # Torn => gmeta[h] # Torn
      BY <2>3 DEF TypeOK
    <3>0. \A e \in added : e \in FaceIds /\ file[e] # Absent /\ file[e].group \in GroupIds
      BY <1>1, <2>1 DEF AddedIsLoadable, TypeOK, FaceFile
    <3>3. AddedIsLoadable'
      BY <3>0, <1>a, <2>1, <2>3, <3>1, <3>2, <1>1 DEF AddedIsLoadable, UserKnown
    <3> QED BY <1>1, <1>a, <3>3 DEF LoneAdded, TypeOK
  <2> QED BY <1>a, <2>2, <2>3
<1>7. LoneSummaries'
  BY <1>1, <1>a, <1>b, IdsAssumption DEF LoneSummaries, Settled, Rewrites,
      GroupReadable, UserKnown, TypeOK
<1>8. LoneCapacity'
  BY <1>1, <1>a, EmptyMetaGood DEF LoneCapacity, BelowLimit, GroupReadable, User, TypeOK
<1> QED BY <1>2, <1>3, <1>4, <1>5, <1>6, <1>7, <1>8

LEMMA InitLone == Init => LoneIInv
<1> SUFFICES ASSUME Init PROVE LoneIInv
  OBVIOUS
<1> USE DEF Init
<1>1. \A p \in Procs : Listed(usnap[p]) = {}
  BY EmptyMetaGood
<1>2. ~UserKnown /\ (\A p \in Procs : pc[p] = "idle") /\ \A g \in GroupIds : ~GroupReadable(g)
  BY DEF UserKnown, GroupReadable
<1>3. GroupsAreNamed /\ LoneTarget /\ LoneNames
  BY <1>1, <1>2 DEF GroupsAreNamed, LoneTarget, LoneNames, NamesDiffer
<1>4. LoneLabels /\ LoneAdded
  BY <1>2 DEF LoneLabels, LoneAdded, AddedIsLoadable
<1>5. LoneSummaries /\ LoneCapacity
  BY <1>2 DEF LoneSummaries, LoneCapacity
<1> QED BY <1>3, <1>4, <1>5 DEF LoneIInv

LEMMA StutterLone ==
  ASSUME LoneIInv, UNCHANGED vars PROVE LoneIInv'
<1> USE DEF vars, LoneIInv
<1>1. UserKnown' = UserKnown /\ UserReadable' = UserReadable /\ User' = User
  BY DEF UserKnown, UserReadable, User
<1>2. \A g : GroupReadable(g)' = GroupReadable(g) /\ Loadable(g)' = Loadable(g) /\ FilesOf(g)' = FilesOf(g)
  BY DEF GroupReadable, Loadable, FilesOf
<1>3. GroupsAreNamed' /\ LoneTarget'
  BY <1>1 DEF GroupsAreNamed, LoneTarget
<1>4. LoneNames'
  BY <1>1 DEF LoneNames, NamesDiffer
<1>5. LoneLabels'
  BY <1>1, <1>2 DEF LoneLabels, LabelsDiffer, LabelTaken
<1>6. LoneAdded'
  BY <1>1, <1>2 DEF LoneAdded, AddedIsLoadable, AddedIn
<1>7. LoneSummaries'
  BY <1>1, <1>2 DEF LoneSummaries, Settled, Rewrites
<1>8. LoneCapacity'
  BY <1>1, <1>2 DEF LoneCapacity, BelowLimit
<1> QED BY <1>3, <1>4, <1>5, <1>6, <1>7, <1>8

LEMMA NextLone == IInv /\ IInv' /\ LoneIInv /\ [Next]_vars => LoneIInv'
<1> SUFFICES ASSUME IInv, IInv', LoneIInv, [Next]_vars PROVE LoneIInv'
  OBVIOUS
<1>1. CASE UNCHANGED vars
  BY <1>1, StutterLone
<1>2. ASSUME NEW p \in Procs, Add(p) PROVE LoneIInv'
  BY <1>2, AddToGroupLone, AddRepairsDefaultLone, AddToNewGroupLone, CreateWriteGroupLone,
     SaveTargetLone, AddChooseLabelLone, SaveCheckLone, SaveReadGroupLone, SaveWriteFaceLone
     DEF Add
<1>3. ASSUME NEW p \in Procs, Remove(p) PROVE LoneIInv'
  BY <1>3, DeleteFacesLone, DeleteReadGroupLone, DeleteFileLone, DeleteFilesDoneLone,
     DropGroupLone, DropFaceLone, DropGroupMetaLone, DropUserMetaLone, DropDirLone,
     DropReadLone, RemoveUserLone, WipeLone DEF Remove
<1>4. ASSUME NEW p \in Procs,
             \/ WriteGroup(p) \/ ReadUser(p) \/ WriteUser(p) \/ Abandon(p) \/ Tear(p)
             \/ \E g \in GroupIds : SetDefaultGroup(p, g)
      PROVE  LoneIInv'
  BY <1>4, WriteGroupLone, ReadUserLone, WriteUserLone, AbandonLone, TearLone,
     SetDefaultGroupLone
<1> QED BY <1>1, <1>2, <1>3, <1>4 DEF Next

LEMMA AlwaysLone == Spec => []LoneIInv
<1> QED BY InitLone, NextLone, AlwaysIInv, PTL DEF Spec

-----------------------------------------------------------------------------
(* The invariants                                                          *)

\* storage.rs: the files of a user and what commands hold in memory keep their
\* types, in any interleaving and after any kill.
THEOREM TypeCorrect == Spec => []TypeOK
<1>1. IInv => TypeOK
  BY DEF IInv
<1> QED BY <1>1, AlwaysIInv, PTL

\* storage.rs:469-530: a face reported removed is never loaded again, however
\* many commands write back metadata that lists it.
THEOREM RemovedForGood == Spec => []RemovedStaysRemoved
<1>1. IInv => RemovedStaysRemoved
  BY DEF IInv, RemovedIsGone, RemovedStaysRemoved, Loadable
<1> QED BY <1>1, AlwaysIInv, PTL

\* storage.rs:206-212, 294-304, 347-352, 504-520: a default is always listed, and
\* commands run one at a time never leave groups without one.
THEOREM DefaultAlwaysListed == Spec => []DefaultIsListed
<1>1. IInv => DefaultIsListed
  BY DEF IInv, DefaultsListed, LoneCommand, DefaultIsListed, DefaultListed, HasDefault
<1> QED BY <1>1, AlwaysIInv, PTL

\* add.rs:424-428: commands run one at a time, a face reported added stays
\* loadable until its removal is asked for, whatever was cut short meanwhile.
THEOREM AddedStaysLoadable == Spec => []AddedIsLoadable
<1>1. LoneIInv => AddedIsLoadable
  BY DEF LoneIInv, LoneAdded, AddedIsLoadable
<1> QED BY <1>1, AlwaysLone, PTL

\* models.rs:128-135, storage.rs:347-352, 491-493: commands run one at a time, the
\* summaries agree with the groups when none runs, but for those of groups whose
\* last command was cut short.
THEOREM SummariesAlwaysSettle == Spec => []SummariesSettle
<1>1. LoneIInv => SummariesSettle
  BY DEF LoneIInv, LoneSummaries, SummariesSettle, Settled, Rewrites, Resting
<1> QED BY <1>1, AlwaysLone, PTL

\* storage.rs:162-166, 330-337: commands run one at a time, a name picks one group
\* and a label one face of a group.
THEOREM SelectorsAlwaysUnambiguous == Spec => []SelectorsUnambiguous
<1>1. LoneIInv => SelectorsUnambiguous
  BY DEF LoneIInv, LoneNames, NamesDiffer, LoneLabels, LabelsDiffer, Loadable,
         SelectorsUnambiguous
<1> QED BY <1>1, AlwaysLone, PTL

\* add.rs:51, config.rs:467: commands run one at a time and none cut short, no group
\* has more faces than the limit.
THEOREM CapacityAlwaysHolds == Spec => []CapacityWhenUndisturbed
<1>1. ASSUME IInv, LoneIInv, ~overlap, ~cut, NEW g \in GroupIds
      PROVE  Cardinality(Loadable(g)) <= MaxFaces
  <2>1. CASE GroupReadable(g)
    <3>1. gmeta[g] \in SUBSET FaceIds /\ Loadable(g) \subseteq gmeta[g]
      BY <1>1, <2>1 DEF IInv, TypeOK, GroupReadable, Loadable
    <3>2. Cardinality(gmeta[g]) <= MaxFaces
      BY <1>1, <2>1 DEF LoneIInv, LoneCapacity
    <3>3. Cardinality(Loadable(g)) <= Cardinality(gmeta[g])
      BY <3>1, IdsAssumption, FS_Subset
    <3>4. Cardinality(Loadable(g)) \in Nat /\ Cardinality(gmeta[g]) \in Nat
      BY <3>1, CountIsNat
    <3> QED BY <3>2, <3>3, <3>4, MaxFacesAssumption
  <2>2. CASE ~GroupReadable(g)
    BY <2>2, FS_EmptySet, MaxFacesAssumption DEF Loadable
  <2> QED BY <2>1, <2>2
<1>2. IInv /\ LoneIInv => CapacityWhenUndisturbed
  BY <1>1 DEF CapacityWhenUndisturbed, CapacityRespected
<1> QED BY <1>2, AlwaysIInv, AlwaysLone, PTL
=============================================================================
