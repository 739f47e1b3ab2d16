------------------------------- MODULE Storage -------------------------------
(***************************************************************************)
(* FaceStorage (facepass-core/src/storage.rs) for one user, as the         *)
(* commands `facepass add`, `remove` and `config --set-default-group` use  *)
(* it.  A user's data is a tree of files: metadata.json with a summary of  *)
(* every group, and per group a directory with a metadata.json that lists  *)
(* face ids and one .face file per face.  Every command is a process of    *)
(* its own that reads a file, changes the value in memory and writes the   *)
(* whole file back; there are no locks and no transactions.  Each file     *)
(* access is one action, so commands interleave between any two of them.   *)
(*                                                                         *)
(* Abstractions.  Ids are UUIDs: fresh values.  The face_ids of a group    *)
(* are a set and the groups of a user a function from listed ids to        *)
(* face_count; where the code takes "the first" group, any may be taken.   *)
(* A group's name is fixed at its creation and is kept beside the files.   *)
(* Ending early because a file is missing or cannot be parsed, or because  *)
(* a check fails, changes nothing more and so is the same as being killed  *)
(* there: Abandon covers both.                                             *)
(***************************************************************************)
EXTENDS Naturals, FiniteSets, Functions

CONSTANTS Procs,         \* command processes that can run at the same time
          GroupIds, FaceIds,   \* UUIDs that can be drawn
          Names, Labels,       \* group names and face labels
          MaxFaces,      \* recognition.max_faces_per_group
          MaxCommands,   \* bound: commands started in one behaviour
          None, Absent, Torn   \* no value; no file; a file cut short while written

ASSUME MaxFacesAssumption == MaxFaces \in Nat
ASSUME MaxCommandsAssumption == MaxCommands \in Nat
ASSUME IdsAssumption == IsFiniteSet(FaceIds) /\ None \notin GroupIds \cup Names

VARIABLES umeta,         \* the user's metadata.json
          gmeta,         \* each group's metadata.json: its face_ids
          file,          \* each .face file: its group and label
          gname,         \* the name each group was created with
          started,       \* commands started so far
          pc, kind,      \* where each process is, and in which command
          grp, face, lab,     \* the group, face and label it works on
          todo,          \* faces it removes
          gsnap, usnap,  \* the metadata it holds in memory
          added,         \* history: faces reported added, their removal not begun
          removed,       \* history: faces reported removed
          stale,         \* history: groups whose last command was cut short
          overlap, cut   \* history: commands ran together; one was cut short

disk    == <<umeta, gmeta, file, gname>>
memory  == <<gsnap, usnap>>
targets == <<grp, face, lab, todo>>
history == <<added, removed, stale, overlap, cut>>
vars == <<umeta, gmeta, file, gname, started, pc, kind, grp, face, lab, todo,
          gsnap, usnap, added, removed, stale, overlap, cut>>

EmptyMeta == [default |-> None, count |-> [g \in {} |-> 0]]
Listed(u) == DOMAIN u.count

UserMetaType(u) ==
    \E L \in SUBSET GroupIds : u \in [default : GroupIds \cup {None}, count : [L -> Nat]]
FaceFile == [group : GroupIds, label : Labels]

\* A missing or torn file is not one that can be read.
ASSUME SentinelsAssumption ==
    \A s \in {Absent, Torn} :
        ~UserMetaType(s) /\ s \notin FaceFile /\ \A F \in SUBSET FaceIds : s # F

WriteGroupStages == {"createGroup", "writeGroup"}
WriteUserStages  == {"saveTarget", "writeUser"}
Stages == {"idle", "label", "check", "readGroup", "writeFace", "readUser",
           "delRead", "delFiles", "dropDir", "dropRead", "wipe"}
          \cup WriteGroupStages \cup WriteUserStages

TypeOK ==
    /\ umeta \in {Absent, Torn} \/ UserMetaType(umeta)
    /\ gmeta \in [GroupIds -> {Absent, Torn} \cup SUBSET FaceIds]
    /\ file \in [FaceIds -> {Absent} \cup FaceFile]
    /\ gname \in [GroupIds -> Names \cup {None}]
    /\ started \in 0..MaxCommands
    /\ pc \in [Procs -> Stages]
    /\ kind \in [Procs -> {"none", "add", "delete", "drop", "wipe", "default"}]
    /\ grp \in [Procs -> GroupIds \cup {None}]
    /\ face \in [Procs -> FaceIds \cup {None}]
    /\ lab \in [Procs -> Labels \cup {None}]
    /\ todo \in [Procs -> SUBSET FaceIds]
    /\ gsnap \in [Procs -> SUBSET FaceIds]
    /\ DOMAIN usnap = Procs /\ \A p \in Procs : UserMetaType(usnap[p])
    /\ added \subseteq FaceIds /\ removed \subseteq FaceIds
    /\ stale \subseteq GroupIds /\ overlap \in BOOLEAN /\ cut \in BOOLEAN

Init ==
    /\ umeta = Absent
    /\ gmeta = [g \in GroupIds |-> Absent]
    /\ file = [f \in FaceIds |-> Absent]
    /\ gname = [g \in GroupIds |-> None]
    /\ started = 0
    /\ pc = [p \in Procs |-> "idle"] /\ kind = [p \in Procs |-> "none"]
    /\ grp = [p \in Procs |-> None] /\ face = [p \in Procs |-> None]
    /\ lab = [p \in Procs |-> None] /\ todo = [p \in Procs |-> {}]
    /\ gsnap = [p \in Procs |-> {}] /\ usnap = [p \in Procs |-> EmptyMeta]
    /\ added = {} /\ removed = {} /\ stale = {}
    /\ overlap = FALSE /\ cut = FALSE

-----------------------------------------------------------------------------
(* Reading the files                                                       *)

\* get_metadata: a default when there is no file, an error when it is torn
UserReadable == umeta # Torn
User == IF umeta = Absent THEN EmptyMeta ELSE umeta

GroupReadable(g) == gmeta[g] \notin {Absent, Torn}

\* load_faces_in_group: the listed faces whose file can be read
Loadable(g) ==
    IF GroupReadable(g) THEN {f \in gmeta[g] : file[f] # Absent} ELSE {}

LabelTaken_Ignored(g, l) == FALSE
LabelTaken(g, l) == \E f \in Loadable(g) : file[f].label = l

NameTaken_Ignored(n) == FALSE
NameTaken(n) == \E g \in Listed(User) : gname[g] = n

BelowLimit_OffByOne(u, g) == u.count[g] <= MaxFaces
BelowLimit(u, g) == u.count[g] < MaxFaces

\* A UUID is drawn once: no file, list or process holds it already.
FreshFaces ==
    {f \in FaceIds : /\ file[f] = Absent /\ f \notin removed
                     /\ \A g \in GroupIds : GroupReadable(g) => f \notin gmeta[g]
                     /\ \A p \in Procs : f \notin todo[p] \cup gsnap[p]}

FilesOf(g) == {f \in FaceIds : file[f] # Absent /\ file[f].group = g}

\* upsert_group with the summary of g
Upsert_NotCounted(u, g, n) == [u EXCEPT !.count = [h \in Listed(u) \cup {g} |->
                                    IF h \in Listed(u) THEN u.count[h] ELSE n]]
Upsert(u, g, n) == [u EXCEPT !.count = [h \in Listed(u) \cup {g} |->
                                    IF h = g THEN n ELSE u.count[h]]]

WithFace_Forgotten(F, f) == F
WithFace(F, f) == F \cup {f}

WithDefault_Skipped(u, g) == u
WithDefault(u, g) == IF u.default = None THEN [u EXCEPT !.default = g] ELSE u

\* remove_group, then the repair of default_group_id in delete_group
WithoutGroup_KeepsDefault(u, g) ==
    {[default |-> u.default, count |-> Restrict(u.count, Listed(u) \ {g})]}
WithoutGroup(u, g) ==
    {[default |-> d, count |-> Restrict(u.count, Listed(u) \ {g})] :
        d \in IF u.default \in {g, None} THEN Listed(u) \ {g} ELSE {u.default}}

-----------------------------------------------------------------------------
(* Processes                                                               *)

Start(p, k, stage) ==
    /\ pc[p] = "idle" /\ started < MaxCommands
    /\ started' = started + 1
    /\ pc' = [pc EXCEPT ![p] = stage]
    /\ kind' = [kind EXCEPT ![p] = k]
    /\ overlap' = (overlap \/ \E q \in Procs \ {p} : pc[q] # "idle")
    /\ UNCHANGED <<removed, stale, cut>>

Goto(p, from, to) ==
    /\ pc[p] = from
    /\ pc' = [pc EXCEPT ![p] = to]
    /\ UNCHANGED <<started, kind, history>>

\* The process is gone, and what it held in memory with it.
Exit(p) ==
    /\ pc' = [pc EXCEPT ![p] = "idle"] /\ kind' = [kind EXCEPT ![p] = "none"]
    /\ grp' = [grp EXCEPT ![p] = None] /\ face' = [face EXCEPT ![p] = None]
    /\ lab' = [lab EXCEPT ![p] = None] /\ todo' = [todo EXCEPT ![p] = {}]
    /\ gsnap' = [gsnap EXCEPT ![p] = {}] /\ usnap' = [usnap EXCEPT ![p] = EmptyMeta]
    /\ UNCHANGED started

-----------------------------------------------------------------------------
(* facepass add: pick or create the group, pick a label, capture, save_face *)

\* A listed group, selected or the default, is below the limit.
AddToGroup(p, g) ==
    /\ UserReadable /\ g \in Listed(User) /\ BelowLimit(User, g)
    /\ Start(p, "add", "label")
    /\ grp' = [grp EXCEPT ![p] = g]
    /\ UNCHANGED <<disk, face, lab, todo, memory, added>>

\* ensure_default_group finds groups but no default: the first becomes it.
AddRepairsDefault(p, g) ==
    /\ UserReadable /\ g \in Listed(User) /\ User.default \notin Listed(User)
    /\ Start(p, "add", "saveTarget")
    /\ grp' = [grp EXCEPT ![p] = g]
    /\ usnap' = [usnap EXCEPT ![p] = [User EXCEPT !.default = g]]
    /\ UNCHANGED <<disk, face, lab, todo, gsnap, added>>

\* create_group under a name no listed group has
AddToNewGroup(p, g, n) ==
    /\ UserReadable /\ gname[g] = None /\ ~NameTaken(n)
    /\ Start(p, "add", "createGroup")
    /\ grp' = [grp EXCEPT ![p] = g]
    /\ gname' = [gname EXCEPT ![g] = n]
    /\ usnap' = [usnap EXCEPT ![p] = WithDefault(Upsert(User, g, 0), g)]
    /\ UNCHANGED <<umeta, gmeta, file, face, lab, todo, gsnap, added>>

CreateWriteGroup(p) ==
    /\ Goto(p, "createGroup", "saveTarget")
    /\ gmeta' = [gmeta EXCEPT ![grp[p]] = {}]
    /\ UNCHANGED <<umeta, file, gname, targets, memory>>

\* A new group or a repaired default is saved; then the limit is compared
\* with the count read before.
SaveTarget(p) ==
    /\ pc[p] = "saveTarget"
    /\ umeta' = usnap[p]
    /\ IF BelowLimit(usnap[p], grp[p])
       THEN Goto(p, "saveTarget", "label") /\ UNCHANGED <<targets, memory>>
       ELSE Exit(p) /\ UNCHANGED history
    /\ UNCHANGED <<gmeta, file, gname>>

Chosen_Lost(p, l) == lab
Chosen(p, l) == [lab EXCEPT ![p] = l]

\* The label is checked, or the next free one chosen, before the capture.
AddChooseLabel(p, l) ==
    /\ Goto(p, "label", "check")
    /\ GroupReadable(grp[p]) /\ ~LabelTaken(grp[p], l)
    /\ lab' = Chosen(p, l)
    /\ UNCHANGED <<disk, grp, face, todo, memory>>

\* save_face, after the capture: the label once more
SaveCheck(p) ==
    /\ Goto(p, "check", "readGroup")
    /\ GroupReadable(grp[p]) /\ ~LabelTaken(grp[p], lab[p])
    /\ UNCHANGED <<disk, targets, memory>>

SaveReadGroup(p) ==
    /\ Goto(p, "readGroup", "writeFace")
    /\ GroupReadable(grp[p])
    /\ gsnap' = [gsnap EXCEPT ![p] = gmeta[grp[p]]]
    /\ UNCHANGED <<disk, targets, usnap>>

\* The file goes into the group's directory, which must still be there.
SaveWriteFace(p, f) ==
    /\ Goto(p, "writeFace", "writeGroup")
    /\ gmeta[grp[p]] # Absent
    /\ f \in FreshFaces
    /\ file' = [file EXCEPT ![f] = [group |-> grp[p], label |-> lab[p]]]
    /\ face' = [face EXCEPT ![p] = f]
    /\ gsnap' = [gsnap EXCEPT ![p] = WithFace(@, f)]
    /\ UNCHANGED <<umeta, gmeta, gname, grp, lab, todo, usnap>>

-----------------------------------------------------------------------------
(* The tail shared by save_face and delete_faces                           *)

\* save_group_metadata recreates the directory if it is gone.
WriteGroup(p) ==
    /\ Goto(p, "writeGroup", "readUser")
    /\ gmeta' = [gmeta EXCEPT ![grp[p]] = gsnap[p]]
    /\ UNCHANGED <<umeta, file, gname, targets, memory>>

\* upsert_group; only save_face fills in a missing default.
ReadUser(p) ==
    /\ UserReadable
    /\ Goto(p, "readUser", "writeUser")
    /\ LET u == Upsert(User, grp[p], Cardinality(gsnap[p]))
       IN  usnap' = [usnap EXCEPT
                        ![p] = IF kind[p] = "add" THEN WithDefault(u, grp[p]) ELSE u]
    /\ UNCHANGED <<disk, targets, gsnap>>

\* save_metadata, the last write of every command but `remove --user`
WriteUser(p) ==
    /\ pc[p] = "writeUser"
    /\ umeta' = usnap[p]
    /\ added' = IF kind[p] = "add" THEN added \cup {face[p]} ELSE added
    /\ removed' = removed \cup todo[p]
    /\ stale' = stale \ (IF kind[p] = "default" THEN {} ELSE {grp[p]})
    /\ Exit(p)
    /\ UNCHANGED <<gmeta, file, gname, overlap, cut>>

-----------------------------------------------------------------------------
(* facepass remove --face: delete_faces                                    *)

DeleteFaces(p, g, F) ==
    /\ UserReadable /\ g \in Listed(User)
    /\ F # {} /\ F \subseteq Loadable(g)
    /\ Start(p, "delete", "delRead")
    /\ grp' = [grp EXCEPT ![p] = g]
    /\ todo' = [todo EXCEPT ![p] = F]
    /\ added' = added \ F
    /\ UNCHANGED <<disk, face, lab, memory>>

DeleteReadGroup(p) ==
    /\ Goto(p, "delRead", "delFiles")
    /\ GroupReadable(grp[p])
    /\ gsnap' = [gsnap EXCEPT ![p] = gmeta[grp[p]] \ todo[p]]
    /\ UNCHANGED <<disk, targets, usnap>>

FileRemoved_Kept(f) == file
FileRemoved(f) == [file EXCEPT ![f] = Absent]

DeleteFile(p, f) ==
    /\ pc[p] = "delFiles" /\ f \in todo[p] /\ file[f] # Absent
    /\ file' = FileRemoved(f)
    /\ UNCHANGED <<umeta, gmeta, gname, started, pc, kind, targets, memory, history>>

DeleteFilesDone(p) ==
    /\ Goto(p, "delFiles", "writeGroup")
    /\ \A f \in todo[p] : file = FileRemoved(f)
    /\ UNCHANGED <<disk, targets, memory>>

-----------------------------------------------------------------------------
(* facepass remove --group: delete_group                                   *)

DropGroup(p, g) ==
    /\ UserReadable /\ g \in Listed(User)
    /\ Start(p, "drop", "dropDir")
    /\ grp' = [grp EXCEPT ![p] = g]
    /\ added' = added \ FilesOf(g)
    /\ UNCHANGED <<disk, face, lab, todo, memory>>

\* remove_dir_all takes the entries one by one, in any order.  A directory
\* without its metadata.json reads as one whose metadata.json is torn.
Emptying(p, g) == \/ pc[p] = "dropDir" /\ g = grp[p]
                  \/ pc[p] = "wipe"

DropFace(p, f) ==
    /\ file[f] # Absent /\ Emptying(p, file[f].group)
    /\ file' = FileRemoved(f)
    /\ todo' = [todo EXCEPT ![p] = @ \cup {f}]
    /\ UNCHANGED <<umeta, gmeta, gname, started, pc, kind, grp, face, lab, memory, history>>

DropGroupMeta(p, g) ==
    /\ Emptying(p, g) /\ gmeta[g] \notin {Absent, Torn}
    /\ gmeta' = [gmeta EXCEPT ![g] = Torn]
    /\ UNCHANGED <<umeta, file, gname, started, pc, kind, targets, memory, history>>

DropUserMeta(p) ==
    /\ pc[p] = "wipe" /\ umeta # Absent
    /\ umeta' = Absent
    /\ UNCHANGED <<gmeta, file, gname, started, pc, kind, targets, memory, history>>

DropDir(p) ==
    /\ Goto(p, "dropDir", "dropRead")
    /\ FilesOf(grp[p]) = {}
    /\ gmeta' = [gmeta EXCEPT ![grp[p]] = Absent]
    /\ UNCHANGED <<umeta, file, gname, targets, memory>>

\* The last group takes the user's directory with it.
DropRead(p) ==
    /\ pc[p] = "dropRead" /\ UserReadable /\ grp[p] \in Listed(User)
    /\ IF Listed(User) = {grp[p]}
       THEN Goto(p, "dropRead", "wipe") /\ UNCHANGED usnap
       ELSE /\ Goto(p, "dropRead", "writeUser")
            /\ \E u \in WithoutGroup(User, grp[p]) : usnap' = [usnap EXCEPT ![p] = u]
    /\ UNCHANGED <<disk, targets, gsnap>>

-----------------------------------------------------------------------------
(* facepass remove --user: delete_user                                     *)

\* A group's files may be there without the user's metadata.json, after an add
\* cut short.  An empty directory counts as none: there is nothing to remove.
UserDirExists ==
    \/ umeta # Absent
    \/ \E g \in GroupIds : gmeta[g] # Absent
    \/ \E f \in FaceIds : file[f] # Absent

RemoveUser(p) ==
    /\ UserDirExists
    /\ Start(p, "wipe", "wipe")
    /\ added' = {}
    /\ UNCHANGED <<disk, targets, memory>>

Wipe(p) ==
    /\ pc[p] = "wipe" /\ \A f \in FaceIds : file[f] = Absent
    /\ umeta' = Absent
    /\ gmeta' = [g \in GroupIds |-> Absent]
    /\ removed' = removed \cup todo[p]
    /\ stale' = {}
    /\ Exit(p)
    /\ UNCHANGED <<file, gname, added, overlap, cut>>

-----------------------------------------------------------------------------
(* facepass config --set-default-group: set_default_group                  *)

SetDefaultGroup(p, g) ==
    /\ UserReadable /\ g \in Listed(User)
    /\ Start(p, "default", "writeUser")
    /\ usnap' = [usnap EXCEPT ![p] = [User EXCEPT !.default = g]]
    /\ UNCHANGED <<disk, targets, gsnap, added>>

-----------------------------------------------------------------------------
(* Ending early                                                            *)

Cut(p) ==
    /\ stale' = stale \cup (IF pc[p] = "wipe" THEN GroupIds ELSE {grp[p]} \ {None})
    /\ cut' = TRUE
    /\ Exit(p)
    /\ UNCHANGED <<added, removed, overlap>>

\* Killed, or returning an error, between two file accesses
Abandon(p) ==
    /\ pc[p] # "idle"
    /\ Cut(p)
    /\ UNCHANGED disk

\* fs::write truncates the file before it writes: killed in between, the
\* process leaves a file that no longer parses.
Tear(p) ==
    /\ \/ /\ pc[p] \in WriteGroupStages
          /\ gmeta' = [gmeta EXCEPT ![grp[p]] = Torn]
          /\ UNCHANGED umeta
       \/ /\ pc[p] \in WriteUserStages
          /\ umeta' = Torn
          /\ UNCHANGED gmeta
    /\ Cut(p)
    /\ UNCHANGED <<file, gname>>

-----------------------------------------------------------------------------
Add(p) ==
    \/ \E g \in GroupIds : \/ AddToGroup(p, g) \/ AddRepairsDefault(p, g)
                           \/ \E n \in Names : AddToNewGroup(p, g, n)
    \/ CreateWriteGroup(p) \/ SaveTarget(p)
    \/ \E l \in Labels : AddChooseLabel(p, l)
    \/ SaveCheck(p) \/ SaveReadGroup(p)
    \/ \E f \in FaceIds : SaveWriteFace(p, f)

Remove(p) ==
    \/ \E g \in GroupIds : DropGroup(p, g) \/ \E F \in SUBSET FaceIds : DeleteFaces(p, g, F)
    \/ DeleteReadGroup(p) \/ DeleteFilesDone(p)
    \/ \E f \in FaceIds : DeleteFile(p, f) \/ DropFace(p, f)
    \/ \E g \in GroupIds : DropGroupMeta(p, g)
    \/ DropUserMeta(p) \/ DropDir(p) \/ DropRead(p) \/ RemoveUser(p) \/ Wipe(p)

Next == \E p \in Procs :
    \/ Add(p) \/ Remove(p)
    \/ WriteGroup(p) \/ ReadUser(p) \/ WriteUser(p)
    \/ \E g \in GroupIds : SetDefaultGroup(p, g)
    \/ Abandon(p) \/ Tear(p)

Spec == Init /\ [][Next]_vars

-----------------------------------------------------------------------------
(* Properties                                                              *)

Resting == \A p \in Procs : pc[p] = "idle"
UserKnown == umeta \notin {Absent, Torn}

\* storage.rs:469-530: once a removal has been reported, the face is never
\* loaded again, even when a concurrent command writes back metadata that
\* still lists it.
RemovedStaysRemoved == \A g \in GroupIds : Loadable(g) \cap removed = {}

\* storage.rs:206-212, 294-304, 347-352, 504-520: whatever overlaps with
\* whatever, the default the user's metadata names is a group it lists; and
\* commands run one at a time never leave groups without a default.
DefaultIsListed ==
    UserKnown =>
        /\ umeta.default # None => umeta.default \in Listed(umeta)
        /\ ~overlap /\ Listed(umeta) # {} => umeta.default # None

\* add.rs:424-428: commands run one at a time, a face reported added stays
\* loadable until its removal is asked for, whatever commands were cut short
\* meanwhile; only metadata torn by a kill can hide it.
AddedIsLoadable ==
    ~overlap => \A f \in added :
        LET g == file[f].group
        IN  /\ file[f] # Absent
            /\ gmeta[g] # Torn => f \in Loadable(g)
            /\ umeta # Torn => UserKnown /\ g \in Listed(umeta)

\* models.rs:128-135, storage.rs:347-352, 491-493: commands run one at a time,
\* the face counts in the user's metadata agree with the groups, except those
\* of groups whose last command was cut short.
SummariesSettle ==
    ~overlap /\ Resting /\ UserKnown =>
        \A g \in Listed(umeta) \ stale :
            GroupReadable(g) /\ umeta.count[g] = Cardinality(gmeta[g])

\* storage.rs:162-166, 330-337: names and labels identify what a selector
\* picks, as long as commands run one at a time.
SelectorsUnambiguous ==
    ~overlap =>
        /\ UserKnown => \A g, h \in Listed(umeta) : gname[g] = gname[h] => g = h
        /\ \A g \in GroupIds : \A e, f \in Loadable(g) :
              file[e].label = file[f].label => e = f

\* config.rs:467: "Maximum faces per group".  Nothing holds a place for a face
\* that is being captured, and the count consulted is the summary's.
CapacityRespected == \A g \in GroupIds : Cardinality(Loadable(g)) <= MaxFaces

\* add.rs:51: the limit holds for commands run one at a time, none cut short.
CapacityWhenUndisturbed == ~overlap /\ ~cut => CapacityRespected

-----------------------------------------------------------------------------
(* Why the first two hold whatever overlaps: an inductive invariant        *)

\* A command that works on a group knows it; a face that is saved has a label
\* and, once its file is written, an id.
TargetsKnown ==
    \A p \in Procs :
        /\ pc[p] \notin {"idle", "wipe", "writeUser"} => grp[p] \in GroupIds
        /\ pc[p] \in {"check", "readGroup", "writeFace"} => lab[p] \in Labels
        /\ pc[p] \in {"writeGroup", "readUser", "writeUser"} /\ kind[p] = "add" =>
               face[p] \in FaceIds

\* Where a process is tells its command, but for the tail two commands share.
KindsKnown ==
    \A p \in Procs :
        /\ pc[p] \in {"createGroup", "saveTarget", "label", "check", "readGroup", "writeFace"}
           => kind[p] = "add"
        /\ pc[p] \in {"delRead", "delFiles"} => kind[p] = "delete"
        /\ pc[p] \in {"dropDir", "dropRead"} => kind[p] = "drop"
        /\ pc[p] \in {"writeGroup", "readUser"} => kind[p] \in {"add", "delete"}

\* A removed face has no file, nor has one that a command is about to report.
RemovedIsGone ==
    /\ \A f \in removed : file[f] = Absent
    /\ \A p \in Procs :
          /\ pc[p] = "idle" => todo[p] = {}
          /\ pc[p] \notin {"delRead", "delFiles"} => \A f \in todo[p] : file[f] = Absent

DefaultListed(u) == u.default # None => u.default \in Listed(u)
HasDefault(u)    == Listed(u) # {} => u.default # None

\* On disk and in memory, a default is listed.
DefaultsListed ==
    /\ UserKnown => DefaultListed(umeta)
    /\ \A p \in Procs : DefaultListed(usnap[p])

\* Without overlap one command runs, and what it works on stays as it was.
LoneCommand ==
    ~overlap =>
        /\ \A p, q \in Procs : pc[p] # "idle" /\ pc[q] # "idle" => p = q
        /\ UserKnown => HasDefault(umeta)
        /\ \A p \in Procs :
              /\ HasDefault(usnap[p])
              /\ /\ kind[p] = "delete"
                 /\ pc[p] \in {"delRead", "delFiles", "writeGroup", "readUser"}
                 => UserReadable /\ grp[p] \in Listed(User)

IInv ==
    /\ TypeOK /\ TargetsKnown /\ KindsKnown /\ RemovedIsGone
    /\ DefaultsListed /\ LoneCommand

-----------------------------------------------------------------------------
(* Why the others hold for commands run one at a time: what the one command *)
(* in progress has read agrees with the files, but for what it has changed  *)

\* Whatever overlaps, a group has a name before anything refers to it.
GroupsAreNamed ==
    /\ UserKnown => \A g \in Listed(umeta) : gname[g] # None
    /\ \A p \in Procs : /\ \A g \in Listed(usnap[p]) : gname[g] # None
                        /\ grp[p] # None => gname[grp[p]] # None
                        /\ pc[p] = "idle" \/ kind[p] = "default" => grp[p] = None
    /\ \A f \in FaceIds : file[f] # Absent => gname[file[f].group] # None

\* The group a command works on is listed, or will be with its next write.
LoneTarget ==
    ~overlap => \A p \in Procs :
        /\ \/ pc[p] \in {"createGroup", "saveTarget"}
           \/ pc[p] = "writeUser" /\ kind[p] = "add"
           => grp[p] \in Listed(usnap[p])
        /\ pc[p] = "createGroup" /\ UserKnown => grp[p] \notin Listed(umeta)
        /\ pc[p] \in {"label", "check", "readGroup", "writeFace", "delRead", "delFiles",
                      "writeGroup", "readUser"}
           => UserReadable /\ grp[p] \in Listed(User)

NamesDiffer(u) == \A g, h \in Listed(u) : gname[g] = gname[h] => g = h
LoneNames ==
    ~overlap => /\ UserKnown => NamesDiffer(umeta)
                /\ \A p \in Procs : NamesDiffer(usnap[p])

\* Until the face is written its label stays free, and then it is the only one
\* to have it in the list about to be written.
LabelsDiffer(F) ==
    \A e, f \in F : file[e] # Absent /\ file[f] # Absent /\ file[e].label = file[f].label
                    => e = f
LoneLabels ==
    ~overlap =>
        /\ \A g \in GroupIds : GroupReadable(g) => LabelsDiffer(gmeta[g])
        /\ \A p \in Procs :
              /\ pc[p] \in {"readGroup", "writeFace"} => ~LabelTaken(grp[p], lab[p])
              /\ pc[p] = "writeFace" =>
                     GroupReadable(grp[p]) /\ gsnap[p] = gmeta[grp[p]]
              /\ pc[p] \in {"delFiles", "writeGroup"} => LabelsDiffer(gsnap[p])

\* Nothing a command writes or removes is a face reported added and not yet
\* asked to be removed.
AddedIn(g) == added \cap FilesOf(g)
LoneAdded ==
    ~overlap =>
        /\ AddedIsLoadable
        /\ \A p \in Procs :
              /\ pc[p] = "createGroup" => FilesOf(grp[p]) = {}
              /\ pc[p] \in {"createGroup", "saveTarget", "writeUser"} =>
                     \A f \in added : file[f].group \in Listed(usnap[p])
              /\ pc[p] \in {"delRead", "delFiles"} => added \cap todo[p] = {}
              /\ pc[p] \in {"writeFace", "delFiles", "writeGroup"} =>
                     AddedIn(grp[p]) \subseteq gsnap[p]
              /\ pc[p] \in {"dropDir", "dropRead"} => AddedIn(grp[p]) = {}
              /\ pc[p] = "wipe" => added = {}
              /\ pc[p] \in {"writeGroup", "readUser", "writeUser"} /\ kind[p] = "add" =>
                     face[p] \in gsnap[p] \cap FilesOf(grp[p])

\* A summary agrees with its group unless a command has rewritten one and is yet
\* to write the other, or was cut short there.
Settled(u, g) == GroupReadable(g) /\ u.count[g] = Cardinality(gmeta[g])
Rewrites(p, g) ==
    \/ pc[p] = "wipe"
    \/ grp[p] = g /\ pc[p] \in {"readUser", "writeUser", "dropDir", "dropRead"}
LoneSummaries ==
    ~overlap =>
        /\ UserKnown => \A g \in Listed(umeta) \ stale :
               Settled(umeta, g) \/ \E p \in Procs : Rewrites(p, g)
        /\ \A p \in Procs :
              /\ pc[p] \in {"createGroup", "saveTarget", "writeUser"} =>
                     \A g \in Listed(usnap[p]) \ (stale \cup {grp[p]}) : Settled(usnap[p], g)
              /\ pc[p] = "createGroup" => usnap[p].count[grp[p]] = 0
              /\ pc[p] = "saveTarget" =>
                     grp[p] \in stale \/ Settled(usnap[p], grp[p])
              /\ pc[p] \in {"readUser", "writeUser"} /\ kind[p] \in {"add", "delete"} =>
                     gmeta[grp[p]] = gsnap[p]
              /\ pc[p] = "writeUser" /\ grp[p] \in Listed(usnap[p]) =>
                     Settled(usnap[p], grp[p])

\* With nothing cut short, no group has more faces than fit, and there is room
\* for the one being added.
LoneCapacity ==
    ~overlap /\ ~cut =>
        /\ stale = {}
        /\ \A g \in GroupIds : GroupReadable(g) => Cardinality(gmeta[g]) <= MaxFaces
        /\ \A p \in Procs :
              /\ pc[p] \in {"label", "check", "readGroup", "writeFace"} =>
                     BelowLimit(User, grp[p])
              /\ pc[p] \in {"delFiles", "writeGroup"} => Cardinality(gsnap[p]) <= MaxFaces

LoneIInv ==
    /\ GroupsAreNamed /\ LoneTarget /\ LoneNames /\ LoneLabels /\ LoneAdded
    /\ LoneSummaries /\ LoneCapacity
=============================================================================
