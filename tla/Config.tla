-------------------------------- MODULE Config --------------------------------
(***************************************************************************)
(* Configuration files, who reads which, and who rewrites them             *)
(* (facepass-core/src/config.rs, facepass-cli/src/commands/config.rs and   *)
(* load_initial_state / reload of facepass-daemon/src/runtime.rs).         *)
(*                                                                         *)
(* A document is a base configuration, presets that override parts of it   *)
(* and the name of the active one.  Of the settings the model keeps those  *)
(* Config::validate relates to one another, one threshold for the ones it  *)
(* compares with a range, and one model path for the two it looks up.  The *)
(* CLI and the daemon look for the document in different places.           *)
(***************************************************************************)
EXTENDS Integers, Sequences

CONSTANTS Locations,     \* paths a document may be at
          CliSearch, DaemonSearch,  \* where each looks, best first
          Processes,     \* `facepass config` commands
          Names,         \* preset names a command may be given
          PresetOrder,   \* preset names, as a save orders them
          Documents,     \* what an editor may leave in a file
          Installed,     \* the model paths that exist on this machine
          Absent,        \* no file
          Broken,        \* a file that is not a ConfigFile
          NotATable,     \* a preset that is not a TOML table
          MaxEdits, MaxCommands   \* bounds

ASSUME SearchAssumption ==
    /\ CliSearch \in Seq(Locations) /\ DaemonSearch \in Seq(Locations)
    /\ Len(CliSearch) > 0
ASSUME PresetOrderAssumption ==
    /\ PresetOrder \in Seq(STRING)
    /\ \A d \in Documents : \A n \in DOMAIN d.presets :
          \E i \in DOMAIN PresetOrder : PresetOrder[i] = n
ASSUME BoundsAssumption == MaxEdits \in Nat /\ MaxCommands \in Nat

Fields == {"timeout", "max_frames", "valid_frames", "streak", "threshold", "model"}
Settings == [Fields -> Nat]

\* Values of two tables' keys; thresholds are in tenths, models are numbered.
Default == [timeout |-> 5, max_frames |-> 30, valid_frames |-> 5, streak |-> 1,
            threshold |-> 4, model |-> 0]
DevPreset == [timeout |-> 5, max_frames |-> 50, valid_frames |-> 30, streak |-> 10,
              threshold |-> 7, model |-> 1]
NoPresets == [n \in {} |-> 0]

\* ConfigFile::default, and what an empty file deserializes to
DefaultFile == [active |-> "default", base |-> Default, presets |-> [dev |-> DevPreset]]
EmptyFile == [active |-> "default", base |-> Default, presets |-> NoPresets]

\* What may be left of a preset, and of all presets, once some keys are gone
PartsOf(preset) ==
    IF preset = NotATable THEN {preset}
    ELSE {[key \in K |-> preset[key]] : K \in SUBSET DOMAIN preset}
CutDown(presets) ==
    UNION {{q \in [N -> UNION {PartsOf(presets[n]) : n \in N}] :
               \A n \in N : q[n] \in PartsOf(presets[n])} : N \in SUBSET DOMAIN presets}

\* The documents there can be: as shipped or edited, switched to another preset,
\* or what is left of one
Authorable == Documents \cup {DefaultFile}
ConfigFile == [active : Names \cup {d.active : d \in Authorable}, base : Settings,
               presets : UNION {CutDown(d.presets) : d \in Authorable}]

ASSUME DocumentsAssumption ==
    \A d \in Documents :
        /\ d = [active |-> d.active, base |-> d.base, presets |-> d.presets]
        /\ d.base \in Settings
        /\ d.presets = [n \in DOMAIN d.presets |-> d.presets[n]]
        /\ \A n \in DOMAIN d.presets :
              LET preset == d.presets[n]
              IN  preset = NotATable \/ preset = [key \in DOMAIN preset |-> preset[key]]
ASSUME SentinelsAssumption == Absent \notin Locations /\ {Absent, Broken} \cap ConfigFile = {}

VARIABLES disk,          \* what is at each location
          daemon,        \* the running configuration; see Running
          hup,           \* a SIGHUP has been sent and not yet handled
          cli,           \* each command: its stage and what it holds
          edits, commands,   \* counters for the bounds
          authored,      \* history: the document last written whole by someone
          cut,           \* history: locations with what is left of a save cut short
          crossed,       \* history: locations rewritten by overlapping commands
          origin,        \* history: the document authored where the daemon loaded
          dirty,         \* history: the daemon loaded what a save left half done
          requested      \* history: the last switch that asked for a reload

history == <<authored, cut, crossed, origin, dirty, requested>>
vars == <<disk, daemon, hup, cli, edits, commands, authored, cut, crossed, origin, dirty, requested>>

Down == [up |-> FALSE]
NoSource == Absent
NoRequest == [preset |-> "none"]
IdleCli == [pc |-> "idle"]

Init ==
    /\ disk \in [Locations -> Documents \cup {Absent}]
    /\ daemon = Down /\ hup = FALSE
    /\ cli = [p \in Processes |-> IdleCli]
    /\ edits = 0 /\ commands = 0
    /\ authored = disk /\ cut = {} /\ crossed = {} /\ dirty = FALSE /\ origin = DefaultFile
    /\ requested = NoRequest

-----------------------------------------------------------------------------
(* Resolution                                                               *)

\* Overriding values win, key by key; keys nobody knows are carried along.
Merge_BaseWins(base, overlay) ==
    [f \in DOMAIN base \cup DOMAIN overlay |->
        IF f \in DOMAIN base THEN base[f] ELSE overlay[f]]
Merge(base, overlay) ==
    [f \in DOMAIN base \cup DOMAIN overlay |->
        IF f \in DOMAIN overlay THEN overlay[f] ELSE base[f]]

\* The merged table must be a Config again: unsigned fields, no negative value.
Deserializes_Lenient(s) == TRUE
Deserializes(s) == \A f \in Fields : s[f] \in Nat

\* Config::validate; a limit of 0 is none.
Valid(s) ==
    /\ s.model \in Installed
    /\ s.threshold \in 0..10
    /\ s.max_frames # 0 /\ s.valid_frames # 0 => s.max_frames >= s.valid_frames
    /\ s.valid_frames # 0 => s.streak <= s.valid_frames
    /\ s.max_frames # 0 \/ s.valid_frames # 0 \/ s.timeout # 0

\* "default" need not be among the presets; if it is, it overrides too.
Overlay(doc, name) == IF name \in DOMAIN doc.presets THEN doc.presets[name] ELSE NoPresets
Known(doc, name) ==
    /\ name # ""
    /\ name = "default" \/ name \in DOMAIN doc.presets
    /\ Overlay(doc, name) # NotATable

Merged(doc, name) == Merge(doc.base, Overlay(doc, name))
Resolves(doc, name) ==
    /\ Known(doc, name)
    /\ Deserializes(Merged(doc, name)) /\ Valid(Merged(doc, name))
Resolved(doc, name) == [f \in Fields |-> Merged(doc, name)[f]]

\* The first place with a file, whatever is in it
Found(search) ==
    LET there == {i \in DOMAIN search : disk[search[i]] # Absent}
    IN  IF there = {} THEN NoSource
        ELSE search[CHOOSE i \in there : \A j \in there : i <= j]

Readable(loc) == disk[loc] # Absent /\ disk[loc] # Broken

-----------------------------------------------------------------------------
(* Other decisive expressions, each after a faulty variant                  *)

\* ConfigFile::save writes the whole document, Config::save only one preset.
Saved_Flattened(doc) == [doc EXCEPT !.presets = NoPresets]
Saved(doc) == doc

\* A reload reads the file the running configuration came from.
ReloadFrom_First == IF DaemonSearch = <<>> THEN NoSource ELSE DaemonSearch[1]
ReloadFrom == IF daemon.source # NoSource THEN daemon.source ELSE Found(DaemonSearch)

\* The running preset is the one just resolved.
RunningPreset_Kept(doc) == daemon.preset
RunningPreset(doc) == doc.active

-----------------------------------------------------------------------------
(* The daemon                                                               *)

Running(settings, preset, source) ==
    [up |-> TRUE, settings |-> settings, preset |-> preset, source |-> source]

HalfSaved(loc) == loc \in cut \/ \E p \in Processes : cli[p].pc = "write" /\ cli[p].target = loc

\* No file anywhere: the built-in configuration, validated.
LoadBuiltIn ==
    /\ Valid(Default)
    /\ daemon' = Running(Default, "default", NoSource)
    /\ dirty' = FALSE /\ origin' = DefaultFile

LoadFrom(loc, preset) ==
    /\ Readable(loc) /\ Resolves(disk[loc], disk[loc].active)
    /\ daemon' = Running(Resolved(disk[loc], disk[loc].active), preset, loc)
    /\ dirty' = (HalfSaved(loc) \/ loc \in crossed) /\ origin' = authored[loc]

Start ==
    /\ ~daemon.up
    /\ LET loc == Found(DaemonSearch)
       IN  \/ loc = NoSource /\ LoadBuiltIn
           \/ loc # NoSource /\ LoadFrom(loc, disk[loc].active)
    /\ requested' = NoRequest
    /\ UNCHANGED <<disk, hup, cli, edits, commands, authored, cut, crossed>>

\* A failed reload changes nothing.
Reload ==
    /\ daemon.up /\ hup /\ hup' = FALSE
    /\ \/ ReloadFrom = NoSource /\ LoadBuiltIn
       \/ ReloadFrom # NoSource /\ LoadFrom(ReloadFrom, RunningPreset(disk[ReloadFrom]))
       \/ /\ ReloadFrom # NoSource
          /\ ~(Readable(ReloadFrom) /\ Resolves(disk[ReloadFrom], disk[ReloadFrom].active))
          /\ UNCHANGED <<daemon, origin, dirty>>
    /\ UNCHANGED <<disk, cli, edits, commands, authored, cut, crossed, requested>>

Stop ==
    /\ daemon.up
    /\ daemon' = Down /\ hup' = FALSE /\ requested' = NoRequest
    /\ dirty' = FALSE /\ origin' = DefaultFile
    /\ UNCHANGED <<disk, cli, edits, commands, authored, cut, crossed>>

-----------------------------------------------------------------------------
(* `config --use-preset`, `config --set`                                    *)

Target == LET loc == Found(CliSearch) IN IF loc # NoSource THEN loc ELSE CliSearch[1]
Document == LET loc == Found(CliSearch) IN IF loc # NoSource THEN disk[loc] ELSE DefaultFile

Others(p) == {q \in Processes \ {p} : cli[q].pc # "idle" /\ cli[q].target = Target}

Hold(p, doc, asks) ==
    /\ commands < MaxCommands /\ commands' = commands + 1
    /\ cli[p].pc = "idle"
    /\ cli' = [cli EXCEPT ![p] = [pc |-> "open", doc |-> doc, target |-> Target, asks |-> asks]]
    /\ crossed' = IF Others(p) # {} THEN crossed \cup {Target} ELSE crossed
    /\ requested' = NoRequest
    /\ UNCHANGED <<disk, daemon, hup, edits, authored, cut, origin, dirty>>

\* The document is read and the preset looked up in it, not resolved.
UsePreset(p, name) ==
    /\ Document # Broken /\ Known(Document, name)
    /\ Hold(p, [Document EXCEPT !.active = name], TRUE)

\* --set writes nothing but a missing file, then opens an editor: see Edit.
SetValue(p) ==
    /\ disk[Target] = Absent
    /\ Hold(p, Document, FALSE)

\* fs::write truncates the file: until the write it is empty.
Truncate(p) ==
    /\ cli[p].pc = "open"
    /\ disk' = [disk EXCEPT ![cli[p].target] = EmptyFile]
    /\ cli' = [cli EXCEPT ![p].pc = "write"]
    /\ UNCHANGED <<daemon, hup, edits, commands, history>>

\* The document is on disk; as root the daemon is told to reload.
Write(p) ==
    /\ cli[p].pc = "write"
    /\ LET loc == cli[p].target  doc == Saved(cli[p].doc)
       IN  /\ disk' = [disk EXCEPT ![loc] = doc]
           /\ authored' = [authored EXCEPT ![loc] =
                              IF @ \in {Absent, Broken} THEN cli[p].doc
                              ELSE [@ EXCEPT !.active = doc.active]]
           /\ \/ /\ cli[p].asks /\ daemon.up /\ hup' = TRUE
                 /\ requested' = [preset |-> doc.active, target |-> loc]
              \/ UNCHANGED hup /\ requested' = NoRequest
    /\ cli' = [cli EXCEPT ![p] = IdleCli]
    /\ UNCHANGED <<daemon, edits, commands, cut, crossed, dirty, origin>>

\* What is left of a document cut in the middle, if it parses: some keys of the
\* base, serde's defaults standing in for the others, or all of it and the first
\* presets, the last of them perhaps in part.  Which keys of a table are written
\* first is left open; a value is there or not, no number loses only its last digit.
Prefixes(doc) ==
    {[active |-> doc.active, presets |-> NoPresets,
      base |-> [f \in Fields |-> IF f \in F THEN doc.base[f] ELSE Default[f]]]
        : F \in SUBSET Fields}
    \cup UNION {LET last == PresetOrder[k]
                    whole == {PresetOrder[i] : i \in 1..k-1} \cap DOMAIN doc.presets
                IN  {[doc EXCEPT !.presets =
                        [n \in whole \cup {last} |-> IF n = last THEN part ELSE doc.presets[n]]]
                        : part \in PartsOf(doc.presets[last])}
                : k \in {i \in DOMAIN PresetOrder : PresetOrder[i] \in DOMAIN doc.presets}}

\* Killed, or a full disk: the document is empty, or cut in the middle.
Abandon(p) ==
    /\ cli[p].pc \in {"open", "write"}
    /\ cli' = [cli EXCEPT ![p] = IdleCli]
    /\ \/ cli[p].pc = "open" /\ UNCHANGED <<disk, cut>>
       \/ /\ cli[p].pc = "write" /\ cut' = cut \cup {cli[p].target}
          /\ \/ UNCHANGED disk
             \/ \E rest \in {Broken} \cup Prefixes(Saved(cli[p].doc)) :
                    disk' = [disk EXCEPT ![cli[p].target] = rest]
    /\ UNCHANGED <<daemon, hup, edits, commands, authored, crossed, origin, dirty, requested>>

\* The administrator's editor replaces a document, or removes it.
Edit(loc, doc) ==
    /\ edits < MaxEdits /\ edits' = edits + 1
    /\ disk' = [disk EXCEPT ![loc] = doc]
    /\ authored' = [authored EXCEPT ![loc] = doc]
    /\ cut' = cut \ {loc}
    /\ crossed' = IF \E p \in Processes : cli[p].pc # "idle" /\ cli[p].target = loc
                  THEN crossed \cup {loc} ELSE crossed \ {loc}
    /\ requested' = NoRequest
    /\ UNCHANGED <<daemon, hup, cli, commands, origin, dirty>>

-----------------------------------------------------------------------------
Next ==
    \/ Start \/ Reload \/ Stop
    \/ \E p \in Processes :
          \/ \E name \in Names : UsePreset(p, name)
          \/ SetValue(p) \/ Truncate(p) \/ Write(p) \/ Abandon(p)
    \/ \E loc \in Locations, doc \in Documents \cup {Absent, Broken} : Edit(loc, doc)

Spec == Init /\ [][Next]_vars

-----------------------------------------------------------------------------
(* Properties                                                               *)

TypeOK ==
    /\ \A loc \in Locations :
          disk[loc] \in {Absent, Broken} \/ disk[loc].base \in Settings
    /\ daemon.up => /\ daemon.settings \in Settings
                    /\ daemon.source \in Locations \cup {NoSource}
    /\ hup \in BOOLEAN /\ dirty \in BOOLEAN
    /\ cut \subseteq Locations /\ crossed \subseteq Locations
    /\ edits \in 0..MaxEdits /\ commands \in 0..MaxCommands

\* commands/config.rs:218-222, config.rs:166: switching presets changes the name
\* of the active one and nothing else, so switching back restores what there
\* was; unless a save was cut short, or an edit or another command fell between
\* a command's read and its write and is overwritten.
SwitchKeepsDocument ==
    \A loc \in Locations :
        ~HalfSaved(loc) /\ loc \notin crossed => disk[loc] = authored[loc]

\* commands/config.rs:269 "Changes should apply immediately": once the daemon has
\* handled the reload a switch asked for, it runs the preset switched to.  It
\* holds only when the daemon's file is the one the command wrote, that file is
\* as it was written, and the preset, which the command looked up and did not
\* resolve, passes validation.
SwitchTakesEffect ==
    daemon.up /\ ~hup /\ requested # NoRequest =>
        \/ daemon.preset = requested.preset
        \/ daemon.source # requested.target \/ HalfSaved(requested.target)
        \/ ~Resolves(disk[requested.target], requested.preset)

\* What a document means for a field, read off it without merging anything
Meant(doc, name, f) ==
    IF name \in DOMAIN doc.presets /\ f \in DOMAIN doc.presets[name]
    THEN doc.presets[name][f] ELSE doc.base[f]

\* config.rs:91, 150-156: whatever is edited, switched and reloaded meanwhile, the
\* daemon runs what somebody wrote: the values of the active preset over those of
\* its base, of one document, or the defaults when there is no file.  An empty
\* file parses as the defaults, so a load in the middle of a save, or after one
\* cut short, is the exception.
RunningWasWritten ==
    daemon.up /\ ~dirty =>
        \A f \in Fields : daemon.settings[f] = Meant(origin, daemon.preset, f)

-----------------------------------------------------------------------------
(* Why they hold: an inductive invariant                                    *)

DocumentsWritten ==
    /\ disk \in [Locations -> ConfigFile \cup {Absent, Broken}]
    /\ authored \in [Locations -> ConfigFile \cup {Absent, Broken}]

CommandsHold ==
    cli \in [Processes -> {IdleCli} \cup
                [pc : {"open", "write"}, doc : ConfigFile, target : Locations, asks : BOOLEAN]]

Busy(p) == cli[p].pc # "idle"

\* Two commands at work on one document are noted as crossing.
CrossingIsNoted ==
    \A p, q \in Processes :
        Busy(p) /\ Busy(q) /\ p # q /\ cli[p].target = cli[q].target =>
            cli[p].target \in crossed

\* What a command is about to write differs from the document in a name.
HeldIsCurrent ==
    \A p \in Processes :
        Busy(p) /\ cli[p].target \notin cut \cup crossed =>
            LET written == authored[cli[p].target]  doc == cli[p].doc
            IN  written \in {Absent, Broken} \/ doc = [written EXCEPT !.active = doc.active]

\* A switch that asked for a reload is in the document it was written to.
SwitchIsWritten ==
    requested # NoRequest =>
        /\ requested.target \in Locations
        /\ \/ HalfSaved(requested.target)
           \/ /\ disk[requested.target] \in ConfigFile
              /\ disk[requested.target].active = requested.preset

IInv ==
    /\ TypeOK /\ DocumentsWritten /\ CommandsHold /\ CrossingIsNoted /\ HeldIsCurrent
    /\ SwitchIsWritten
    /\ SwitchKeepsDocument /\ SwitchTakesEffect /\ RunningWasWritten
=============================================================================
