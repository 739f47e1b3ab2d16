---------------------------- MODULE ConfigProofs ----------------------------
(***************************************************************************)
(* Proofs about Config, for any search paths, documents, preset names and  *)
(* installed models, any number of commands at once, edits and reloads.    *)
(***************************************************************************)
EXTENDS Config, WellFoundedInduction, TLAPS

-----------------------------------------------------------------------------
(* Documents                                                               *)

\* What a default or an empty file means
LEMMA DefaultShape ==
  /\ Default \in Settings /\ DefaultFile \in Authorable
  /\ DefaultFile = [active |-> DefaultFile.active, base |-> DefaultFile.base,
                    presets |-> DefaultFile.presets]
  /\ DefaultFile.active = "default" /\ DefaultFile.base = Default
<1>1. Default \in Settings
  BY DEF Default, Settings, Fields
<1> QED BY <1>1 DEF DefaultFile, Authorable

\* A preset is made of its parts, and parts of a part are parts.
IsPreset(preset) == preset = NotATable \/ preset = [key \in DOMAIN preset |-> preset[key]]

LEMMA WholeIsPart ==
  ASSUME NEW preset, IsPreset(preset) PROVE preset \in PartsOf(preset)
<1>1. CASE preset = NotATable
  BY <1>1 DEF PartsOf
<1>2. CASE preset # NotATable
  <2>1. preset = [key \in DOMAIN preset |-> preset[key]] /\ DOMAIN preset \in SUBSET DOMAIN preset
    BY <1>2 DEF IsPreset
  <2> QED BY <1>2, <2>1 DEF PartsOf
<1> QED BY <1>1, <1>2

LEMMA PartOfPart ==
  ASSUME NEW preset, NEW part \in PartsOf(preset), NEW rest \in PartsOf(part)
  PROVE  rest \in PartsOf(preset)
<1>1. CASE preset = NotATable
  BY <1>1 DEF PartsOf
<1>2. CASE preset # NotATable
  <2>1. PICK K \in SUBSET DOMAIN preset : part = [key \in K |-> preset[key]]
    BY <1>2 DEF PartsOf
  <2>2. CASE part = NotATable
    BY <2>2 DEF PartsOf
  <2>3. CASE part # NotATable
    <3>1. PICK L \in SUBSET DOMAIN part : rest = [key \in L |-> part[key]]
      BY <2>3 DEF PartsOf
    <3>2. L \in SUBSET DOMAIN preset /\ rest = [key \in L |-> preset[key]]
      BY <2>1, <3>1
    <3> QED BY <1>2, <3>2 DEF PartsOf
  <2> QED BY <2>2, <2>3
<1> QED BY <1>1, <1>2

\* To be what is left of some presets is to have some of their names, each with
\* a part of what it had.
LEMMA CutDownMeans ==
  ASSUME NEW presets, NEW q
  PROVE  q \in CutDown(presets) <=>
             /\ q = [n \in DOMAIN q |-> q[n]] /\ DOMAIN q \subseteq DOMAIN presets
             /\ \A n \in DOMAIN q : q[n] \in PartsOf(presets[n])
<1>1. ASSUME q \in CutDown(presets)
      PROVE  /\ q = [n \in DOMAIN q |-> q[n]] /\ DOMAIN q \subseteq DOMAIN presets
             /\ \A n \in DOMAIN q : q[n] \in PartsOf(presets[n])
  <2>1. PICK N \in SUBSET DOMAIN presets :
            /\ q \in [N -> UNION {PartsOf(presets[n]) : n \in N}]
            /\ \A n \in N : q[n] \in PartsOf(presets[n])
    BY <1>1 DEF CutDown
  <2> QED BY <2>1
<1>2. ASSUME q = [n \in DOMAIN q |-> q[n]], DOMAIN q \subseteq DOMAIN presets,
             \A n \in DOMAIN q : q[n] \in PartsOf(presets[n])
      PROVE  q \in CutDown(presets)
  <2>1. DOMAIN q \in SUBSET DOMAIN presets
    BY <1>2
  <2>2. q \in [DOMAIN q -> UNION {PartsOf(presets[n]) : n \in DOMAIN q}]
    BY <1>2
  <2> QED BY <1>2, <2>1, <2>2 DEF CutDown
<1> QED BY <1>1, <1>2

LEMMA CutDownAgain ==
  ASSUME NEW presets, NEW q \in CutDown(presets), NEW rest,
         rest = [n \in DOMAIN rest |-> rest[n]], DOMAIN rest \subseteq DOMAIN q,
         \A n \in DOMAIN rest : rest[n] \in PartsOf(q[n])
  PROVE  rest \in CutDown(presets)
<1>1. DOMAIN q \subseteq DOMAIN presets /\ \A n \in DOMAIN q : q[n] \in PartsOf(presets[n])
  BY CutDownMeans
<1>2. \A n \in DOMAIN rest : rest[n] \in PartsOf(presets[n])
  BY <1>1, PartOfPart
<1> QED BY <1>1, <1>2, CutDownMeans

\* The presets of a document that can be
LEMMA PresetsShape ==
  ASSUME NEW d \in ConfigFile
  PROVE  /\ d.presets = [n \in DOMAIN d.presets |-> d.presets[n]]
         /\ \A n \in DOMAIN d.presets : IsPreset(d.presets[n])
<1>1. PICK e \in Authorable : d.presets \in CutDown(e.presets)
  BY DEF ConfigFile
<1>2. /\ d.presets = [n \in DOMAIN d.presets |-> d.presets[n]]
      /\ \A n \in DOMAIN d.presets : d.presets[n] \in PartsOf(e.presets[n])
  BY <1>1, CutDownMeans
<1>3. ASSUME NEW n \in DOMAIN d.presets PROVE IsPreset(d.presets[n])
  BY <1>2, <1>3 DEF PartsOf, IsPreset
<1> QED BY <1>2, <1>3

\* Every document somebody writes is one there can be.
LEMMA AuthorableIsConfigFile == Authorable \subseteq ConfigFile
<1> SUFFICES ASSUME NEW d \in Authorable PROVE d \in ConfigFile
  OBVIOUS
<1>1. /\ d = [active |-> d.active, base |-> d.base, presets |-> d.presets]
      /\ d.base \in Settings
      /\ d.presets = [n \in DOMAIN d.presets |-> d.presets[n]]
      /\ \A n \in DOMAIN d.presets : IsPreset(d.presets[n])
  <2>1. CASE d \in Documents
    BY <2>1, DocumentsAssumption DEF IsPreset
  <2>2. CASE d = DefaultFile
    <3>1. d.presets = [dev |-> DevPreset]
      BY <2>2 DEF DefaultFile
    <3>2. DevPreset = [key \in DOMAIN DevPreset |-> DevPreset[key]]
      BY DEF DevPreset
    <3>3. d.presets = [n \in DOMAIN d.presets |-> d.presets[n]] /\ DOMAIN d.presets = {"dev"}
          /\ d.presets["dev"] = DevPreset
      BY <3>1
    <3>4. \A n \in DOMAIN d.presets : IsPreset(d.presets[n])
      BY <3>2, <3>3 DEF IsPreset
    <3> QED BY <2>2, <3>3, <3>4, DefaultShape
  <2> QED BY <2>1, <2>2 DEF Authorable
<1>2. d.presets \in CutDown(d.presets)
  BY <1>1, WholeIsPart, CutDownMeans
<1>3. d.active \in Names \cup {e.active : e \in Authorable}
      /\ d.presets \in UNION {CutDown(e.presets) : e \in Authorable}
  BY <1>2
<1> QED BY <1>1, <1>3 DEF ConfigFile

\* An empty file is one, too.
LEMMA NothingLeft == NoPresets \in UNION {CutDown(d.presets) : d \in Authorable}
<1>1. NoPresets = [n \in {} |-> 0] /\ DOMAIN NoPresets = {}
  BY DEF NoPresets
<1>2. NoPresets \in CutDown(DefaultFile.presets)
  BY <1>1, CutDownMeans
<1> QED BY <1>2, DefaultShape

LEMMA EmptyIsConfigFile == EmptyFile \in ConfigFile
<1>1. "default" \in {d.active : d \in Authorable}
  BY DefaultShape
<1> QED BY <1>1, NothingLeft, DefaultShape DEF EmptyFile, ConfigFile

LEMMA ConfigFileShape ==
  ASSUME NEW d \in ConfigFile PROVE d.base \in Settings
  BY DEF ConfigFile

\* A document switched to another preset is one.
LEMMA SwitchingIsConfigFile ==
  ASSUME NEW d \in ConfigFile, NEW n \in Names \cup {e.active : e \in Authorable}
  PROVE  /\ [d EXCEPT !.active = n] \in ConfigFile
         /\ [d EXCEPT !.active = n].active = n
  BY DEF ConfigFile

LEMMA ActiveOf ==
  ASSUME NEW d \in ConfigFile PROVE d.active \in Names \cup {e.active : e \in Authorable}
  BY DEF ConfigFile

LEMMA DefaultIsConfigFile == DefaultFile \in ConfigFile
  BY AuthorableIsConfigFile, DefaultShape

\* So is what is left of one cut in the middle.
LEMMA PrefixIsConfigFile ==
  ASSUME NEW d \in ConfigFile, NEW rest \in Prefixes(d) PROVE rest \in ConfigFile
<1>1. CASE \E F \in SUBSET Fields :
             rest = [active |-> d.active, presets |-> NoPresets,
                     base |-> [f \in Fields |-> IF f \in F THEN d.base[f] ELSE Default[f]]]
  <2>1. PICK F \in SUBSET Fields :
             rest = [active |-> d.active, presets |-> NoPresets,
                     base |-> [f \in Fields |-> IF f \in F THEN d.base[f] ELSE Default[f]]]
    BY <1>1
  <2>2. [f \in Fields |-> IF f \in F THEN d.base[f] ELSE Default[f]] \in Settings
    BY DefaultShape, ConfigFileShape DEF Settings
  <2> QED BY <2>1, <2>2, NothingLeft, ActiveOf DEF ConfigFile
<1>2. CASE \E q : /\ rest = [d EXCEPT !.presets = q]
                  /\ q = [n \in DOMAIN q |-> q[n]] /\ DOMAIN q \subseteq DOMAIN d.presets
                  /\ \A n \in DOMAIN q : q[n] \in PartsOf(d.presets[n])
  <2>1. PICK q : /\ rest = [d EXCEPT !.presets = q]
                 /\ q = [n \in DOMAIN q |-> q[n]] /\ DOMAIN q \subseteq DOMAIN d.presets
                 /\ \A n \in DOMAIN q : q[n] \in PartsOf(d.presets[n])
    BY <1>2
  <2>2. PICK e \in Authorable : d.presets \in CutDown(e.presets)
    BY DEF ConfigFile
  <2>3. q \in CutDown(e.presets)
    BY <2>1, <2>2, CutDownAgain
  <2> QED BY <2>1, <2>3 DEF ConfigFile
<1>3. \/ \E F \in SUBSET Fields :
             rest = [active |-> d.active, presets |-> NoPresets,
                     base |-> [f \in Fields |-> IF f \in F THEN d.base[f] ELSE Default[f]]]
      \/ \E q : /\ rest = [d EXCEPT !.presets = q]
                /\ q = [n \in DOMAIN q |-> q[n]] /\ DOMAIN q \subseteq DOMAIN d.presets
                /\ \A n \in DOMAIN q : q[n] \in PartsOf(d.presets[n])
  <2>1. CASE rest \in {[active |-> d.active, presets |-> NoPresets,
                        base |-> [f \in Fields |-> IF f \in F THEN d.base[f] ELSE Default[f]]]
                          : F \in SUBSET Fields}
    BY <2>1
  <2>2. ASSUME NEW k \in DOMAIN PresetOrder, PresetOrder[k] \in DOMAIN d.presets,
               NEW whole \in SUBSET DOMAIN d.presets,
               NEW part \in PartsOf(d.presets[PresetOrder[k]]),
               rest = [d EXCEPT !.presets =
                          [n \in whole \cup {PresetOrder[k]} |->
                              IF n = PresetOrder[k] THEN part ELSE d.presets[n]]]
        PROVE  \E q : /\ rest = [d EXCEPT !.presets = q]
                      /\ q = [n \in DOMAIN q |-> q[n]] /\ DOMAIN q \subseteq DOMAIN d.presets
                      /\ \A n \in DOMAIN q : q[n] \in PartsOf(d.presets[n])
    <3> DEFINE last == PresetOrder[k]
               q == [n \in whole \cup {last} |-> IF n = last THEN part ELSE d.presets[n]]
    <3>1. \A n \in DOMAIN d.presets : d.presets[n] \in PartsOf(d.presets[n])
      BY PresetsShape, WholeIsPart
    <3>2. \A n \in DOMAIN q : q[n] \in PartsOf(d.presets[n])
      BY <3>1
    <3>3. rest = [d EXCEPT !.presets = q] /\ q = [n \in DOMAIN q |-> q[n]]
          /\ DOMAIN q \subseteq DOMAIN d.presets
      BY <2>2
    <3> HIDE DEF q
    <3> QED BY <3>2, <3>3
  <2>3. CASE \E k \in {i \in DOMAIN PresetOrder : PresetOrder[i] \in DOMAIN d.presets} :
               LET last == PresetOrder[k]
                   whole == {PresetOrder[i] : i \in 1..k-1} \cap DOMAIN d.presets
               IN  rest \in {[d EXCEPT !.presets =
                        [n \in whole \cup {last} |-> IF n = last THEN part ELSE d.presets[n]]]
                        : part \in PartsOf(d.presets[last])}
    <3>1. PICK k \in DOMAIN PresetOrder :
             /\ PresetOrder[k] \in DOMAIN d.presets
             /\ LET last == PresetOrder[k]
                    whole == {PresetOrder[i] : i \in 1..k-1} \cap DOMAIN d.presets
                IN  rest \in {[d EXCEPT !.presets =
                        [n \in whole \cup {last} |-> IF n = last THEN part ELSE d.presets[n]]]
                        : part \in PartsOf(d.presets[last])}
      BY <2>3
    <3> DEFINE whole == {PresetOrder[i] : i \in 1..k-1} \cap DOMAIN d.presets
    <3>2. PICK part \in PartsOf(d.presets[PresetOrder[k]]) :
               rest = [d EXCEPT !.presets =
                          [n \in whole \cup {PresetOrder[k]} |->
                              IF n = PresetOrder[k] THEN part ELSE d.presets[n]]]
      BY <3>1
    <3>3. whole \in SUBSET DOMAIN d.presets
      OBVIOUS
    <3> HIDE DEF whole
    <3> QED BY <2>2, <3>1, <3>2, <3>3
  <2>4. \/ rest \in {[active |-> d.active, presets |-> NoPresets,
                        base |-> [f \in Fields |-> IF f \in F THEN d.base[f] ELSE Default[f]]]
                          : F \in SUBSET Fields}
        \/ \E k \in {i \in DOMAIN PresetOrder : PresetOrder[i] \in DOMAIN d.presets} :
               LET last == PresetOrder[k]
                   whole == {PresetOrder[i] : i \in 1..k-1} \cap DOMAIN d.presets
               IN  rest \in {[d EXCEPT !.presets =
                        [n \in whole \cup {last} |-> IF n = last THEN part ELSE d.presets[n]]]
                        : part \in PartsOf(d.presets[last])}
    BY DEF Prefixes
  <2> QED BY <2>1, <2>3, <2>4
<1> QED BY <1>1, <1>2, <1>3

LEMMA ConfigFileIsReal == ASSUME NEW d \in ConfigFile PROVE d # Absent /\ d # Broken
  BY SentinelsAssumption

\* A preset resolved by merging tables is what the document means, field by field.
LEMMA ResolvingReadsOff ==
  ASSUME NEW doc, doc.base \in Settings, NEW n
  PROVE  \A f \in Fields : Resolved(doc, n)[f] = Meant(doc, n, f)
<1>1. DOMAIN doc.base = Fields
  BY DEF Settings
<1> QED BY <1>1 DEF Resolved, Merged, Merge, Overlay, NoPresets, Meant

LEMMA ResolvedIsSettings ==
  ASSUME NEW doc, NEW n, Resolves(doc, n) PROVE Resolved(doc, n) \in Settings
  BY DEF Resolves, Deserializes, Resolved, Settings

-----------------------------------------------------------------------------
(* The search                                                              *)

LEMMA LeastExists ==
  ASSUME NEW T \in SUBSET Nat, T # {} PROVE \E i \in T : \A j \in T : i <= j
<1> DEFINE R == {s \in Nat \X Nat : s[1] < s[2]}
<1>1. IsWellFoundedOn(R, Nat)
  BY NatLessThanWellFounded DEF OpToRel
<1>2. \A x, y \in Nat : <<x, y>> \in R <=> x < y
  OBVIOUS
<1> HIDE DEF R
<1>3. \E i \in T : \A j \in T : ~ (<<j, i>> \in R)
  BY <1>1, WFMin, Zenon
<1>4. PICK i \in T : \A j \in T : ~ (<<j, i>> \in R)
  BY <1>3
<1>5. \A j \in T : ~(j < i) /\ j \in Nat /\ i \in Nat
  BY <1>4, <1>2
<1> QED BY <1>5

LEMMA FoundIsThere ==
  ASSUME NEW search \in Seq(Locations)
  PROVE  \/ /\ Found(search) = NoSource
            /\ \A i \in DOMAIN search : disk[search[i]] = Absent
         \/ /\ Found(search) \in Locations
            /\ disk[Found(search)] # Absent
<1> DEFINE there == {i \in DOMAIN search : disk[search[i]] # Absent}
<1>1. CASE there = {}
  BY <1>1 DEF Found
<1>2. CASE there # {}
  <2>1. there \in SUBSET Nat
    OBVIOUS
  <2>2. \E i \in there : \A j \in there : i <= j
    BY <1>2, <2>1, LeastExists
  <2> DEFINE i == CHOOSE i \in there : \A j \in there : i <= j
  <2>3. i \in there
    BY <2>2
  <2>4. Found(search) = search[i]
    BY <1>2 DEF Found
  <2> HIDE DEF i
  <2> QED BY <2>3, <2>4
<1> QED BY <1>1, <1>2

\* What a command reads is what is at the place it will write.
LEMMA TargetIsRead ==
  /\ Target \in Locations
  /\ disk[Target] = Absent => Document = DefaultFile
  /\ disk[Target] # Absent => Document = disk[Target]
<1>1. CASE Found(CliSearch) = NoSource
  <2>1. CliSearch[1] \in Locations /\ 1 \in DOMAIN CliSearch
    BY SearchAssumption
  <2>2. disk[CliSearch[1]] = Absent
    BY <1>1, <2>1, FoundIsThere, SearchAssumption, SentinelsAssumption DEF NoSource
  <2> QED BY <1>1, <2>1, <2>2 DEF Target, Document
<1>2. CASE Found(CliSearch) # NoSource
  BY <1>2, FoundIsThere, SearchAssumption DEF Target, Document
<1> QED BY <1>1, <1>2

LEMMA ReloadFromType ==
  ASSUME TypeOK, daemon.up PROVE ReloadFrom \in Locations \cup {NoSource}
  BY FoundIsThere, SearchAssumption DEF ReloadFrom, TypeOK

-----------------------------------------------------------------------------
(* The inductive invariant                                                 *)

LEMMA InitIInv == Init => IInv
<1> SUFFICES ASSUME Init PROVE IInv
  OBVIOUS
<1> USE DEF Init
<1>1. \A loc \in Locations : disk[loc] \in Documents \cup {Absent}
  OBVIOUS
<1>2. TypeOK
  <2>1. \A loc \in Locations : disk[loc] \in {Absent, Broken} \/ disk[loc].base \in Settings
    BY <1>1, DocumentsAssumption
  <2>2. edits \in 0..MaxEdits /\ commands \in 0..MaxCommands
    BY BoundsAssumption
  <2> QED BY <2>1, <2>2 DEF TypeOK, Down
<1>3. DocumentsWritten
  BY AuthorableIsConfigFile DEF DocumentsWritten, Authorable
<1>4. CommandsHold /\ CrossingIsNoted /\ HeldIsCurrent
  BY DEF CommandsHold, CrossingIsNoted, HeldIsCurrent, Busy, IdleCli
<1>5. SwitchKeepsDocument /\ SwitchIsWritten /\ SwitchTakesEffect /\ RunningWasWritten
  BY DEF SwitchKeepsDocument, SwitchIsWritten, SwitchTakesEffect, RunningWasWritten, Down
<1> QED BY <1>2, <1>3, <1>4, <1>5 DEF IInv

\* Either way to load runs what somebody wrote, unless it is noted as dirty.
LEMMA LoadedWasWritten ==
  ASSUME IInv,
         \/ LoadBuiltIn
         \/ \E loc \in Locations : LoadFrom(loc, disk[loc].active)
  PROVE  /\ daemon'.up /\ daemon'.settings \in Settings
         /\ daemon'.source \in Locations \cup {NoSource}
         /\ dirty' \in BOOLEAN
         /\ RunningWasWritten'
<1>1. CASE LoadBuiltIn
  <2>1. /\ daemon'.up /\ daemon'.settings = Default /\ daemon'.preset = "default"
        /\ daemon'.source = NoSource /\ dirty' = FALSE /\ origin' = DefaultFile
    BY <1>1 DEF LoadBuiltIn, Running
  <2>2. Default \in Settings
    BY DEF Default, Settings, Fields
  <2>3. \A f \in Fields : Meant(DefaultFile, "default", f) = Default[f]
    BY DEF Meant, DefaultFile
  <2> QED BY <2>1, <2>2, <2>3 DEF RunningWasWritten
<1>2. ASSUME NEW loc \in Locations, LoadFrom(loc, disk[loc].active)
      PROVE  /\ daemon'.up /\ daemon'.settings \in Settings
             /\ daemon'.source \in Locations \cup {NoSource}
             /\ dirty' \in BOOLEAN
             /\ RunningWasWritten'
  <2> DEFINE doc == disk[loc]
  <2>1. /\ daemon'.up /\ daemon'.settings = Resolved(doc, doc.active)
        /\ daemon'.preset = doc.active /\ daemon'.source = loc
        /\ origin' = authored[loc] /\ dirty' \in BOOLEAN
        /\ dirty' = (HalfSaved(loc) \/ loc \in crossed)
        /\ Readable(loc) /\ Resolves(doc, doc.active)
    BY <1>2 DEF LoadFrom, Running, HalfSaved
  <2>2. doc \in ConfigFile
    BY <2>1 DEF Readable, IInv, DocumentsWritten
  <2>3. Resolved(doc, doc.active) \in Settings
    BY <2>1, ResolvedIsSettings
  <2>4. ~dirty' => authored[loc] = doc
    BY <2>1 DEF IInv, SwitchKeepsDocument
  <2>5. \A f \in Fields : Resolved(doc, doc.active)[f] = Meant(doc, doc.active, f)
    BY <2>2, ConfigFileShape, ResolvingReadsOff
  <2> HIDE DEF doc
  <2> QED BY <2>1, <2>3, <2>4, <2>5 DEF RunningWasWritten
<1> QED BY <1>1, <1>2

LEMMA StartIInv == ASSUME IInv, Start PROVE IInv'
<1> USE DEF IInv
<1>1. /\ UNCHANGED <<disk, hup, cli, edits, commands, authored, cut, crossed>>
      /\ requested' = NoRequest
      /\ \/ LoadBuiltIn
         \/ \E loc \in Locations : LoadFrom(loc, disk[loc].active)
  <2>1. Found(DaemonSearch) \in Locations \cup {NoSource}
    BY FoundIsThere, SearchAssumption
  <2> QED BY <2>1 DEF Start
<1>2. TypeOK' /\ RunningWasWritten'
  BY <1>1, LoadedWasWritten DEF TypeOK
<1>3. DocumentsWritten' /\ CommandsHold' /\ CrossingIsNoted' /\ HeldIsCurrent'
  BY <1>1 DEF DocumentsWritten, CommandsHold, CrossingIsNoted, HeldIsCurrent, Busy
<1>4. SwitchKeepsDocument'
  BY <1>1 DEF SwitchKeepsDocument, HalfSaved
<1>5. SwitchIsWritten' /\ SwitchTakesEffect'
  BY <1>1 DEF SwitchIsWritten, SwitchTakesEffect
<1> QED BY <1>2, <1>3, <1>4, <1>5

\* A reload of the document switched to runs the preset in it or leaves
\* everything as it was because that preset does not resolve.
LEMMA ReloadIInv == ASSUME IInv, Reload PROVE IInv'
<1> USE DEF IInv
<1>1. /\ UNCHANGED <<disk, cli, edits, commands, authored, cut, crossed, requested>>
      /\ daemon.up /\ hup' = FALSE
  BY DEF Reload
<1>2. \/ LoadBuiltIn
      \/ LoadFrom(ReloadFrom, disk[ReloadFrom].active) /\ ReloadFrom \in Locations
      \/ /\ ReloadFrom # NoSource
         /\ ~(Readable(ReloadFrom) /\ Resolves(disk[ReloadFrom], disk[ReloadFrom].active))
         /\ UNCHANGED <<daemon, origin, dirty>>
  BY <1>1, ReloadFromType DEF Reload, RunningPreset
<1>3. TypeOK' /\ RunningWasWritten'
  <2>1. CASE UNCHANGED <<daemon, origin, dirty>>
    BY <1>1, <2>1 DEF TypeOK, RunningWasWritten
  <2>2. CASE ~UNCHANGED <<daemon, origin, dirty>>
    BY <1>1, <1>2, <2>2, LoadedWasWritten DEF TypeOK
  <2> QED BY <2>1, <2>2
<1>4. DocumentsWritten' /\ CommandsHold' /\ CrossingIsNoted' /\ HeldIsCurrent'
  BY <1>1 DEF DocumentsWritten, CommandsHold, CrossingIsNoted, HeldIsCurrent, Busy
<1>5. SwitchKeepsDocument' /\ SwitchIsWritten'
  BY <1>1 DEF SwitchKeepsDocument, SwitchIsWritten, HalfSaved
<1>6. SwitchTakesEffect'
  <2> SUFFICES ASSUME requested # NoRequest, ~HalfSaved(requested.target),
                      daemon'.source = requested.target
               PROVE  \/ daemon'.preset = requested.preset
                      \/ ~Resolves(disk[requested.target], requested.preset)
    BY <1>1 DEF SwitchTakesEffect, HalfSaved
  <2> DEFINE t == requested.target
  <2>1. t \in Locations /\ disk[t] \in ConfigFile /\ disk[t].active = requested.preset
    BY DEF SwitchIsWritten
  <2>2. CASE LoadBuiltIn
    BY <2>1, <2>2, SentinelsAssumption DEF LoadBuiltIn, Running, NoSource
  <2>3. CASE LoadFrom(ReloadFrom, disk[ReloadFrom].active)
    BY <2>1, <2>3 DEF LoadFrom, Running
  <2>4. CASE /\ ReloadFrom # NoSource
             /\ ~(Readable(ReloadFrom) /\ Resolves(disk[ReloadFrom], disk[ReloadFrom].active))
             /\ UNCHANGED daemon
    <3>1. ReloadFrom = t
      BY <2>1, <2>4, SentinelsAssumption DEF ReloadFrom, NoSource
    <3>2. Readable(t)
      BY <2>1, ConfigFileIsReal DEF Readable
    <3> QED BY <2>1, <2>4, <3>1, <3>2
  <2> QED BY <1>2, <2>2, <2>3, <2>4
<1> QED BY <1>3, <1>4, <1>5, <1>6

LEMMA StopIInv == ASSUME IInv, Stop PROVE IInv'
<1> USE DEF IInv, Stop, Down
<1>1. TypeOK' /\ RunningWasWritten'
  BY DEF TypeOK, RunningWasWritten
<1>2. DocumentsWritten' /\ CommandsHold' /\ CrossingIsNoted' /\ HeldIsCurrent'
  BY DEF DocumentsWritten, CommandsHold, CrossingIsNoted, HeldIsCurrent, Busy
<1>3. SwitchKeepsDocument' /\ SwitchIsWritten' /\ SwitchTakesEffect'
  BY DEF SwitchKeepsDocument, SwitchIsWritten, SwitchTakesEffect, HalfSaved
<1> QED BY <1>1, <1>2, <1>3

-----------------------------------------------------------------------------
(* The commands and the editor                                             *)

LEMMA CommandShape ==
  ASSUME CommandsHold, NEW p \in Processes
  PROVE  \/ cli[p] = IdleCli /\ ~Busy(p)
         \/ /\ Busy(p) /\ cli[p].pc \in {"open", "write"} /\ cli[p].doc \in ConfigFile
            /\ cli[p].target \in Locations /\ cli[p].asks \in BOOLEAN
  BY DEF CommandsHold, Busy, IdleCli

\* A command that reads a document no other is at work on holds that document
\* but for the name.
LEMMA HoldIInv ==
  ASSUME IInv, NEW p \in Processes, NEW doc \in ConfigFile, NEW asks \in BOOLEAN,
         Hold(p, doc, asks),
         disk[Target] = Absent \/ doc = [disk[Target] EXCEPT !.active = doc.active]
  PROVE  IInv'
<1> DEFINE held == [pc |-> "open", doc |-> doc, target |-> Target, asks |-> asks]
<1>1. /\ UNCHANGED <<disk, daemon, hup, edits, authored, cut, origin, dirty>>
      /\ requested' = NoRequest /\ ~Busy(p) /\ commands' = commands + 1
      /\ commands < MaxCommands
      /\ cli' = [cli EXCEPT ![p] = held]
      /\ crossed' = IF Others(p) # {} THEN crossed \cup {Target} ELSE crossed
  BY DEF Hold, Busy
<1>2. Target \in Locations
  BY TargetIsRead
<1>3. \A q \in Processes : cli'[q] = IF q = p THEN held ELSE cli[q]
  BY <1>1 DEF IInv, CommandsHold
<1>4. /\ held.pc = "open" /\ held.doc = doc /\ held.target = Target
      /\ held \in [pc : {"open", "write"}, doc : ConfigFile, target : Locations, asks : BOOLEAN]
  BY <1>2
<1>5. \A q \in Processes : q # p /\ Busy(q) /\ cli[q].target = Target => Target \in crossed'
  BY <1>1 DEF Others, Busy
<1>6. \A loc \in Locations : HalfSaved(loc)' <=> HalfSaved(loc)
  BY <1>1, <1>3, <1>4 DEF HalfSaved, Busy
<1>7. crossed \subseteq crossed' /\ crossed' \subseteq Locations
  BY <1>1, <1>2 DEF IInv, TypeOK
<1> HIDE DEF held
<1>8. TypeOK'
  BY <1>1, <1>7, BoundsAssumption DEF IInv, TypeOK
<1>9. DocumentsWritten' /\ CommandsHold'
  BY <1>1, <1>4 DEF IInv, DocumentsWritten, CommandsHold
<1>10. CrossingIsNoted'
  BY <1>3, <1>4, <1>5, <1>7 DEF IInv, CrossingIsNoted, Busy
<1>11. HeldIsCurrent'
  <2>1. ASSUME Target \notin cut \cup crossed'
        PROVE  authored[Target] = disk[Target]
    <3>1. ~HalfSaved(Target)
      BY <1>1, <1>5, <2>1 DEF HalfSaved, Busy
    <3> QED BY <1>2, <1>7, <2>1, <3>1 DEF IInv, SwitchKeepsDocument
  <2> QED BY <1>1, <1>3, <1>4, <1>7, <2>1 DEF IInv, HeldIsCurrent, Busy
<1>12. SwitchKeepsDocument'
  BY <1>1, <1>6, <1>7 DEF IInv, SwitchKeepsDocument
<1>13. SwitchIsWritten' /\ SwitchTakesEffect' /\ RunningWasWritten'
  BY <1>1 DEF IInv, SwitchIsWritten, SwitchTakesEffect, RunningWasWritten
<1> QED BY <1>8, <1>9, <1>10, <1>11, <1>12, <1>13 DEF IInv

LEMMA UsePresetIInv ==
  ASSUME IInv, NEW p \in Processes, NEW name \in Names, UsePreset(p, name) PROVE IInv'
<1> DEFINE doc == [Document EXCEPT !.active = name]
<1>1. Document \in ConfigFile
  BY TargetIsRead, DefaultIsConfigFile DEF IInv, DocumentsWritten, UsePreset
<1>2. doc \in ConfigFile /\ doc.active = name
  BY <1>1, SwitchingIsConfigFile
<1>3. disk[Target] = Absent \/ doc = [disk[Target] EXCEPT !.active = doc.active]
  BY <1>2, TargetIsRead
<1>4. Hold(p, doc, TRUE)
  BY DEF UsePreset
<1> HIDE DEF doc
<1> QED BY <1>2, <1>3, <1>4, HoldIInv

LEMMA SetValueIInv ==
  ASSUME IInv, NEW p \in Processes, SetValue(p) PROVE IInv'
<1>1. Hold(p, DefaultFile, FALSE) /\ disk[Target] = Absent
  BY TargetIsRead DEF SetValue
<1> QED BY <1>1, DefaultIsConfigFile, HoldIInv

LEMMA TruncateIInv ==
  ASSUME IInv, NEW p \in Processes, Truncate(p) PROVE IInv'
<1> DEFINE t == cli[p].target
<1>1. /\ UNCHANGED <<daemon, hup, edits, commands, history>> /\ cli[p].pc = "open"
      /\ disk' = [disk EXCEPT ![t] = EmptyFile] /\ cli' = [cli EXCEPT ![p].pc = "write"]
  BY DEF Truncate
<1>2. /\ t \in Locations
      /\ cli[p] \in [pc : {"open", "write"}, doc : ConfigFile, target : Locations, asks : BOOLEAN]
  BY <1>1 DEF IInv, CommandsHold, IdleCli
<1>3. \A q \in Processes : /\ cli'[q].target = cli[q].target /\ cli'[q].doc = cli[q].doc
                           /\ Busy(q)' <=> Busy(q)
                           /\ cli[q].pc = "write" => cli'[q].pc = "write"
  BY <1>1, <1>2 DEF IInv, CommandsHold, Busy
<1>4. \A loc \in Locations : loc = t \/ HalfSaved(loc) => HalfSaved(loc)'
  BY <1>1, <1>2, <1>3 DEF HalfSaved, history, IInv, CommandsHold
<1>5. EmptyFile \in ConfigFile /\ EmptyFile.base \in Settings
  BY EmptyIsConfigFile, ConfigFileShape
<1>6. \A loc \in Locations : disk'[loc] = IF loc = t THEN EmptyFile ELSE disk[loc]
  BY <1>1 DEF IInv, DocumentsWritten
<1> USE DEF history
<1> HIDE DEF t
<1>7. TypeOK'
  BY <1>1, <1>5, <1>6 DEF IInv, TypeOK
<1>8. DocumentsWritten'
  BY <1>1, <1>2, <1>5 DEF IInv, DocumentsWritten
<1>9. CommandsHold'
  BY <1>1, <1>2 DEF IInv, CommandsHold
<1>10. CrossingIsNoted' /\ HeldIsCurrent'
  BY <1>1, <1>3 DEF IInv, CrossingIsNoted, HeldIsCurrent
<1>11. SwitchKeepsDocument'
  BY <1>1, <1>4, <1>6 DEF IInv, SwitchKeepsDocument
<1>12. SwitchIsWritten'
  BY <1>1, <1>4, <1>6 DEF IInv, SwitchIsWritten
<1>13. SwitchTakesEffect'
  BY <1>1, <1>4, <1>6 DEF IInv, SwitchTakesEffect, SwitchIsWritten
<1>14. RunningWasWritten'
  BY <1>1 DEF IInv, RunningWasWritten
<1> QED BY <1>7, <1>8, <1>9, <1>10, <1>11, <1>12, <1>13, <1>14 DEF IInv

\* What is written is what is noted as authored, unless another command or a
\* save cut short came in between.
LEMMA WriteIInv ==
  ASSUME IInv, NEW p \in Processes, Write(p) PROVE IInv'
<1> DEFINE t == cli[p].target
           doc == cli[p].doc
           text == IF authored[t] \in {Absent, Broken} THEN doc
                   ELSE [authored[t] EXCEPT !.active = doc.active]
<1>1. /\ UNCHANGED <<daemon, edits, commands, cut, crossed, dirty, origin>>
      /\ cli[p].pc = "write" /\ cli' = [cli EXCEPT ![p] = IdleCli]
      /\ disk' = [disk EXCEPT ![t] = doc] /\ authored' = [authored EXCEPT ![t] = text]
      /\ \/ hup' = TRUE /\ requested' = [preset |-> doc.active, target |-> t]
         \/ hup' = hup /\ requested' = NoRequest
  BY DEF Write, Saved, IInv, DocumentsWritten
<1>2. t \in Locations /\ doc \in ConfigFile /\ Busy(p)
      /\ doc.active \in Names \cup {e.active : e \in Authorable}
  BY <1>1, CommandShape, ActiveOf DEF IInv, Busy, IdleCli
<1>3. text \in ConfigFile
  <2>1. CASE authored[t] \in {Absent, Broken}
    BY <1>2, <2>1
  <2>2. CASE authored[t] \notin {Absent, Broken}
    <3>1. authored[t] \in ConfigFile
      BY <1>2, <2>2 DEF IInv, DocumentsWritten
    <3> QED BY <1>2, <2>2, <3>1, SwitchingIsConfigFile, ActiveOf
  <2> QED BY <2>1, <2>2
<1>4. t \notin cut \cup crossed => text = doc
  BY <1>2 DEF IInv, HeldIsCurrent
<1>5. /\ \A q \in Processes : q # p => cli'[q] = cli[q]
      /\ cli'[p] = IdleCli /\ ~Busy(p)'
      /\ \A loc \in Locations : /\ disk'[loc] = IF loc = t THEN doc ELSE disk[loc]
                                /\ authored'[loc] = IF loc = t THEN text ELSE authored[loc]
  BY <1>1, <1>2 DEF IInv, CommandsHold, DocumentsWritten, Busy, IdleCli
<1>6. \A q \in Processes : Busy(q)' => q # p /\ Busy(q) /\ cli'[q] = cli[q]
  BY <1>5 DEF Busy
<1>7. \A loc \in Locations : loc # t /\ HalfSaved(loc) => HalfSaved(loc)'
  BY <1>1, <1>5 DEF HalfSaved
<1>8. cut \subseteq cut' /\ \A loc \in Locations : ~HalfSaved(loc)' => loc \notin cut
  BY <1>1 DEF HalfSaved
<1> HIDE DEF t, doc, text
<1>9. TypeOK'
  <2>1. doc.base \in Settings
    BY <1>2, ConfigFileShape
  <2>2. hup' \in BOOLEAN
    BY <1>1 DEF IInv, TypeOK
  <2> QED BY <1>1, <1>5, <2>1, <2>2 DEF IInv, TypeOK
<1>10. DocumentsWritten'
  BY <1>1, <1>2, <1>3 DEF IInv, DocumentsWritten
<1>11. CommandsHold'
  BY <1>1 DEF IInv, CommandsHold
<1>12. CrossingIsNoted'
  BY <1>1, <1>6 DEF IInv, CrossingIsNoted
<1>13. HeldIsCurrent'
  <2>1. \A q \in Processes : Busy(q)' /\ cli[q].target = t => t \in crossed
    BY <1>2, <1>6 DEF IInv, CrossingIsNoted, t
  <2>2. \A q \in Processes : Busy(q) => cli[q].target \in Locations
    BY CommandShape DEF IInv
  <2> QED BY <1>1, <1>5, <1>6, <2>1, <2>2 DEF IInv, HeldIsCurrent
<1>14. SwitchKeepsDocument'
  BY <1>1, <1>4, <1>5, <1>7, <1>8 DEF IInv, SwitchKeepsDocument
<1>15. SwitchIsWritten' /\ SwitchTakesEffect'
  BY <1>1, <1>2, <1>5 DEF SwitchIsWritten, SwitchTakesEffect
<1>16. RunningWasWritten'
  BY <1>1 DEF IInv, RunningWasWritten
<1> QED BY <1>9, <1>10, <1>11, <1>12, <1>13, <1>14, <1>15, <1>16 DEF IInv

LEMMA AbandonIInv ==
  ASSUME IInv, NEW p \in Processes, Abandon(p) PROVE IInv'
<1> DEFINE t == cli[p].target
<1>1. /\ UNCHANGED <<daemon, hup, edits, commands, authored, crossed, origin, dirty, requested>>
      /\ Busy(p) /\ cli' = [cli EXCEPT ![p] = IdleCli]
      /\ \/ UNCHANGED <<disk, cut>> /\ cli[p].pc = "open"
         \/ /\ cut' = cut \cup {t}
            /\ \/ disk' = disk
               \/ \E rest \in {Broken} \cup Prefixes(cli[p].doc) :
                      disk' = [disk EXCEPT ![t] = rest]
  BY DEF Abandon, Busy, Saved
<1>2. t \in Locations /\ cli[p].doc \in ConfigFile
  BY <1>1, CommandShape DEF IInv
<1>3. \A q \in Processes : /\ q # p => cli'[q] = cli[q]
                           /\ Busy(q)' => q # p /\ Busy(q)
  BY <1>1 DEF IInv, CommandsHold, Busy, IdleCli
<1>4. \A loc \in Locations : HalfSaved(loc) => HalfSaved(loc)'
  BY <1>1, <1>3 DEF HalfSaved
<1>5. ASSUME NEW loc \in Locations
      PROVE  \/ disk'[loc] = disk[loc]
             \/ HalfSaved(loc)' /\ disk'[loc] = Broken
             \/ HalfSaved(loc)' /\ disk'[loc] \in ConfigFile /\ disk'[loc].base \in Settings
  <2>1. CASE disk' = disk
    BY <2>1
  <2>2. ASSUME NEW rest \in {Broken} \cup Prefixes(cli[p].doc), cut' = cut \cup {t},
               disk' = [disk EXCEPT ![t] = rest]
        PROVE  \/ disk'[loc] = disk[loc]
               \/ HalfSaved(loc)' /\ disk'[loc] = Broken
               \/ HalfSaved(loc)' /\ disk'[loc] \in ConfigFile /\ disk'[loc].base \in Settings
    <3>1. rest = Broken \/ (rest \in ConfigFile /\ rest.base \in Settings)
      BY <1>2, PrefixIsConfigFile, ConfigFileShape
    <3>2. loc # t => disk'[loc] = disk[loc]
      BY <2>2 DEF IInv, DocumentsWritten
    <3>3. loc = t => disk'[loc] = rest /\ HalfSaved(loc)'
      BY <2>2 DEF IInv, DocumentsWritten, HalfSaved
    <3> QED BY <3>1, <3>2, <3>3
  <2> QED BY <1>1, <2>1, <2>2
<1>d. disk' \in [Locations -> ConfigFile \cup {Absent, Broken}]
  <2>1. DOMAIN disk' = Locations /\ disk' = [loc \in Locations |-> disk'[loc]]
    BY <1>1 DEF IInv, DocumentsWritten
  <2>2. \A loc \in Locations : disk'[loc] \in ConfigFile \cup {Absent, Broken}
    BY <1>5 DEF IInv, DocumentsWritten
  <2> QED BY <2>1, <2>2
<1> HIDE DEF t
<1>6. TypeOK'
  BY <1>1, <1>2, <1>5 DEF IInv, TypeOK
<1>7. DocumentsWritten'
  BY <1>1, <1>d DEF IInv, DocumentsWritten
<1>8. CommandsHold'
  BY <1>1 DEF IInv, CommandsHold
<1>9. CrossingIsNoted' /\ HeldIsCurrent'
  BY <1>1, <1>3 DEF IInv, CrossingIsNoted, HeldIsCurrent
<1>10. SwitchKeepsDocument'
  BY <1>1, <1>4, <1>5 DEF IInv, SwitchKeepsDocument
<1>11. SwitchIsWritten'
  BY <1>1, <1>4, <1>5 DEF IInv, SwitchIsWritten
<1>12. SwitchTakesEffect'
  BY <1>1, <1>4, <1>5 DEF IInv, SwitchTakesEffect, SwitchIsWritten
<1>13. RunningWasWritten'
  BY <1>1 DEF IInv, RunningWasWritten
<1> QED BY <1>6, <1>7, <1>8, <1>9, <1>10, <1>11, <1>12, <1>13 DEF IInv

LEMMA EditIInv ==
  ASSUME IInv, NEW loc \in Locations, NEW doc \in Documents \cup {Absent, Broken},
         Edit(loc, doc)
  PROVE  IInv'
<1>1. /\ UNCHANGED <<daemon, hup, cli, commands, origin, dirty>>
      /\ edits < MaxEdits /\ edits' = edits + 1 /\ requested' = NoRequest
      /\ disk' = [disk EXCEPT ![loc] = doc] /\ authored' = [authored EXCEPT ![loc] = doc]
      /\ cut' = cut \ {loc}
  BY DEF Edit
<1>2. /\ \A p \in Processes : Busy(p) /\ cli[p].target = loc => loc \in crossed'
      /\ \A l \in Locations : l # loc => (l \in crossed' <=> l \in crossed)
      /\ crossed' \subseteq Locations
  BY DEF Edit, Busy, IInv, TypeOK
<1>3. \A l \in Locations : /\ disk'[l] = IF l = loc THEN doc ELSE disk[l]
                           /\ authored'[l] = IF l = loc THEN doc ELSE authored[l]
  BY <1>1 DEF IInv, DocumentsWritten
<1>4. \A l \in Locations : l # loc => (HalfSaved(l)' <=> HalfSaved(l))
  BY <1>1 DEF HalfSaved
<1>5. \A p \in Processes : Busy(p) => cli[p].target \in Locations
  BY CommandShape DEF IInv
<1>6. TypeOK'
  <2>1. doc \in {Absent, Broken} \/ doc.base \in Settings
    BY DocumentsAssumption
  <2>2. edits' \in 0..MaxEdits
    BY <1>1, BoundsAssumption DEF IInv, TypeOK
  <2>3. \A l \in Locations : disk'[l] \in {Absent, Broken} \/ disk'[l].base \in Settings
    BY <1>3, <2>1 DEF IInv, TypeOK
  <2> QED BY <1>1, <1>2, <2>2, <2>3 DEF IInv, TypeOK
<1>7. DocumentsWritten' /\ CommandsHold'
  BY <1>1, AuthorableIsConfigFile DEF Authorable, IInv, DocumentsWritten, CommandsHold
<1>8. CrossingIsNoted' /\ HeldIsCurrent'
  BY <1>1, <1>2, <1>3, <1>5 DEF IInv, CrossingIsNoted, HeldIsCurrent, Busy
<1>9. SwitchKeepsDocument'
  BY <1>2, <1>3, <1>4 DEF IInv, SwitchKeepsDocument
<1>10. SwitchIsWritten' /\ SwitchTakesEffect' /\ RunningWasWritten'
  BY <1>1 DEF IInv, SwitchIsWritten, SwitchTakesEffect, RunningWasWritten
<1> QED BY <1>6, <1>7, <1>8, <1>9, <1>10 DEF IInv

LEMMA NextIInv == IInv /\ [Next]_vars => IInv'
<1> SUFFICES ASSUME IInv, [Next]_vars PROVE IInv'
  OBVIOUS
<1>1. CASE UNCHANGED vars
  BY <1>1 DEF vars, IInv, TypeOK, DocumentsWritten, CommandsHold, CrossingIsNoted, Busy,
              HeldIsCurrent, SwitchIsWritten, SwitchKeepsDocument, SwitchTakesEffect,
              RunningWasWritten, HalfSaved
<1>2. CASE Start \/ Reload \/ Stop
  BY <1>2, StartIInv, ReloadIInv, StopIInv
<1>3. ASSUME NEW p \in Processes,
             \/ \E name \in Names : UsePreset(p, name)
             \/ SetValue(p) \/ Truncate(p) \/ Write(p) \/ Abandon(p)
      PROVE  IInv'
  BY <1>3, UsePresetIInv, SetValueIInv, TruncateIInv, WriteIInv, AbandonIInv
<1>4. ASSUME NEW loc \in Locations, NEW doc \in Documents \cup {Absent, Broken}, Edit(loc, doc)
      PROVE  IInv'
  BY <1>4, EditIInv
<1> QED BY <1>1, <1>2, <1>3, <1>4 DEF Next

LEMMA AlwaysIInv == Spec => []IInv
<1> QED BY InitIInv, NextIInv, PTL DEF Spec

-----------------------------------------------------------------------------
(* The invariants                                                          *)

\* config.rs, runtime.rs: every document and the running settings keep their
\* types, whatever is edited, switched, cut short and reloaded.
THEOREM TypeCorrect == Spec => []TypeOK
<1>1. IInv => TypeOK
  BY DEF IInv
<1> QED BY <1>1, AlwaysIInv, PTL

\* commands/config.rs:218-222, config.rs:166: a switch of presets loses nothing
\* of a document, unless it was cut short or crossed another writer.
THEOREM SwitchAlwaysKeeps == Spec => []SwitchKeepsDocument
<1>1. IInv => SwitchKeepsDocument
  BY DEF IInv
<1> QED BY <1>1, AlwaysIInv, PTL

\* commands/config.rs:269: after the reload it asked for, a switch is in effect
\* if the daemon reads that document and the preset resolves.
THEOREM SwitchAlwaysTakesEffect == Spec => []SwitchTakesEffect
<1>1. IInv => SwitchTakesEffect
  BY DEF IInv
<1> QED BY <1>1, AlwaysIInv, PTL

\* config.rs:91, 150-156: what the daemon runs is the active preset over the base
\* of one document somebody wrote, unless it loaded during or after a broken save.
THEOREM RunningAlwaysWritten == Spec => []RunningWasWritten
<1>1. IInv => RunningWasWritten
  BY DEF IInv
<1> QED BY <1>1, AlwaysIInv, PTL
=============================================================================
