--------------------------- MODULE LifecycleProofs ---------------------------
(***************************************************************************)
(* Proofs about Lifecycle, for any presets and endpoints and any number of *)
(* processes, edits and signals.  One induction establishes IInv, from     *)
(* which the invariants the run checks follow.                             *)
(***************************************************************************)
EXTENDS Lifecycle, TLAPS

-----------------------------------------------------------------------------
(* The inductive invariant                                                 *)

LEMMA Sentinels == Bad \notin Config /\ None \notin Config /\ Torn \notin Config
<1> QED BY SentinelsAssumption DEF Config

LEMMA InitIInv == Init => IInv
<1> SUFFICES ASSUME Init PROVE IInv
  OBVIOUS
<1> USE DEF Init
<1>1. TypeOK
  <2>1. /\ starts \in 0..MaxStarts /\ edits \in 0..MaxEdits /\ sent \in 0..MaxSignals
        /\ main \in MainStages
    BY BoundsAssumption DEF MainStages
  <2>2. socket \in [Endpoints -> {"none", "live", "stale"}]
    OBVIOUS
  <2> QED BY <2>1, <2>2 DEF TypeOK
<1>2. OneEndpoint /\ OneSocket
  BY DEF OneEndpoint, OneSocket, Running, Published, Unpublished
<1>3. PublishedByThisProcess /\ PublishedOrOnItsWay /\ StopIsLast
  BY DEF PublishedByThisProcess, PublishedOrOnItsWay, StopIsLast, Published, Unpublished
<1> QED BY <1>1, <1>2, <1>3 DEF IInv

LEMMA StartIInv ==
  ASSUME IInv, Start PROVE IInv'
<1> USE BoundsAssumption DEF IInv, Start, Goto, disk, channel, state, signals
<1>1. TypeOK'
  <2>1. starts' \in 0..MaxStarts
    BY DEF TypeOK
  <2>2. main' \in MainStages /\ kept' \in BOOLEAN
    BY DEF MainStages
  <2> QED BY <2>1, <2>2 DEF TypeOK
<1>2. OneEndpoint'
  BY DEF OneEndpoint, TypeOK, Running, Unpublished, Published, MidReload, Config
<1>3. OneSocket'
  BY DEF OneSocket, OneEndpoint, TypeOK, Running, Published, Config
<1>4. PublishedByThisProcess'
  BY DEF PublishedByThisProcess, OneEndpoint, Published, Unpublished, Running
<1>5. PublishedOrOnItsWay'
  BY DEF PublishedOrOnItsWay, OneEndpoint, Published, Unpublished, Running, MidReload, TypeOK
<1>6. StopIsLast'
  BY DEF StopIsLast, OneEndpoint, OneSocket, Published, Unpublished, Running, MidReload, TypeOK
<1> QED BY <1>1, <1>2, <1>3, <1>4, <1>5, <1>6

\* main and the shared configuration start out equal.
LEMMA LoadInitialIInv ==
  ASSUME IInv, LoadInitial PROVE IInv'
<1> USE DEF IInv, LoadInitial, Goto, Loads, disk, channel, signals, env
<1>1. TypeOK'
  BY DEF TypeOK, MainStages, MidReload
<1>2. OneEndpoint'
  BY DEF OneEndpoint, TypeOK, Running, Unpublished, Published, MidReload, Config
<1>3. OneSocket'
  BY DEF OneSocket, OneEndpoint, TypeOK, Running, Published, Config
<1>4. PublishedByThisProcess'
  BY DEF PublishedByThisProcess, OneEndpoint, Published, Unpublished, Running
<1>5. PublishedOrOnItsWay'
  BY DEF PublishedOrOnItsWay, OneEndpoint, Published, Unpublished, Running, MidReload, TypeOK
<1>6. StopIsLast'
  BY DEF StopIsLast, OneEndpoint, OneSocket, Published, Unpublished, Running, MidReload, TypeOK
<1> QED BY <1>1, <1>2, <1>3, <1>4, <1>5, <1>6

LEMMA InstallHandlersIInv ==
  ASSUME IInv, InstallHandlers PROVE IInv'
<1> USE DEF IInv, InstallHandlers, Goto, disk, channel, state, signals, env
<1>1. TypeOK'
  BY DEF TypeOK, MainStages, MidReload
<1>2. OneEndpoint'
  BY DEF OneEndpoint, TypeOK, Running, Unpublished, Published, MidReload, Config
<1>3. OneSocket'
  BY DEF OneSocket, OneEndpoint, TypeOK, Running, Published, Config
<1>4. PublishedByThisProcess'
  BY DEF PublishedByThisProcess, OneEndpoint, Published, Unpublished, Running
<1>5. PublishedOrOnItsWay'
  BY DEF PublishedOrOnItsWay, OneEndpoint, Published, Unpublished, Running, MidReload, TypeOK
<1>6. StopIsLast'
  BY DEF StopIsLast, OneEndpoint, OneSocket, Published, Unpublished, Running, MidReload, TypeOK
<1> QED BY <1>1, <1>2, <1>3, <1>4, <1>5, <1>6

LEMMA WritePidFileIInv ==
  ASSUME IInv, WritePidFile PROVE IInv'
<1> USE DEF IInv, WritePidFile, Goto, channel, state, signals, env
<1>1. TypeOK'
  BY DEF TypeOK, MainStages, MidReload, OneEndpoint, Running, Unpublished, Config
<1>2. OneEndpoint'
  BY DEF OneEndpoint, TypeOK, Running, Unpublished, Published, MidReload, Config
<1>3. OneSocket'
  BY DEF OneSocket, OneEndpoint, TypeOK, Running, Published, Config
<1>4. PublishedByThisProcess'
  BY DEF PublishedByThisProcess, OneEndpoint, Published, Unpublished, Running
<1>5. PublishedOrOnItsWay'
  BY DEF PublishedOrOnItsWay, OneEndpoint, Published, Unpublished, Running, MidReload, TypeOK
<1>6. StopIsLast'
  BY DEF StopIsLast, OneEndpoint, OneSocket, Published, Unpublished, Running, MidReload, TypeOK
<1> QED BY <1>1, <1>2, <1>3, <1>4, <1>5, <1>6

\* An opened file is empty, whatever an earlier process left in it.
LEMMA OpenRuntimeFileIInv ==
  ASSUME IInv, OpenRuntimeFile PROVE IInv'
<1> USE SentinelsAssumption
    DEF IInv, OpenRuntimeFile, Goto, Truncated, channel, state, signals, env
<1>1. TypeOK'
  BY DEF TypeOK, MainStages, MidReload
<1>2. OneEndpoint'
  BY DEF OneEndpoint, TypeOK, Running, Unpublished, Published, MidReload, Config
<1>3. OneSocket'
  BY DEF OneSocket, OneEndpoint, TypeOK, Running, Published, Config
<1>4. PublishedByThisProcess'
  BY Sentinels DEF PublishedByThisProcess, OneEndpoint, Published, Unpublished,
     Running, TypeOK
<1>5. PublishedOrOnItsWay'
  BY DEF PublishedOrOnItsWay, OneEndpoint, Published, Unpublished, Running, MidReload, TypeOK
<1>6. StopIsLast'
  BY DEF StopIsLast, OneEndpoint, OneSocket, Published, Unpublished, Running, MidReload, TypeOK
<1> QED BY <1>1, <1>2, <1>3, <1>4, <1>5, <1>6

\* What main publishes has the endpoint it will serve.
LEMMA PublishIInv ==
  ASSUME IInv, Publish PROVE IInv'
<1> USE SentinelsAssumption DEF IInv, Publish, Goto, Written, channel, state, signals, env
<1>1. TypeOK'
  BY DEF TypeOK, MainStages, MidReload, OneEndpoint, Running
<1>2. OneEndpoint'
  BY DEF OneEndpoint, TypeOK, Running, Unpublished, Published, MidReload, Config
<1>3. OneSocket'
  BY DEF OneSocket, OneEndpoint, TypeOK, Running, Published, Config
<1>4. PublishedByThisProcess'
  BY Sentinels DEF PublishedByThisProcess, OneEndpoint, Published, Unpublished,
     Running, TypeOK
<1>5. PublishedOrOnItsWay'
  BY DEF PublishedOrOnItsWay, OneEndpoint, Published, Unpublished, Running, MidReload, TypeOK
<1>6. StopIsLast'
  BY DEF StopIsLast, OneEndpoint, OneSocket, Published, Unpublished, Running, MidReload, TypeOK
<1> QED BY <1>1, <1>2, <1>3, <1>4, <1>5, <1>6

LEMMA SubscribeIInv ==
  ASSUME IInv, Subscribe PROVE IInv'
<1> USE DEF IInv, Subscribe, Goto, disk, state, signals, env
<1>1. TypeOK'
  BY DEF TypeOK, MainStages, MidReload
<1>2. OneEndpoint'
  BY DEF OneEndpoint, TypeOK, Running, Unpublished, Published, MidReload, Config
<1>3. OneSocket'
  BY DEF OneSocket, OneEndpoint, TypeOK, Running, Published, Config
<1>4. PublishedByThisProcess'
  BY DEF PublishedByThisProcess, OneEndpoint, Published, Unpublished, Running
<1>5. PublishedOrOnItsWay'
  BY DEF PublishedOrOnItsWay, OneEndpoint, Published, Unpublished, Running, MidReload, TypeOK
<1>6. StopIsLast'
  BY DEF StopIsLast, OneEndpoint, OneSocket, Published, Unpublished, Running, MidReload, TypeOK
<1> QED BY <1>1, <1>2, <1>3, <1>4, <1>5, <1>6

\* Nothing is bound over what could not be removed.
LEMMA BindIInv ==
  ASSUME IInv, Bind PROVE IInv'
<1> USE DEF IInv, Bind, Removed, channel, state, signals, env
<1>1. TypeOK'
  <2>1. runtime_state.endpoint \in Endpoints
    BY DEF OneEndpoint, Running, Published, Config
  <2>2. socket' \in [Endpoints -> {"none", "live", "stale"}]
    BY <2>1 DEF TypeOK
  <2>3. listening' \in Endpoints \cup {None} /\ main' \in MainStages /\ kept' \in BOOLEAN
    BY <2>1 DEF TypeOK, MainStages
  <2>4. exit' \in {"none", "graceful", "error", "in_use", "crash"}
    BY DEF TypeOK
  <2> QED BY <2>2, <2>3, <2>4 DEF TypeOK
<1>2. OneEndpoint'
  BY DEF OneEndpoint, TypeOK, Running, Unpublished, Published, MidReload, Config
<1>3. OneSocket'
  BY DEF OneSocket, OneEndpoint, TypeOK, Running, Published, Config
<1>4. PublishedByThisProcess'
  BY DEF PublishedByThisProcess, OneEndpoint, Published, Unpublished, Running
<1>5. PublishedOrOnItsWay'
  BY DEF PublishedOrOnItsWay, OneEndpoint, Published, Unpublished, Running, MidReload, TypeOK
<1>6. StopIsLast'
  BY DEF StopIsLast, OneEndpoint, OneSocket, Published, Unpublished, Running, MidReload, TypeOK
<1> QED BY <1>1, <1>2, <1>3, <1>4, <1>5, <1>6

\* A message means that the signal task has ended.
LEMMA ReceiveShutdownIInv ==
  ASSUME IInv, ReceiveShutdown PROVE IInv'
<1> USE DEF IInv, ReceiveShutdown, Goto, disk, channel, state, signals, env
<1>1. TypeOK'
  BY DEF TypeOK, MainStages, MidReload
<1>2. OneEndpoint'
  BY DEF OneEndpoint, TypeOK, Running, Unpublished, Published, MidReload, Config
<1>3. OneSocket'
  BY DEF OneSocket, OneEndpoint, TypeOK, Running, Published, Config
<1>4. PublishedByThisProcess'
  BY DEF PublishedByThisProcess, OneEndpoint, Published, Unpublished, Running
<1>5. PublishedOrOnItsWay'
  BY DEF PublishedOrOnItsWay, OneEndpoint, Published, Unpublished, Running, MidReload, TypeOK
<1>6. StopIsLast'
  BY DEF StopIsLast, OneEndpoint, OneSocket, Published, Unpublished, Running, MidReload, TypeOK
<1> QED BY <1>1, <1>2, <1>3, <1>4, <1>5, <1>6

LEMMA UnbindIInv ==
  ASSUME IInv, Unbind PROVE IInv'
<1> USE DEF IInv, Unbind, Removed, Goto, channel, state, signals, env
<1>1. TypeOK'
  BY DEF TypeOK, MainStages, MidReload, OneSocket, OneEndpoint, Running, Published, Config
<1>2. OneEndpoint'
  BY DEF OneEndpoint, TypeOK, Running, Unpublished, Published, MidReload, Config
<1>3. OneSocket'
  BY DEF OneSocket, OneEndpoint, TypeOK, Running, Published, Config
<1>4. PublishedByThisProcess'
  BY DEF PublishedByThisProcess, OneEndpoint, Published, Unpublished, Running
<1>5. PublishedOrOnItsWay'
  BY DEF PublishedOrOnItsWay, OneEndpoint, Published, Unpublished, Running, MidReload, TypeOK
<1>6. StopIsLast'
  <2>1. listening = config_snapshot.endpoint /\ listening \in Endpoints
    BY DEF OneSocket, OneEndpoint, Running, Published, Config
  <2>2. socket'[listening] = "none" \/ kept'
    BY <2>1 DEF TypeOK
  <2> QED BY <2>1, <2>2 DEF StopIsLast
<1> QED BY <1>1, <1>2, <1>3, <1>4, <1>5, <1>6

LEMMA CleanupIInv ==
  ASSUME IInv, Cleanup PROVE IInv'
<1> USE DEF IInv, Cleanup, Goto, channel, state, signals, env
<1>1. TypeOK'
  BY DEF TypeOK, MainStages, MidReload, OneEndpoint, Running, Published
<1>2. OneEndpoint'
  BY DEF OneEndpoint, TypeOK, Running, Unpublished, Published, MidReload, Config
<1>3. OneSocket'
  BY DEF OneSocket, OneEndpoint, TypeOK, Running, Published, Config
<1>4. PublishedByThisProcess'
  BY DEF PublishedByThisProcess, OneEndpoint, Published, Unpublished, Running
<1>5. PublishedOrOnItsWay'
  BY DEF PublishedOrOnItsWay, OneEndpoint, Published, Unpublished, Running, MidReload, TypeOK
<1>6. StopIsLast'
  BY DEF StopIsLast, OneEndpoint, OneSocket, Published, Unpublished, Running, MidReload, TypeOK
<1> QED BY <1>1, <1>2, <1>3, <1>4, <1>5, <1>6

LEMMA ExitIInv ==
  ASSUME IInv, Exit PROVE IInv'
<1> USE DEF IInv, Exit, Goto, ProcessGone, disk, env
<1>1. TypeOK'
  BY DEF TypeOK, MainStages, MidReload
<1>2. OneEndpoint'
  BY DEF OneEndpoint, TypeOK, Running, Unpublished, Published, MidReload, Config
<1>3. OneSocket'
  BY DEF OneSocket, OneEndpoint, TypeOK, Running, Published, Config
<1>4. PublishedByThisProcess'
  BY DEF PublishedByThisProcess, OneEndpoint, Published, Unpublished, Running
<1>5. PublishedOrOnItsWay'
  BY DEF PublishedOrOnItsWay, OneEndpoint, Published, Unpublished, Running, MidReload, TypeOK
<1>6. StopIsLast'
  BY DEF StopIsLast, OneEndpoint, OneSocket, Published, Unpublished, Running, MidReload, TypeOK
<1> QED BY <1>1, <1>2, <1>3, <1>4, <1>5, <1>6

LEMMA StartFailsIInv ==
  ASSUME IInv, StartFails PROVE IInv'
<1> USE DEF IInv, StartFails, disk, channel, state, signals, env
<1>1. TypeOK'
  BY DEF TypeOK, MainStages, MidReload
<1>2. OneEndpoint'
  BY DEF OneEndpoint, TypeOK, Running, Unpublished, Published, MidReload, Config
<1>3. OneSocket'
  BY DEF OneSocket, OneEndpoint, TypeOK, Running, Published, Config
<1>4. PublishedByThisProcess'
  BY DEF PublishedByThisProcess, OneEndpoint, Published, Unpublished, Running
<1>5. PublishedOrOnItsWay'
  BY DEF PublishedOrOnItsWay, OneEndpoint, Published, Unpublished, Running, MidReload, TypeOK
<1>6. StopIsLast'
  BY DEF StopIsLast, OneEndpoint, OneSocket, Published, Unpublished, Running, MidReload, TypeOK
<1> QED BY <1>1, <1>2, <1>3, <1>4, <1>5, <1>6

LEMMA PidWriteFailsIInv ==
  ASSUME IInv, PidWriteFails PROVE IInv'
<1> USE DEF IInv, PidWriteFails, Goto, channel, state, signals, env
<1>1. TypeOK'
  BY DEF TypeOK, MainStages, MidReload, OneEndpoint, Running, Unpublished, Config
<1>2. OneEndpoint'
  BY DEF OneEndpoint, TypeOK, Running, Unpublished, Published, MidReload, Config
<1>3. OneSocket'
  BY DEF OneSocket, OneEndpoint, TypeOK, Running, Published, Config
<1>4. PublishedByThisProcess'
  BY DEF PublishedByThisProcess, OneEndpoint, Published, Unpublished, Running
<1>5. PublishedOrOnItsWay'
  BY DEF PublishedOrOnItsWay, OneEndpoint, Published, Unpublished, Running, MidReload, TypeOK
<1>6. StopIsLast'
  BY DEF StopIsLast, OneEndpoint, OneSocket, Published, Unpublished, Running, MidReload, TypeOK
<1> QED BY <1>1, <1>2, <1>3, <1>4, <1>5, <1>6

LEMMA PublishFailsIInv ==
  ASSUME IInv, PublishFails PROVE IInv'
<1> USE DEF IInv, PublishFails, CutShort, Goto, channel, state, signals, env
<1>1. TypeOK'
  BY DEF TypeOK, MainStages, MidReload
<1>2. OneEndpoint'
  BY DEF OneEndpoint, TypeOK, Running, Unpublished, Published, MidReload, Config
<1>3. OneSocket'
  BY DEF OneSocket, OneEndpoint, TypeOK, Running, Published, Config
<1>4. PublishedByThisProcess'
  BY DEF PublishedByThisProcess, OneEndpoint, Published, Unpublished, Running
<1>5. PublishedOrOnItsWay'
  BY DEF PublishedOrOnItsWay, OneEndpoint, Published, Unpublished, Running, MidReload, TypeOK
<1>6. StopIsLast'
  BY DEF StopIsLast, OneEndpoint, OneSocket, Published, Unpublished, Running, MidReload, TypeOK
<1> QED BY <1>1, <1>2, <1>3, <1>4, <1>5, <1>6

LEMMA BindFailsIInv ==
  ASSUME IInv, BindFails PROVE IInv'
<1> USE DEF IInv, BindFails, Goto, channel, state, signals, env
<1>1. TypeOK'
  <2>1. socket' \in [Endpoints -> {"none", "live", "stale"}]
    BY DEF TypeOK
  <2>2. main' \in MainStages /\ exit' \in {"error"}
    BY DEF MainStages
  <2> QED BY <2>1, <2>2 DEF TypeOK
<1>2. OneEndpoint'
  BY DEF OneEndpoint, TypeOK, Running, Unpublished, Published, MidReload, Config
<1>3. OneSocket'
  BY DEF OneSocket, OneEndpoint, TypeOK, Running, Published, Config
<1>4. PublishedByThisProcess'
  BY DEF PublishedByThisProcess, OneEndpoint, Published, Unpublished, Running
<1>5. PublishedOrOnItsWay'
  BY DEF PublishedOrOnItsWay, OneEndpoint, Published, Unpublished, Running, MidReload, TypeOK
<1>6. StopIsLast'
  BY DEF StopIsLast, OneEndpoint, OneSocket, Published, Unpublished, Running, MidReload, TypeOK
<1> QED BY <1>1, <1>2, <1>3, <1>4, <1>5, <1>6

LEMMA BeginSessionIInv ==
  ASSUME IInv, NEW k \in Sessions, BeginSession(k) PROVE IInv'
<1> USE DEF IInv, BeginSession, disk, channel, state, signals, env
<1>1. TypeOK'
  BY DEF TypeOK, MainStages, MidReload
<1>2. OneEndpoint'
  BY DEF OneEndpoint, TypeOK, Running, Unpublished, Published, MidReload, Config
<1>3. OneSocket'
  BY DEF OneSocket, OneEndpoint, TypeOK, Running, Published, Config
<1>4. PublishedByThisProcess'
  BY DEF PublishedByThisProcess, OneEndpoint, Published, Unpublished, Running
<1>5. PublishedOrOnItsWay'
  BY DEF PublishedOrOnItsWay, OneEndpoint, Published, Unpublished, Running, MidReload, TypeOK
<1>6. StopIsLast'
  BY DEF StopIsLast, OneEndpoint, OneSocket, Published, Unpublished, Running, MidReload, TypeOK
<1> QED BY <1>1, <1>2, <1>3, <1>4, <1>5, <1>6

LEMMA EndSessionIInv ==
  ASSUME IInv, NEW k \in Sessions, EndSession(k) PROVE IInv'
<1> USE DEF IInv, EndSession, disk, channel, state, signals, env
<1>1. TypeOK'
  BY DEF TypeOK, MainStages, MidReload
<1>2. OneEndpoint'
  BY DEF OneEndpoint, TypeOK, Running, Unpublished, Published, MidReload, Config
<1>3. OneSocket'
  BY DEF OneSocket, OneEndpoint, TypeOK, Running, Published, Config
<1>4. PublishedByThisProcess'
  BY DEF PublishedByThisProcess, OneEndpoint, Published, Unpublished, Running
<1>5. PublishedOrOnItsWay'
  BY DEF PublishedOrOnItsWay, OneEndpoint, Published, Unpublished, Running, MidReload, TypeOK
<1>6. StopIsLast'
  BY DEF StopIsLast, OneEndpoint, OneSocket, Published, Unpublished, Running, MidReload, TypeOK
<1> QED BY <1>1, <1>2, <1>3, <1>4, <1>5, <1>6

LEMMA BeginReloadIInv ==
  ASSUME IInv, BeginReload PROVE IInv'
<1> USE DEF IInv, BeginReload, disk, TaskGoto, channel, state, env
<1>1. TypeOK'
  BY DEF TypeOK, MainStages, MidReload, Signal
<1>2. OneEndpoint'
  BY DEF OneEndpoint, TypeOK, Running, Unpublished, Published, MidReload, Config
<1>3. OneSocket'
  BY DEF OneSocket, OneEndpoint, TypeOK, Running, Published, Config
<1>4. PublishedByThisProcess'
  BY DEF PublishedByThisProcess, OneEndpoint, Published, Unpublished, Running
<1>5. PublishedOrOnItsWay'
  BY DEF PublishedOrOnItsWay, OneEndpoint, Published, Unpublished, Running, MidReload, TypeOK
<1>6. StopIsLast'
  BY DEF StopIsLast, OneEndpoint, OneSocket, Published, Unpublished, Running, MidReload, TypeOK
<1> QED BY <1>1, <1>2, <1>3, <1>4, <1>5, <1>6

\* A reload keeps the endpoint.
LEMMA ReloadLoadsIInv ==
  ASSUME IInv, ReloadLoads PROVE IInv'
<1> USE DEF IInv, ReloadLoads, Loads, Deferred, disk, TaskGoto, channel, state, env
<1>1. TypeOK'
  BY DEF TypeOK, MainStages, MidReload, Config, OneEndpoint
<1>2. OneEndpoint'
  BY DEF OneEndpoint, TypeOK, Running, Unpublished, Published, MidReload, Config
<1>3. OneSocket'
  BY DEF OneSocket, OneEndpoint, TypeOK, Running, Published, Config
<1>4. PublishedByThisProcess'
  BY DEF PublishedByThisProcess, OneEndpoint, Published, Unpublished, Running
<1>5. PublishedOrOnItsWay'
  BY DEF PublishedOrOnItsWay, OneEndpoint, Published, Unpublished, Running, MidReload, TypeOK
<1>6. StopIsLast'
  BY DEF StopIsLast, OneEndpoint, OneSocket, Published, Unpublished, Running, MidReload, TypeOK
<1> QED BY <1>1, <1>2, <1>3, <1>4, <1>5, <1>6

LEMMA ReloadRefusedIInv ==
  ASSUME IInv, ReloadRefused PROVE IInv'
<1> USE DEF IInv, ReloadRefused, disk, TaskGoto, channel, state, env
<1>1. TypeOK'
  BY DEF TypeOK, MainStages, MidReload
<1>2. OneEndpoint'
  BY DEF OneEndpoint, TypeOK, Running, Unpublished, Published, MidReload, Config
<1>3. OneSocket'
  BY DEF OneSocket, OneEndpoint, TypeOK, Running, Published, Config
<1>4. PublishedByThisProcess'
  BY DEF PublishedByThisProcess, OneEndpoint, Published, Unpublished, Running
<1>5. PublishedOrOnItsWay'
  BY DEF PublishedOrOnItsWay, OneEndpoint, Published, Unpublished, Running, MidReload, TypeOK
<1>6. StopIsLast'
  BY DEF StopIsLast, OneEndpoint, OneSocket, Published, Unpublished, Running, MidReload, TypeOK
<1> QED BY <1>1, <1>2, <1>3, <1>4, <1>5, <1>6

LEMMA ReloadSwapsIInv ==
  ASSUME IInv, ReloadSwaps PROVE IInv'
<1> USE DEF IInv, ReloadSwaps, TaskGoto, disk, channel, env
<1>1. TypeOK'
  BY DEF TypeOK, MainStages, MidReload
<1>2. OneEndpoint'
  BY DEF OneEndpoint, TypeOK, Running, Unpublished, Published, MidReload, Config
<1>3. OneSocket'
  BY DEF OneSocket, OneEndpoint, TypeOK, Running, Published, Config
<1>4. PublishedByThisProcess'
  BY DEF PublishedByThisProcess, OneEndpoint, Published, Unpublished, Running
<1>5. PublishedOrOnItsWay'
  BY DEF PublishedOrOnItsWay, OneEndpoint, Published, Unpublished, Running, MidReload, TypeOK
<1>6. StopIsLast'
  BY DEF StopIsLast, OneEndpoint, OneSocket, Published, Unpublished, Running, MidReload, TypeOK
<1> QED BY <1>1, <1>2, <1>3, <1>4, <1>5, <1>6

LEMMA ReloadOpensRuntimeFileIInv ==
  ASSUME IInv, ReloadOpensRuntimeFile PROVE IInv'
<1> USE SentinelsAssumption
    DEF IInv, ReloadOpensRuntimeFile, Truncated, TaskGoto, channel, state, env
<1>1. TypeOK'
  BY DEF TypeOK, MainStages, MidReload
<1>2. OneEndpoint'
  BY DEF OneEndpoint, TypeOK, Running, Unpublished, Published, MidReload, Config
<1>3. OneSocket'
  BY DEF OneSocket, OneEndpoint, TypeOK, Running, Published, Config
<1>4. PublishedByThisProcess'
  BY Sentinels DEF PublishedByThisProcess, OneEndpoint, Published, Unpublished,
     Running, TypeOK
<1>5. PublishedOrOnItsWay'
  BY DEF PublishedOrOnItsWay, OneEndpoint, Published, Unpublished, Running, MidReload, TypeOK
<1>6. StopIsLast'
  BY DEF StopIsLast, OneEndpoint, OneSocket, Published, Unpublished, Running, MidReload, TypeOK
<1> QED BY <1>1, <1>2, <1>3, <1>4, <1>5, <1>6

\* A reload writes what it swapped in.
LEMMA ReloadWritesIInv ==
  ASSUME IInv, ReloadWrites PROVE IInv'
<1> USE SentinelsAssumption
    DEF IInv, ReloadWrites, Written, ToPublish, AfterReload, TaskGoto, channel, state, env
<1>1. TypeOK'
  BY DEF TypeOK, MainStages, MidReload, OneEndpoint
<1>2. OneEndpoint'
  BY DEF OneEndpoint, TypeOK, Running, Unpublished, Published, MidReload, Config
<1>3. OneSocket'
  BY DEF OneSocket, OneEndpoint, TypeOK, Running, Published, Config
<1>4. PublishedByThisProcess'
  BY Sentinels DEF PublishedByThisProcess, OneEndpoint, Published, Unpublished,
     Running, TypeOK
<1>5. PublishedOrOnItsWay'
  BY DEF PublishedOrOnItsWay, OneEndpoint, Published, Unpublished, Running, MidReload, TypeOK
<1>6. StopIsLast'
  BY DEF StopIsLast, OneEndpoint, OneSocket, Published, Unpublished, Running, MidReload, TypeOK
<1> QED BY <1>1, <1>2, <1>3, <1>4, <1>5, <1>6

\* Or it says that it did not.
LEMMA ReloadCannotWriteIInv ==
  ASSUME IInv, ReloadCannotWrite PROVE IInv'
<1> USE SentinelsAssumption DEF IInv, ReloadCannotWrite, CutShort, TaskGoto, channel, state, env
<1>1. TypeOK'
  BY DEF TypeOK, MainStages, MidReload
<1>2. OneEndpoint'
  BY DEF OneEndpoint, TypeOK, Running, Unpublished, Published, MidReload, Config
<1>3. OneSocket'
  BY DEF OneSocket, OneEndpoint, TypeOK, Running, Published, Config
<1>4. PublishedByThisProcess'
  BY Sentinels DEF PublishedByThisProcess, OneEndpoint, Published, Unpublished,
     Running, TypeOK
<1>5. PublishedOrOnItsWay'
  BY DEF PublishedOrOnItsWay, OneEndpoint, Published, Unpublished, Running, MidReload, TypeOK
<1>6. StopIsLast'
  BY DEF StopIsLast, OneEndpoint, OneSocket, Published, Unpublished, Running, MidReload, TypeOK
<1> QED BY <1>1, <1>2, <1>3, <1>4, <1>5, <1>6

LEMMA RequestShutdownIInv ==
  ASSUME IInv, RequestShutdown PROVE IInv'
<1> USE DEF IInv, RequestShutdown, AfterShutdown, Delivered, disk, TaskGoto, state, env
<1>1. TypeOK'
  BY DEF TypeOK, MainStages, MidReload, Signal
<1>2. OneEndpoint'
  BY DEF OneEndpoint, TypeOK, Running, Unpublished, Published, MidReload, Config
<1>3. OneSocket'
  BY DEF OneSocket, OneEndpoint, TypeOK, Running, Published, Config
<1>4. PublishedByThisProcess'
  BY DEF PublishedByThisProcess, OneEndpoint, Published, Unpublished, Running
<1>5. PublishedOrOnItsWay'
  BY DEF PublishedOrOnItsWay, OneEndpoint, Published, Unpublished, Running, MidReload, TypeOK
<1>6. StopIsLast'
  BY DEF StopIsLast, OneEndpoint, OneSocket, Published, Unpublished, Running, MidReload, TypeOK
<1> QED BY <1>1, <1>2, <1>3, <1>4, <1>5, <1>6

LEMMA DeliverIInv ==
  ASSUME IInv, NEW s \in Signal, Deliver(s) PROVE IInv'
<1> USE BoundsAssumption DEF IInv, Deliver, disk, channel, state, signals, env
<1>1. TypeOK'
  BY DEF TypeOK, MainStages, MidReload, Signal
<1>2. OneEndpoint'
  BY DEF OneEndpoint, TypeOK, Running, Unpublished, Published, MidReload, Config
<1>3. OneSocket'
  BY DEF OneSocket, OneEndpoint, TypeOK, Running, Published, Config
<1>4. PublishedByThisProcess'
  BY DEF PublishedByThisProcess, OneEndpoint, Published, Unpublished, Running
<1>5. PublishedOrOnItsWay'
  BY DEF PublishedOrOnItsWay, OneEndpoint, Published, Unpublished, Running, MidReload, TypeOK
<1>6. StopIsLast'
  BY DEF StopIsLast, OneEndpoint, OneSocket, Published, Unpublished, Running, MidReload, TypeOK
<1> QED BY <1>1, <1>2, <1>3, <1>4, <1>5, <1>6

LEMMA EditConfigIInv ==
  ASSUME IInv, NEW c \in Config \cup {Bad}, EditConfig(c) PROVE IInv'
<1> USE BoundsAssumption DEF IInv, EditConfig, disk, channel, state, signals
<1>1. TypeOK'
  BY DEF TypeOK, MainStages, MidReload
<1>2. OneEndpoint'
  BY DEF OneEndpoint, TypeOK, Running, Unpublished, Published, MidReload, Config
<1>3. OneSocket'
  BY DEF OneSocket, OneEndpoint, TypeOK, Running, Published, Config
<1>4. PublishedByThisProcess'
  BY DEF PublishedByThisProcess, OneEndpoint, Published, Unpublished, Running
<1>5. PublishedOrOnItsWay'
  BY DEF PublishedOrOnItsWay, OneEndpoint, Published, Unpublished, Running, MidReload, TypeOK
<1>6. StopIsLast'
  BY DEF StopIsLast, OneEndpoint, OneSocket, Published, Unpublished, Running, MidReload, TypeOK
<1> QED BY <1>1, <1>2, <1>3, <1>4, <1>5, <1>6

LEMMA CrashIInv ==
  ASSUME IInv, Crash PROVE IInv'
<1> USE DEF IInv, Crash, ProcessGone, env
<1>1. TypeOK'
  BY DEF TypeOK, MainStages, MidReload
<1>2. OneEndpoint'
  BY DEF OneEndpoint, TypeOK, Running, Unpublished, Published, MidReload, Config
<1>3. OneSocket'
  BY DEF OneSocket, OneEndpoint, TypeOK, Running, Published, Config
<1>4. PublishedByThisProcess'
  BY DEF PublishedByThisProcess, OneEndpoint, Published, Unpublished, Running
<1>5. PublishedOrOnItsWay'
  BY DEF PublishedOrOnItsWay, OneEndpoint, Published, Unpublished, Running, MidReload, TypeOK
<1>6. StopIsLast'
  BY DEF StopIsLast, OneEndpoint, OneSocket, Published, Unpublished, Running, MidReload, TypeOK
<1> QED BY <1>1, <1>2, <1>3, <1>4, <1>5, <1>6

LEMMA NextIInv == IInv /\ [Next]_vars => IInv'
<1> SUFFICES ASSUME IInv, [Next]_vars PROVE IInv'
  OBVIOUS
<1>1. CASE UNCHANGED vars
  BY <1>1 DEF vars, IInv, TypeOK, OneEndpoint, OneSocket, PublishedByThisProcess,
              PublishedOrOnItsWay, StopIsLast
<1>2. CASE Start \/ MainFails \/ Crash
  BY <1>2, StartIInv, StartFailsIInv, PidWriteFailsIInv, PublishFailsIInv, BindFailsIInv,
     CrashIInv DEF MainFails
<1>3. CASE MainStep
  BY <1>3, LoadInitialIInv, InstallHandlersIInv, WritePidFileIInv,
     OpenRuntimeFileIInv, PublishIInv, SubscribeIInv, BindIInv,
     ReceiveShutdownIInv, UnbindIInv, CleanupIInv, ExitIInv
     DEF MainStep
<1>4. CASE TaskStep
  BY <1>4, BeginReloadIInv, ReloadLoadsIInv, ReloadRefusedIInv, ReloadSwapsIInv,
     ReloadOpensRuntimeFileIInv, ReloadWritesIInv, ReloadCannotWriteIInv,
     RequestShutdownIInv DEF TaskStep
<1>5. ASSUME NEW s \in Signal, Deliver(s) PROVE IInv'
  BY <1>5, DeliverIInv
<1>6. ASSUME NEW c \in Config \cup {Bad}, EditConfig(c) PROVE IInv'
  BY <1>6, EditConfigIInv
<1>7. ASSUME NEW k \in Sessions, BeginSession(k) \/ EndSession(k) PROVE IInv'
  BY <1>7, BeginSessionIInv, EndSessionIInv
<1> QED BY <1>1, <1>2, <1>3, <1>4, <1>5, <1>6, <1>7 DEF Next

LEMMA AlwaysIInv == Spec => []IInv
<1> QED BY InitIInv, NextIInv, PTL DEF Spec

-----------------------------------------------------------------------------
(* The invariants                                                          *)

\* main.rs, runtime.rs: every variable of the process and every file it leaves
\* keeps its type; what is published and whole is always a configuration that
\* loaded.
THEOREM TypeCorrect == Spec => []TypeOK
<1>1. IInv => TypeOK
  BY DEF IInv
<1> QED BY <1>1, AlwaysIInv, PTL

\* runtime.rs:70-78: the runtime-state file of a daemon that serves names the
\* socket it serves, after any sequence of edits, reloads and restarts.
THEOREM PublishedAlwaysServed == Spec => []PublishedEndpointIsServed
<1>1. IInv => PublishedEndpointIsServed
  BY DEF IInv, PublishedEndpointIsServed, PublishedByThisProcess, OneSocket,
         Published, Serving
<1> QED BY <1>1, AlwaysIInv, PTL

\* runtime.rs:80-93: between reloads the published configuration is the running
\* one, unless a reload overtook main's write or could not write.
THEOREM PublishedAlwaysRunning == Spec => []PublishedIsRunning
<1>1. IInv => PublishedIsRunning
  BY DEF IInv, PublishedIsRunning, PublishedOrOnItsWay, Published, Serving
<1> QED BY <1>1, AlwaysIInv, PTL

\* main.rs:70-91: a stop on request leaves no pid file, socket or runtime state,
\* and no reload brings one back.
THEOREM StopLeavesNothing == Spec => []GracefulStopLeavesNothing
<1>1. IInv => GracefulStopLeavesNothing
  BY DEF IInv, GracefulStopLeavesNothing, StopIsLast, OneSocket
<1> QED BY <1>1, AlwaysIInv, PTL
=============================================================================
