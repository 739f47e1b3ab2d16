-------------------------- MODULE AuthControlProofs --------------------------
(***************************************************************************)
(* Proofs about AuthControl, for any set of handlers, any set of cancellers *)
(* and any bound on the number of sessions.  One induction establishes     *)
(* IInv; the invariants the runs check and the implementation of           *)
(* CancelService follow from it.                                           *)
(***************************************************************************)
EXTENDS AuthControl, TLAPS

-----------------------------------------------------------------------------
(* The inductive invariant                                                 *)

LEMMA InitIInv == Init => IInv
  BY MaxSessionsAssumption
     DEF Init, IInv, TypeOK, Ids, IdsAllotted, MapMatchesHandlers, InMap,
         CurrentHasOwner, AloneMeansAlone, Idle

\* Drawing an id touches the counter, one handler and the history.
LEMMA RegisterIdIInv ==
  ASSUME IInv, NEW h \in Handlers, RegisterId(h) PROVE IInv'
<1> USE MaxSessionsAssumption DEF IInv, RegisterId, NewId, Goto, Idle, InMap, TypeOK, Ids, cancellerVars
<1>1. TypeOK'
  OBVIOUS
<1>2. IdsAllotted'
  BY DEF IdsAllotted
<1>3. MapMatchesHandlers'
  BY DEF MapMatchesHandlers, IdsAllotted
<1>4. CurrentHasOwner'
  BY DEF CurrentHasOwner
<1>5. AloneMeansAlone'
  BY DEF AloneMeansAlone
<1> QED BY <1>1, <1>2, <1>3, <1>4, <1>5

LEMMA RegisterInsertIInv ==
  ASSUME IInv, NEW h \in Handlers, RegisterInsert(h) PROVE IInv'
<1> USE MaxSessionsAssumption DEF IInv, RegisterInsert, Goto, Idle, InMap, TypeOK, Ids, cancellerVars, historyVars
<1>1. my_id[h] \in Ids
  BY DEF IdsAllotted
<1>2. TypeOK'
  BY <1>1
<1>3. IdsAllotted'
  BY DEF IdsAllotted
<1>4. MapMatchesHandlers'
  BY DEF MapMatchesHandlers
<1>5. CurrentHasOwner'
  BY DEF CurrentHasOwner
<1>6. AloneMeansAlone'
  BY DEF AloneMeansAlone
<1> QED BY <1>2, <1>3, <1>4, <1>5, <1>6

\* The stored id is the handler's own, so it has an owner; a lone handler's
\* store is the last one.
LEMMA RegisterPublishIInv ==
  ASSUME IInv, NEW h \in Handlers, RegisterPublish(h) PROVE IInv'
<1> USE MaxSessionsAssumption DEF IInv, RegisterPublish, PublishedId, Goto, Idle, InMap, TypeOK, Ids, cancellerVars, historyVars
<1>1. TypeOK'
  OBVIOUS
<1>2. IdsAllotted'
  BY DEF IdsAllotted
<1>3. MapMatchesHandlers'
  BY DEF MapMatchesHandlers
<1>4. CurrentHasOwner'
  BY DEF CurrentHasOwner
<1>5. AloneMeansAlone'
  BY DEF AloneMeansAlone
<1> QED BY <1>1, <1>2, <1>3, <1>4, <1>5

\* Ids are distinct, so removing one entry leaves every other handler's.
LEMMA FinishRemoveIInv ==
  ASSUME IInv, NEW h \in Handlers, FinishRemove(h) PROVE IInv'
<1> USE MaxSessionsAssumption DEF IInv, FinishRemove, WithoutEntry, Goto, Idle, InMap, TypeOK, Ids, cancellerVars
<1>1. TypeOK'
  OBVIOUS
<1>2. IdsAllotted'
  BY DEF IdsAllotted
<1>3. MapMatchesHandlers'
  BY DEF MapMatchesHandlers, IdsAllotted
<1>4. CurrentHasOwner'
  BY DEF CurrentHasOwner
<1>5. AloneMeansAlone'
  BY DEF AloneMeansAlone
<1> QED BY <1>1, <1>2, <1>3, <1>4, <1>5

\* Only a handler whose id is not current leaves without clearing.
LEMMA FinishCompareIInv ==
  ASSUME IInv, NEW h \in Handlers, FinishCompare(h) PROVE IInv'
<1> USE MaxSessionsAssumption DEF IInv, FinishCompare, OwnsCurrent, Goto, Idle, InMap, TypeOK, Ids, cancellerVars, historyVars
<1>1. TypeOK'
  OBVIOUS
<1>2. IdsAllotted'
  BY DEF IdsAllotted
<1>3. MapMatchesHandlers'
  BY DEF MapMatchesHandlers
<1>4. CurrentHasOwner'
  BY DEF CurrentHasOwner
<1>5. AloneMeansAlone'
  BY DEF AloneMeansAlone
<1> QED BY <1>1, <1>2, <1>3, <1>4, <1>5

\* Clearing may hit another handler's id, but never that of a lone one.
LEMMA FinishClearIInv ==
  ASSUME IInv, NEW h \in Handlers, FinishClear(h) PROVE IInv'
<1> USE MaxSessionsAssumption DEF IInv, FinishClear, Goto, Idle, InMap, TypeOK, Ids, cancellerVars, historyVars
<1>1. TypeOK'
  OBVIOUS
<1>2. IdsAllotted'
  BY DEF IdsAllotted
<1>3. MapMatchesHandlers'
  BY DEF MapMatchesHandlers
<1>4. CurrentHasOwner'
  BY DEF CurrentHasOwner
<1>5. AloneMeansAlone'
  BY DEF AloneMeansAlone
<1> QED BY <1>1, <1>2, <1>3, <1>4, <1>5

LEMMA CancelIInv ==
  ASSUME IInv, NEW c \in Cancellers, Cancel(c) PROVE IInv'
<1> USE MaxSessionsAssumption DEF IInv, Idle, InMap, handlerVars, historyVars
<1>1. TypeOK' /\ IdsAllotted'
  <2>1. CASE CancelLoad(c)
    BY <2>1 DEF CancelLoad, RunningIds, IdsAllotted, TypeOK, Ids
  <2>2. CASE CancelLookup(c)
    <3> USE DEF CancelLookup, IdsAllotted, TypeOK, Ids
    <3>1. cancelled' \in {cancelled, cancelled \cup {seen[c]}}
      BY <2>2
    <3>2. cancelled' # cancelled => seen[c] \in Ids
      BY <2>2 DEF StillRegistered
    <3>3. cancelled' \subseteq Ids
      BY <3>1, <3>2
    <3>4. reply' \in [Cancellers -> {"none", "flagged", "nothing"}]
      BY <2>2
    <3> QED BY <2>2, <3>3, <3>4
  <2> QED BY <2>1, <2>2 DEF Cancel
<1>2. UNCHANGED <<handlerVars, current_id, sessions, overlapped>>
  BY DEF Cancel, CancelLoad, CancelLookup
<1>3. MapMatchesHandlers' /\ CurrentHasOwner' /\ AloneMeansAlone'
  BY <1>2 DEF MapMatchesHandlers, CurrentHasOwner, AloneMeansAlone
<1> QED BY <1>1, <1>3

LEMMA NextIInv == IInv /\ [Next]_vars => IInv'
<1> SUFFICES ASSUME IInv, [Next]_vars PROVE IInv'
  OBVIOUS
<1>1. CASE UNCHANGED vars
  BY <1>1 DEF vars, IInv, TypeOK, Ids, IdsAllotted, MapMatchesHandlers, InMap,
              CurrentHasOwner, AloneMeansAlone, Idle
<1>2. ASSUME NEW h \in Handlers, Register(h) \/ Finish(h) PROVE IInv'
  BY <1>2, RegisterIdIInv, RegisterInsertIInv, RegisterPublishIInv,
     FinishRemoveIInv, FinishCompareIInv, FinishClearIInv DEF Register, Finish
<1>3. ASSUME NEW c \in Cancellers, Cancel(c) PROVE IInv'
  BY <1>3, CancelIInv
<1> QED BY <1>1, <1>2, <1>3 DEF Next

LEMMA AlwaysIInv == Spec => []IInv
<1> QED BY InitIInv, NextIInv, PTL DEF Spec

-----------------------------------------------------------------------------
(* The invariants                                                          *)

\* Every variable of the registry and of its callers keeps its type; in
\* particular no session is ever registered under 0, which means "none".
THEOREM TypeCorrect == Spec => []TypeOK
<1>1. IInv => TypeOK
  BY DEF IInv
<1> QED BY <1>1, AlwaysIInv, PTL

\* control.rs: current_id never outlives the session it names, other than
\* between that session's remove and its conditional clear.
THEOREM CurrentNeverStale == Spec => []CurrentIsNotStale
<1>1. IInv => CurrentIsNotStale
  BY DEF IInv, CurrentIsNotStale, CurrentHasOwner, MapMatchesHandlers, InMap
<1> QED BY <1>1, AlwaysIInv, PTL

\* control.rs: with no call in progress the map and the current id are empty.
THEOREM QuiescentIsEmpty == Spec => []QuiescentRegistry
<1>1. IInv => QuiescentRegistry
  BY DEF IInv, QuiescentRegistry, CurrentHasOwner, MapMatchesHandlers, InMap, Idle
<1> QED BY <1>1, AlwaysIInv, PTL

\* control.rs: cancel_current finds a session that overlaps with no other.
THEOREM LoneSessionFound == Spec => []LoneSessionIsCancellable
<1>1. IInv => LoneSessionIsCancellable
  BY DEF IInv, LoneSessionIsCancellable, AloneMeansAlone, MapMatchesHandlers, InMap, Idle
<1> QED BY <1>1, AlwaysIInv, PTL

-----------------------------------------------------------------------------
(* Implementation of CancelService                                         *)

Waiting == {my_id[h] : h \in {g \in Handlers : pc[g] = "insert"}}
Opened  == (1..next_id) \ Waiting

LEMMA InitService == Init => Service!Init
<1> SUFFICES ASSUME Init PROVE Service!Init
  OBVIOUS
<1>1. Opened = {}
  BY DEF Init, Opened
<1> QED BY <1>1 DEF Init, Service!Init, Opened, Waiting

\* Drawing an id leaves the opened ids alone: the new one is not yet inserted.
LEMMA DrawIsInvisible ==
  ASSUME IInv, NEW h \in Handlers, RegisterId(h) PROVE Opened' = Opened
<1> USE DEF IInv, TypeOK, IdsAllotted, RegisterId, NewId, Goto, Idle
<1>1. Waiting' = Waiting \cup {next_id + 1}
  BY DEF Waiting
<1> QED BY <1>1, MaxSessionsAssumption DEF Opened

\* Inserting the entry is the Open step, under an id nobody holds.
LEMMA InsertOpens ==
  ASSUME IInv, NEW h \in Handlers, RegisterInsert(h) PROVE Service!Open
<1> USE DEF IInv, TypeOK, RegisterInsert, Goto, Idle, Ids
<1>1. my_id[h] \in 1..next_id /\ my_id[h] \in Waiting
  BY MaxSessionsAssumption DEF IdsAllotted, Waiting
<1>2. Waiting' = Waiting \ {my_id[h]}
  BY DEF Waiting, IdsAllotted
<1>3. Opened' = Opened \cup {my_id[h]}
  BY <1>1, <1>2 DEF Opened
<1>4. my_id[h] \in Ids \ Opened
  BY <1>1, MaxSessionsAssumption DEF Opened
<1> QED BY <1>3, <1>4 DEF Service!Open, Opened, Waiting, cancellerVars

LEMMA NextService == IInv /\ [Next]_vars => [Service!Next]_(Service!vars)
<1> SUFFICES ASSUME IInv, [Next]_vars PROVE [Service!Next]_(Service!vars)
  OBVIOUS
<1> USE DEF Service!vars
<1>1. CASE UNCHANGED vars
  BY <1>1 DEF vars
<1>2. ASSUME NEW h \in Handlers, RegisterId(h) PROVE UNCHANGED Service!vars
  BY <1>2, DrawIsInvisible DEF RegisterId, Opened, Waiting, cancellerVars
<1>3. ASSUME NEW h \in Handlers, RegisterInsert(h) PROVE Service!Next
  BY <1>3, InsertOpens DEF Service!Next
<1>4. ASSUME NEW h \in Handlers, FinishRemove(h) PROVE Service!Next
  <2>1. my_id[h] \in sessions
    BY <1>4 DEF FinishRemove, Goto, IInv, MapMatchesHandlers, InMap
  <2>2. Waiting' = Waiting
    BY <1>4 DEF Waiting, FinishRemove, Goto, IInv, TypeOK
  <2> QED BY <1>4, <2>1, <2>2
          DEF FinishRemove, WithoutEntry, cancellerVars, Waiting, Service!Next, Service!Close
<1>5. ASSUME NEW h \in Handlers,
             RegisterPublish(h) \/ FinishCompare(h) \/ FinishClear(h)
      PROVE UNCHANGED Service!vars
  <2>1. Waiting' = Waiting
    BY <1>5 DEF Waiting, RegisterPublish, FinishCompare, FinishClear, Goto, IInv, TypeOK
  <2> QED BY <1>5, <2>1
          DEF RegisterPublish, FinishCompare, FinishClear, Waiting, cancellerVars
<1>6. ASSUME NEW c \in Cancellers, CancelLoad(c)
      PROVE Service!Next \/ UNCHANGED Service!vars
  BY <1>6 DEF CancelLoad, handlerVars, Service!Next, Service!Refuse
<1>7. ASSUME NEW c \in Cancellers, CancelLookup(c) PROVE Service!Next
  BY <1>7 DEF CancelLookup, StillRegistered, handlerVars,
              Service!Next, Service!Refuse, Service!Flag
<1> QED BY <1>1, <1>2, <1>3, <1>4, <1>5, <1>6, <1>7 DEF Next, Register, Finish, Cancel

\* control.rs implements CancelService: an answer "Cancellation requested"
\* comes with exactly one open session flagged at that moment, and ids are
\* never given to two sessions.
THEOREM ImplementsService == Spec => ServiceSpec
<1> QED BY InitService, NextService, AlwaysIInv, PTL
        DEF Spec, ServiceSpec, Service!Spec
=============================================================================
