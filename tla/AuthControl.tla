----------------------------- MODULE AuthControl -----------------------------
(***************************************************************************)
(* AuthControl (facepass-daemon/src/control.rs) and its two callers: the   *)
(* wrapper `authenticate` of auth.rs, which registers a session, runs the  *)
(* recognition loop on a blocking thread and finishes the session, and the *)
(* "cancel" branch of server.rs.                                           *)
(*                                                                         *)
(* Every connection is served by a task of its own, so register, finish    *)
(* and cancel_current interleave between any two accesses to shared        *)
(* memory: the counters are separate atomics, and only the session map is  *)
(* under the mutex.  Each access is one action here; a critical section of *)
(* the mutex is one action.  All atomics are Relaxed, but each one is a    *)
(* single location with a total modification order, the map is             *)
(* synchronised by its mutex, and no decision compares two atomics, so     *)
(* interleaving the accesses loses no outcome the properties tell apart.   *)
(***************************************************************************)
EXTENDS Naturals, FiniteSets

CONSTANTS Handlers,      \* connections serving an authentication request
          Cancellers,    \* connections serving a cancel request
          MaxSessions    \* bound: sessions registered in one behaviour

ASSUME MaxSessionsAssumption == MaxSessions \in Nat

VARIABLES next_id,       \* AuthControl.next_id
          current_id,    \* AuthControl.current_id; 0 stands for "none"
          sessions,      \* keys of AuthControl.sessions
          cancelled,     \* ids whose shared cancel_flag is true
          pc,            \* where each handler is in register / finish
          my_id,         \* the id of the handler's AuthSession, 0 before any
          cpc,           \* where each canceller is in cancel_current
          seen,          \* the current_id a canceller loaded, 0 between calls
          reply,         \* cancel_current's last result
          overlapped,    \* history: did another session coexist with h's?
          witness        \* history: sessions running during the whole call

handlerVars   == <<next_id, my_id, pc>>
cancellerVars == <<cpc, seen, reply>>
historyVars   == <<overlapped, witness>>
vars == <<next_id, current_id, sessions, cancelled, pc, my_id,
          cpc, seen, reply, overlapped, witness>>

Ids == 1..MaxSessions

TypeOK ==
    /\ next_id \in 0..MaxSessions
    /\ current_id \in 0..MaxSessions
    /\ sessions \subseteq Ids
    /\ cancelled \subseteq Ids
    /\ pc \in [Handlers -> {"idle", "insert", "publish", "running", "compare", "clear"}]
    /\ my_id \in [Handlers -> 0..MaxSessions]
    /\ cpc \in [Cancellers -> {"idle", "lookup"}]
    /\ seen \in [Cancellers -> 0..MaxSessions]
    /\ reply \in [Cancellers -> {"none", "flagged", "nothing"}]
    /\ overlapped \in [Handlers -> BOOLEAN]
    /\ witness \in [Cancellers -> SUBSET Ids]

Init ==
    /\ next_id = 0
    /\ current_id = 0
    /\ sessions = {}
    /\ cancelled = {}
    /\ pc = [h \in Handlers |-> "idle"]
    /\ my_id = [h \in Handlers |-> 0]
    /\ cpc = [c \in Cancellers |-> "idle"]
    /\ seen = [c \in Cancellers |-> 0]
    /\ reply = [c \in Cancellers |-> "none"]
    /\ overlapped = [h \in Handlers |-> FALSE]
    /\ witness = [c \in Cancellers |-> {}]

Idle(h) == pc[h] = "idle"

Goto(h, from, to) ==
    /\ pc[h] = from
    /\ pc' = [pc EXCEPT ![h] = to]

\* Sessions whose register() has returned and whose finish() has not begun.
RunningIds == {my_id[h] : h \in {g \in Handlers : pc[g] = "running"}}

-----------------------------------------------------------------------------
(* The expressions the steps below turn on.  Each is preceded by a faulty  *)
(* variant, which a mutation check puts in its place.                      *)

NewId_OldValue == next_id
NewId == next_id + 1                       \* fetch_add returns the old value

WithoutEntry_Kept(id) == sessions
WithoutEntry(id) == sessions \ {id}

PublishedId_Kept(h) == current_id
PublishedId(h) == my_id[h]

OwnsCurrent_Inverted(h) == current_id # my_id[h]
OwnsCurrent(h) == current_id = my_id[h]

StillRegistered_Assumed(id) == TRUE
StillRegistered(id) == id \in sessions

-----------------------------------------------------------------------------
(* register                                                                *)

\* The id is drawn; `overlapped` notes which handlers this one coexists with.
RegisterId(h) ==
    /\ next_id < MaxSessions
    /\ Goto(h, "idle", "insert")
    /\ next_id' = next_id + 1
    /\ my_id' = [my_id EXCEPT ![h] = NewId]
    /\ overlapped' = [g \in Handlers |->
                        g # h \/ \E k \in Handlers \ {h} : ~Idle(k)]
    /\ UNCHANGED <<current_id, sessions, cancelled, cancellerVars, witness>>

\* The flag is created false and inserted under the mutex.
RegisterInsert(h) ==
    /\ Goto(h, "insert", "publish")
    /\ sessions' = sessions \cup {my_id[h]}
    /\ UNCHANGED <<next_id, current_id, cancelled, my_id, cancellerVars, historyVars>>

\* current_id.store(id); the recognition loop starts.
RegisterPublish(h) ==
    /\ Goto(h, "publish", "running")
    /\ current_id' = PublishedId(h)
    /\ UNCHANGED <<next_id, sessions, cancelled, my_id, cancellerVars, historyVars>>

-----------------------------------------------------------------------------
(* finish, called when the blocking task has ended, panics included        *)

FinishRemove(h) ==
    /\ Goto(h, "running", "compare")
    /\ sessions' = WithoutEntry(my_id[h])
    /\ witness' = [c \in Cancellers |->
                     IF cpc[c] = "lookup" THEN witness[c] \ {my_id[h]} ELSE witness[c]]
    /\ UNCHANGED <<next_id, current_id, cancelled, my_id, cancellerVars, overlapped>>

\* current_id.load() and the comparison with the finished id
FinishCompare(h) ==
    /\ Goto(h, "compare", IF OwnsCurrent(h) THEN "clear" ELSE "idle")
    /\ UNCHANGED <<next_id, current_id, sessions, cancelled, my_id,
                   cancellerVars, historyVars>>

\* current_id.store(0), whatever has been stored there since the load
FinishClear(h) ==
    /\ Goto(h, "clear", "idle")
    /\ current_id' = 0
    /\ UNCHANGED <<next_id, sessions, cancelled, my_id, cancellerVars, historyVars>>

-----------------------------------------------------------------------------
(* cancel_current                                                          *)

\* current_id.load(); 0 answers at once
CancelLoad(c) ==
    /\ cpc[c] = "idle"
    /\ seen' = [seen EXCEPT ![c] = current_id]
    /\ witness' = [witness EXCEPT ![c] = RunningIds]
    /\ \/ /\ current_id = 0
          /\ reply' = [reply EXCEPT ![c] = "nothing"]
          /\ cpc' = cpc
       \/ /\ current_id # 0
          /\ cpc' = [cpc EXCEPT ![c] = "lookup"]
          /\ reply' = reply
    /\ UNCHANGED <<handlerVars, current_id, sessions, cancelled, overlapped>>

\* Under the mutex: the loaded id is looked up again, and flagged if present.
CancelLookup(c) ==
    /\ cpc[c] = "lookup"
    /\ cpc' = [cpc EXCEPT ![c] = "idle"]
    /\ seen' = [seen EXCEPT ![c] = 0]
    /\ \/ /\ StillRegistered(seen[c])
          /\ cancelled' = cancelled \cup {seen[c]}
          /\ reply' = [reply EXCEPT ![c] = "flagged"]
       \/ /\ ~StillRegistered(seen[c])
          /\ cancelled' = cancelled
          /\ reply' = [reply EXCEPT ![c] = "nothing"]
    /\ UNCHANGED <<handlerVars, current_id, sessions, historyVars>>

-----------------------------------------------------------------------------
Register(h) == RegisterId(h) \/ RegisterInsert(h) \/ RegisterPublish(h)
Finish(h)   == FinishRemove(h) \/ FinishCompare(h) \/ FinishClear(h)
Cancel(c)   == CancelLoad(c) \/ CancelLookup(c)

Next == \/ \E h \in Handlers : Register(h) \/ Finish(h)
        \/ \E c \in Cancellers : Cancel(c)

Spec == Init /\ [][Next]_vars

-----------------------------------------------------------------------------
(* Properties                                                              *)

\* current_id is never left behind: whatever it names is a session still in
\* the map, or one whose finish() has yet to reach its conditional store
\* (control.rs:48-51).  Stores by overlapping register() calls land in any
\* order and finish() clears without a lock, so this needs every step of both.
CurrentIsNotStale ==
    current_id # 0 =>
        \/ current_id \in sessions
        \/ \E h \in Handlers : my_id[h] = current_id /\ pc[h] \in {"compare", "clear"}

\* When every handler has returned nothing is left over: no map entry, no
\* current session (control.rs:42-52), whatever the calls overlapped with.
QuiescentRegistry ==
    (\A h \in Handlers : Idle(h)) => sessions = {} /\ current_id = 0

\* The use the PAM module makes of the daemon, one authentication at a time:
\* a session that has overlapped with no other is the one a cancel finds for
\* as long as it runs (control.rs:54-66).
LoneSessionIsCancellable ==
    \A h \in Handlers :
        pc[h] = "running" /\ ~overlapped[h] =>
            current_id = my_id[h] /\ my_id[h] \in sessions

\* server.rs:137 answers "No active authentication to cancel" when
\* cancel_current returns false: then no session ran during the whole call.
\* The code does not keep this promise when sessions overlap.
NoActiveAnswerIsTrue ==
    \A c \in Cancellers : cpc[c] = "idle" /\ reply[c] = "nothing" => witness[c] = {}

-----------------------------------------------------------------------------
(* The inductive invariant: what the steps themselves preserve             *)

InMap(h) == pc[h] \in {"publish", "running"}

\* Ids are drawn once, are never 0 and never pass the counter; a canceller
\* that goes on to the lookup holds one of them.
IdsAllotted ==
    /\ \A h \in Handlers : my_id[h] <= next_id
    /\ \A h \in Handlers : ~Idle(h) => my_id[h] # 0
    /\ \A g, h \in Handlers : g # h /\ my_id[g] = my_id[h] => my_id[g] = 0
    /\ \A c \in Cancellers : cpc[c] = "lookup" => seen[c] # 0

\* The map holds exactly the sessions between their insert and their remove.
MapMatchesHandlers ==
    /\ \A h \in Handlers : InMap(h) => my_id[h] \in sessions
    /\ \A id \in sessions : \E h \in Handlers : InMap(h) /\ my_id[h] = id

\* A current id belongs to a handler that has published it and has not
\* passed its comparison without clearing it.
CurrentHasOwner ==
    current_id # 0 => \E h \in Handlers :
        my_id[h] = current_id /\ pc[h] \in {"running", "compare", "clear"}

\* A handler noted as alone is alone, and its published id is still current.
AloneMeansAlone ==
    \A h \in Handlers : ~Idle(h) /\ ~overlapped[h] =>
        /\ \A g \in Handlers \ {h} : Idle(g)
        /\ pc[h] = "running" => current_id = my_id[h]

IInv ==
    /\ TypeOK
    /\ IdsAllotted
    /\ MapMatchesHandlers
    /\ CurrentHasOwner
    /\ AloneMeansAlone

-----------------------------------------------------------------------------
\* The registry implements CancelService.  A session opens when its entry is
\* inserted; ids allotted and not yet inserted are not open.
Service == INSTANCE CancelService WITH
    opened  <- (1..next_id) \ {my_id[h] : h \in {g \in Handlers : pc[g] = "insert"}},
    active  <- sessions,
    flagged <- cancelled

\* Every step of register, finish and cancel_current is a step of the service
\* or invisible in it: ids are never reused, and "Cancellation requested" means
\* that one session open at that moment was flagged.
ServiceSpec == Service!Spec
=============================================================================
