---------------------------- MODULE DaemonProofs -----------------------------
(***************************************************************************)
(* Proofs about Daemon, for any callers and cancellers, any configurations *)
(* and any number of edits.  One induction establishes IInv; the           *)
(* invariants the run checks and the implementation of AuthService follow. *)
(***************************************************************************)
EXTENDS Daemon, TLAPS

-----------------------------------------------------------------------------
(* The inductive invariant                                                 *)

LEMMA InitIInv == Init => IInv
  BY ConfigsAssumption, EditsAssumption
     DEF Init, IInv, TypeOK, ConnectionsHaveClients, SessionsAreTracked,
         AnswersAreOutcomes, Registry!Init, Config, Tasks, Clients

LEMMA ConnectIInv ==
  ASSUME IInv, NEW c \in Clients, Connect(c) PROVE IInv'
<1> USE ClientsAssumption, ConfigsAssumption DEF IInv, Connect, Reachable, PathOf, config, session, registry
<1>1. TypeOK'
  BY DEF TypeOK, Config, Tasks, Verdicts, Clients
<1>2. ConnectionsHaveClients'
  BY DEF ConnectionsHaveClients, TypeOK, Tasks, Verdicts, Clients
<1>3. SessionsAreTracked'
  BY DEF SessionsAreTracked, ConnectionsHaveClients, TypeOK, Verdicts, Clients
<1>4. AnswersAreOutcomes'
  BY DEF AnswersAreOutcomes, ConnectionsHaveClients, TypeOK, Verdicts, Clients
<1> QED BY <1>1, <1>2, <1>3, <1>4

LEMMA ReadAnswerIInv ==
  ASSUME IInv, NEW c \in Clients, ReadAnswer(c) PROVE IInv'
<1> USE ClientsAssumption DEF IInv, ReadAnswer, Told, Respond, config, session, registry
<1>1. TypeOK'
  BY DEF TypeOK, Config, Tasks, Verdicts, Clients
<1>2. ConnectionsHaveClients'
  BY DEF ConnectionsHaveClients, TypeOK, Tasks, Verdicts, Clients
<1>3. SessionsAreTracked'
  BY DEF SessionsAreTracked, ConnectionsHaveClients, TypeOK, Verdicts, Clients
<1>4. AnswersAreOutcomes'
  BY DEF AnswersAreOutcomes, ConnectionsHaveClients, TypeOK, Verdicts, Clients
<1> QED BY <1>1, <1>2, <1>3, <1>4

LEMMA ReadEofIInv ==
  ASSUME IInv, NEW c \in Clients, ReadEof(c) PROVE IInv'
<1> USE DEF IInv, ReadEof, config, session, registry
<1>1. TypeOK'
  BY DEF TypeOK, Config, Tasks, Verdicts, Clients
<1>2. ConnectionsHaveClients'
  BY DEF ConnectionsHaveClients, TypeOK, Tasks, Verdicts, Clients
<1>3. SessionsAreTracked'
  BY DEF SessionsAreTracked, ConnectionsHaveClients, TypeOK, Verdicts, Clients
<1>4. AnswersAreOutcomes'
  BY DEF AnswersAreOutcomes, ConnectionsHaveClients, TypeOK, Verdicts, Clients
<1> QED BY <1>1, <1>2, <1>3, <1>4

LEMMA GiveUpIInv ==
  ASSUME IInv, NEW c \in Clients, GiveUp(c) PROVE IInv'
<1> USE DEF IInv, GiveUp, config, session, registry
<1>1. TypeOK'
  BY DEF TypeOK, Config, Tasks, Verdicts, Clients
<1>2. ConnectionsHaveClients'
  BY DEF ConnectionsHaveClients, TypeOK, Tasks, Verdicts, Clients
<1>3. SessionsAreTracked'
  BY DEF SessionsAreTracked, ConnectionsHaveClients, TypeOK, Verdicts, Clients
<1>4. AnswersAreOutcomes'
  BY DEF AnswersAreOutcomes, ConnectionsHaveClients, TypeOK, Verdicts, Clients
<1> QED BY <1>1, <1>2, <1>3, <1>4

\* The registry opens this caller's session and no other: it was not open yet.
LEMMA BeginAuthIInv ==
  ASSUME IInv, NEW c \in Clients, BeginAuth(c) PROVE IInv'
<1> USE ClientsAssumption DEF IInv, BeginAuth, Goto, ConfigForSession, Registry!Open, config, session
<1>1. TypeOK'
  BY DEF TypeOK, Config, Tasks, Verdicts, Clients
<1>2. ConnectionsHaveClients'
  BY DEF ConnectionsHaveClients, TypeOK, Tasks, Verdicts, Clients
<1>3. SessionsAreTracked'
  BY DEF SessionsAreTracked, ConnectionsHaveClients, TypeOK, Verdicts, Clients
<1>4. AnswersAreOutcomes'
  BY DEF AnswersAreOutcomes, ConnectionsHaveClients, TypeOK, Verdicts, Clients
<1> QED BY <1>1, <1>2, <1>3, <1>4

LEMMA AnswerCancelIInv ==
  ASSUME IInv, NEW c \in Clients, AnswerCancel(c) PROVE IInv'
<1> USE ClientsAssumption DEF IInv, AnswerCancel, Goto, Respond, Registry!Flag, Registry!Refuse, config, session
<1>1. TypeOK'
  <2> USE DEF TypeOK, Config, Tasks, Verdicts, Clients
  <2>1. CASE Registry!Flag(c) /\ Respond(c, "success")
    <3>1. PICK id \in active : flagged' = flagged \cup {id}
      BY <2>1
    <3>2. flagged' \subseteq opened
      BY <3>1
    <3>3. reply' \in [Cancellers -> {"none", "flagged", "nothing"}]
      BY <2>1
    <3> QED BY <2>1, <3>2, <3>3
  <2>2. CASE Registry!Refuse(c) /\ Respond(c, "failure")
    BY <2>2
  <2> QED BY <2>1, <2>2
<1>2. ConnectionsHaveClients'
  BY DEF ConnectionsHaveClients, TypeOK, Tasks, Verdicts, Clients
<1>3. SessionsAreTracked'
  BY DEF SessionsAreTracked, ConnectionsHaveClients, TypeOK, Verdicts, Clients
<1>4. AnswersAreOutcomes'
  BY DEF AnswersAreOutcomes, ConnectionsHaveClients, TypeOK, Verdicts, Clients
<1> QED BY <1>1, <1>2, <1>3, <1>4

LEMMA RefuseLineIInv ==
  ASSUME IInv, NEW c \in Clients, RefuseLine(c) PROVE IInv'
<1> USE ClientsAssumption DEF IInv, RefuseLine, Goto, Respond, config, session, registry
<1>1. TypeOK'
  BY DEF TypeOK, Config, Tasks, Verdicts, Clients
<1>2. ConnectionsHaveClients'
  BY DEF ConnectionsHaveClients, TypeOK, Tasks, Verdicts, Clients
<1>3. SessionsAreTracked'
  BY DEF SessionsAreTracked, ConnectionsHaveClients, TypeOK, Verdicts, Clients
<1>4. AnswersAreOutcomes'
  BY DEF AnswersAreOutcomes, ConnectionsHaveClients, TypeOK, Verdicts, Clients
<1> QED BY <1>1, <1>2, <1>3, <1>4

LEMMA NoLineIInv ==
  ASSUME IInv, NEW c \in Clients, NoLine(c) PROVE IInv'
<1> USE ClientsAssumption DEF IInv, NoLine, Goto, config, session, registry
<1>1. TypeOK'
  BY DEF TypeOK, Config, Tasks, Verdicts, Clients
<1>2. ConnectionsHaveClients'
  BY DEF ConnectionsHaveClients, TypeOK, Tasks, Verdicts, Clients
<1>3. SessionsAreTracked'
  BY DEF SessionsAreTracked, ConnectionsHaveClients, TypeOK, Verdicts, Clients
<1>4. AnswersAreOutcomes'
  BY DEF AnswersAreOutcomes, ConnectionsHaveClients, TypeOK, Verdicts, Clients
<1> QED BY <1>1, <1>2, <1>3, <1>4

\* The session is closed as its outcome becomes the answer.
LEMMA FinishAuthIInv ==
  ASSUME IInv, NEW c \in Clients, FinishAuth(c) PROVE IInv'
<1> USE ClientsAssumption DEF IInv, FinishAuth, Goto, AfterFinish, ResponseOf, Respond, config, session
<1>1. TypeOK'
  BY DEF TypeOK, Config, Tasks, Verdicts, Clients
<1>2. ConnectionsHaveClients'
  BY DEF ConnectionsHaveClients, TypeOK, Tasks, Verdicts, Clients
<1>3. SessionsAreTracked'
  BY DEF SessionsAreTracked, ConnectionsHaveClients, TypeOK, Verdicts, Clients
<1>4. AnswersAreOutcomes'
  BY DEF AnswersAreOutcomes, ConnectionsHaveClients, TypeOK, Verdicts, Clients
<1> QED BY <1>1, <1>2, <1>3, <1>4

LEMMA SendIInv ==
  ASSUME IInv, NEW c \in Clients, Send(c) PROVE IInv'
<1> USE ClientsAssumption DEF IInv, Send, Goto, Respond, config, session, registry
<1>1. TypeOK'
  BY DEF TypeOK, Config, Tasks, Verdicts, Clients
<1>2. ConnectionsHaveClients'
  BY DEF ConnectionsHaveClients, TypeOK, Tasks, Verdicts, Clients
<1>3. SessionsAreTracked'
  BY DEF SessionsAreTracked, ConnectionsHaveClients, TypeOK, Verdicts, Clients
<1>4. AnswersAreOutcomes'
  BY DEF AnswersAreOutcomes, ConnectionsHaveClients, TypeOK, Verdicts, Clients
<1> QED BY <1>1, <1>2, <1>3, <1>4

LEMMA DropTaskIInv ==
  ASSUME IInv, NEW c \in Clients, DropTask(c) PROVE IInv'
<1> USE ClientsAssumption DEF IInv, DropTask, config, registry
<1>1. TypeOK'
  BY DEF TypeOK, Config, Tasks, Verdicts, Clients
<1>2. ConnectionsHaveClients'
  BY DEF ConnectionsHaveClients, TypeOK, Tasks, Verdicts, Clients
<1>3. SessionsAreTracked'
  BY DEF SessionsAreTracked, ConnectionsHaveClients, TypeOK, Verdicts, Clients
<1>4. AnswersAreOutcomes'
  BY DEF AnswersAreOutcomes, ConnectionsHaveClients, TypeOK, Verdicts, Clients
<1> QED BY <1>1, <1>2, <1>3, <1>4

LEMMA StartThreadIInv ==
  ASSUME IInv, NEW c \in Callers, StartThread(c) PROVE IInv'
<1> USE DEF IInv, StartThread, config, registry
<1>1. TypeOK'
  BY DEF TypeOK, Config, Tasks, Verdicts, Clients
<1>2. ConnectionsHaveClients'
  BY DEF ConnectionsHaveClients, TypeOK, Tasks, Verdicts, Clients
<1>3. SessionsAreTracked'
  BY DEF SessionsAreTracked, ConnectionsHaveClients, TypeOK, Verdicts, Clients
<1>4. AnswersAreOutcomes'
  BY DEF AnswersAreOutcomes, ConnectionsHaveClients, TypeOK, Verdicts, Clients
<1> QED BY <1>1, <1>2, <1>3, <1>4

LEMMA EndThreadIInv ==
  ASSUME IInv, NEW c \in Callers, EndThread(c) PROVE IInv'
<1> USE DEF IInv, EndThread, config, registry
<1>1. TypeOK'
  BY DEF TypeOK, Config, Tasks, Verdicts, Clients
<1>2. ConnectionsHaveClients'
  BY DEF ConnectionsHaveClients, TypeOK, Tasks, Verdicts, Clients
<1>3. SessionsAreTracked'
  BY DEF SessionsAreTracked, ConnectionsHaveClients, TypeOK, Verdicts, Clients
<1>4. AnswersAreOutcomes'
  BY DEF AnswersAreOutcomes, ConnectionsHaveClients, TypeOK, Verdicts, Clients
<1> QED BY <1>1, <1>2, <1>3, <1>4

LEMMA EditConfigIInv ==
  ASSUME IInv, NEW c \in Configs, EditConfig(c) PROVE IInv'
<1> USE ConfigsAssumption, EditsAssumption DEF IInv, EditConfig, session, registry
<1>1. TypeOK'
  BY DEF TypeOK, Config, Tasks, Verdicts, Clients
<1>2. ConnectionsHaveClients'
  BY DEF ConnectionsHaveClients, TypeOK, Tasks, Verdicts, Clients
<1>3. SessionsAreTracked'
  BY DEF SessionsAreTracked, ConnectionsHaveClients, TypeOK, Verdicts, Clients
<1>4. AnswersAreOutcomes'
  BY DEF AnswersAreOutcomes, ConnectionsHaveClients, TypeOK, Verdicts, Clients
<1> QED BY <1>1, <1>2, <1>3, <1>4

\* A reload leaves the path as it is.
LEMMA ReloadIInv ==
  ASSUME IInv, Reload PROVE IInv'
<1> USE DEF IInv, Reload, Deferring, session, registry
<1>1. TypeOK'
  BY DEF TypeOK, Config, Tasks, Verdicts, Clients
<1>2. ConnectionsHaveClients'
  BY DEF ConnectionsHaveClients, TypeOK, Tasks, Verdicts, Clients
<1>3. SessionsAreTracked'
  BY DEF SessionsAreTracked, ConnectionsHaveClients, TypeOK, Verdicts, Clients
<1>4. AnswersAreOutcomes'
  BY DEF AnswersAreOutcomes, ConnectionsHaveClients, TypeOK, Verdicts, Clients
<1> QED BY <1>1, <1>2, <1>3, <1>4

LEMMA StopIInv ==
  ASSUME IInv, Stop PROVE IInv'
<1> USE DEF IInv, Stop, config, session, registry
<1>1. TypeOK'
  BY DEF TypeOK, Config, Tasks, Verdicts, Clients
<1>2. ConnectionsHaveClients'
  BY DEF ConnectionsHaveClients, TypeOK, Tasks, Verdicts, Clients
<1>3. SessionsAreTracked'
  BY DEF SessionsAreTracked, ConnectionsHaveClients, TypeOK, Verdicts, Clients
<1>4. AnswersAreOutcomes'
  BY DEF AnswersAreOutcomes, ConnectionsHaveClients, TypeOK, Verdicts, Clients
<1> QED BY <1>1, <1>2, <1>3, <1>4

LEMMA ProcessEndsIInv ==
  ASSUME IInv, ProcessEnds PROVE IInv'
<1> USE DEF IInv, ProcessEnds, MemoryLost, config
<1>1. TypeOK'
  BY DEF TypeOK, Config, Tasks, Verdicts, Clients
<1>2. ConnectionsHaveClients'
  BY DEF ConnectionsHaveClients, TypeOK, Tasks, Verdicts, Clients
<1>3. SessionsAreTracked'
  BY DEF SessionsAreTracked, ConnectionsHaveClients, TypeOK, Verdicts, Clients
<1>4. AnswersAreOutcomes'
  BY DEF AnswersAreOutcomes, ConnectionsHaveClients, TypeOK, Verdicts, Clients
<1> QED BY <1>1, <1>2, <1>3, <1>4

LEMMA CrashIInv ==
  ASSUME IInv, Crash PROVE IInv'
<1> USE DEF IInv, Crash, MemoryLost, config
<1>1. TypeOK'
  BY DEF TypeOK, Config, Tasks, Verdicts, Clients
<1>2. ConnectionsHaveClients'
  BY DEF ConnectionsHaveClients, TypeOK, Tasks, Verdicts, Clients
<1>3. SessionsAreTracked'
  BY DEF SessionsAreTracked, ConnectionsHaveClients, TypeOK, Verdicts, Clients
<1>4. AnswersAreOutcomes'
  BY DEF AnswersAreOutcomes, ConnectionsHaveClients, TypeOK, Verdicts, Clients
<1> QED BY <1>1, <1>2, <1>3, <1>4

LEMMA NextIInv == IInv /\ [Next]_vars => IInv'
<1> SUFFICES ASSUME IInv, [Next]_vars PROVE IInv'
  OBVIOUS
<1>1. CASE UNCHANGED vars
  BY <1>1 DEF vars, IInv, TypeOK, ConnectionsHaveClients, SessionsAreTracked,
              AnswersAreOutcomes
<1>2. ASSUME NEW c \in Clients, Connect(c) \/ Read(c) \/ GiveUp(c) PROVE IInv'
  BY <1>2, ConnectIInv, ReadAnswerIInv, ReadEofIInv, GiveUpIInv DEF Read
<1>3. ASSUME NEW c \in Clients, Serve(c) PROVE IInv'
  BY <1>3, BeginAuthIInv, AnswerCancelIInv, RefuseLineIInv, NoLineIInv,
     FinishAuthIInv, SendIInv, DropTaskIInv DEF Serve
<1>4. ASSUME NEW c \in Callers, StartThread(c) \/ EndThread(c) PROVE IInv'
  BY <1>4, StartThreadIInv, EndThreadIInv
<1>5. ASSUME NEW c \in Configs, EditConfig(c) PROVE IInv'
  BY <1>5, EditConfigIInv
<1>6. CASE Reload \/ Stop \/ ProcessEnds \/ Crash
  BY <1>6, ReloadIInv, StopIInv, ProcessEndsIInv, CrashIInv
<1> QED BY <1>1, <1>2, <1>3, <1>4, <1>5, <1>6 DEF Next

LEMMA AlwaysIInv == Spec => []IInv
<1> QED BY InitIInv, NextIInv, PTL DEF Spec

-----------------------------------------------------------------------------
(* The invariants                                                          *)

\* Every variable of the daemon and of its clients keeps its type; in
\* particular a reload never leaves the running configuration with a socket
\* path other than the one that is served.
THEOREM TypeCorrect == Spec => []TypeOK
<1>1. IInv => TypeOK
  BY DEF IInv
<1> QED BY <1>1, AlwaysIInv, PTL

\* auth.rs:44, server.rs:151: a connection that is done with its session has
\* closed it, and a session that runs is open, for any number of clients.
THEOREM DoneAlwaysClosed == Spec => []DoneSessionsAreClosed
<1>1. IInv => DoneSessionsAreClosed
  BY DEF IInv, DoneSessionsAreClosed, SessionsAreTracked
<1> QED BY <1>1, AlwaysIInv, PTL

-----------------------------------------------------------------------------
(* Implementation of AuthService                                           *)

LEMMA InitService == Init => Service!Init
  BY DEF Init, Service!Init, Clients, Verdicts

\* What AuthService sees of a state, by name
Asked == {c \in Callers : client[c] # "idle"}
Outcomes == [c \in Callers |-> IF thread[c] \in Verdicts THEN thread[c] ELSE "none"]
Results == [c \in Callers |-> IF client[c] \in {"idle", "waiting"} THEN "none" ELSE client[c]]

\* Steps of the task, the process and the configuration are not seen: they
\* change no client and no outcome.
LEMMA Unseen ==
  ASSUME IInv, client' = client,
         \A c \in Callers : \/ thread'[c] = thread[c]
                            \/ thread[c] \notin Verdicts /\ thread'[c] \notin Verdicts
  PROVE  UNCHANGED Service!vars
<1>1. Asked' = Asked /\ Results' = Results
  BY DEF Asked, Results
<1>2. Outcomes' = Outcomes
  BY DEF Outcomes
<1> QED BY <1>1, <1>2 DEF Service!vars, Asked, Outcomes, Results

\* What happens to a client that is no caller is not seen either.
LEMMA OthersUnseen ==
  ASSUME IInv, NEW c \in Clients, c \notin Callers, thread' = thread,
         NEW told, client' = [client EXCEPT ![c] = told]
  PROVE  UNCHANGED Service!vars
<1>1. \A d \in Callers : client'[d] = client[d]
  BY DEF IInv, TypeOK, Clients
<1>2. Asked' = Asked /\ Results' = Results
  BY <1>1 DEF Asked, Results
<1> QED BY <1>2 DEF Service!vars, Asked, Results

\* A caller that waited, or had not connected, and is told nothing it could use
LEMMA ErrorIsLearnNothing ==
  ASSUME IInv, NEW c \in Callers, client[c] \in {"idle", "waiting"}, thread' = thread,
         client' = [client EXCEPT ![c] = "error"]
  PROVE  Service!LearnNothing(c)
<1>1. Asked' = Asked \cup {c}
  BY DEF Asked, IInv, TypeOK, Clients
<1>2. Results[c] = "none" /\ Results' = [Results EXCEPT ![c] = "error"]
  BY DEF Results, IInv, TypeOK, Clients
<1> QED BY <1>1, <1>2 DEF Service!LearnNothing, Asked, Results

LEMMA ConnectService ==
  ASSUME IInv, NEW c \in Callers, Connect(c) PROVE Service!Ask(c) \/ Service!LearnNothing(c)
<1> USE DEF Connect, session
<1>1. CASE client' = [client EXCEPT ![c] = "error"]
  BY <1>1, ErrorIsLearnNothing
<1>2. CASE client' = [client EXCEPT ![c] = "waiting"]
  <2>1. c \notin Asked /\ Asked' = Asked \cup {c}
    BY <1>2 DEF Asked, IInv, TypeOK, Clients
  <2>2. Results' = Results
    BY <1>2 DEF Results, IInv, TypeOK, Clients
  <2> QED BY <2>1, <2>2 DEF Service!Ask, Asked, Results
<1> QED BY <1>1, <1>2

\* The answer read is the outcome of the caller's own thread: AnswersAreOutcomes.
LEMMA ReadAnswerService ==
  ASSUME IInv, NEW c \in Callers, ReadAnswer(c) PROVE Service!Tell(c)
<1> USE DEF ReadAnswer, session
<1>1. Outcomes[c] # "none" /\ answer[c] = Outcomes[c]
  BY DEF IInv, AnswersAreOutcomes, Outcomes, Verdicts
<1>2. Asked' = Asked
  BY DEF Asked, IInv, TypeOK, Clients, Told
<1>3. Results[c] = "none"
  BY DEF Results
<1>4. Results' = [Results EXCEPT ![c] = IF Outcomes[c] = "success" THEN "accepted" ELSE "refused"]
  BY <1>1 DEF Results, IInv, TypeOK, Clients, Told
<1> QED BY <1>1, <1>2, <1>3, <1>4 DEF Service!Tell, Asked, Outcomes, Results

\* A thread that runs belongs to a caller that asked.
LEMMA EndThreadService ==
  ASSUME IInv, NEW c \in Callers, EndThread(c) PROVE Service!Decide(c)
<1>1. PICK verdict \in Verdicts : thread' = [thread EXCEPT ![c] = verdict]
  BY DEF EndThread
<1>2. c \in Asked /\ Asked' = Asked /\ Results' = Results
  BY DEF EndThread, Asked, Results, IInv, ConnectionsHaveClients, Clients
<1>3. Outcomes[c] = "none" /\ Outcomes' = [Outcomes EXCEPT ![c] = verdict]
  BY <1>1 DEF EndThread, Outcomes, Verdicts, IInv, TypeOK
<1> QED BY <1>2, <1>3 DEF Service!Decide, Verdicts, Asked, Outcomes, Results

LEMMA NextService == IInv /\ [Next]_vars => [Service!Next]_(Service!vars)
<1> SUFFICES ASSUME IInv, [Next]_vars PROVE [Service!Next]_(Service!vars)
  OBVIOUS
<1>1. CASE UNCHANGED vars
  BY <1>1, Unseen DEF vars
<1>2. ASSUME NEW c \in Clients, Connect(c) \/ Read(c) \/ GiveUp(c)
      PROVE  [Service!Next]_(Service!vars)
  <2>1. CASE c \in Callers
    <3>1. ReadEof(c) \/ GiveUp(c) => Service!LearnNothing(c)
      BY <2>1, ErrorIsLearnNothing DEF ReadEof, GiveUp, session
    <3> QED BY <1>2, <2>1, <3>1, ConnectService, ReadAnswerService DEF Read, Service!Next
  <2>2. CASE c \notin Callers
    BY <1>2, <2>2, OthersUnseen DEF Connect, Read, ReadAnswer, ReadEof, GiveUp, session
  <2> QED BY <2>1, <2>2
<1>3. ASSUME NEW c \in Clients, Serve(c) PROVE UNCHANGED Service!vars
  <2>1. CASE NoLine(c)
    BY <2>1, OthersUnseen, ClientsAssumption DEF NoLine, session
  <2>2. CASE BeginAuth(c)
    <3>1. thread[c] = "none"
      BY <2>2 DEF BeginAuth, Goto, IInv, ConnectionsHaveClients
    <3> QED BY <2>2, <3>1, Unseen DEF BeginAuth, IInv, TypeOK, Verdicts
  <2>3. CASE DropTask(c)
    BY <2>3, Unseen DEF DropTask, Verdicts
  <2>4. CASE AnswerCancel(c) \/ RefuseLine(c) \/ FinishAuth(c) \/ Send(c)
    BY <2>4, Unseen DEF AnswerCancel, RefuseLine, FinishAuth, Send, session
  <2> QED BY <1>3, <2>1, <2>2, <2>3, <2>4 DEF Serve
<1>4. ASSUME NEW c \in Callers, StartThread(c) PROVE UNCHANGED Service!vars
  BY <1>4, Unseen DEF StartThread, IInv, TypeOK, Verdicts
<1>5. ASSUME NEW c \in Callers, EndThread(c) PROVE Service!Next
  BY <1>5, EndThreadService DEF Service!Next
<1>6. ASSUME NEW c \in Configs, EditConfig(c) PROVE UNCHANGED Service!vars
  BY <1>6, Unseen DEF EditConfig, session
<1>7. CASE Reload \/ Stop \/ ProcessEnds
  BY <1>7, Unseen DEF Reload, Stop, ProcessEnds, MemoryLost, session
<1>8. CASE Crash
  BY <1>8, Unseen DEF Crash, Verdicts
<1> QED BY <1>1, <1>2, <1>3, <1>4, <1>5, <1>6, <1>7, <1>8 DEF Next

\* server.rs and auth.rs implement AuthService: with any number of sessions,
\* cancels, timeouts, reloads and crashes, a client is told the decision on its
\* own request, at most once, or learns nothing.
THEOREM ImplementsService == Spec => AuthServiceSpec
<1> QED BY InitService, NextService, AlwaysIInv, PTL
        DEF Spec, AuthServiceSpec, Service!Spec
=============================================================================
