------------------------------- MODULE Daemon --------------------------------
(***************************************************************************)
(* The daemon and its clients (facepass-daemon/src/server.rs and auth.rs,  *)
(* facepass-pam/src, facepass-cli/src/commands/cancel.rs).  Each client    *)
(* opens one connection, writes one line and reads one; each connection is *)
(* served by a task, and a session of recognition runs on a thread of its  *)
(* own, which neither the client's timeout nor the end of the task stops.  *)
(*                                                                         *)
(* Composition: the registry of sessions is CancelService, which           *)
(* AuthControl implements; a session is reduced to what Recognition shows  *)
(* of it, an answer that comes at the latest when a limit it has is        *)
(* reached or its flag is seen; reloads and stops are those of Lifecycle.  *)
(***************************************************************************)
EXTENDS Naturals, FiniteSets

CONSTANTS Callers,       \* PAM modules and other programs that authenticate
          Unlimited,     \* the callers that ask with timeout 0
          Cancellers,    \* `facepass cancel`, or a client that sends no request
          Paths, DefaultPath,   \* socket paths; the one built into PAM
          Configs,       \* configurations the file may hold
          MaxEdits       \* bound: edits of the configuration file

ASSUME ClientsAssumption ==
    /\ Unlimited \subseteq Callers
    /\ Callers \cap Cancellers = {}
ASSUME EditsAssumption == MaxEdits \in Nat

Clients == Callers \cup Cancellers

\* The part of Config a request depends on: whether video.max_frames bounds
\* the loop, and daemon.socket_path.
Config == [bounded : BOOLEAN, path : Paths]

ASSUME ConfigsAssumption == DefaultPath \in Paths /\ Configs \subseteq Config

VARIABLES file, edits,   \* the configuration file
          running,       \* the shared configuration
          listening,     \* the path the server bound
          server,        \* the process
          client,        \* what each client has been told; "waiting" for it
          task,          \* where the task of each connection is
          answer, sent,  \* the response, and whether the client can read it
          thread,        \* the session of each caller: its stage or outcome
          snapshot,      \* the configuration each session was started with
          opened, active, flagged, reply   \* the registry: see CancelService

registry == <<opened, active, flagged, reply>>
config   == <<file, edits, running, listening>>
session  == <<thread, snapshot>>
vars == <<file, edits, running, listening, server, client, task, answer, sent,
          thread, snapshot, opened, active, flagged, reply>>

Registry == INSTANCE CancelService WITH Ids <- Callers

Tasks == {"none", "reading", "session", "sending", "ended"}
Verdicts == {"success", "failure"}

TypeOK ==
    /\ file \in Config /\ running \in [bounded : BOOLEAN, path : {listening}]
    /\ listening \in Paths
    /\ edits \in 0..MaxEdits
    /\ server \in {"serving", "stopping", "down"}
    /\ client \in [Clients -> {"idle", "waiting", "accepted", "refused", "error"}]
    /\ task \in [Clients -> Tasks]
    /\ answer \in [Clients -> {"none"} \cup Verdicts]
    /\ sent \in [Clients -> BOOLEAN]
    /\ thread \in [Callers -> {"none", "queued", "running"} \cup Verdicts]
    /\ snapshot \in [Callers -> Config]
    /\ opened \subseteq Callers /\ active \subseteq opened /\ flagged \subseteq opened
    /\ reply \in [Cancellers -> {"none", "flagged", "nothing"}]

Init ==
    /\ file \in Configs /\ running = file /\ listening = file.path
    /\ edits = 0 /\ server = "serving"
    /\ client = [c \in Clients |-> "idle"]
    /\ task = [c \in Clients |-> "none"]
    /\ answer = [c \in Clients |-> "none"]
    /\ sent = [c \in Clients |-> FALSE]
    /\ thread = [c \in Callers |-> "none"]
    /\ snapshot = [c \in Callers |-> file]
    /\ Registry!Init

-----------------------------------------------------------------------------
(* The decisive expressions, each after a faulty variant                   *)

\* A reload leaves the path as it is.
Deferring_Nothing(new, old) == new
Deferring(new, old) == [new EXCEPT !.path = old.path]

\* auth.rs:44: the session is finished before the response is written.
AfterFinish_LeftToSend(c) == active
AfterFinish(c) == active \ {c}

\* The response is the result of the task's own blocking call.
ResponseOf_AnySuccess(c) ==
    IF \E d \in Callers : thread[d] = "success" THEN "success" ELSE thread[c]
ResponseOf(c) == thread[c]

\* auth.rs:31 takes the shared configuration.
ConfigForSession == running

\* auth.rs:123: the request's timeout is enforced unless it is 0.
HasDeadline_Ignored(c) == FALSE
HasDeadline(c) == c \notin Unlimited

\* A session looks at its flag on every frame.
Cancelled_Unseen(c) == FALSE
Cancelled(c) == c \in flagged

\* PamFacePass::authenticate, cancel::run: how a response is read
Told(response) == IF response = "success" THEN "accepted" ELSE "refused"

\* A session that ends without anyone's help: Recognition!LimitedSessionEnds.
Limited(c) == HasDeadline(c) \/ snapshot[c].bounded

Goto(c, from, to) == task[c] = from /\ task' = [task EXCEPT ![c] = to]

Respond(c, response) == answer' = [answer EXCEPT ![c] = response]

-----------------------------------------------------------------------------
(* Clients                                                                 *)

\* PAM has its path built in; cancel takes it from the file, as it is now.
PathOf(c) == IF c \in Cancellers THEN file.path ELSE DefaultPath

Reachable(c) == server = "serving" /\ PathOf(c) = listening

\* Connect and write the request.  Until a task is spawned for the connection
\* and reads the line, the line waits in the socket's buffer.
Connect(c) ==
    /\ client[c] = "idle"
    /\ \/ /\ Reachable(c)
          /\ client' = [client EXCEPT ![c] = "waiting"]
          /\ task' = [task EXCEPT ![c] = "reading"]
       \/ /\ ~Reachable(c)
          /\ client' = [client EXCEPT ![c] = "error"]
          /\ UNCHANGED task
    /\ UNCHANGED <<config, server, answer, sent, session, registry>>

ReadAnswer(c) ==
    /\ client[c] = "waiting" /\ sent[c]
    /\ client' = [client EXCEPT ![c] = Told(answer[c])]
    /\ Respond(c, "none") /\ sent' = [sent EXCEPT ![c] = FALSE]
    /\ UNCHANGED <<config, server, task, session, registry>>

\* The connection was closed without an answer: nothing parses.
ReadEof(c) ==
    /\ client[c] = "waiting" /\ ~sent[c] /\ task[c] = "ended"
    /\ client' = [client EXCEPT ![c] = "error"]
    /\ UNCHANGED <<config, server, task, answer, sent, session, registry>>

\* The read timeout: two seconds more than the request's, none for 0.  The
\* request's clock starts with the loop, this one with the request, so either
\* may come first.
GiveUp(c) ==
    /\ client[c] = "waiting" /\ ~sent[c] /\ c \notin Unlimited
    /\ client' = [client EXCEPT ![c] = "error"]
    /\ UNCHANGED <<config, server, task, answer, sent, session, registry>>

-----------------------------------------------------------------------------
(* Tasks: handle_client                                                    *)

\* An auth request: the configuration is copied, the session registered and
\* its thread asked for.
BeginAuth(c) ==
    /\ c \in Callers /\ Goto(c, "reading", "session")
    /\ snapshot' = [snapshot EXCEPT ![c] = ConfigForSession]
    /\ thread' = [thread EXCEPT ![c] = "queued"]
    /\ Registry!Open /\ c \in opened'
    /\ UNCHANGED <<config, server, client, answer, sent>>

AnswerCancel(c) ==
    /\ c \in Cancellers /\ Goto(c, "reading", "sending")
    /\ \/ Registry!Flag(c) /\ Respond(c, "success")
       \/ Registry!Refuse(c) /\ Respond(c, "failure")
    /\ UNCHANGED <<config, server, client, sent, session>>

\* A line that does not parse, or asks for something else
RefuseLine(c) ==
    /\ c \in Cancellers /\ Goto(c, "reading", "sending")
    /\ Respond(c, "failure")
    /\ UNCHANGED <<config, server, client, sent, session, registry>>

\* The client closes without a line, or the read fails.
NoLine(c) ==
    /\ c \in Cancellers /\ Goto(c, "reading", "ended")
    /\ client' = [client EXCEPT ![c] = "error"]
    /\ UNCHANGED <<config, server, answer, sent, session, registry>>

\* The thread has ended, by returning or by a panic: finish, then respond.
FinishAuth(c) ==
    /\ c \in Callers /\ Goto(c, "session", "sending")
    /\ thread[c] \in Verdicts
    /\ active' = AfterFinish(c)
    /\ Respond(c, ResponseOf(c))
    /\ UNCHANGED <<config, server, client, sent, session, opened, flagged, reply>>

\* The write reaches a client that waits and fails for one that has gone.
Send(c) ==
    /\ Goto(c, "sending", "ended")
    /\ \/ client[c] = "waiting" /\ sent' = [sent EXCEPT ![c] = TRUE] /\ UNCHANGED answer
       \/ client[c] # "waiting" /\ Respond(c, "none") /\ UNCHANGED sent
    /\ UNCHANGED <<config, server, client, session, registry>>

-----------------------------------------------------------------------------
(* Sessions: spawn_blocking                                                *)

StartThread(c) ==
    /\ thread[c] = "queued"
    /\ thread' = [thread EXCEPT ![c] = "running"]
    /\ UNCHANGED <<config, server, client, task, answer, sent, snapshot, registry>>

\* authenticate_sync returns; a panic becomes the failure "Task error".
EndThread(c) ==
    /\ thread[c] = "running"
    /\ \E verdict \in Verdicts : thread' = [thread EXCEPT ![c] = verdict]
    /\ UNCHANGED <<config, server, client, task, answer, sent, snapshot, registry>>

-----------------------------------------------------------------------------
(* The process                                                             *)

\* The registry goes with the process.
MemoryLost ==
    /\ opened' = {} /\ active' = {} /\ flagged' = {}
    /\ reply' = [c \in Cancellers |-> "none"]
    /\ snapshot' = [c \in Callers |-> running]

EditConfig(c) ==
    /\ edits < MaxEdits /\ edits' = edits + 1
    /\ server = "serving" /\ c # file   \* otherwise nobody sees it
    /\ file' = c
    /\ UNCHANGED <<running, listening, server, client, task, answer, sent,
                   session, registry>>

Reload ==
    /\ server = "serving"
    /\ running' = Deferring(file, running)
    /\ UNCHANGED <<file, edits, listening, server, client, task, answer, sent,
                   session, registry>>

\* server::run leaves its loop; main returns and the runtime is dropped.
Stop ==
    /\ server = "serving" /\ server' = "stopping"
    /\ UNCHANGED <<config, client, task, answer, sent, session, registry>>

\* A dropped runtime drops tasks where they await, and threads not begun.
DropTask(c) ==
    /\ server = "stopping" /\ task[c] \notin {"none", "ended"}
    /\ task' = [task EXCEPT ![c] = "ended"]
    /\ thread' = [d \in Callers |->
                    IF d = c /\ thread[d] = "queued" THEN "none" ELSE thread[d]]
    /\ UNCHANGED <<config, server, client, answer, sent, snapshot, registry>>

\* It waits for threads that have begun.
ProcessEnds ==
    /\ server = "stopping" /\ server' = "down"
    /\ \A c \in Clients : task[c] \in {"none", "ended"}
    /\ \A c \in Callers : thread[c] # "running"
    /\ MemoryLost
    /\ UNCHANGED <<config, client, task, answer, sent, thread>>

Crash ==
    /\ server # "down" /\ server' = "down"
    /\ task' = [c \in Clients |-> IF task[c] = "none" THEN "none" ELSE "ended"]
    /\ thread' = [c \in Callers |->
                    IF thread[c] \in Verdicts THEN thread[c] ELSE "none"]
    /\ MemoryLost
    /\ UNCHANGED <<config, client, answer, sent>>

-----------------------------------------------------------------------------
Serve(c) ==
    \/ BeginAuth(c) \/ AnswerCancel(c) \/ RefuseLine(c) \/ NoLine(c)
    \/ FinishAuth(c) \/ Send(c) \/ DropTask(c)

Read(c) == ReadAnswer(c) \/ ReadEof(c)

Next ==
    \/ \E c \in Clients : Connect(c) \/ Read(c) \/ GiveUp(c) \/ Serve(c)
    \/ \E c \in Callers : StartThread(c) \/ EndThread(c)
    \/ \E c \in Configs : EditConfig(c)
    \/ Reload \/ Stop \/ ProcessEnds \/ Crash

Spec == Init /\ [][Next]_vars

\* The runtime polls its tasks, threads are scheduled and clients read what is
\* there.  A session need end only if something limits it or cancels it.  No
\* client has to connect or give up, nobody has to reload, stop or crash.
FairSpec ==
    /\ Spec
    /\ \A c \in Clients : WF_vars(Serve(c)) /\ WF_vars(Read(c))
    /\ \A c \in Callers :
          /\ WF_vars(StartThread(c))
          /\ WF_vars(EndThread(c) /\ (Limited(c) \/ Cancelled(c)))
    /\ WF_vars(ProcessEnds)

-----------------------------------------------------------------------------
(* Properties                                                              *)

\* auth.rs:44 before server.rs:151: once a connection is done with a session,
\* the registry is too, also when the client has gone and the write fails; a
\* later cancel cannot find a session nobody runs, nor miss the one somebody
\* does.
DoneSessionsAreClosed ==
    server = "serving" =>
        \A c \in Callers :
            /\ task[c] \in {"sending", "ended"} => c \notin active
            /\ thread[c] \in {"queued", "running"} => c \in active

\* ipc.rs:85, server.rs:151: a client whose request has a time limit hears from
\* the daemon, by an answer or by the end of the connection, without its own
\* read timeout: after a panic, a cancel, a reload, a stop or a crash too.
LimitedRequestIsAnswered ==
    \A c \in Clients \ Unlimited : client[c] = "waiting" ~> client[c] # "waiting"

\* control.rs:48-67, cancel.rs:34-45: once a cancel has found a request's session
\* the client hears from the daemon, also one that set no limit and would wait
\* for ever: while the session is queued or runs, and if a stop or a crash
\* comes first.
CancelledRequestIsAnswered ==
    \A c \in Callers : c \in flagged ~> client[c] # "waiting"

\* A session nothing will end: no timeout, no frame limit, not cancelled
Endless(c) == /\ thread[c] = "running" /\ c \in Unlimited
              /\ ~snapshot[c].bounded /\ ~Cancelled(c)

\* main.rs:88-91: a stop ends the process whatever clients and sessions are
\* doing, unless a session is running that nothing will end; the runtime waits
\* for threads, so that one keeps the daemon from stopping.
StopEndsProcess ==
    server = "stopping" ~> (server = "down" \/ \E c \in Callers : Endless(c))

\* The daemon and its clients implement AuthService: nobody is told a decision
\* that is not the one on its own request, on any order of sessions, cancels,
\* timeouts and crashes.
Service == INSTANCE AuthService WITH
    asked   <- {c \in Callers : client[c] # "idle"},
    decided <- [c \in Callers |-> IF thread[c] \in Verdicts THEN thread[c] ELSE "none"],
    result  <- [c \in Callers |-> IF client[c] \in {"idle", "waiting"} THEN "none" ELSE client[c]]

AuthServiceSpec == Service!Spec

-----------------------------------------------------------------------------
(* Why they hold: an inductive invariant                                   *)

\* A connection has a client, and a thread has a connection that asked for it.
ConnectionsHaveClients ==
    /\ \A c \in Clients : task[c] # "none" => client[c] # "idle"
    /\ \A c \in Callers :
          /\ thread[c] # "none" => task[c] \in {"session", "sending", "ended"}
          /\ task[c] \in {"none", "reading"} => thread[c] = "none" /\ c \notin opened
    /\ server = "down" => \A c \in Clients : task[c] \in {"none", "ended"}

\* While the process serves, threads and open sessions go together.
SessionsAreTracked ==
    server = "serving" =>
        \A c \in Callers :
            /\ thread[c] \in {"queued", "running"} => task[c] = "session" /\ c \in active
            /\ task[c] = "sending" => c \notin active
            /\ task[c] = "ended" => c \notin active

\* An answer on its way is the outcome of the caller's own thread.
AnswersAreOutcomes ==
    \A c \in Callers :
        /\ task[c] = "sending" => answer[c] = thread[c] /\ thread[c] \in Verdicts
        /\ sent[c] => /\ task[c] = "ended"
                      /\ answer[c] = thread[c] /\ thread[c] \in Verdicts

IInv ==
    /\ TypeOK /\ ConnectionsHaveClients /\ SessionsAreTracked
    /\ AnswersAreOutcomes
=============================================================================
