------------------------------ MODULE Lifecycle ------------------------------
(***************************************************************************)
(* The daemon process from start to exit, and again after a crash          *)
(* (facepass-daemon/src/main.rs, runtime.rs and server::run).  Two tasks   *)
(* run side by side: main loads the configuration, publishes the pid and   *)
(* runtime-state files, serves the socket and cleans up; the signal task   *)
(* reloads the configuration on SIGHUP and asks for shutdown on SIGINT or  *)
(* SIGTERM.  What each leaves on disk outlives the process.                *)
(*                                                                         *)
(* A configuration is its effective preset and its endpoint, which stands  *)
(* for daemon.socket_path and daemon.pid_file, the two fields a reload     *)
(* defers.  Of the connections served meanwhile only the threads of their  *)
(* sessions matter here, because the process waits for those; Daemon has   *)
(* the rest.                                                               *)
(***************************************************************************)
EXTENDS Naturals

CONSTANTS Presets, Endpoints,
          Bad,           \* a configuration file that does not load
          None,          \* no file
          Torn,          \* a runtime-state file that does not parse
          Sessions,      \* sessions of recognition that one process may run
          Endless,       \* those that nothing limits
          MaxStarts, MaxEdits, MaxSignals   \* bounds on the environment

ASSUME BoundsAssumption == MaxStarts \in Nat /\ MaxEdits \in Nat /\ MaxSignals \in Nat
ASSUME SentinelsAssumption ==
    {Bad, None, Torn} \cap [preset : Presets, endpoint : Endpoints] = {} /\ Torn # None
ASSUME EndlessAssumption == Endless \subseteq Sessions

Config == [preset : Presets, endpoint : Endpoints]

VARIABLES file,          \* the configuration file
          pidFiles,      \* endpoints with a pid file
          socket,        \* what is at each endpoint's socket path
          runtimeFile,   \* the runtime-state file
          main, exit,    \* where main is; how the last process ended
          config_snapshot,     \* the configuration main started with
          runtime_state,       \* the shared configuration, Arc<RwLock<...>>
          listening,           \* the endpoint server::run bound
          subscribed, message, \* the shutdown channel: a receiver, a message for it
          task, new_state,     \* where the signal task is, and what it loaded
          pending,       \* signals delivered and not yet handled
          thread,        \* the blocking thread of each session
          early,         \* history: a reload swapped before main published
          unwritten,     \* history: a reload could not write the runtime state
          kept,          \* history: a file that was to be removed is still there
          starts, edits, sent  \* counters for the bounds

disk    == <<pidFiles, socket, runtimeFile>>
channel == <<subscribed, message>>
state   == <<config_snapshot, runtime_state>>
signals == <<task, new_state, pending, early, unwritten, sent>>
env     == <<file, starts, edits>>
vars == <<file, pidFiles, socket, runtimeFile, main, exit, config_snapshot,
          runtime_state, listening, subscribed, message, task, new_state,
          pending, thread, early, unwritten, kept, starts, edits, sent>>

Signal == {"SIGHUP", "SIGTERM"}   \* SIGINT is handled as SIGTERM is
MainStages == {"down", "load", "signals", "pid", "publish", "publishing", "subscribe",
               "bind", "serve", "unbind", "cleanup", "exit"}
MidReload == {"load", "swap", "write", "writing"}

TypeOK ==
    /\ file \in Config \cup {Bad}
    /\ pidFiles \subseteq Endpoints
    /\ socket \in [Endpoints -> {"none", "live", "stale"}]
    /\ runtimeFile \in Config \cup {None, Torn}
    /\ main \in MainStages
    /\ exit \in {"none", "graceful", "error", "in_use", "crash"}
    /\ config_snapshot \in Config \cup {None} /\ runtime_state \in Config \cup {None}
    /\ listening \in Endpoints \cup {None}
    /\ subscribed \in BOOLEAN /\ message \in BOOLEAN
    /\ task \in {"off", "wait", "ended"} \cup MidReload
    /\ new_state \in Config \cup {None}
    /\ pending \subseteq Signal
    /\ thread \in [Sessions -> {"none", "running", "ended"}]
    /\ early \in BOOLEAN /\ unwritten \in BOOLEAN /\ kept \in BOOLEAN
    /\ starts \in 0..MaxStarts /\ edits \in 0..MaxEdits /\ sent \in 0..MaxSignals

Init ==
    /\ file \in Config
    /\ pidFiles = {} /\ socket = [e \in Endpoints |-> "none"] /\ runtimeFile = None
    /\ main = "down" /\ exit = "none"
    /\ config_snapshot = None /\ runtime_state = None /\ listening = None
    /\ subscribed = FALSE /\ message = FALSE
    /\ task = "off" /\ new_state = None /\ pending = {}
    /\ thread = [k \in Sessions |-> "none"]
    /\ early = FALSE /\ unwritten = FALSE /\ kept = FALSE
    /\ starts = 0 /\ edits = 0 /\ sent = 0

\* Nothing of a process survives it but its files.
ProcessGone ==
    /\ config_snapshot' = None /\ runtime_state' = None /\ listening' = None
    /\ subscribed' = FALSE /\ message' = FALSE
    /\ task' = "off" /\ new_state' = None /\ pending' = {}
    /\ thread' = [k \in Sessions |-> "none"]
    /\ early' = FALSE /\ unwritten' = FALSE

-----------------------------------------------------------------------------
(* The decisive expressions, each after a faulty variant for mutation       *)
(* checks                                                                   *)

\* reload keeps the endpoint of the running configuration.
Deferred_Dropped(resolved) == resolved
Deferred(resolved) == [resolved EXCEPT !.endpoint = runtime_state.endpoint]

\* The stream clears a signal when it hands it out: one that arrives while it
\* is handled is kept.
AfterReload_Drained == pending \ {"SIGHUP"}
AfterReload == pending

\* The signal task ends with the first request to stop.
AfterShutdown_Listening == "wait"
AfterShutdown == "ended"

ToPublish_Snapshot == config_snapshot
ToPublish == new_state

\* broadcast::send reaches the receivers there are at that moment.
Delivered_Never == FALSE
Delivered == subscribed

\* Parsing and Config::validate
Loads_Unchecked == TRUE
Loads == file # Bad

\* What is at a path after remove_file, whose failure the code ignores
Removed(path) == {"none", IF socket[path] = "none" THEN "none" ELSE "stale"}

\* fs::write truncates the file and then writes from its start: over what
\* another writer has put there meanwhile, whose end may show.  What was removed
\* meanwhile stays removed.
Truncated == Torn
Written(c) == CASE runtimeFile = None -> {None}
                [] runtimeFile = Torn -> {c}
                [] OTHER -> {c, Torn}
CutShort == {runtimeFile, IF runtimeFile = None THEN None ELSE Torn}

-----------------------------------------------------------------------------
(* main                                                                     *)

Goto(from, to) == main = from /\ main' = to

Start ==
    /\ Goto("down", "load")
    /\ starts < MaxStarts /\ starts' = starts + 1
    /\ kept' = FALSE
    /\ UNCHANGED <<file, edits, disk, exit, state, listening, channel, signals, thread>>

LoadInitial ==
    /\ Goto("load", "signals")
    /\ Loads
    /\ config_snapshot' = file /\ runtime_state' = file
    /\ UNCHANGED <<env, disk, exit, listening, channel, signals, thread, kept>>

InstallHandlers ==
    /\ Goto("signals", "pid")
    /\ task' = "wait"
    /\ UNCHANGED <<env, disk, exit, state, listening, channel,
                   new_state, pending, early, unwritten, sent, thread, kept>>

WritePidFile ==
    /\ Goto("pid", "publish")
    /\ pidFiles' = pidFiles \cup {config_snapshot.endpoint}
    /\ UNCHANGED <<env, socket, runtimeFile, exit, state, listening, channel, signals,
                   thread, kept>>

OpenRuntimeFile ==
    /\ Goto("publish", "publishing")
    /\ runtimeFile' = Truncated
    /\ UNCHANGED <<env, pidFiles, socket, exit, state, listening, channel, signals,
                   thread, kept>>

Publish ==
    /\ Goto("publishing", "subscribe")
    /\ runtimeFile' \in Written(config_snapshot)
    /\ UNCHANGED <<env, pidFiles, socket, exit, state, listening, channel, signals,
                   thread, kept>>

Subscribe ==
    /\ Goto("subscribe", "bind")
    /\ subscribed' = TRUE
    /\ UNCHANGED <<env, disk, exit, state, listening, message, signals, thread, kept>>

\* An address that is still in use ends server::run with an error.
Bind ==
    /\ main = "bind"
    /\ LET path == runtime_state.endpoint
       IN  \E left \in Removed(path) :
             \/ /\ left = "none"
                /\ socket' = [socket EXCEPT ![path] = "live"]
                /\ listening' = path
                /\ main' = "serve" /\ UNCHANGED <<exit, kept>>
             \/ /\ left # "none"
                /\ main' = "cleanup" /\ exit' = "in_use" /\ kept' = TRUE
                /\ UNCHANGED <<socket, listening>>
    /\ UNCHANGED <<env, pidFiles, runtimeFile, state, channel, signals, thread>>

ReceiveShutdown ==
    /\ Goto("serve", "unbind")
    /\ message
    /\ exit' = "graceful"
    /\ UNCHANGED <<env, disk, state, listening, channel, signals, thread, kept>>

\* The listener is dropped whether or not its file can be removed.
Unbind ==
    /\ Goto("unbind", "cleanup")
    /\ \E left \in Removed(listening) :
          /\ socket' = [socket EXCEPT ![listening] = left]
          /\ kept' = (kept \/ left # "none")
    /\ UNCHANGED <<env, pidFiles, runtimeFile, exit, state, listening, channel, signals,
                   thread>>

Cleanup ==
    /\ Goto("cleanup", "exit")
    /\ pidFiles' \in {pidFiles \ {config_snapshot.endpoint}, pidFiles}
    /\ runtimeFile' \in {None, runtimeFile}
    /\ kept' = (\/ kept \/ config_snapshot.endpoint \in pidFiles'
                \/ runtimeFile' # None)
    /\ UNCHANGED <<env, socket, exit, state, listening, channel, signals, thread>>

\* The dropped runtime waits for the signal task to reach an await, and for the
\* threads of spawn_blocking that have begun.
Exit ==
    /\ Goto("exit", "down")
    /\ task \notin MidReload
    /\ \A k \in Sessions : thread[k] # "running"
    /\ ProcessGone
    /\ UNCHANGED <<env, disk, exit, sent, kept>>

\* A step of main fails.  `?` before the server runs skips the cleanup.
StartFails ==
    /\ main \in {"load", "signals", "pid", "publish"} /\ main' = "exit"
    /\ exit' = "error"
    /\ UNCHANGED <<env, disk, state, listening, channel, signals, thread, kept>>

\* A file that was opened is there, whatever was written of it.
PidWriteFails ==
    /\ Goto("pid", "exit") /\ exit' = "error"
    /\ pidFiles' = pidFiles \cup {config_snapshot.endpoint}
    /\ UNCHANGED <<env, socket, runtimeFile, state, listening, channel, signals,
                   thread, kept>>

PublishFails ==
    /\ Goto("publishing", "exit") /\ exit' = "error"
    /\ runtimeFile' \in CutShort
    /\ UNCHANGED <<env, pidFiles, socket, state, listening, channel, signals,
                   thread, kept>>

\* Before the path is bound or after it
BindFails ==
    /\ Goto("bind", "cleanup") /\ exit' = "error"
    /\ \E left \in {"none", "stale"} :
          socket' = [socket EXCEPT ![runtime_state.endpoint] = left]
    /\ UNCHANGED <<env, pidFiles, runtimeFile, state, listening, channel, signals,
                   thread, kept>>

-----------------------------------------------------------------------------
(* Sessions                                                                 *)

\* Connections accepted while main served go on until the runtime is dropped.
BeginSession(k) ==
    /\ \/ main = "serve"
       \/ main \in {"unbind", "cleanup", "exit"} /\ exit = "graceful"
    /\ thread[k] = "none"
    /\ thread' = [thread EXCEPT ![k] = "running"]
    /\ UNCHANGED <<env, disk, main, exit, state, listening, channel, signals, kept>>

\* With a decision, at a limit or on a cancel
EndSession(k) ==
    /\ thread[k] = "running"
    /\ thread' = [thread EXCEPT ![k] = "ended"]
    /\ UNCHANGED <<env, disk, main, exit, state, listening, channel, signals, kept>>

-----------------------------------------------------------------------------
(* The signal task                                                          *)

TaskGoto(from, to) == task = from /\ task' = to

BeginReload ==
    /\ "SIGHUP" \in pending
    /\ TaskGoto("wait", "load")
    /\ pending' = pending \ {"SIGHUP"}
    /\ UNCHANGED <<env, disk, main, exit, state, listening, channel,
                   new_state, early, unwritten, sent, thread, kept>>

ReloadLoads ==
    /\ Loads
    /\ TaskGoto("load", "swap")
    /\ new_state' = Deferred(file)
    /\ UNCHANGED <<env, disk, main, exit, state, listening, channel,
                   pending, early, unwritten, sent, thread, kept>>

ReloadRefused ==
    /\ ~Loads
    /\ TaskGoto("load", "wait")
    /\ UNCHANGED <<env, disk, main, exit, state, listening, channel,
                   new_state, pending, early, unwritten, sent, thread, kept>>

ReloadSwaps ==
    /\ TaskGoto("swap", "write")
    /\ runtime_state' = new_state
    /\ early' = (early \/ main \in {"pid", "publish", "publishing"})
    /\ UNCHANGED <<env, disk, main, exit, config_snapshot, listening, channel,
                   new_state, pending, unwritten, sent, thread, kept>>

ReloadOpensRuntimeFile ==
    /\ TaskGoto("write", "writing")
    /\ runtimeFile' = Truncated
    /\ UNCHANGED <<env, pidFiles, socket, main, exit, state, listening, channel,
                   new_state, pending, early, unwritten, sent, thread, kept>>

ReloadWrites ==
    /\ TaskGoto("writing", "wait")
    /\ runtimeFile' \in Written(ToPublish)
    /\ pending' = AfterReload
    /\ UNCHANGED <<env, pidFiles, socket, main, exit, state, listening, channel,
                   new_state, early, unwritten, sent, thread, kept>>

\* The running configuration is already swapped when this fails.
ReloadCannotWrite ==
    /\ \/ TaskGoto("write", "wait") /\ UNCHANGED runtimeFile
       \/ TaskGoto("writing", "wait") /\ runtimeFile' \in CutShort
    /\ unwritten' = TRUE
    /\ UNCHANGED <<env, pidFiles, socket, main, exit, state, listening, channel,
                   new_state, pending, early, sent, thread, kept>>

RequestShutdown ==
    /\ "SIGTERM" \in pending
    /\ TaskGoto("wait", AfterShutdown)
    /\ message' = (message \/ Delivered)
    /\ pending' = pending \ {"SIGTERM"}
    /\ UNCHANGED <<env, disk, main, exit, state, listening, subscribed,
                   new_state, early, unwritten, sent, thread, kept>>

-----------------------------------------------------------------------------
(* The environment                                                          *)

\* Before its handlers are installed a signal kills the process: see Crash.
Deliver(s) ==
    /\ main \notin {"down", "load", "signals"} /\ task # "off"
    /\ sent < MaxSignals /\ sent' = sent + 1
    /\ pending' = pending \cup {s}
    /\ UNCHANGED <<env, disk, main, exit, state, listening, channel,
                   task, new_state, early, unwritten, thread, kept>>

EditConfig(c) ==
    /\ edits < MaxEdits /\ edits' = edits + 1
    /\ file' = c
    /\ UNCHANGED <<starts, disk, main, exit, state, listening, channel, signals,
                   thread, kept>>

\* SIGKILL, a default signal disposition or a panic of main; the files stay.
Crash ==
    /\ main # "down"
    /\ main' = "down" /\ exit' = "crash"
    /\ socket' = [e \in Endpoints |-> IF socket[e] = "live" THEN "stale" ELSE socket[e]]
    /\ ProcessGone
    /\ UNCHANGED <<env, pidFiles, runtimeFile, sent, kept>>

MainStep ==
    \/ LoadInitial \/ InstallHandlers \/ WritePidFile \/ OpenRuntimeFile \/ Publish
    \/ Subscribe \/ Bind \/ ReceiveShutdown \/ Unbind \/ Cleanup \/ Exit

MainFails == StartFails \/ PidWriteFails \/ PublishFails \/ BindFails

TaskStep ==
    \/ BeginReload \/ ReloadLoads \/ ReloadRefused \/ ReloadSwaps
    \/ ReloadOpensRuntimeFile \/ ReloadWrites \/ ReloadCannotWrite \/ RequestShutdown

Next ==
    \/ Start \/ MainStep \/ MainFails \/ TaskStep \/ Crash
    \/ \E k \in Sessions : BeginSession(k) \/ EndSession(k)
    \/ \E s \in Signal : Deliver(s)
    \/ \E c \in Config \cup {Bad} : EditConfig(c)

Spec == Init /\ [][Next]_vars

\* The runtime keeps polling both tasks, and a limited session ends
\* (Recognition!LimitedSessionEnds).  Nothing obliges anyone to start the daemon,
\* to send a signal or to edit the file.
FairSpec ==
    /\ Spec
    /\ WF_vars(MainStep) /\ WF_vars(TaskStep)
    /\ \A k \in Sessions \ Endless : WF_vars(EndSession(k))

-----------------------------------------------------------------------------
(* Properties                                                               *)

Serving == main = "serve"

\* runtime.rs:70-78, status.rs:35-48: the endpoint the runtime-state file names
\* is the one being served, whatever was edited and reloaded and whatever files
\* earlier processes left, so that a status report does not look for the daemon
\* where it is not.
PublishedEndpointIsServed ==
    Serving /\ runtimeFile \in Config => socket[runtimeFile.endpoint] = "live"

\* runtime.rs:80-93, config.rs:202: between reloads the file agrees with the
\* configuration in force, unless a reload overtook main's own first write
\* (main.rs:85) or could not write.
PublishedIsRunning ==
    Serving /\ task \in {"wait", "ended"} /\ ~early /\ ~unwritten =>
        runtimeFile = runtime_state

\* main.rs:70-74, 91, server.rs:66: a process that stopped on request leaves
\* none of its files but those that could not be removed; no reload brings one
\* back after the cleanup.
GracefulStopLeavesNothing ==
    main \in {"exit", "down"} /\ exit = "graceful" =>
        /\ \A e \in Endpoints : socket[e] # "live"
        /\ ~kept => /\ runtimeFile = None
                    /\ main = "exit" => /\ config_snapshot.endpoint \notin pidFiles
                                        /\ socket[listening] = "none"

InForce(p) == runtime_state \in Config /\ runtime_state.preset = p
Filed(p) == file \in Config /\ file.preset = p

\* main.rs:51-52, runtime.rs:60-91: a SIGHUP sent after an edit brings the edit
\* into force, also one that arrives during a reload that has read the file
\* already, unless the file is edited again or the process is asked to stop or
\* ends first.
ReloadIsHeeded ==
    \A p \in Presets :
        "SIGHUP" \in pending /\ Filed(p)
            ~> (InForce(p) \/ ~Filed(p) \/ task = "ended" \/ main = "down")

RunsEndless == \E k \in Endless : thread[k] = "running"

\* main.rs:49-78, 88-91, server.rs:58: once the server is subscribed, a request
\* to stop that reaches the signal task makes main clean up whatever sessions
\* are running, and ends the process unless one of them has no limit.
SubscribedStops ==
    LET requested == subscribed /\ task \notin {"off", "ended"} /\ "SIGTERM" \in pending
    IN  /\ requested ~> main \in {"exit", "down"}
        /\ requested ~> (main = "down" \/ RunsEndless)

\* server.rs:57 "Handle shutdown signal", main.rs:44 "Setup signal handlers":
\* a request to stop that is handled stops the daemon.  Between main.rs:45 and
\* main.rs:88 the channel has no receiver: the message is dropped and the task
\* that would take the next signal has ended.
ShutdownIsHeeded == "SIGTERM" \in pending ~> main \in {"exit", "down"}

-----------------------------------------------------------------------------
(* Why they hold: an inductive invariant                                    *)

Unpublished == {"signals", "pid", "publish"}
Published == {"subscribe", "bind", "serve", "unbind", "cleanup"}
Running == Unpublished \cup {"publishing"} \cup Published

\* A process has one endpoint, and the signal task keeps it.
OneEndpoint ==
    /\ main \in Running \/ task # "off" =>
           /\ config_snapshot \in Config /\ runtime_state \in Config
           /\ runtime_state.endpoint = config_snapshot.endpoint
    /\ main \in {"down", "load", "signals"} => task = "off"
    /\ task \in {"swap", "write", "writing"} =>
           new_state \in Config /\ new_state.endpoint = config_snapshot.endpoint
    /\ task \in {"write", "writing"} => new_state = runtime_state

\* The only live socket is the one main serves.
OneSocket ==
    /\ main \in {"serve", "unbind"} =>
           listening = config_snapshot.endpoint /\ socket[listening] = "live"
    /\ \A e \in Endpoints :
          socket[e] = "live" => main \in {"serve", "unbind"} /\ e = listening

\* Once main has opened the file, what it holds was written by this process.
PublishedByThisProcess ==
    main \in Published \cup {"publishing"} /\ runtimeFile \in Config =>
        runtimeFile.endpoint = config_snapshot.endpoint

\* Until main has published, its snapshot is current and nobody else writes, or
\* early is set; after that one reload at a time does.
PublishedOrOnItsWay ==
    ~early =>
        /\ main \in Unpublished \cup {"publishing"} =>
               runtime_state = config_snapshot /\ task \notin {"write", "writing"}
        /\ main = "publishing" => runtimeFile = Torn
        /\ main \in Published /\ task = "writing" => runtimeFile = Torn
        /\ main \in Published /\ task \notin {"write", "writing"} /\ ~unwritten =>
               runtimeFile = runtime_state

\* A shutdown was asked for by a task that has ended and writes nothing more.
StopIsLast ==
    /\ message => task = "ended"
    /\ exit = "graceful" =>
          /\ main \in {"unbind", "cleanup", "exit"} => task = "ended"
          /\ main \in {"cleanup", "exit"} =>
                listening = config_snapshot.endpoint /\ (socket[listening] = "none" \/ kept)
          /\ main \in {"exit", "down"} => runtimeFile = None \/ kept
          /\ main = "exit" => config_snapshot.endpoint \notin pidFiles \/ kept

IInv ==
    /\ TypeOK /\ OneEndpoint /\ OneSocket
    /\ PublishedByThisProcess /\ PublishedOrOnItsWay /\ StopIsLast
=============================================================================
