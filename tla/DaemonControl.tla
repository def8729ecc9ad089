---------------------------- MODULE DaemonControl ----------------------------
(***************************************************************************)
(* The processes of one configuration directory: the daemons `nvpn daemon`, *)
(* the `nvpn` commands that start, stop, pause, resume and reload them or   *)
(* hand them a configuration, and the service manager that restarts them.   *)
(* They talk only through files (daemon_runtime.rs): daemon.control,        *)
(* daemon.control.result.json, config.pending.toml, config.toml and         *)
(* daemon.state.json.  Each step below is what one process does between two *)
(* points where another process may look at those files.                    *)
(*                                                                         *)
(* A daemon shows in the process list from its exec on; the pid file, which *)
(* adds nothing to that on Unix, is left out.                               *)
(***************************************************************************)
EXTENDS Integers

CONSTANTS Slots,        \* places for daemon processes
          Clients,      \* terminals and GUIs that run `nvpn` commands
          Configs,      \* configurations a client hands to apply-config
          Commands,     \* the commands the clients run
          Platforms,    \* subset of {"unix", "windows"}
          NoFile,       \* an absent file, request, result or process
          MaxCommands,  \* bound: commands run in a behaviour
          MaxFaults     \* bound: crashes, killed commands, replaced binaries

ASSUME DaemonControlAssumption ==
    /\ NoFile \notin Slots \cup Configs
    /\ Commands \subseteq {"start", "stop", "pause", "resume", "reload", "apply",
                            "install", "uninstall"}
    /\ Platforms \subseteq {"unix", "windows"}
    /\ MaxCommands \in Nat /\ MaxFaults \in Nat

VARIABLES os, root,   \* the platform; whether the commands may signal the daemon
          unit, svc,  \* the service: absent / enabled; its process
          proc,       \* the daemon processes
          control,    \* daemon.control
          result,     \* daemon.control.result.json
          staged,     \* config.pending.toml
          disk,       \* config.toml
          active,     \* session_active in daemon.state.json
          client,     \* the command each client runs, and where it stands
          left        \* what is left of the two bounds

vars == <<os, root, unit, svc, proc, control, result, staged, disk, active,
          client, left>>
files == <<control, result, staged, disk, active>>

Requests == {"stop", "pause", "resume", "reload"}
\* A configuration that does not parse: `apply-config` of any file can stage it.
BadConfig == "bad"

Dead == [st |-> "free", cfg |-> NoFile, on |-> FALSE, req |-> NoFile,
         known |-> FALSE, ok |-> TRUE, term |-> FALSE]
Resting == [op |-> "none", pc |-> "idle", cfg |-> NoFile, asked |-> FALSE,
            known |-> {}, ok |-> FALSE]

\* What `ps` lists: every process from its exec to its exit.
Visible == {s \in Slots : proc[s].st # "free"}
\* What the commands take for running (daemon_candidate_pids): on Unix the pid
\* file adds nothing to the list.
Candidates == Visible
\* Processes that passed their check for another daemon.
Daemons == {s \in Slots : proc[s].st \notin {"free", "check"}}
\* Daemons in their main loop.
Serving == {s \in Slots : proc[s].st \in {"run", "took", "handle", "report"}}

\* daemon.control, with who has it open for writing and which processes
\* existed when its writer opened it.
Request(req, fds, known) == [req |-> req, fds |-> fds, known |-> known]
Result(req, ok) == [req |-> req, ok |-> ok]

TypeOK ==
    /\ os \in Platforms /\ root \in BOOLEAN
    /\ unit \in {"absent", "enabled"} /\ svc \in Slots \cup {NoFile}
    /\ proc \in [Slots ->
         [st : {"free", "check", "load", "clear", "run", "took", "handle",
                "report", "stop"},
          cfg : Configs \cup {NoFile}, on : BOOLEAN,
          req : Requests \cup {"empty", NoFile},
          known : BOOLEAN, ok : BOOLEAN, term : BOOLEAN]]
    /\ control = NoFile \/ control \in
         [req : Requests \cup {"empty"}, fds : SUBSET Clients, known : SUBSET Slots]
    /\ result = NoFile \/ result \in {Result(req, ok) : req \in Requests, ok \in BOOLEAN}
    /\ staged \in Configs \cup {BadConfig, NoFile}
    /\ disk \in Configs
    /\ active \in BOOLEAN
    /\ svc # NoFile => proc[svc].st # "free"

Init ==
    /\ os \in Platforms
    /\ root \in (IF os = "unix" THEN BOOLEAN ELSE {TRUE})
    /\ unit \in {"absent", "enabled"}
    /\ svc = NoFile
    /\ proc = [s \in Slots |-> Dead]
    /\ control = NoFile /\ result = NoFile /\ staged = NoFile
    /\ disk \in Configs
    /\ active = FALSE
    /\ client = [c \in Clients |-> Resting]
    /\ left = [commands |-> MaxCommands, faults |-> MaxFaults]

-----------------------------------------------------------------------------
(* Processes come and go. *)

\* A process of slot s is created; it shows in `ps` at once.
Born(s) ==
    /\ proc[s].st = "free"
    /\ proc' = [proc EXCEPT ![s] = [Dead EXCEPT !.st = "check"]]

\* Mutant: the service manager does not notice that its process ended.
ForgottenByAll(S) == svc' = svc

\* The processes S end: what was remembered about them goes with them.
Forgotten(S) == svc' = IF svc \in S THEN NoFile ELSE svc
Without(ctl, S) ==
    IF ctl = NoFile THEN NoFile ELSE [ctl EXCEPT !.known = @ \ S]
ClientsWithout(S) == [c \in Clients |-> [client[c] EXCEPT !.known = @ \ S]]
Killed(S) == [s \in Slots |-> IF s \in S THEN Dead ELSE proc[s]]
Exits(S) ==
    /\ proc' = Killed(S)
    /\ Forgotten(S)
    /\ control' = Without(control, S)

\* SIGTERM: default action until the main loop installs its handler, then the
\* loop ends at its next turn.
Terminated(S) ==
    [s \in Slots |->
       IF s \notin S THEN proc[s]
       ELSE IF proc[s].st \in {"free", "check", "load", "clear"} THEN Dead
       ELSE [proc[s] EXCEPT !.term = TRUE]]
Mortal(S) == {s \in S : proc[s].st \in {"check", "load", "clear"}}

-----------------------------------------------------------------------------
(* The daemon. *)

\* Mutant: the state file of a daemon, not the process list, says one runs.
NoOtherDaemonByState(s) == ~active

\* ensure_no_other_daemon_processes_for_config
NoOtherDaemon(s) == Visible = {s}

Check(s) ==
    /\ proc[s].st = "check"
    /\ IF NoOtherDaemon(s)
       THEN /\ proc' = [proc EXCEPT ![s].st = "load"]
            /\ UNCHANGED <<svc, control, client>>
       ELSE Exits({s}) /\ client' = ClientsWithout({s})
    /\ UNCHANGED <<os, root, unit, result, staged, disk, active, left>>

LoadConfig(s) ==
    /\ proc[s].st = "load"
    /\ proc' = [proc EXCEPT ![s].st = "clear", ![s].cfg = disk, ![s].on = TRUE]
    /\ UNCHANGED <<os, root, unit, svc, files, client, left>>

\* Mutant: the control file survives the start.
ControlAtStartupKept == control

\* A request left for an earlier process is dropped, then the loop starts and
\* the first state is written.
ControlAtStartup == NoFile
ClearControl(s) ==
    /\ proc[s].st = "clear"
    /\ proc' = [proc EXCEPT ![s].st = "run"]
    /\ control' = ControlAtStartup
    /\ active' = TRUE
    /\ UNCHANGED <<os, root, unit, svc, result, staged, disk, client, left>>

\* take_daemon_control_request: read, ...
ReadControl(s) ==
    /\ proc[s].st = "run" /\ ~proc[s].term /\ control # NoFile
    /\ proc' = [proc EXCEPT ![s].st = "took", ![s].req = control.req,
                            ![s].known = s \in control.known]
    /\ UNCHANGED <<os, root, unit, svc, files, client, left>>

\* ... remove whatever is there by now, parse what was read.
ControlAfterTake(req) == NoFile
RemoveControl(s) ==
    /\ proc[s].st = "took"
    /\ control' = ControlAfterTake(proc[s].req)
    /\ proc' = [proc EXCEPT
         ![s] = IF @.req = "empty"
                THEN [@ EXCEPT !.st = "run", !.req = NoFile, !.known = FALSE]
                ELSE [@ EXCEPT !.st = "handle"]]
    /\ UNCHANGED <<os, root, unit, svc, result, staged, disk, active, client, left>>

\* stop leaves the loop without a result.
HandleStop(s) ==
    /\ proc[s].st = "handle" /\ proc[s].req = "stop"
    /\ proc' = [proc EXCEPT ![s].st = "stop", ![s].req = NoFile, ![s].known = FALSE]
    /\ UNCHANGED <<os, root, unit, svc, files, client, left>>

HandleSession(s) ==
    /\ proc[s].st = "handle" /\ proc[s].req \in {"pause", "resume"}
    /\ proc' = [proc EXCEPT ![s].st = "report", ![s].ok = TRUE,
                            ![s].on = (proc[s].req = "resume")]
    /\ UNCHANGED <<os, root, unit, svc, files, client, left>>

\* update_daemon_config_from_staged_request: the staged configuration moves over
\* config.toml, unless it does not parse; it is gone either way.
AppliesStaged ==
    /\ staged' = NoFile
    /\ disk' = IF staged \in Configs THEN staged ELSE disk

\* reload applies what is staged, then loads config.toml.
HandleReload(s) ==
    /\ proc[s].st = "handle" /\ proc[s].req = "reload"
    /\ AppliesStaged
    /\ proc' = [proc EXCEPT ![s].st = "report", ![s].ok = staged # BadConfig,
                            ![s].cfg = IF staged # BadConfig THEN disk' ELSE @]
    /\ UNCHANGED <<os, root, unit, svc, control, result, active, client, left>>

\* write_daemon_control_result and persist_daemon_runtime_state, after the
\* handler's network calls.
Report(s) ==
    /\ proc[s].st = "report"
    /\ result' = Result(proc[s].req, proc[s].ok)
    /\ active' = proc[s].on
    /\ proc' = [proc EXCEPT ![s].st = "run", ![s].req = NoFile,
                            ![s].known = FALSE, ![s].ok = TRUE]
    /\ UNCHANGED <<os, root, unit, svc, control, staged, disk, client, left>>

\* The loop ends on SIGTERM, ...
LeaveLoop(s) ==
    /\ proc[s].st = "run" /\ proc[s].term
    /\ proc' = [proc EXCEPT ![s].st = "stop"]
    /\ UNCHANGED <<os, root, unit, svc, files, client, left>>

\* ... or when the binary of the service was replaced.
ReplaceBinary(s) ==
    /\ left.faults > 0 /\ os = "unix"
    /\ proc[s].st = "run" /\ svc = s
    /\ proc' = [proc EXCEPT ![s].st = "stop"]
    /\ left' = [left EXCEPT !.faults = @ - 1]
    /\ UNCHANGED <<os, root, unit, svc, files, client>>

\* The shutdown: relays, tunnel and port mapping, then the final state.
Exit(s) ==
    /\ proc[s].st = "stop"
    /\ active' = FALSE
    /\ Exits({s}) /\ client' = ClientsWithout({s})
    /\ UNCHANGED <<os, root, unit, result, staged, disk, left>>

Crash(s) ==
    /\ left.faults > 0
    /\ proc[s].st # "free"
    /\ Exits({s}) /\ client' = ClientsWithout({s})
    /\ left' = [left EXCEPT !.faults = @ - 1]
    /\ UNCHANGED <<os, root, unit, result, staged, disk, active>>

\* Mutant: Restart=on-failure; a daemon that shut down in order stays down.
RestartDueOnFailure == unit = "enabled" /\ os = "unix" /\ svc = NoFile /\ active

\* Restart=always / KeepAlive: the service manager starts the daemon again
\* however it ended, as long as the unit is enabled.  On Windows the service
\* starts with `sc start` and at boot only.
RestartDue == unit = "enabled" /\ os = "unix" /\ svc = NoFile
Supervise(s) ==
    /\ RestartDue
    /\ Born(s)
    /\ svc' = s
    /\ UNCHANGED <<os, root, unit, files, client, left>>

-----------------------------------------------------------------------------
(* The commands. *)

At(c, op, pc) == client[c].op \in op /\ client[c].pc = pc
Goes(c, pc) == client' = [client EXCEPT ![c].pc = pc]
Ends(c) == client' = [client EXCEPT ![c] = Resting]

\* A command starts with daemon_status; most of them end there without a daemon.
Begin(c, op, cfg) ==
    /\ client[c].pc = "idle" /\ left.commands > 0
    /\ op = "apply" <=> cfg # NoFile
    /\ op \notin {"start", "stop", "install", "uninstall"} => Candidates # {}
    /\ op = "start" => Candidates = {}
    /\ op \in {"install", "uninstall"} => root
    /\ client' = [client EXCEPT ![c] =
         [Resting EXCEPT !.op = op, !.cfg = cfg,
            !.pc = CASE op = "start" -> "spawn"
                     [] op = "stop" -> "list"
                     [] op = "install" /\ os = "windows" -> "list"
                     [] op \in {"install", "uninstall"} -> "disable"
                     [] op = "apply" -> "stage"
                     [] OTHER -> "open"]]
    /\ left' = [left EXCEPT !.commands = @ - 1]
    /\ UNCHANGED <<os, root, unit, svc, proc, files>>

\* spawn_daemon_process looks again, then spawns.
Spawn(c, s) ==
    /\ At(c, {"start"}, "spawn")
    /\ IF Candidates # {} THEN UNCHANGED proc ELSE Born(s)
    /\ Ends(c)
    /\ UNCHANGED <<os, root, unit, svc, files, left>>

\* write_daemon_control_request is fs::write: the file is created or emptied ...
OpenControl(c) ==
    /\ client[c].pc = "open"
    /\ control' = Request("empty",
                          {c} \cup (IF control = NoFile THEN {} ELSE control.fds),
                          Visible)
    /\ client' = [client EXCEPT ![c].pc = "fill", ![c].known = Visible]
    /\ UNCHANGED <<os, root, unit, svc, proc, result, staged, disk, active, left>>

\* ... and then filled, which nobody sees when it was removed in between.
FillControl(c) ==
    /\ client[c].pc = "fill"
    /\ control' = IF control # NoFile /\ c \in control.fds
                  THEN Request(IF client[c].op \in {"stop", "install"} THEN "stop"
                               ELSE IF client[c].op = "apply" THEN "reload"
                               ELSE client[c].op,
                               control.fds \ {c}, client[c].known)
                  ELSE control
    /\ client' = [client EXCEPT ![c].known = {},
         ![c].pc = IF client[c].op \in {"stop", "install"} THEN "poll" ELSE "ack"]
    /\ UNCHANGED <<os, root, unit, svc, proc, result, staged, disk, active, left>>

\* wait_for_daemon_control_ack: the file is gone, or the wait times out.  pause
\* and resume then wait for the state file whatever the answer.
Acked(c) ==
    /\ client[c].pc = "ack"
    /\ CASE client[c].op = "apply" ->
              IF control = NoFile THEN Goes(c, "result") ELSE Ends(c)
         [] client[c].op \in {"pause", "resume"} -> Goes(c, "session")
         [] OTHER -> Ends(c)
    /\ UNCHANGED <<os, root, unit, svc, proc, files, left>>

\* wait_for_daemon_session_active, or its timeout.
SessionSeen(c) ==
    /\ client[c].pc = "session"
    /\ client' = [client EXCEPT ![c].pc = "done",
                    ![c].ok = (active = (client[c].op = "resume"))]
    /\ UNCHANGED <<os, root, unit, svc, proc, files, left>>

\* apply_config_via_running_daemon: the old result goes, the configuration is
\* staged by a rename, then it is a reload ...
ClearResult(c) ==
    /\ client[c].pc = "stage" /\ ~client[c].asked
    /\ result' = NoFile
    /\ client' = [client EXCEPT ![c].asked = TRUE]
    /\ UNCHANGED <<os, root, unit, svc, proc, control, staged, disk, active, left>>
Stage(c) ==
    /\ client[c].pc = "stage" /\ client[c].asked
    /\ staged' = client[c].cfg
    /\ Goes(c, "open")
    /\ UNCHANGED <<os, root, unit, svc, proc, control, result, disk, active, left>>
\* ... that ends with the next result of a reload that shows, or times out.
ResultSeen(c) ==
    /\ client[c].pc = "result"
    /\ IF result # NoFile /\ result.req = "reload"
       THEN /\ client' = [client EXCEPT ![c].pc = "done", ![c].ok = result.ok]
            /\ result' = NoFile
       ELSE Ends(c) /\ UNCHANGED result
    /\ UNCHANGED <<os, root, unit, svc, proc, control, staged, disk, active, left>>
Done(c) ==
    /\ client[c].pc = "done"
    /\ Ends(c)
    /\ UNCHANGED <<os, root, unit, svc, proc, files, left>>

\* Without a daemon apply-config fails, except on Windows with a service: there
\* it writes the configuration itself and starts the service.
ApplyViaService(c, s, cfg) ==
    /\ client[c].pc = "idle" /\ left.commands > 0 /\ "apply" \in Commands
    /\ os = "windows" /\ unit = "enabled" /\ Candidates = {}
    /\ disk' = cfg
    /\ Born(s) /\ svc' = s
    /\ left' = [left EXCEPT !.commands = @ - 1]
    /\ UNCHANGED <<os, root, unit, control, result, staged, active, client>>

\* stop_daemon: without a daemon it only cleans up; Windows, and a user who may
\* not signal the daemon, write a stop request; otherwise SIGTERM.
ListAndSignal(c) ==
    /\ client[c].pc = "list"
    /\ IF Candidates = {}
       THEN /\ Goes(c, "finish")
            /\ UNCHANGED <<proc, svc, control>>
       ELSE IF os = "windows" \/ ~root
       THEN /\ client' = [client EXCEPT ![c].pc = "open", ![c].asked = TRUE]
            /\ UNCHANGED <<proc, svc, control>>
       ELSE LET D == Mortal(Candidates) IN
            /\ proc' = Terminated(Candidates)
            /\ Forgotten(D)
            /\ control' = Without(control, D)
            /\ client' = [ClientsWithout(D) EXCEPT ![c].pc = "poll"]
    /\ UNCHANGED <<os, root, unit, result, staged, disk, active, left>>

Polled(c) ==
    /\ client[c].pc = "poll"
    /\ Candidates = {}
    /\ Goes(c, "finish")
    /\ UNCHANGED <<os, root, unit, svc, proc, files, left>>

\* The wait is over: --force kills what may be killed, then a stop by request
\* asks once more (`ok` marks the last try) and otherwise the command gives up.
PollTimesOut(c, force) ==
    /\ client[c].pc = "poll"
    /\ Candidates # {}
    /\ LET K == IF force /\ root /\ ~client[c].ok THEN Candidates ELSE {} IN
       /\ Exits(K)
       /\ client' = [ClientsWithout(K) EXCEPT ![c] =
            IF @.asked THEN [@ EXCEPT !.pc = "open", !.asked = FALSE, !.ok = TRUE]
            ELSE IF K = Candidates THEN [@ EXCEPT !.pc = "finish"]
            ELSE Resting]
    /\ UNCHANGED <<os, root, unit, result, staged, disk, active, left>>

\* finish_stop_daemon: repair_saved_network_state, then the control file goes.
Repair(c) ==
    /\ client[c].pc = "finish"
    /\ Goes(c, "cleanup")
    /\ UNCHANGED <<os, root, unit, svc, proc, files, left>>
CleanUp(c) ==
    /\ client[c].pc = "cleanup"
    /\ control' = NoFile
    /\ IF client[c].op = "install"
       THEN Goes(c, IF os = "unix" THEN "enable" ELSE "disable")
       ELSE Ends(c)
    /\ UNCHANGED <<os, root, unit, svc, proc, result, staged, disk, active, left>>

\* service install / uninstall: the unit is taken away with its process
\* (disable --now and bootout wait for it), a daemon started by hand is stopped
\* with force - on Windows before that - and the new unit is enabled and started.
DisableUnixUnit(c) ==
    /\ client[c].pc = "disable" /\ os = "unix"
    /\ unit' = "absent"
    /\ LET S == {svc} \cap Slots IN
       /\ proc' = Terminated(S)
       /\ Forgotten(Mortal(S))
       /\ control' = Without(control, Mortal(S))
       /\ client' = [ClientsWithout(Mortal(S)) EXCEPT ![c].pc = "unload"]
    /\ UNCHANGED <<os, root, result, staged, disk, active, left>>

\* `sc stop`: the handler of a running service writes a stop request.
ServiceStopRequest == IF svc = NoFile THEN control ELSE Request("stop", {}, Visible)

\* sc stop and sc delete return before the process has ended.
DisableWindowsService(c) ==
    /\ client[c].pc = "disable" /\ os = "windows"
    /\ unit' = "absent"
    /\ control' = ServiceStopRequest
    /\ Goes(c, "unload")
    /\ UNCHANGED <<os, root, svc, proc, result, staged, disk, active, left>>

UnitGone(c) ==
    /\ client[c].pc = "unload"
    /\ os = "unix" => svc = NoFile
    /\ IF client[c].op = "install"
       THEN Goes(c, IF os = "unix" THEN "list" ELSE "enable")
       ELSE Ends(c)
    /\ UNCHANGED <<os, root, unit, svc, proc, files, left>>

\* enable --now, bootstrap, sc create and sc start.
EnableUnit(c, s) ==
    /\ client[c].pc = "enable" /\ svc = NoFile
    /\ unit' = "enabled" /\ Born(s) /\ svc' = s
    /\ Ends(c)
    /\ UNCHANGED <<os, root, files, left>>

\* A service that still has a process: systemd and launchd have nothing to
\* start, sc create fails.
EnableBusyUnit(c) ==
    /\ client[c].pc = "enable" /\ svc # NoFile
    /\ unit' = IF os = "unix" THEN "enabled" ELSE unit
    /\ Ends(c)
    /\ UNCHANGED <<os, root, svc, proc, files, left>>

\* A command is interrupted.
ClientDies(c) ==
    /\ left.faults > 0 /\ client[c].pc # "idle"
    /\ Ends(c)
    /\ left' = [left EXCEPT !.faults = @ - 1]
    /\ UNCHANGED <<os, root, unit, svc, proc, files>>

-----------------------------------------------------------------------------
DaemonStep(s) ==
    \/ Check(s) \/ LoadConfig(s) \/ ClearControl(s)
    \/ ReadControl(s) \/ RemoveControl(s)
    \/ HandleStop(s) \/ HandleSession(s) \/ HandleReload(s) \/ Report(s)
    \/ LeaveLoop(s) \/ Exit(s)

ClientStep(c) ==
    \/ \E s \in Slots :
         Spawn(c, s) \/ EnableUnit(c, s) \/ \E cfg \in Configs : ApplyViaService(c, s, cfg)
    \/ OpenControl(c) \/ FillControl(c) \/ Acked(c) \/ SessionSeen(c)
    \/ ClearResult(c) \/ Stage(c) \/ ResultSeen(c) \/ Done(c)
    \/ ListAndSignal(c) \/ Polled(c)
    \/ \E force \in BOOLEAN : PollTimesOut(c, force)
    \/ Repair(c) \/ CleanUp(c)
    \/ DisableUnixUnit(c) \/ DisableWindowsService(c) \/ UnitGone(c) \/ EnableBusyUnit(c)

Next ==
    \/ \E s \in Slots : DaemonStep(s) \/ ReplaceBinary(s) \/ Crash(s) \/ Supervise(s)
    \/ \E c \in Clients :
         \/ ClientStep(c) \/ ClientDies(c)
         \/ \E op \in Commands, cfg \in Configs \cup {BadConfig, NoFile} : Begin(c, op, cfg)

Spec == Init /\ [][Next]_vars

\* A daemon's loop ticks every second whatever it waits for, and the service
\* manager restarts after RestartSec; nothing makes anybody run a command, and
\* one that runs may be slow for ever.
Fairness ==
    /\ \A s \in Slots : WF_vars(DaemonStep(s))
    /\ WF_vars(\E s \in Slots : Supervise(s))
FairSpec == Spec /\ Fairness

-----------------------------------------------------------------------------
(* Properties. *)

\* At most one daemon of a configuration gets past its check, whoever starts
\* daemons and at whatever moment: `start`, `service install` and the service
\* manager race.
AtMostOneDaemon == \A s, t \in Daemons : s = t

\* A daemon never acts on a request that was begun before it existed, such as
\* the stop request that ended the daemon before it.
OldRequestsIgnored ==
    \A s \in Slots : proc[s].st \in {"took", "handle"} => proc[s].known

\* While the service is enabled a daemon comes back: after a crash, after
\* `nvpn stop`, after the binary was replaced, and when the service's own
\* process and one started by hand turned each other away.
ServiceKeepsRunning ==
    (unit = "enabled" /\ os = "unix") ~> (Serving # {} \/ unit = "absent")
=============================================================================
