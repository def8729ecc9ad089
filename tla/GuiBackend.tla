----------------------------- MODULE GuiBackend -----------------------------
(***************************************************************************)
(* The desktop app's backend (nostr-vpn-gui, src-tauri): NvpnBackend, one   *)
(* object behind a mutex, which keeps a copy of config.toml and of what     *)
(* `nvpn status` and `nvpn service status` last said, edits the copy, saves *)
(* it whole, and drives the daemon and the service with `nvpn` commands.    *)
(* A command holds the mutex, but every call it makes is a step in which    *)
(* the daemon, the service manager, another terminal or the peers may get   *)
(* in between: `todo` is what the running command still has to do.          *)
(***************************************************************************)
EXTENDS Integers, Sequences

CONSTANTS People,       \* who may be added, or asks to join
          Platforms,    \* subset of {"macos", "linux", "windows"}
          FirstListen,  \* does the first network listen for join requests?
          Fallible,     \* the steps that may fail
          MaxTime, MaxCommands,
          MaxTroubles   \* bounds; troubles: steps that fail, acts of others

ASSUME GuiBackendAssumption ==
    /\ Platforms \subseteq {"macos", "linux", "windows"}
    /\ FirstListen \subseteq BOOLEAN
    /\ MaxTime \in Nat \ {0} /\ {MaxCommands, MaxTroubles} \subseteq Nat

VARIABLES os,        \* the platform
          disk,      \* config.toml
          daemon,    \* the daemon process
          service,   \* the background service
          peer,      \* the inviting admin, as the daemon sees it
          gui,       \* NvpnBackend
          todo,      \* the steps left of the running command
          sent,      \* when join requests were published
          foreign,   \* history: others acted since the backend last looked
          tainted,   \* history: ... since the command's view was taken
          now, left

vars == <<os, disk, daemon, service, peer, gui, todo, sent, foreign, tainted, now, left>>
world == <<os, disk, daemon, service, peer, now>>

Time == 0 .. MaxTime

\* A configuration: the members and the join requests of the network this
\* node administers, the own join request to another network (0: none), and
\* how often, modulo 2, something else was edited.
Config == [members : SUBSET People, inbound : SUBSET People, listen : BOOLEAN,
           invited : BOOLEAN, outbound : Time, other : 0 .. 1]
FirstConfig(listen) ==
    [members |-> {}, inbound |-> {}, listen |-> listen, invited |-> FALSE,
     outbound |-> 0, other |-> 0]

\* The daemon has somebody to connect to.
HasPeers(c) == c.members # {} \/ c.invited
\* What `nvpn status` reports as session_active.
Active == daemon.up /\ daemon.on /\ HasPeers(daemon.loaded)

TypeOK ==
    /\ os \in Platforms
    /\ disk \in Config
    /\ daemon \in [up : BOOLEAN, on : BOOLEAN, serviced : BOOLEAN, loaded : Config]
    /\ service \in [installed : BOOLEAN, disabled : BOOLEAN, current : BOOLEAN]
    /\ peer \in [reachable : BOOLEAN, at : Time]
    /\ gui \in [mem : Config, running : BOOLEAN, active : BOOLEAN,
                installed : BOOLEAN, disabled : BOOLEAN, fresh : BOOLEAN,
                online : BOOLEAN, at : Time]
    /\ sent \subseteq 1 .. MaxTime
    /\ daemon.serviced => daemon.up /\ service.installed
    /\ gui.online => gui.active
    /\ gui.active => gui.running
    /\ \A c \in {disk, gui.mem, daemon.loaded} : c.inbound \cap c.members = {}

\* fetch_cli_service_status and the 5 seconds its answer is kept.
ServiceSeen(g, fault) ==
    IF g.fresh THEN g
    ELSE [g EXCEPT !.installed = ~fault /\ service.installed,
                   !.disabled = ~fault /\ service.disabled, !.fresh = TRUE]

\* Mutant: what was last seen of the peers stays when the session ends.
PeerSeenSticky(g) ==
    IF ~g.active THEN g
    ELSE [g EXCEPT !.online = peer.reachable, !.at = peer.at]

\* refresh_peer_runtime_status: a peer that the daemon no longer reports as
\* reachable stays online for the grace after its last handshake.
PeerSeen(g) ==
    LET sticky == g.online /\ g.at = now
    IN IF ~g.active THEN [g EXCEPT !.online = FALSE, !.at = 0]
       ELSE [g EXCEPT !.online = peer.reachable \/ sticky,
                      !.at = IF peer.at > 0 THEN peer.at
                             ELSE IF peer.reachable \/ sticky THEN g.at ELSE 0]

\* fetch_cli_status, and what a failure of it leaves.
StatusSeen(g, fault) ==
    IF fault THEN [g EXCEPT !.running = FALSE, !.active = FALSE, !.online = FALSE]
    ELSE PeerSeen([g EXCEPT !.running = daemon.up, !.active = Active])

\* sync_daemon_state; a file that does not load leaves the copy as it is.
Synced(fault) ==
    StatusSeen(ServiceSeen([gui EXCEPT !.mem = IF fault = "load" THEN @ ELSE disk],
                           fault = "service"), fault = "status")

RequiresInstall(g) == ~g.installed /\ ~g.running
RequiresEnable(g) == os = "macos" /\ g.installed /\ g.disabled /\ ~g.running

\* outbound_join_request_connected: online, with a handshake after the request.
RequestAnswered ==
    gui.mem.outbound # 0 /\ gui.online /\ gui.at > gui.mem.outbound

-----------------------------------------------------------------------------
(* Command steps.  A step that fails ends the command, up to where its      *)
(* caller catches the error.                                                *)

TickSteps == <<"clear", "sync", "clear">>
ConnectSteps == <<"persist", "look", "connect">>

FirstCaught(steps) ==
    CHOOSE i \in DOMAIN steps :
      steps[i] = "caught" /\ \A j \in 1 .. i - 1 : steps[j] # "caught"
AfterFailure(steps) ==
    IF \E i \in DOMAIN steps : steps[i] = "caught"
    THEN SubSeq(steps, FirstCaught(steps), Len(steps))
    ELSE <<>>

Step(s) == todo # <<>> /\ Head(todo) = s
Rest == Tail(todo)
Proceed == todo' = Rest
MayFail(s) == s \in Fallible /\ left.troubles > 0
Fault == left' = [left EXCEPT !.troubles = @ - 1]
NoFault == UNCHANGED left

\* A daemon process that starts: session_enabled, with the file it finds.
Started(byService) == [up |-> TRUE, on |-> TRUE, serviced |-> byService, loaded |-> disk]
Stopped == [up |-> FALSE, on |-> FALSE, serviced |-> FALSE, loaded |-> FirstConfig(FALSE)]
ServiceUp == IF daemon.up THEN daemon ELSE Started(TRUE)
Unseen == [reachable |-> FALSE, at |-> 0]

\* An `nvpn` command that fails without having done anything, a save that is
\* refused, a publish that no relay takes.
FailStep ==
    /\ todo # <<>> /\ Head(todo) \in {"persist", "request", "resume", "pause", "start",
                                    "install", "enable", "uninstall", "disable"}
    /\ MayFail(Head(todo)) /\ Fault
    /\ todo' = AfterFailure(Rest)
    /\ UNCHANGED <<world, gui, sent, foreign, tainted>>

\* windows_should_use_daemon_owned_config_apply, and that the daemon answers; a
\* service of an older build is reinstalled first.
ViaDaemon ==
    /\ os = "windows" /\ (gui.running \/ gui.installed)
    /\ daemon.up /\ (service.current \/ daemon.serviced)

\* persist_config: the whole copy is written over the file.
SaveLocally ==
    /\ Step("persist") /\ Proceed
    /\ \/ ~ViaDaemon /\ NoFault
       \/ ViaDaemon /\ MayFail("apply") /\ Fault
    /\ disk' = gui.mem
    /\ UNCHANGED <<os, daemon, service, peer, now, gui, sent, foreign, tainted>>

\* persist_config_via_running_daemon: the daemon writes the file and takes it
\* up, so finish_config_mutation does not reload it.
SaveViaDaemon ==
    /\ Step("persist") /\ NoFault /\ ViaDaemon
    /\ disk' = gui.mem
    /\ daemon' = [daemon EXCEPT !.loaded = gui.mem, !.on = @ \/ ~service.current]
    /\ service' = [service EXCEPT !.current = TRUE, !.disabled = @ /\ service.current]
    /\ gui' = [gui EXCEPT !.fresh = @ /\ service.current]
    /\ todo' = IF Rest # <<>> /\ Head(Rest) = "reload" THEN Tail(Rest) ELSE Rest
    /\ UNCHANGED <<os, peer, now, sent, foreign, tainted>>

\* Mutant: after an edit the daemon is told only when the session is active.
ReloadNeededWhenActive == gui.active

\* finish_config_mutation, reload_daemon_if_running: what the backend thinks.
ReloadNeeded == gui.running

\* reload_daemon_process; no daemon to reload is no error.
Reload ==
    /\ Step("reload") \/ Step("reload_always")
    /\ \/ /\ Step("reload") /\ ~ReloadNeeded
          /\ UNCHANGED <<daemon, left>> /\ Proceed
       \/ /\ Step("reload_always") \/ ReloadNeeded
          /\ daemon' = IF daemon.up THEN [daemon EXCEPT !.loaded = disk] ELSE daemon
          /\ \/ NoFault /\ Proceed
             \/ MayFail("reload") /\ Fault /\ todo' = AfterFailure(Rest)
    /\ UNCHANGED <<os, disk, service, peer, now, gui, sent, foreign, tainted>>

Sync ==
    /\ Step("sync") \/ Step("look")
    /\ Proceed
    /\ \/ NoFault /\ gui' = Synced("none") /\ foreign' = FALSE
          /\ tainted' = (tainted /\ Step("sync"))
       \/ \E fault \in {"load", "service", "status"} :
            MayFail(fault) /\ Fault /\ gui' = Synced(fault) /\ tainted' = TRUE /\ foreign' = TRUE
    /\ UNCHANGED <<world, sent>>

\* Mutant: an answered request is only forgotten in the copy.
ClearInMemory ==
    /\ Step("clear") /\ Proceed /\ NoFault
    /\ gui' = IF RequestAnswered THEN [gui EXCEPT !.mem.outbound = 0] ELSE gui
    /\ UNCHANGED <<world, sent, foreign, tainted>>

\* clear_connected_join_requests: a failing save is only logged.
Clear ==
    /\ Step("clear") /\ Proceed
    /\ gui' = IF RequestAnswered THEN [gui EXCEPT !.mem.outbound = 0] ELSE gui
    /\ \/ NoFault /\ disk' = IF RequestAnswered THEN gui'.mem ELSE disk
       \/ RequestAnswered /\ MayFail("clear") /\ Fault /\ disk' = disk
    /\ UNCHANGED <<os, daemon, service, peer, now, sent, foreign, tainted>>

Resume ==
    /\ Step("resume") /\ Proceed /\ NoFault
    /\ daemon' = [daemon EXCEPT !.on = @ \/ daemon.up]
    /\ UNCHANGED <<os, disk, service, peer, now, gui, sent, foreign, tainted>>

Pause ==
    /\ Step("pause") /\ Proceed /\ NoFault
    /\ daemon' = [daemon EXCEPT !.on = FALSE]
    /\ peer' = Unseen
    /\ UNCHANGED <<os, disk, service, now, gui, sent, foreign, tainted>>

\* start_daemon_process: a daemon that is already running is no error.  On
\* Windows an installed service is enabled instead.
StartEnables == os = "windows" /\ gui.installed /\ ~gui.disabled
Start ==
    /\ Step("start") /\ Proceed /\ NoFault
    /\ daemon' = IF daemon.up THEN daemon ELSE Started(StartEnables /\ service.installed)
    /\ service' = [service EXCEPT !.disabled = @ /\ ~StartEnables]
    /\ gui' = [gui EXCEPT !.fresh = @ /\ ~StartEnables]
    /\ UNCHANGED <<os, disk, peer, now, sent, foreign, tainted>>

\* `nvpn service install --force`: the service starts unless a daemon runs.
Install ==
    /\ Step("install") /\ Proceed /\ NoFault
    /\ service' = [installed |-> TRUE, disabled |-> FALSE, current |-> TRUE]
    /\ daemon' = IF daemon.serviced THEN Started(TRUE) ELSE ServiceUp
    /\ gui' = [gui EXCEPT !.fresh = FALSE]
    /\ UNCHANGED <<os, disk, peer, now, sent, foreign, tainted>>

Enable ==
    /\ Step("enable") /\ Proceed /\ NoFault
    /\ service' = [service EXCEPT !.disabled = FALSE]
    /\ daemon' = IF service.installed THEN ServiceUp ELSE daemon
    /\ gui' = [gui EXCEPT !.fresh = FALSE]
    /\ UNCHANGED <<os, disk, peer, now, sent, foreign, tainted>>

\* `nvpn service uninstall`, `nvpn service disable`: the service's daemon ends.
EndService(step, remaining) ==
    /\ Step(step) /\ Proceed /\ NoFault
    /\ service' = remaining
    /\ daemon' = IF daemon.serviced THEN Stopped ELSE daemon
    /\ peer' = IF daemon.serviced THEN Unseen ELSE peer
    /\ gui' = [gui EXCEPT !.fresh = FALSE]
    /\ UNCHANGED <<os, disk, now, sent, foreign, tainted>>
Uninstall ==
    EndService("uninstall", [service EXCEPT !.installed = FALSE, !.disabled = FALSE])
Disable ==
    EndService("disable", [service EXCEPT !.disabled = @ \/ service.installed])

\* Mutant: a daemon that already runs is not resumed.
ConnectChoiceNoResume(again) ==
    IF gui.running THEN <<"start", "sync", "connected">>
    ELSE IF RequiresInstall(gui) THEN IF again THEN <<"fail">> ELSE <<"install", "sync", "connect_again">>
    ELSE IF RequiresEnable(gui) THEN IF again THEN <<"fail">> ELSE <<"enable", "sync", "connect_again">>
    ELSE <<"start", "sync", "connected">>

\* connect_session, after the status is synced, and again after the service
\* has been installed or enabled.
ConnectChoice(again) ==
    IF gui.running
    THEN (IF again THEN <<"resume", "start">> ELSE <<"resume">>) \o <<"sync", "connected">>
    ELSE IF RequiresInstall(gui) THEN IF again THEN <<"fail">> ELSE <<"install", "sync", "connect_again">>
    ELSE IF RequiresEnable(gui) THEN IF again THEN <<"fail">> ELSE <<"enable", "sync", "connect_again">>
    ELSE <<"start", "sync", "connected">>

ChooseConnect ==
    /\ \E again \in BOOLEAN :
         /\ Step(IF again THEN "connect_again" ELSE "connect")
         /\ todo' = LET steps == ConnectChoice(again)
                    IN IF steps = <<"fail">> THEN AfterFailure(Rest) ELSE steps \o Rest
    /\ NoFault /\ UNCHANGED <<world, gui, sent, foreign, tainted>>

\* A session that starts by the way: its errors are only shown.
TryConnect ==
    /\ Step("try_connect") /\ NoFault
    /\ todo' = ConnectSteps \o <<"caught">> \o Rest
    /\ UNCHANGED <<world, gui, sent, foreign, tainted>>

ConnectIfIdle == IF gui.active THEN <<>> ELSE <<"try_connect">>

\* request_network_join: publish to the admins, then record and save it.
Request ==
    /\ Step("request") /\ NoFault
    /\ gui.mem.invited /\ gui.mem.outbound = 0 /\ now > 0
    /\ sent' = sent \cup {now}
    /\ gui' = [gui EXCEPT !.mem.outbound = now]
    /\ todo' = <<"persist">> \o ConnectIfIdle \o Rest
    /\ UNCHANGED <<world, foreign, tainted>>

\* Nothing to ask, or asked already.
RequestNothing ==
    /\ Step("request") /\ NoFault
    /\ ~gui.mem.invited \/ gui.mem.outbound # 0
    /\ todo' = IF gui.mem.invited THEN Rest ELSE AfterFailure(Rest)
    /\ UNCHANGED <<world, gui, sent, foreign, tainted>>

\* NvpnBackend::new: start the daemon for peers or join requests, unless the
\* service has to be set up first or, on a macOS autostart, will do it.
Launch ==
    /\ Step("launch") /\ NoFault
    /\ \E autoconnect, autostarted \in BOOLEAN :
         LET wants == (autoconnect /\ HasPeers(gui.mem)) \/ gui.mem.listen
             deferred == os = "macos" /\ autostarted /\ gui.installed /\ ~gui.disabled
         IN todo' = IF wants /\ ~gui.running /\ ~deferred
                       /\ ~RequiresInstall(gui) /\ ~RequiresEnable(gui)
                    THEN <<"start", "caught", "sync">> \o Rest ELSE Rest
    /\ UNCHANGED <<world, gui, sent, foreign, tainted>>

\* Places in a command that its steps, or a property, refer to.
Markers == {"caught", "connected", "disconnected", "edited", "listening", "quiet"}
Pass ==
    /\ todo # <<>> /\ Head(todo) \in Markers /\ Proceed /\ NoFault
    /\ UNCHANGED <<world, gui, sent, foreign, tainted>>

-----------------------------------------------------------------------------
(* The commands: one at a time, each followed by a tick if it succeeds.     *)

Begin(mem, steps) ==
    /\ todo = <<>> /\ left.commands > 0
    /\ left' = [left EXCEPT !.commands = @ - 1]
    /\ gui' = [gui EXCEPT !.mem = mem]
    /\ todo' = steps \o TickSteps
    /\ tainted' = foreign
    /\ UNCHANGED <<world, sent, foreign>>

Applied == <<"persist", "reload", "sync", "edited">>
Flipped(b) == 1 - b

AddParticipant(p) ==
    Begin([gui.mem EXCEPT !.members = @ \cup {p}, !.inbound = @ \ {p}], Applied)
RemoveParticipant(p) ==
    /\ p \in gui.mem.members
    /\ Begin([gui.mem EXCEPT !.members = @ \ {p}], Applied)
AcceptJoinRequest(p) ==
    /\ p \in gui.mem.inbound
    /\ Begin([gui.mem EXCEPT !.members = @ \cup {p}, !.inbound = @ \ {p}],
             Applied \o ConnectIfIdle)
\* apply_network_invite_to_active_network, of one inviting network.
WithInvite(c) == [c EXCEPT !.invited = TRUE]
ImportInvite == Begin(WithInvite(gui.mem), Applied \o <<"request", "caught">>)
RequestJoin == Begin(gui.mem, <<"request">>)
\* add_network, set_network_mesh_id, remove_network, set_network_enabled
ChangeNetworks == Begin([gui.mem EXCEPT !.other = Flipped(@)], Applied)
\* add_relay, remove_relay
ChangeRelays == Begin([gui.mem EXCEPT !.other = Flipped(@)], Applied)
\* rename_network asks for no reload.
RenameNetwork == Begin([gui.mem EXCEPT !.other = Flipped(@)], <<"persist", "sync">>)
UpdateSettings == Begin([gui.mem EXCEPT !.other = Flipped(@)], Applied)
\* A field that does not parse ends the command with the fields before it
\* already changed in the copy.
UpdateSettingsRejected ==
    /\ todo = <<>> /\ left.commands > 0
    /\ left' = [left EXCEPT !.commands = @ - 1]
    /\ gui' = [gui EXCEPT !.mem.other = Flipped(@)]
    /\ tainted' = foreign
    /\ UNCHANGED <<world, todo, sent, foreign>>

\* set_network_join_requests_enabled: the daemon must listen also when the
\* session is off, and need not run for that any more.
SetJoinRequests(enabled) ==
    LET switch == IF gui.active \/ ~(enabled \/ gui.mem.listen) THEN <<>>
                  ELSE IF enabled THEN <<"resume">> ELSE <<"pause">>
        apply == IF gui.running THEN <<"reload_always">> \o switch
                 ELSE IF enabled THEN <<"start">> ELSE <<>>
    IN Begin([gui.mem EXCEPT !.listen = enabled],
             <<"persist">> \o apply \o <<"sync", IF enabled THEN "listening" ELSE "quiet">>)

Connect == Begin(gui.mem, ConnectSteps)
Disconnect ==
    Begin(gui.mem, (IF gui.running THEN <<"pause">> ELSE <<>>) \o <<"sync", "disconnected">>)
\* install_system_service, uninstall_, enable_, disable_system_service
ServiceCommand == \E s \in {"install", "uninstall", "enable", "disable"} : Begin(gui.mem, <<s>>)

\* The page asks for a tick every second.
TickCommand ==
    /\ todo = <<>> /\ todo' = TickSteps
    /\ tainted' = foreign
    /\ UNCHANGED <<world, gui, sent, foreign, left>>

-----------------------------------------------------------------------------
(* Everybody else. *)

Event == left.troubles > 0 /\ left' = [left EXCEPT !.troubles = @ - 1]
Others == foreign' = TRUE /\ tainted' = TRUE

\* The app quits, or dies in the middle of a command, and is opened again.
Reopen ==
    /\ Event
    /\ gui' = [mem |-> disk, running |-> FALSE, active |-> FALSE, installed |-> FALSE,
               disabled |-> FALSE, fresh |-> FALSE, online |-> FALSE, at |-> 0]
    /\ todo' = <<"sync", "launch">>
    /\ UNCHANGED <<world, sent, foreign, tainted>>

\* The daemon records a join request and saves the configuration it has.
ReceiveJoinRequest(p) ==
    /\ Event /\ Others
    /\ daemon.up /\ daemon.loaded.listen
    /\ p \notin daemon.loaded.members \cup daemon.loaded.inbound
    /\ disk' = [daemon.loaded EXCEPT !.inbound = @ \cup {p}]
    /\ daemon' = [daemon EXCEPT !.loaded = disk']
    /\ UNCHANGED <<os, service, peer, now, gui, todo, sent>>

DaemonExits ==
    /\ Event /\ Others /\ daemon.up
    /\ daemon' = Stopped /\ peer' = Unseen
    /\ UNCHANGED <<os, disk, service, now, gui, todo, sent>>

\* The service manager keeps an enabled service running.
ServiceStarts ==
    /\ service.installed /\ ~service.disabled /\ ~daemon.up /\ Others
    /\ daemon' = Started(TRUE)
    /\ UNCHANGED <<os, disk, service, peer, now, gui, todo, sent, left>>

\* `nvpn` in a terminal: start, pause, resume, and the service commands.
OtherClient ==
    /\ Event /\ Others
    /\ \/ /\ daemon' = IF daemon.up THEN [daemon EXCEPT !.on = ~@] ELSE Started(FALSE)
          /\ service' = service
       \/ /\ service' = [service EXCEPT !.installed = ~@, !.disabled = FALSE]
          /\ daemon' = IF service.installed THEN IF daemon.serviced THEN Stopped ELSE daemon
                       ELSE ServiceUp
    /\ peer' = IF daemon'.up /\ daemon'.on THEN peer ELSE Unseen
    /\ UNCHANGED <<os, disk, now, gui, todo, sent>>

\* WireGuard and the clock.
Handshake ==
    /\ Active /\ daemon.loaded.invited /\ peer' = [reachable |-> TRUE, at |-> now]
    /\ peer # peer'
    /\ UNCHANGED <<os, disk, daemon, service, now, gui, todo, sent, foreign, tainted, left>>
PeerSilent ==
    /\ Event /\ peer.reachable /\ peer' = [peer EXCEPT !.reachable = FALSE]
    /\ UNCHANGED <<os, disk, daemon, service, now, gui, todo, sent, foreign, tainted>>
Tick ==
    /\ now < MaxTime /\ now' = now + 1
    /\ UNCHANGED <<os, disk, daemon, service, peer, gui, todo, sent, foreign, tainted, left>>
\* SERVICE_STATUS_REFRESH_INTERVAL is over.
ServiceStatusAges ==
    /\ todo = <<>> /\ gui.fresh /\ gui' = [gui EXCEPT !.fresh = FALSE]
    /\ UNCHANGED <<world, todo, sent, foreign, tainted, left>>

-----------------------------------------------------------------------------
Init ==
    /\ os \in Platforms
    /\ \E listen \in FirstListen : disk = FirstConfig(listen)
    /\ service \in {s \in [installed : BOOLEAN, disabled : BOOLEAN, current : BOOLEAN] :
                     /\ s.disabled => s.installed
                     /\ ~s.current => s.installed /\ os = "windows"}
    /\ daemon = Stopped /\ peer = Unseen
    /\ gui = [mem |-> disk, running |-> FALSE, active |-> FALSE, installed |-> FALSE,
              disabled |-> FALSE, fresh |-> FALSE, online |-> FALSE, at |-> 0]
    /\ todo = <<"sync", "launch">>
    /\ sent = {} /\ foreign = FALSE /\ tainted = FALSE /\ now = 1
    /\ left = [commands |-> MaxCommands, troubles |-> MaxTroubles]

Steps ==
    \/ FailStep \/ SaveLocally \/ SaveViaDaemon \/ Reload \/ Sync \/ Clear
    \/ Resume \/ Pause \/ Start \/ Install \/ Enable \/ Uninstall \/ Disable
    \/ ChooseConnect \/ TryConnect \/ Request \/ RequestNothing \/ Launch \/ Pass

Commands ==
    \/ \E p \in People : AddParticipant(p) \/ RemoveParticipant(p) \/ AcceptJoinRequest(p)
    \/ ImportInvite \/ RequestJoin \/ ChangeNetworks \/ ChangeRelays \/ RenameNetwork
    \/ UpdateSettings \/ UpdateSettingsRejected
    \/ \E enabled \in BOOLEAN : SetJoinRequests(enabled)
    \/ Connect \/ Disconnect \/ ServiceCommand

Next ==
    \/ Steps \/ Commands \/ TickCommand
    \/ Reopen \/ DaemonExits \/ ServiceStarts \/ OtherClient
    \/ \E p \in People : ReceiveJoinRequest(p)
    \/ Handshake \/ PeerSilent \/ Tick \/ ServiceStatusAges

Spec == Init /\ [][Next]_vars
\* A command runs to its end, and the page goes on asking for ticks.
FairSpec == Spec /\ WF_vars(Steps) /\ WF_vars(TickCommand)

-----------------------------------------------------------------------------
(* A connect that reports success left the daemon running and not paused,   *)
(* a disconnect left no session, whatever the backend believed of daemon    *)
(* and service before it looked, unless others acted during the command or, *)
(* for a disconnect, which trusts its last look, since then.                *)
SessionAsAsked ==
    /\ Step("connected") /\ ~tainted => daemon.up /\ daemon.on
    /\ Step("disconnected") /\ ~tainted => ~Active

(* After an edit that reports success the daemon, if one runs, works with   *)
(* the file as it is now, and switching the join requests leaves a daemon   *)
(* that listens, or none that does, unless others acted since the last look.*)
EditsReachDaemon ==
    ~tainted =>
      /\ Step("edited") /\ daemon.up => daemon.loaded = disk
      /\ Step("listening") => daemon.up /\ daemon.loaded.listen
      /\ Step("quiet") /\ daemon.up => ~daemon.loaded.listen

(* A join request that the file, the copy or the daemon has on record was   *)
(* published: publishing comes before recording, and each of the three is   *)
(* written over the others in turn.  Once the inviting admin stays          *)
(* connected with a handshake that is later than the request, the request   *)
(* is forgotten for good, though the daemon may bring it back with the      *)
(* older configuration it saves.                                            *)
RequestWasSent ==
    \A c \in {disk, gui.mem, daemon.loaded} : c.outbound \in sent \cup {0}
Answered == Active /\ peer.reachable /\ peer.at > disk.outbound
JoinRequestRecord ==
    []RequestWasSent /\ (<>[]Answered => <>[](disk.outbound = 0))
=============================================================================
