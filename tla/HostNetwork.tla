----------------------------- MODULE HostNetwork -----------------------------
(***************************************************************************)
(* What the daemon does to the routing of the machine it runs on: the      *)
(* default route, the bypass routes that keep the peers' and the relays'   *)
(* own addresses outside the tunnel, IP forwarding and the firewall rules  *)
(* of an exit node (CliTunnelRuntime in main.rs, platform_routing.rs,      *)
(* macos_network.rs, windows_tunnel.rs), the record of those changes on    *)
(* macOS (daemon.cleanup.json), and what start, stop, repair and a crash   *)
(* make of them.                                                           *)
(*                                                                         *)
(* kernel outlives the process, rt is the memory of one process.  One      *)
(* update of the tunnel is one call, but it is a row of commands to the    *)
(* operating system: it is modelled as the steps of `pc`, so that a crash  *)
(* or a failing command can fall between two of them.                      *)
(***************************************************************************)
EXTENDS Naturals, FiniteSets, Sequences

CONSTANTS
  Platforms,    \* the operating systems to consider
  Order,        \* the participants, in the order of the configuration
  Homes,        \* participant -> the addresses its endpoint may have
  Offers,       \* participant -> the routes it advertises
  Exits,        \* the exit nodes a configuration may select
  FirstConfigs, \* the configurations to begin with
  FirstPeers,   \* what the peer cache may hold to begin with
  Control,      \* addresses of relays, STUN servers, reflectors, gateways
  Fallible,     \* pairs <<platform, command>> that may fail
  MaxEvents,    \* announcements, reloads, pauses and resumes in a behaviour
  MaxFaults,    \* failing commands in a behaviour
  MaxCrashes,   \* processes that die in a behaviour
  MaxTotal      \* all of these together

Peers == {Order[i] : i \in DOMAIN Order}
Hosts == Control \cup UNION {Homes[p] : p \in Peers}
Routes == {"lan", "default"}
NoPeer == "none"
NoFile == [kind |-> "absent"]

ASSUME HostAssumption ==
  /\ Platforms \subseteq {"linux", "macos", "windows"}
  /\ Exits \subseteq Peers \cup {"none"} /\ "none" \notin Peers
  /\ FirstConfigs \subseteq [exit : Exits, adv : BOOLEAN]
  /\ FirstPeers \subseteq UNION {[D -> Hosts] : D \in SUBSET Peers}
  /\ \A f \in FirstPeers : \A p \in DOMAIN f : f[p] \in Homes[p]
  /\ \A p \in Peers : Homes[p] # {} /\ Offers[p] \subseteq Routes
  /\ Fallible \subseteq Platforms \X {"resolve", "start", "bypass", "iface",
                                      "forward", "rules6", "repair"}
  /\ {MaxEvents, MaxFaults, MaxCrashes, MaxTotal} \subseteq Nat

VARIABLES
  os,       \* the platform, one for a whole behaviour
  before,   \* forwarding and packet filter before nostr-vpn touched them
  kernel,   \* routes, forwarding and rules of the machine
  rt,       \* CliTunnelRuntime of the running process
  file,     \* daemon.cleanup.json
  cfg,      \* exit node, advertise_exit_node
  on,       \* session_enabled
  peers,    \* announced participants -> endpoint in use
  ready,    \* participants with a recent handshake
  pc,       \* where the process is
  plan,     \* the update under way
  booting,  \* the update under way is the first of the process
  orphans,  \* history: what nobody remembers any more
  used      \* events, faults, crashes so far

vars == <<os, before, kernel, rt, file, cfg, on, peers, ready, pc, plan,
          booting, orphans, used>>

-----------------------------------------------------------------------------
(* The update that the configuration and the announcements call for.        *)

Known == IF on THEN DOMAIN peers ELSE {}

Selected == IF cfg.exit \in Known /\ "default" \in Offers[cfg.exit]
            THEN cfg.exit ELSE NoPeer

Claims(p, r) == /\ p \in Known
                /\ r \in Offers[p]
                /\ r = "default" => p = Selected

\* The first participant of the configuration that claims a route has it.
RoutesOf(p) ==
  {r \in Routes : \E i \in DOMAIN Order :
      /\ Order[i] = p
      /\ Claims(p, r)
      /\ \A j \in 1 .. i - 1 : ~Claims(Order[j], r)}

Targets == UNION {RoutesOf(p) : p \in Known}

\* On macOS the default route also waits for traffic through the exit node.
ExitReady == Selected # NoPeer /\ (os = "macos" => Selected \in ready)

Planned ==
  LET dflt == "default" \in Targets /\ ExitReady
      ends == {peers[p] : p \in Known}
  IN [at     |-> [p \in Known |-> peers[p]],
      routes |-> [p \in Known |-> RoutesOf(p)],
      dflt   |-> dflt,
      bypass |-> CASE os = "windows" -> ends
                   [] dflt \/ "lan" \in Targets -> ends \cup Control
                   [] OTHER -> {}]

Endpoints(p) == {p.at[q] : q \in DOMAIN p.at}

\* withhold_macos_default_route: the default leaves the route targets.
Withheld(p) == [p EXCEPT !.dflt = FALSE]

NoPlan == [at |-> <<>>, routes |-> <<>>, dflt |-> FALSE, bypass |-> {}]

-----------------------------------------------------------------------------
(* The runtime of a new process, and what it undoes.  Every operator maps a *)
(* pair s of the kernel and the runtime to such a pair.                     *)

NewRuntime == [up |-> FALSE, fp |-> NoPlan, wg |-> {}, bypass |-> {}, orig |-> FALSE,
               out4 |-> "none", out6 |-> FALSE,
               was4 |-> "none", was6 |-> "none", waspf |-> "none"]

Here == [k |-> kernel, r |-> rt]
Was(enabled) == IF enabled THEN "on" ELSE "off"

\* The device goes with its handle or its process, and its routes with it.
DropDevice(s) == [s EXCEPT !.k.default = @ \ {"tunnel"}]

CaptureDefault(s) ==
  IF \/ os = "macos"
     \/ os = "linux" /\ "underlay" \in s.k.default
  THEN [s EXCEPT !.r.orig = TRUE] ELSE s

\* The underlay's default route takes the place of whatever is there.
UnderlayDefault(k) == [k EXCEPT !.default = {"underlay"}]

RestoreDefault(s) ==
  IF s.r.orig THEN [k |-> UnderlayDefault(s.k), r |-> [s.r EXCEPT !.orig = FALSE]] ELSE s

\* Routes that are no longer wanted go; of the wanted ones some may fail.
\* Linux remembers what it wanted, macOS what it installed.
ReconcileBypass(s, want, failed) ==
  [k |-> [s.k EXCEPT !.bypass = (@ \ (s.r.bypass \ want)) \cup (want \ failed)],
   r |-> [s.r EXCEPT !.bypass = IF os = "linux" THEN want
                                ELSE (@ \cap want) \cup (want \ failed)]]

\* The firewall rules of one address family.
WithRules(k, families) == [k EXCEPT !.rules = @ \cup families]
WithoutRules(k, families) == [k EXCEPT !.rules = @ \ families]
\* PF gets the NAT rule and is switched on; PF loses the rule.
WithPfNat(k) == [WithRules(k, {"v4"}) EXCEPT !.pf = TRUE]

NoForwarding(r) == [r EXCEPT !.out4 = "none", !.out6 = FALSE,
                             !.was4 = "none", !.was6 = "none", !.waspf = "none"]

CleanForwardingLinux(s) ==
  LET k == WithoutRules(s.k, (IF s.r.out4 # "none" THEN {"v4"} ELSE {})
                             \cup (IF s.r.out6 THEN {"v6"} ELSE {}))
  IN [k |-> [k EXCEPT !.fwd4 = @ /\ s.r.was4 # "off",
                      !.fwd6 = @ /\ s.r.was6 # "off"],
      r |-> NoForwarding(s.r)]

CleanForwardingMacos(s) ==
  [k |-> [WithoutRules(s.k, {"v4"}) EXCEPT
            !.fwd4 = IF s.r.was4 = "none" THEN @ ELSE s.r.was4 = "on",
            !.pf   = @ /\ s.r.waspf # "off"],
   r |-> NoForwarding(s.r)]

\* Mutant: the rules go, the flags stay.
CleanForwardingKeepsFlags(s) ==
  IF os = "windows" THEN s
  ELSE [k |-> WithoutRules(s.k, {"v4", "v6"}), r |-> NoForwarding(s.r)]

CleanForwarding(s) == CASE os = "linux" -> CleanForwardingLinux(s)
                        [] os = "macos" -> CleanForwardingMacos(s)
                        [] OTHER -> s

\* Mutant: the handle survives the stop.
StopTunnelKeepsDevice(s) ==
  [RestoreDefault(CleanForwarding(ReconcileBypass(s, {}, {}))) EXCEPT !.r.fp = NoPlan]

\* WindowsTunnelBackend::stop: what start installed goes with the device.
StopWindows(s) == [k |-> [DropDevice(s).k EXCEPT !.bypass = @ \ s.r.bypass],
                   r |-> [s.r EXCEPT !.bypass = {}]]

StopTunnel(s) ==
  LET t == IF os = "windows" THEN StopWindows(s)
           ELSE RestoreDefault(CleanForwarding(ReconcileBypass(s, {}, {})))
  IN [k |-> DropDevice(t).k,
      r |-> [t.r EXCEPT !.up = FALSE, !.fp = NoPlan, !.wg = {}]]

-----------------------------------------------------------------------------
(* Exit-node forwarding.                                                    *)

DefaultDevice(s) == IF "tunnel" \in s.k.default THEN "tunnel" ELSE "underlay"

\* IPv4 failures undo everything; an IPv6 rule that fails is forgotten
\* together with the forwarding flag that was switched on before it.
ForwardLinux(s, fault) ==
  LET t == CleanForwarding(s)
      v6 == before.v6
      keep6 == v6 /\ fault # "rules6"
  IN CASE ~cfg.adv \/ s.k.default = {} -> t
       [] s.r.out4 = DefaultDevice(s) /\ s.r.out6 = v6 -> s
       [] fault = "forward" -> t
       [] OTHER ->
            [k |-> WithRules([t.k EXCEPT !.fwd4 = TRUE, !.fwd6 = @ \/ v6],
                             IF keep6 THEN {"v4", "v6"} ELSE {"v4"}),
             r |-> [t.r EXCEPT !.out4 = DefaultDevice(s), !.out6 = keep6,
                               !.was4 = Was(t.k.fwd4),
                               !.was6 = IF keep6 THEN Was(t.k.fwd6) ELSE "none"]]

ForwardMacos(s, fault) ==
  LET t == CleanForwarding(s)
  IN CASE ~cfg.adv -> t
       [] s.r.out4 = "underlay" -> s
       [] fault = "forward" -> t
       [] OTHER ->
            [k |-> WithPfNat([t.k EXCEPT !.fwd4 = TRUE]),
             r |-> [t.r EXCEPT !.out4 = "underlay", !.was4 = Was(t.k.fwd4),
                               !.waspf = Was(t.k.pf)]]

-----------------------------------------------------------------------------
(* The record of the changes (macOS), and its use after the process.        *)

CleanupState(r) ==
  IF ~r.orig /\ r.bypass = {} /\ r.was4 = "none" /\ r.waspf = "none"
  THEN NoFile
  ELSE [kind |-> "saved", bypass |-> r.bypass, orig |-> r.orig,
        was4 |-> r.was4, waspf |-> r.waspf]

\* Without a file, what an exit node of this configuration may have left.
RepairLegacy(k) ==
  LET t == UnderlayDefault(k)
  IN IF cfg.adv THEN [WithoutRules(t, {"v4"}) EXCEPT !.fwd4 = FALSE] ELSE t

\* The routes the file lists; a file without any is taken for a legacy one.
ManagedRoutes == file.bypass \cup (IF file.orig THEN {"default"} ELSE {})

RepairSaved(k, failed) ==
  LET t == [k EXCEPT !.bypass  = (@ \ ManagedRoutes) \cup failed,
                     !.default = IF file.orig THEN {"underlay"} ELSE @,
                     !.rules   = IF file.waspf # "none" THEN {} ELSE @,
                     !.pf      = @ /\ file.waspf # "off",
                     !.fwd4    = IF file.was4 = "none" THEN @ ELSE file.was4 = "on"]
  IN IF ManagedRoutes = {} THEN RepairLegacy(t) ELSE t

MayFail(command) == <<os, command>> \in Fallible /\ used.faults < MaxFaults

RepairSavedNetworkState ==
  CASE os # "macos" -> UNCHANGED <<kernel, file>> /\ UNCHANGED used
    [] os = "macos" /\ file = NoFile ->
         kernel' = RepairLegacy(kernel) /\ UNCHANGED <<file, used>>
    [] OTHER ->
         \E failed \in IF MayFail("repair") THEN SUBSET (kernel.bypass \cap file.bypass)
                       ELSE {{}} :
           /\ kernel' = RepairSaved(kernel, failed)
           /\ file' = IF failed = {} THEN NoFile ELSE file
           /\ used' = [used EXCEPT !.faults = @ + (IF failed = {} THEN 0 ELSE 1)]

-----------------------------------------------------------------------------
(* What differs from the machine before nostr-vpn, and who remembers it.    *)

Leftovers(k) ==
     {<<"bypass", h>> : h \in k.bypass}
  \cup {<<"rules", f>> : f \in k.rules}
  \cup {<<"missing", r>> : r \in {"underlay"} \ k.default}
  \cup {<<"default", r>> : r \in k.default \ {"underlay"}}
  \cup {<<"forward", f>> : f \in {g \in {"v4", "v6"} :
          ~before.fwd /\ (IF g = "v4" THEN k.fwd4 ELSE k.fwd6)}}
  \cup {<<"pf", b>> : b \in {TRUE} \cap {k.pf /\ ~before.pf}}

RememberedBy(r) ==
     {<<"bypass", h>> : h \in r.bypass}
  \cup (IF r.out4 # "none" THEN {<<"rules", "v4">>} ELSE {})
  \cup (IF r.out6 THEN {<<"rules", "v6">>} ELSE {})
  \cup (IF r.orig THEN {<<"missing", "underlay">>} ELSE {})
  \cup (IF r.up THEN {<<"default", "tunnel">>} ELSE {})
  \cup (IF r.was4 = "off" THEN {<<"forward", "v4">>} ELSE {})
  \cup (IF r.was6 = "off" THEN {<<"forward", "v6">>} ELSE {})
  \cup (IF r.waspf = "off" THEN {<<"pf", TRUE>>} ELSE {})

RememberedIn(f) ==
  IF f = NoFile THEN {}
  ELSE {<<"bypass", h>> : h \in f.bypass}
       \cup (IF f.orig THEN {<<"missing", "underlay">>} ELSE {})
       \cup (IF f.was4 = "off" THEN {<<"forward", "v4">>} ELSE {})
       \cup (IF f.waspf # "none" THEN {<<"rules", "v4">>} ELSE {})
       \cup (IF f.waspf = "off" THEN {<<"pf", TRUE>>} ELSE {})

\* The file is replaced, whatever the old one still listed: a start logs a
\* repair that failed and goes on.
PersistCleanup(s) ==
  /\ file' = IF os = "macos" THEN CleanupState(s.r) ELSE file
  /\ orphans' = orphans \cup ((Leftovers(s.k) \cap RememberedIn(file))
                             \ (RememberedBy(s.r) \cup RememberedIn(file')))

-----------------------------------------------------------------------------
Init ==
  /\ os \in Platforms
  /\ before \in [fwd : IF os = "windows" THEN {FALSE} ELSE BOOLEAN, pf : {FALSE},
                v6 : IF os = "linux" THEN BOOLEAN ELSE {FALSE}]
  /\ kernel = [default |-> {"underlay"}, bypass |-> {}, rules |-> {},
               fwd4 |-> before.fwd, fwd6 |-> before.fwd, pf |-> before.pf]
  /\ rt = NewRuntime
  /\ file = NoFile
  /\ cfg \in FirstConfigs
  /\ on = TRUE
  /\ peers \in FirstPeers
  /\ ready = {}
  /\ pc = "down"
  /\ plan = NoPlan
  /\ booting = FALSE
  /\ orphans = {}
  /\ used = [events |-> 0, faults |-> 0, crashes |-> 0]

Keep(s) == kernel' = s.k /\ rt' = s.r

\* The process is gone: its memory and its device with it.
Die(s) ==
  /\ kernel' = DropDevice(s).k
  /\ rt' = NewRuntime
  /\ orphans' = orphans \cup (Leftovers(DropDevice(s).k) \ RememberedIn(file))
  /\ pc' = "down"
  /\ plan' = NoPlan
  /\ booting' = FALSE

\* The update returns: a success, or an error that the session only logs;
\* an error of the first update ends the process.
Finish(s) == Keep(s) /\ pc' = "idle" /\ plan' = NoPlan /\ booting' = FALSE
Return(s) == Finish(s) /\ UNCHANGED orphans

Fail(s) == IF booting THEN Die(s) ELSE Return(s)

\* Two error paths lose track of what they have just installed.
Forget(s) ==
  orphans' = orphans \cup (Leftovers(s.k) \ (RememberedBy(s.r) \cup RememberedIn(file)))
FailForgetting(s) == IF booting THEN Die(s) ELSE Finish(s) /\ Forget(s)

Go(step, p, s) ==
  /\ Keep(s) /\ pc' = step /\ plan' = p
  /\ UNCHANGED <<booting, orphans>>

Count(what) ==
  /\ used.events + used.faults + used.crashes < MaxTotal
  /\ used' = [used EXCEPT ![what] = @ + 1]
World == <<os, before, cfg, on, peers, ready>>

-----------------------------------------------------------------------------
(* CliTunnelRuntime::apply, step by step.                                   *)

SameTunnel == /\ rt.up
              /\ rt.fp.at = Planned.at
              /\ rt.fp.routes = Planned.routes
              /\ os # "windows" => rt.fp.dflt = Planned.dflt

\* A bypass route can be resolved from the routes or from the saved default:
\* ip route get on Linux, route get on macOS.
Routed(k, hosts) == "underlay" \in k.default \/ hosts \subseteq k.bypass
Resolvable(s) == s.r.orig \/ Routed(s.k, Planned.bypass)

PlanStops ==
  /\ pc = "plan" /\ Known = {}
  /\ Return(StopTunnel(Here))
  /\ UNCHANGED <<World, file, used>>

\* Mutant: the default route comes back only when the tunnel stops.
DefaultDecidedKeeps == IF Planned.dflt THEN CaptureDefault(Here) ELSE Here

DefaultDecided == IF Planned.dflt THEN CaptureDefault(Here) ELSE RestoreDefault(Here)

PlanUnix ==
  /\ pc = "plan" /\ Known # {} /\ os # "windows"
  /\ Planned.bypass = {} \/ Resolvable(DefaultDecided)
  /\ IF SameTunnel
     THEN Return(DefaultDecided)
     ELSE Go("start", Planned, DefaultDecided)
  /\ UNCHANGED <<World, file, used>>

\* The runtime endpoints differ from the plan: the tunnel is set up again.
PlanRefreshes ==
  /\ pc = "plan" /\ Known # {} /\ os # "windows"
  /\ Planned.bypass = {} \/ Resolvable(DefaultDecided)
  /\ SameTunnel
  /\ Go("start", Planned, DefaultDecided)
  /\ UNCHANGED <<World, file, used>>

\* macOS gives up the default route, Linux the update.
PlanUnresolved ==
  /\ pc = "plan" /\ Known # {} /\ os # "windows" /\ Planned.bypass # {}
  /\ \/ ~Resolvable(DefaultDecided) /\ UNCHANGED used
     \/ MayFail("resolve") /\ Count("faults")
  /\ IF os = "macos" /\ Planned.dflt
     THEN LET p == [Withheld(Planned) EXCEPT !.bypass = {}]
              s == RestoreDefault(DefaultDecided)
          IN IF rt.up /\ [rt.fp EXCEPT !.bypass = {}] = p
             THEN Return(s) ELSE Go("start", p, s)
     ELSE Fail(DefaultDecided)
  /\ UNCHANGED <<World, file>>

StartDevice ==
  /\ pc = "start"
  /\ Go("bypass", plan, [Here EXCEPT !.r = [@ EXCEPT !.up = TRUE, !.wg = Endpoints(plan)]])
  /\ UNCHANGED <<World, file, used>>

\* No device, or a device that finds no port to listen on.
StartFails ==
  /\ pc = "start" /\ MayFail("start") /\ Count("faults")
  /\ \E up \in {rt.up, TRUE} : Fail([Here EXCEPT !.r.up = up])
  /\ UNCHANGED <<World, file>>

\* Mutant: the default route is not withheld.
InstallBypassAnyway(failed) ==
  pc = "bypass" /\ Go("iface", plan, ReconcileBypass(Here, plan.bypass, failed))

InstallBypass(failed) ==
  LET s == ReconcileBypass(Here, plan.bypass, failed)
      withheld == os = "macos" /\ plan.dflt /\ s.r.bypass # plan.bypass
  IN /\ pc = "bypass"
     /\ IF withheld
        THEN Go("iface", Withheld(plan), RestoreDefault(s))
        ELSE Go("iface", plan, s)

BypassInstalled == InstallBypass({}) /\ UNCHANGED <<World, file, used>>

BypassFails ==
  /\ MayFail("bypass") /\ Count("faults")
  /\ \E h \in plan.bypass \ (IF os = "macos" THEN rt.bypass ELSE {}) :
       InstallBypass({h})
  /\ UNCHANGED <<World, file>>

\* On Linux the tunnel takes the default route's place, on macOS and on
\* Windows it stands beside it.
TunnelDefault(k) ==
  [k EXCEPT !.default = IF os = "linux" THEN {"tunnel"} ELSE @ \cup {"tunnel"}]

ConfigureInterface ==
  /\ pc = "iface"
  /\ Go("forward", plan,
        IF plan.dflt THEN [Here EXCEPT !.k = TunnelDefault(@)] ELSE Here)
  /\ UNCHANGED <<World, file, used>>

\* The old default route is deleted first, and the new one may not come.
InterfaceFails ==
  /\ pc = "iface" /\ MayFail("iface") /\ Count("faults")
  /\ \E gone \in SUBSET (IF ~plan.dflt THEN {}
                         ELSE IF os = "linux" THEN {"underlay", "tunnel"}
                         ELSE {"tunnel"}) :
       Fail([Here EXCEPT !.k.default = @ \ gone])
  /\ UNCHANGED <<World, file>>

Forward(fault) ==
  LET s == IF os = "linux" THEN ForwardLinux(Here, fault)
           ELSE ForwardMacos(Here, fault)
  IN /\ pc = "forward"
     /\ Finish([s EXCEPT !.r.fp = plan])
     /\ IF fault = "rules6" THEN Forget(s) ELSE UNCHANGED orphans
     /\ UNCHANGED <<World, file>>

ForwardDone == Forward("none") /\ UNCHANGED used
ForwardFails == \E c \in {"forward", "rules6"} :
                   MayFail(c) /\ Forward(c) /\ Count("faults")

\* Windows: the old tunnel stops before the new one starts.
PlanWindows ==
  /\ pc = "plan" /\ Known # {} /\ os = "windows"
  /\ IF SameTunnel THEN Return(Here)
     ELSE Go("windows", Planned, StopTunnel(Here))
  /\ UNCHANGED <<World, file, used>>

\* apply_windows_endpoint_bypass_routes, and what it undoes when one fails.
AddBypass(k, hosts) == [k EXCEPT !.bypass = @ \cup hosts]
DropBypass(k, hosts) == [k EXCEPT !.bypass = @ \ hosts]

StartWindows ==
  /\ pc = "windows"
  /\ Return([k |-> IF plan.dflt THEN TunnelDefault(AddBypass(kernel, plan.bypass))
                   ELSE AddBypass(kernel, plan.bypass),
             r |-> [rt EXCEPT !.up = TRUE, !.fp = plan, !.wg = Endpoints(plan),
                              !.bypass = plan.bypass]])
  /\ UNCHANGED <<World, file, used>>

\* A bypass route that fails takes the installed ones with it; what fails
\* after the bypass routes (routes, session, socket) leaves them behind.
StartWindowsFails ==
  /\ pc = "windows" /\ Count("faults")
  /\ \E c \in {"resolve", "bypass", "start"} :
       /\ MayFail(c)
       /\ CASE c = "bypass" -> Fail([Here EXCEPT !.k = DropBypass(@, plan.bypass)])
            [] c = "start" -> FailForgetting([Here EXCEPT !.k = AddBypass(@, plan.bypass)])
            [] OTHER -> Fail(Here)
  /\ UNCHANGED <<World, file>>

-----------------------------------------------------------------------------
(* The session around it.                                                   *)

Event == used.events < MaxEvents /\ Count("events")
Update == pc = "idle" /\ pc' = "plan"
Quiet == UNCHANGED <<os, before, kernel, rt, file, plan, booting, orphans>>

\* An announcement, a better path, an announcement that expired.
PeerChanges ==
  /\ Event /\ Update /\ Quiet /\ UNCHANGED <<cfg, on, ready>>
  /\ on
  /\ \E p \in Peers :
       \/ \E h \in Homes[p] :
            /\ p \in DOMAIN peers => peers[p] # h
            /\ peers' = [q \in DOMAIN peers \cup {p} |->
                           IF q = p THEN h ELSE peers[q]]
       \/ /\ p \in DOMAIN peers
          /\ peers' = [q \in DOMAIN peers \ {p} |-> peers[q]]

Reload ==
  /\ Event /\ Update /\ Quiet /\ UNCHANGED <<on, peers, ready>>
  /\ cfg' \in [exit : Exits, adv : BOOLEAN] \ {cfg}

PauseOrResume ==
  /\ Event /\ Update /\ Quiet /\ UNCHANGED <<cfg, peers, ready>>
  /\ on' = ~on

\* Traffic through the exit node's tunnel starts or stops.
HandshakeChanges ==
  /\ \E p \in Peers \cap {cfg.exit} :
       \/ p \in DOMAIN peers \ ready /\ rt.up /\ ready' = ready \cup {p}
       \/ p \in ready /\ ready' = ready \ {p}
  /\ os = "macos" /\ pc = "idle"
  /\ UNCHANGED <<cfg, on, peers, pc, used>> /\ Quiet

\* The arms of the loop that call apply without any change of their own.
Refresh == Update /\ Quiet /\ UNCHANGED <<cfg, on, peers, ready, used>>

\* Hole punching needs the tunnel's port: it stops the tunnel and applies.
NatPunch ==
  /\ pc = "idle" /\ on /\ rt.up /\ DOMAIN peers \ ready # {}
  /\ Go("plan", NoPlan, StopTunnel(Here))
  /\ UNCHANGED <<World, file, used>>

Tick ==
  /\ pc = "idle" /\ os = "macos"
  /\ PersistCleanup(Here)
  /\ UNCHANGED <<World, kernel, rt, pc, plan, booting, used>>

\* A start, with the peers of the cache or without.
Start ==
  /\ pc = "down"
  /\ RepairSavedNetworkState
  /\ pc' = "plan" /\ booting' = TRUE /\ on' = TRUE
  /\ peers' \in {peers, <<>>} /\ ready' = {}
  /\ UNCHANGED <<os, before, cfg, rt, plan, orphans>>

Shutdown ==
  /\ pc = "idle"
  /\ Keep(StopTunnel(Here))
  /\ PersistCleanup(StopTunnel(Here))
  /\ pc' = "down" /\ ready' = {}
  /\ UNCHANGED <<os, before, cfg, on, peers, plan, booting, used>>

\* nvpn stop without a process, nvpn repair-network.
RepairNetwork ==
  /\ pc = "down"
  /\ RepairSavedNetworkState
  /\ UNCHANGED <<World, rt, pc, plan, booting, orphans>>

Crash ==
  /\ pc # "down" /\ used.crashes < MaxCrashes
  /\ Die(Here) /\ Count("crashes")
  /\ UNCHANGED <<World, file>>

Apply == \/ PlanStops \/ PlanUnix \/ PlanRefreshes \/ PlanUnresolved
         \/ StartDevice \/ StartFails \/ BypassInstalled \/ BypassFails
         \/ ConfigureInterface \/ InterfaceFails \/ ForwardDone \/ ForwardFails
         \/ PlanWindows \/ StartWindows \/ StartWindowsFails

Next == \/ Apply
        \/ PeerChanges \/ Reload \/ PauseOrResume \/ HandshakeChanges
        \/ Refresh \/ NatPunch \/ Tick
        \/ Start \/ Shutdown \/ RepairNetwork \/ Crash

Spec == Init /\ [][Next]_vars

-----------------------------------------------------------------------------
(* Properties.                                                              *)

PlanType == [at : UNION {[D -> Hosts] : D \in SUBSET Peers},
             routes : UNION {[D -> SUBSET Routes] : D \in SUBSET Peers},
             dflt : BOOLEAN, bypass : SUBSET Hosts]

\* The kernel, the runtime, the file and the plan have their types, and a
\* process that is down has no runtime and no update under way.
TypeOK ==
  /\ os \in Platforms
  /\ kernel \in [default : SUBSET {"underlay", "tunnel"}, bypass : SUBSET Hosts,
                 rules : SUBSET {"v4", "v6"}, fwd4 : BOOLEAN, fwd6 : BOOLEAN,
                 pf : BOOLEAN]
  /\ rt \in [up : BOOLEAN, fp : PlanType, wg : SUBSET Hosts, bypass : SUBSET Hosts, orig : BOOLEAN,
             out4 : {"none", "underlay", "tunnel"}, out6 : BOOLEAN,
             was4 : {"none", "on", "off"}, was6 : {"none", "on", "off"},
             waspf : {"none", "on", "off"}]
  /\ file = NoFile \/ file.bypass \subseteq Hosts
  /\ cfg \in [exit : Exits, adv : BOOLEAN]
  /\ \A p \in DOMAIN peers : peers[p] \in Homes[p]
  /\ ready \subseteq Peers
  /\ plan \in PlanType
  /\ pc = "down" => rt = NewRuntime /\ ~booting
  /\ pc \in {"down", "idle"} => plan = NoPlan
  /\ used.events <= MaxEvents /\ used.faults <= MaxFaults
  /\ used.crashes <= MaxCrashes

\* Whatever nostr-vpn changed on the machine, the running process or the
\* cleanup file knows how to take back.
NothingForgotten ==
  Leftovers(kernel) \subseteq RememberedBy(rt) \cup RememberedIn(file) \cup orphans

\* Once a tick has written the file, a crash is repairable (macOS): the file
\* lists everything the running tunnel changed that outlives the device.
SavedIsEnough ==
  os = "macos" /\ pc = "idle" /\ file = CleanupState(rt) =>
    Leftovers(DropDevice(Here).k) \subseteq RememberedIn(file) \cup orphans

\* What nostr-vpn changes on the machine is taken back: by the running process
\* (CliTunnelRuntime::stop) or, after it, by the cleanup file
\* (macos_network_cleanup_state, repair_saved_network_state).  The exceptions
\* are in orphans: what a process that died had changed since the file was
\* last written, what a repair could not remove when the next daemon writes its
\* own file over the old one, an IPv6 forwarding flag and rules forgotten when
\* an ip6tables rule fails, and the bypass routes of a Windows start that fails
\* after them.
\* A clean stop, and a repair that succeeds, leave nothing behind.
ChangesAreUndone == NothingForgotten /\ SavedIsEnough

\* On macOS and Windows the tunnel takes the default route only together
\* with a bypass route to every address WireGuard itself sends to, also when
\* some of them cannot be installed or the update fails later: the default
\* route is withheld, or the start fails.
BypassBeforeDefault ==
  os # "linux" /\ pc = "idle" /\ "tunnel" \in kernel.default =>
    rt.wg \subseteq kernel.bypass

\* Between updates the default route goes into the tunnel only while the
\* selected exit node is announced and offers it, also after an update that
\* failed half way, and at most one peer has it among its allowed addresses
\* (docs/protocol.md, 358-359).  A crash on Linux may have left no default
\* route to go back to.
DefaultFollowsSelection ==
  pc = "idle" /\ <<"missing", "underlay">> \notin orphans =>
    /\ "tunnel" \in kernel.default => rt.up /\ Selected # NoPeer
    /\ Cardinality({p \in DOMAIN rt.fp.routes : "default" \in rt.fp.routes[p]}) <= 1

\* The default route is in the tunnel only when that works out: with a bypass
\* route for WireGuard's own packets, and only for a selected exit node.
DefaultRouteGuarded == BypassBeforeDefault /\ DefaultFollowsSelection
=============================================================================
