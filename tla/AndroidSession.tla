---------------------------- MODULE AndroidSession ----------------------------
(***************************************************************************)
(* The VPN session of the Android app.  Three programs share it:            *)
(*  - the app's backend thread, which starts, reloads and stops the session *)
(*    and blocks until the old one is gone (android_session.rs);            *)
(*  - the session task, which follows the peers' signals and replaces the   *)
(*    tunnel task when the plan changes, and the tunnel tasks, which move   *)
(*    packets and may die by themselves (android_session_tunnel.rs);        *)
(*  - the Kotlin plugin and VpnService on Android's main thread, reached by *)
(*    intents that the system delivers later (NostrVpnPlugin.kt,            *)
(*    NostrVpnService.kt).                                                  *)
(* The plan of the tunnel follows android_session_planning.rs; which of a   *)
(* peer's endpoints the path book prefers is the subject of PeerPaths and a *)
(* choice here.                                                             *)
(***************************************************************************)
EXTENDS Integers, Sequences, FiniteSets

CONSTANTS NumPeers,       \* configured participants other than this device
          Announcements,  \* announcements a peer may make
          ExitNode,       \* the participant selected as exit node, or 0
          MaxTunnels,     \* bound: tunnel tasks started
          MaxStarts,      \* bound: starts, reloads and stops asked for
          MaxSignals,     \* bound: signals received
          MaxFaults       \* bound: failing calls, dying tasks, revocations

Peers == 1..NumPeers      \* in the order of participant_pubkeys_hex
Endpoints == {"old", "lan", "wan", "bad"}   \* "bad" does not parse as an address
Routes == {"subnet", "default"}

ASSUME AndroidSessionAssumption ==
    /\ NumPeers \in Nat /\ ExitNode \in 0..NumPeers
    /\ \A a \in Announcements : /\ a.ts \in Nat
                                /\ a.ends \subseteq Endpoints /\ a.ends # {}
                                /\ a.routes \subseteq Routes
    /\ {MaxTunnels, MaxStarts, MaxSignals, MaxFaults} \subseteq Nat

VARIABLES
    mgr,       \* the backend thread: "idle", "stopping" or "preparing"
    wanted,    \* it was asked to start (TRUE) or to stop
    stopSent,  \* the session's stop channel
    snapshot,  \* what the backend reports: [running, active]
    session,   \* where the session task stands
    known,     \* the announcements of the presence book, or None
    current,   \* the session's tunnel task, 0 for none
    fingerprint, \* [port, plan] of that tunnel, or None
    listenPort,  \* 0: the configured port; n: the port the system gave task n
    tunnel,    \* the tunnel tasks
    portTaken, \* another program holds the configured port
    pending, future, \* NostrVpnState: pendingConfig, startFuture (present)
    reply,     \* what the plugin's start call came to
    svc,       \* the service instance: [alive, iface, registered, active]
    intents,   \* messages under way to the service's thread
    leaked,    \* history: the tunnel descriptor of a start nobody awaits
    broken,    \* history: a session ended with an error
    left       \* what is left of the bounds

app == <<mgr, wanted, stopSent>>
plans == <<known, current, fingerprint, listenPort>>
android == <<pending, future, svc, intents>>
vars == <<app, snapshot, session, plans, tunnel, portTaken, android, reply,
          leaked, broken, left>>

None == <<>>
NoPlan == [p \in {} |-> None]
Off == [pc |-> "off", next |-> "none", plan |-> NoPlan]
At(pc) == [Off EXCEPT !.pc = pc]
NoTunnel == [st |-> "none", port |-> 0, plan |-> NoPlan]
Live(t) == tunnel[t].st \in {"run", "stop"}
NoService == [alive |-> FALSE, iface |-> FALSE, registered |-> FALSE, active |-> FALSE]
Running(on, up) == [running |-> on, active |-> up]

TypeOK ==
    /\ mgr \in {"idle", "stopping", "preparing"}
    /\ wanted \in BOOLEAN /\ stopSent \in BOOLEAN
    /\ snapshot \in [running : BOOLEAN, active : BOOLEAN]
    /\ session.pc \in {"off", "connect", "loop", "join", "unvpn", "start", "wait",
                       "goodbye", "ended"}
    /\ session.next \in {"none", "empty", "start", "end"}
    /\ known \in [Peers -> Announcements \cup {None}]
    /\ current \in 0..MaxTunnels /\ listenPort \in 0..MaxTunnels
    /\ fingerprint = None \/ fingerprint.port \in 0..MaxTunnels
    /\ \A t \in 1..MaxTunnels : /\ tunnel[t].st \in {"none", "run", "stop", "dead"}
                                /\ tunnel[t].port \in {0, t}
    /\ portTaken \in BOOLEAN /\ pending \in BOOLEAN /\ future \in BOOLEAN
    /\ reply \in {"none", "waiting", "fd", "error"}
    /\ svc \in [alive : BOOLEAN, iface : BOOLEAN, registered : BOOLEAN, active : BOOLEAN]
    /\ intents \in Seq({"START", "STOP", "DESTROY"})
    /\ Cardinality({i \in 1..Len(intents) : intents[i] = "DESTROY"}) <= 1
    /\ leaked \in BOOLEAN /\ broken \in BOOLEAN

-----------------------------------------------------------------------------
(* The plan: android_session_planning.rs.                                   *)

\* A default route counts only from the selected exit node.
Claims(p, r) == /\ known'[p] # None /\ r \in known'[p].routes
                /\ r = "default" => p = ExitNode
\* Each route goes to the first participant that announces it.
AllowedRoutes(p) ==
    {r \in Routes : Claims(p, r) /\ \A q \in Peers : q < p => ~Claims(q, r)}

\* The plans for the known peers, one for each choice the path book may make.
Planned ==
    LET heard == {p \in Peers : known'[p] # None}
    IN  {plan \in [heard -> [at : Endpoints, routes : SUBSET Routes]] :
            \A p \in heard : /\ plan[p].at \in known'[p].ends
                             /\ plan[p].routes = AllowedRoutes(p)}
Unusable(plan) == \E p \in DOMAIN plan : plan[p].at = "bad"

-----------------------------------------------------------------------------
(* The Kotlin side.  The plugin's commands and the service's callbacks run  *)
(* one at a time on the main thread; `startService` and `stopSelf` put a    *)
(* message behind those already under way.                                  *)

\* NostrVpnState.clear, which stopTunnel calls for the registered service.
StopTunnel ==
    IF svc.registered
    THEN /\ svc' = [svc EXCEPT !.iface = FALSE, !.registered = FALSE, !.active = FALSE]
         /\ pending' = FALSE /\ future' = FALSE
    ELSE /\ svc' = [svc EXCEPT !.iface = FALSE]
         /\ UNCHANGED <<pending, future>>

\* Mutant: every stopSelf destroys the service once more.
DestroyingAgain(q) == Append(q, "DESTROY")
\* stopSelf: the system destroys the instance after what it already sent.
Destroying(q) == IF \E i \in 1..Len(q) : q[i] = "DESTROY" THEN q ELSE Append(q, "DESTROY")

\* failStart: the waiting call, if its future is still there, fails.
FailStart == /\ future' = FALSE
             /\ reply' = IF future /\ reply = "waiting" THEN "error" ELSE reply

\* The plugin's start command: beginStart and the START intent.
PluginStart ==
    /\ pending' = TRUE /\ future' = TRUE /\ reply' = "waiting"
    /\ svc' = [svc EXCEPT !.active = FALSE]
    /\ intents' = Append(intents, "START")

\* Mutant: the stop command only cancels a start that is pending.
PluginStopPendingOnly ==
    /\ pending' = FALSE
    /\ reply' = IF future /\ reply = "waiting" THEN "error" ELSE reply
    /\ future' = FALSE
    /\ svc' = [svc EXCEPT !.active = FALSE]
    /\ UNCHANGED intents

\* The plugin's stop command returns before the service has seen the intent.
PluginStop ==
    IF svc.registered \/ svc.active
    THEN /\ intents' = Append(intents, "STOP")
         /\ UNCHANGED <<pending, future, svc, reply>>
    ELSE /\ pending' = FALSE
         /\ reply' = IF future /\ reply = "waiting" THEN "error" ELSE reply
         /\ future' = FALSE
         /\ svc' = [svc EXCEPT !.active = FALSE]
         /\ UNCHANGED intents

Faulty == left.faults > 0
Fault == left' = [left EXCEPT !.faults = @ - 1]

\* onStartCommand(ACTION_STOP).
ServiceStop ==
    /\ intents # <<>> /\ Head(intents) = "STOP"
    /\ IF svc.alive THEN StopTunnel
                    ELSE svc' = [NoService EXCEPT !.alive = TRUE] /\ UNCHANGED <<pending, future>>
    /\ intents' = Destroying(Tail(intents))
    /\ UNCHANGED <<app, snapshot, session, plans, tunnel, portTaken, reply, leaked, broken, left>>

\* onStartCommand(ACTION_START) without a configuration to take.
ServiceStartMissing ==
    /\ intents # <<>> /\ Head(intents) = "START" /\ ~pending
    /\ svc' = [svc EXCEPT !.alive = TRUE, !.active = FALSE]
    /\ FailStart
    /\ intents' = Destroying(Tail(intents))
    /\ UNCHANGED <<app, snapshot, session, plans, tunnel, portTaken, pending, leaked,
                   broken, left>>

\* onStartCommand(ACTION_START) that establishes the interface.  Its own
\* stopTunnel comes first and drops the future of a registered service.
ServiceStart ==
    LET awaited == future /\ ~svc.registered
    IN  /\ intents # <<>> /\ Head(intents) = "START" /\ pending
        /\ svc' = [alive |-> TRUE, iface |-> TRUE, registered |-> TRUE, active |-> TRUE]
        /\ pending' = FALSE /\ future' = FALSE
        /\ reply' = IF awaited /\ reply = "waiting" THEN "fd" ELSE reply
        /\ leaked' = (leaked \/ ~awaited \/ reply # "waiting")
        /\ intents' = Tail(intents)
        /\ UNCHANGED <<app, snapshot, session, plans, tunnel, portTaken, broken, left>>

\* establish() refuses.
ServiceStartFails ==
    /\ intents # <<>> /\ Head(intents) = "START" /\ pending /\ Faulty
    /\ svc' = [NoService EXCEPT !.alive = TRUE]
    /\ pending' = FALSE /\ future' = FALSE
    /\ reply' = IF future /\ ~svc.registered /\ reply = "waiting" THEN "error" ELSE reply
    /\ intents' = Destroying(Tail(intents))
    /\ Fault
    /\ UNCHANGED <<app, snapshot, session, plans, tunnel, portTaken, leaked, broken>>

\* onDestroy.
ServiceDestroyed ==
    /\ intents # <<>> /\ Head(intents) = "DESTROY"
    /\ svc' = NoService
    /\ IF svc.registered THEN pending' = FALSE /\ future' = FALSE
                         ELSE UNCHANGED <<pending, future>>
    /\ intents' = Tail(intents)
    /\ UNCHANGED <<app, snapshot, session, plans, tunnel, portTaken, reply, leaked, broken, left>>

\* onRevoke: the user gave the VPN to another app.
Revoked ==
    /\ svc.iface /\ Faulty /\ Fault
    /\ StopTunnel
    /\ intents' = Destroying(intents)
    /\ UNCHANGED <<app, snapshot, session, plans, tunnel, portTaken, reply, leaked, broken>>

-----------------------------------------------------------------------------
(* The backend thread: start, reload and stop.                              *)

\* start and reload stop the session first; stop is the first half of both.
Ask(start) ==
    /\ mgr = "idle" /\ left.starts > 0
    /\ mgr' = "stopping" /\ wanted' = start
    /\ stopSent' = TRUE
    /\ left' = [left EXCEPT !.starts = @ - 1]
    /\ UNCHANGED <<snapshot, session, plans, tunnel, portTaken, android, reply, leaked, broken>>

\* block_on(task) returns once the session task is over.
Joined ==
    /\ mgr = "stopping" /\ session.pc \in {"off", "ended"}
    /\ session' = Off
    /\ snapshot' = Running(FALSE, FALSE)
    /\ mgr' = IF wanted THEN "preparing" ELSE "idle"
    /\ UNCHANGED <<wanted, stopSent, plans, tunnel, portTaken, android, reply, leaked, broken, left>>

\* The permission is there and the session task is spawned; the report is
\* stored before, so that a task that fails at once is not overwritten.
Spawn ==
    /\ mgr = "preparing"
    /\ mgr' = "idle" /\ stopSent' = FALSE
    /\ snapshot' = Running(TRUE, TRUE)
    /\ session' = At("connect")
    /\ known' = [p \in Peers |-> None]
    /\ current' = 0 /\ fingerprint' = None /\ listenPort' = 0
    /\ UNCHANGED <<wanted, tunnel, portTaken, android, reply, leaked, broken, left>>

\* The user refuses the VPN permission.
Refused ==
    /\ mgr = "preparing" /\ Faulty /\ Fault
    /\ mgr' = "idle"
    /\ UNCHANGED <<wanted, stopSent, snapshot, session, plans, tunnel, portTaken, android,
                   reply, leaked, broken>>

-----------------------------------------------------------------------------
(* The session task.                                                        *)

\* Mutant: the wrapper of the task does not record its failure.
FailsSilently ==
    /\ session' = At("ended")
    /\ UNCHANGED snapshot
    /\ current' = 0 /\ fingerprint' = None
    /\ broken' = TRUE

\* An error leaves run_android_session: its tunnel task is dropped, not stopped.
Fails ==
    /\ session' = At("ended")
    /\ snapshot' = Running(FALSE, FALSE)
    /\ current' = 0 /\ fingerprint' = None
    /\ broken' = TRUE

Connect ==
    /\ session.pc = "connect"
    /\ session' = At("loop")
    /\ snapshot' = Running(TRUE, TRUE)
    /\ UNCHANGED <<app, plans, tunnel, portTaken, android, reply, leaked, broken, left>>

\* No relay accepts the client, or later the client is closed.
ClientFails ==
    /\ session.pc \in {"connect", "loop"} /\ Faulty /\ Fault
    /\ Fails
    /\ UNCHANGED <<app, known, listenPort, tunnel, portTaken, android, reply, leaked>>

\* The tunnel task's stop channel.
SentStop == [tunnel EXCEPT ![current].st = IF @ = "run" THEN "stop" ELSE @]

\* Mutant: a fingerprint of the participants alone.
KeepsTunnelOfSamePeers(plan) == fingerprint # None /\ DOMAIN fingerprint.plan = DOMAIN plan
\* The fingerprint of the new plan on the current port is that of the tunnel.
KeepsTunnel(plan) == fingerprint = [port |-> listenPort, plan |-> plan]

\* reconcile_tunnel up to its first await, for the plan chosen.
Reconcile(plan) ==
    \/ /\ Unusable(plan)                \* an endpoint that is not an address
       /\ Fails
       /\ UNCHANGED <<listenPort, tunnel>>
    \/ /\ ~Unusable(plan) /\ plan # NoPlan /\ KeepsTunnel(plan)
       /\ snapshot' = Running(TRUE, TRUE)
       /\ UNCHANGED <<session, current, fingerprint, listenPort, tunnel, broken>>
    \/ /\ ~Unusable(plan) /\ (plan = NoPlan \/ ~KeepsTunnel(plan))
       /\ session' = [pc |-> IF current # 0 THEN "join"
                             ELSE IF plan = NoPlan THEN "unvpn" ELSE "start",
                      next |-> IF plan = NoPlan THEN "empty" ELSE "start",
                      plan |-> plan]
       /\ tunnel' = IF current # 0 THEN SentStop ELSE tunnel
       /\ UNCHANGED <<snapshot, current, fingerprint, listenPort, broken>>

\* apply_signal, then reconcile_tunnel: for every signal, a hello included.
Heard(p, said) ==
    /\ session.pc = "loop" /\ left.signals > 0
    /\ left' = [left EXCEPT !.signals = @ - 1]
    /\ known' = [known EXCEPT ![p] = said]
    /\ \E plan \in Planned : Reconcile(plan)
    /\ UNCHANGED <<app, portTaken, android, reply, leaked>>

\* An older announcement than the one known changes nothing.
HearAnnounce(p, a) ==
    Heard(p, IF known[p] = None \/ known[p].ts <= a.ts THEN a ELSE known[p])
HearHello(p) == Heard(p, known[p])
HearDisconnect(p) == Heard(p, None)

\* stop_tunnel_task: the task was told to stop; now it is over.
JoinTunnel ==
    /\ session.pc = "join" /\ tunnel[current].st = "dead"
    /\ session' = [session EXCEPT !.pc = "unvpn"]
    /\ current' = 0
    /\ UNCHANGED <<app, snapshot, known, fingerprint, listenPort, tunnel, portTaken, android,
                   reply, leaked, broken, left>>

\* android_vpn().stop(), and what follows it in each of its three places.
StopVpn ==
    /\ session.pc = "unvpn"
    /\ PluginStop
    /\ \/ /\ session.next = "empty"
          /\ session' = At("loop") /\ snapshot' = Running(TRUE, TRUE)
          /\ listenPort' = 0 /\ fingerprint' = None
       \/ /\ session.next = "start"
          /\ session' = [session EXCEPT !.pc = "start"]
          /\ UNCHANGED <<snapshot, listenPort, fingerprint>>
       \/ /\ session.next = "end"      \* the last report says running once more
          /\ session' = At("ended") /\ snapshot' = Running(TRUE, FALSE)
          /\ fingerprint' = None
          /\ UNCHANGED listenPort
    /\ UNCHANGED <<app, known, current, tunnel, portTaken, leaked, broken, left>>

\* start_tunnel_task binds its socket, then asks for the interface.
StartVpn ==
    /\ session.pc = "start"
    /\ session' = [session EXCEPT !.pc = "wait"]
    /\ PluginStart
    /\ UNCHANGED <<app, snapshot, plans, tunnel, portTaken, leaked, broken, left>>

\* The configured port, unless another program or a dropped task holds it.
PortFree == ~portTaken /\ \A t \in 1..MaxTunnels : ~(Live(t) /\ tunnel[t].port = 0)

\* The fingerprint is computed again, for the port the task got.
StoredFingerprint(port, plan) == [port |-> port, plan |-> plan]

\* The interface is there: the tunnel task starts and its port is announced.
StartTunnel(t) ==
    /\ session.pc = "wait" /\ reply = "fd"
    /\ tunnel[t].st = "none" /\ \A u \in 1..MaxTunnels : u < t => tunnel[u].st # "none"
    /\ LET port == IF PortFree THEN 0 ELSE t
       IN  /\ tunnel' = [tunnel EXCEPT ![t] = [st |-> "run", port |-> port, plan |-> session.plan]]
           /\ listenPort' = port
           /\ fingerprint' = StoredFingerprint(port, session.plan)
    /\ current' = t
    /\ session' = At("loop") /\ snapshot' = Running(TRUE, TRUE)
    /\ reply' = "none"
    /\ UNCHANGED <<app, known, portTaken, android, leaked, broken, left>>

\* The plugin rejects the start, or opening the descriptor fails.
StartRejected ==
    /\ session.pc = "wait"
    /\ \/ reply = "error" /\ UNCHANGED <<leaked, left>>
       \/ reply = "fd" /\ Faulty /\ Fault /\ leaked' = TRUE
    /\ reply' = "none"
    /\ Fails
    /\ UNCHANGED <<app, known, listenPort, tunnel, portTaken, android>>

\* The plugin waits 10 s for the service.  With messages still under way the
\* service is slow, a fault; with none, nothing will answer any more.
StartTimesOut ==
    /\ session.pc = "wait" /\ reply = "waiting"
    /\ IF intents = <<>> THEN UNCHANGED left ELSE Faulty /\ Fault
    /\ reply' = "none"
    /\ Fails
    /\ UNCHANGED <<app, known, listenPort, tunnel, portTaken, android, leaked>>

\* The stop channel: the loop ends, disconnects, and stops tunnel or VPN.
SeeStop ==
    /\ session.pc = "loop" /\ stopSent
    /\ session' = [At("goodbye") EXCEPT !.next = "end"]
    /\ UNCHANGED <<app, snapshot, plans, tunnel, portTaken, android, reply, leaked, broken, left>>

\* Disconnect, then the tunnel task is stopped, or the VPN when there is none.
Goodbye ==
    /\ session.pc = "goodbye"
    /\ session' = [session EXCEPT !.pc = IF current # 0 THEN "join" ELSE "unvpn"]
    /\ tunnel' = IF current # 0 THEN SentStop ELSE tunnel
    /\ UNCHANGED <<app, snapshot, plans, portTaken, android, reply, leaked, broken, left>>

-----------------------------------------------------------------------------
(* The tunnel tasks.                                                        *)

\* A task sees its stop channel.  A dropped task's channel is closed, which
\* it ignores: it goes on moving packets.
TunnelStops(t) ==
    /\ tunnel[t].st = "stop"
    /\ tunnel' = [tunnel EXCEPT ![t].st = "dead"]
    /\ UNCHANGED <<app, snapshot, session, plans, portTaken, android, reply, leaked, broken, left>>

\* A read or a send fails: the task records the error and ends, unnoticed.
TunnelDies(t) ==
    /\ tunnel[t].st = "run" /\ Faulty /\ Fault
    /\ tunnel' = [tunnel EXCEPT ![t].st = "dead"]
    /\ UNCHANGED <<app, snapshot, session, plans, portTaken, android, reply, leaked, broken>>

-----------------------------------------------------------------------------
Init ==
    /\ mgr = "idle" /\ wanted = FALSE /\ stopSent = FALSE
    /\ snapshot = Running(FALSE, FALSE) /\ session = Off
    /\ known = [p \in Peers |-> None] /\ current = 0 /\ fingerprint = None /\ listenPort = 0
    /\ tunnel = [t \in 1..MaxTunnels |-> NoTunnel]
    /\ portTaken \in BOOLEAN
    /\ pending = FALSE /\ future = FALSE /\ reply = "none"
    /\ svc = NoService /\ intents = <<>>
    /\ leaked = FALSE /\ broken = FALSE
    /\ left = [starts |-> MaxStarts, signals |-> MaxSignals, faults |-> MaxFaults]

Service == ServiceStop \/ ServiceStartMissing \/ ServiceStart \/ ServiceDestroyed
Session == \/ Connect \/ JoinTunnel \/ StopVpn \/ StartVpn \/ StartRejected \/ StartTimesOut
           \/ SeeStop \/ Goodbye \/ (\E t \in 1..MaxTunnels : StartTunnel(t))
Signal == \E p \in Peers : \/ \E a \in Announcements : HearAnnounce(p, a)
                           \/ HearHello(p) \/ HearDisconnect(p)

Next == \/ (\E start \in BOOLEAN : Ask(start)) \/ Joined \/ Spawn \/ Refused
        \/ Session \/ Signal \/ ClientFails
        \/ Service \/ ServiceStartFails \/ Revoked
        \/ \E t \in 1..MaxTunnels : TunnelStops(t) \/ TunnelDies(t)

Spec == Init /\ [][Next]_vars

\* The tasks are scheduled, the service's messages are delivered, and the
\* backend thread resumes; nothing forces a signal, a request or a fault.
FairSpec == /\ Spec
            /\ WF_vars(Joined) /\ WF_vars(Spawn) /\ WF_vars(Session) /\ WF_vars(Service)
            /\ \A t \in 1..MaxTunnels : WF_vars(TunnelStops(t))

-----------------------------------------------------------------------------
(* Properties.                                                              *)

\* While the session serves its loop, the tunnel task it holds carries every
\* peer it knows and no other, each at an endpoint and with routes of the
\* newest announcement received, on the port that is announced; no two peers
\* share a route, and the default route is the selected exit node's
\* (reconcile_tunnel, advertised_route_assignments).
TunnelMatchesPeers ==
    session.pc = "loop" =>
        LET heard == {p \in Peers : known[p] # None}
            plan == tunnel[current].plan
        IN  /\ current = 0 <=> heard = {}
            /\ current # 0 =>
                 /\ tunnel[current].port = listenPort
                 /\ DOMAIN plan = heard
                 /\ \A p \in heard : /\ plan[p].at \in known[p].ends
                                     /\ plan[p].routes \subseteq known[p].routes
                                     /\ "default" \in plan[p].routes => p = ExitNode
                 /\ \A p, q \in heard : p # q => plan[p].routes \cap plan[q].routes = {}

\* What the backend reports is whether there is a session: a session that
\* fails at once is not reported as running, one that serves is.
ReportIsTrue ==
    mgr # "stopping" => (snapshot.running <=> session.pc \notin {"off", "ended"})

\* Without errors a stop leaves nothing behind: the thread that waits for the
\* session task, which waits for the tunnel task or for Android's answer,
\* returns, no tunnel task runs then, and the interface goes away, though the
\* stop command returns before the service has acted.
StoppedCleanly == mgr = "idle" /\ session.pc = "off" /\ ~broken
StopCompletes ==
    /\ mgr = "stopping" ~> mgr # "stopping"
    /\ [](StoppedCleanly => \A t \in 1..MaxTunnels : ~Live(t))
    /\ StoppedCleanly ~> (~svc.iface \/ broken \/ mgr # "idle")
=============================================================================
