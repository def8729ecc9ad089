------------------------ MODULE AndroidSession_proofs ------------------------
(***************************************************************************)
(* Theorems about the Android session, for any peers, announcements, exit  *)
(* node and bounds: its tunnel, its types and what the backend reports.    *)
(***************************************************************************)
EXTENDS AndroidSession, FiniteSetTheorems, TLAPS

HeardIn(k) == {p \in Peers : k[p] # None}

(* A plan carries the peers known from k, as they announced themselves. *)
PlanFits(k, plan) ==
    /\ DOMAIN plan = HeardIn(k)
    /\ \A p \in HeardIn(k) : /\ plan[p].at \in k[p].ends
                             /\ plan[p].routes \subseteq k[p].routes
                             /\ "default" \in plan[p].routes => p = ExitNode
    /\ \A p, q \in HeardIn(k) : p # q => plan[p].routes \cap plan[q].routes = {}

(* The tunnel tasks are records, and the current one is one of them. *)
Tasks ==
    /\ DOMAIN tunnel = 1..MaxTunnels
    /\ \A t \in 1..MaxTunnels : {"st", "port", "plan"} \subseteq DOMAIN tunnel[t]
    /\ current \in 0..MaxTunnels

(* A session in its loop without a tunnel knows nobody and has no           *)
(* fingerprint; with one, the tunnel carries what is known, and the         *)
(* fingerprint and the announced port are those of the tunnel.              *)
Serves ==
    IF current = 0
    THEN HeardIn(known) = {} /\ fingerprint = None
    ELSE /\ HeardIn(known) # {} /\ PlanFits(known, tunnel[current].plan)
         /\ tunnel[current].port = listenPort
         /\ fingerprint = [port |-> listenPort, plan |-> tunnel[current].plan]

(* Between two rounds of the loop the old tunnel goes first, and what is to *)
(* follow is what the known peers call for.                                 *)
Replaces ==
    /\ session.next \in {"empty", "start", "end"}
    /\ session.next = "empty" => HeardIn(known) = {}
    /\ session.next = "start" => HeardIn(known) # {} /\ PlanFits(known, session.plan)

TunnelInv ==
    /\ Tasks
    /\ {"pc", "next", "plan"} \subseteq DOMAIN session
    /\ session.pc = "connect" => current = 0 /\ Serves
    /\ session.pc = "loop" => Serves
    /\ session.pc \in {"join", "unvpn", "start", "wait", "goodbye"} => Replaces
    /\ session.pc = "join" => current # 0
    /\ session.pc \in {"unvpn", "start", "wait"} => current = 0
    /\ session.pc \in {"start", "wait"} => session.next = "start"

-----------------------------------------------------------------------------
(* What the planner makes of the announcements. *)
LEMMA PlannedFits ==
    ASSUME NEW plan \in Planned
    PROVE  PlanFits(known', plan) /\ (plan = NoPlan <=> HeardIn(known') = {})
<1> DEFINE heard == {p \in Peers : known'[p] # None}
<1>1. /\ plan \in [heard -> [at : Endpoints, routes : SUBSET Routes]]
      /\ \A p \in heard : plan[p].at \in known'[p].ends /\ plan[p].routes = AllowedRoutes(p)
  BY DEF Planned
<1>2. heard = HeardIn(known')
  BY DEF HeardIn
<1>3. \A p \in heard : /\ AllowedRoutes(p) \subseteq known'[p].routes
                       /\ "default" \in AllowedRoutes(p) => p = ExitNode
  BY DEF AllowedRoutes, Claims
<1>4. \A p, q \in Peers : p # q => p < q \/ q < p
  BY AndroidSessionAssumption DEF Peers
<1>5. \A p, q \in heard : p # q => AllowedRoutes(p) \cap AllowedRoutes(q) = {}
  <2> SUFFICES ASSUME NEW p \in Peers, NEW q \in Peers, p < q,
                      NEW r, r \in AllowedRoutes(p), r \in AllowedRoutes(q)
               PROVE  FALSE
    BY <1>4
  <2> QED BY DEF AllowedRoutes
<1>6. plan = NoPlan <=> heard = {}
  <2>1. DOMAIN NoPlan = {} /\ DOMAIN plan = heard
    BY <1>1 DEF NoPlan
  <2>2. ASSUME heard = {} PROVE plan = NoPlan
    BY <1>1, <2>2 DEF NoPlan
  <2> QED BY <2>1, <2>2
<1> HIDE DEF heard
<1> QED BY <1>1, <1>2, <1>3, <1>5, <1>6 DEF PlanFits

LEMMA NobodyHeard == HeardIn([p \in Peers |-> None]) = {}
BY DEF HeardIn

(* A fingerprint is something. *)
LEMMA NotNone == ASSUME NEW a, NEW b PROVE [port |-> a, plan |-> b] # None
<1>1. DOMAIN [port |-> a, plan |-> b] # DOMAIN None
  BY DEF None
<1> QED BY <1>1

(* A step that leaves the session and its plan alone, and changes at most   *)
(* whether tunnel tasks run.                                                *)
SameTasks ==
    /\ DOMAIN tunnel' = DOMAIN tunnel
    /\ \A t \in 1..MaxTunnels : /\ {"st", "port", "plan"} \subseteq DOMAIN tunnel'[t]
                                /\ tunnel'[t].port = tunnel[t].port
                                /\ tunnel'[t].plan = tunnel[t].plan

LEMMA Aside ==
    ASSUME TunnelInv, session' = session, UNCHANGED plans, SameTasks
    PROVE  TunnelInv'
<1>1. Tasks' /\ current' = current /\ known' = known
  BY DEF TunnelInv, Tasks, SameTasks, plans
<1>2. Serves => Serves'
  BY <1>1 DEF Serves, plans, SameTasks, TunnelInv, Tasks, PlanFits
<1>3. Replaces => Replaces'
  BY <1>1 DEF Replaces
<1> QED BY <1>1, <1>2, <1>3 DEF TunnelInv

LEMMA TunnelStaysSame == ASSUME TunnelInv, tunnel' = tunnel PROVE SameTasks
BY DEF TunnelInv, Tasks, SameTasks

LEMMA SentStopSame == ASSUME TunnelInv, tunnel' = SentStop PROVE SameTasks
BY DEF TunnelInv, Tasks, SameTasks, SentStop

LEMMA EndedFine ==
    ASSUME TunnelInv, session'.pc = "ended", {"pc", "next", "plan"} \subseteq DOMAIN session',
           current' \in 0..MaxTunnels, tunnel' = tunnel
    PROVE  TunnelInv'
BY DEF TunnelInv, Tasks

LEMMA FailsFine == ASSUME TunnelInv, Fails, tunnel' = tunnel PROVE TunnelInv'
<1>1. session'.pc = "ended" /\ {"pc", "next", "plan"} \subseteq DOMAIN session'
  BY DEF Fails, At, Off
<1>2. current' \in 0..MaxTunnels
  BY AndroidSessionAssumption DEF Fails
<1> QED BY <1>1, <1>2, EndedFine

(* reconcile_tunnel for the plan of what is known after a signal. *)
LEMMA HeardFine ==
    ASSUME TunnelInv, NEW p \in Peers, NEW said, Heard(p, said)
    PROVE  TunnelInv'
<1>1. PICK plan \in Planned : Reconcile(plan)
  BY DEF Heard
<1>2. PlanFits(known', plan) /\ (plan = NoPlan <=> HeardIn(known') = {})
  BY PlannedFits
<1>3. Serves /\ Tasks /\ current \in 0..MaxTunnels
  BY DEF Heard, TunnelInv, Tasks
<1>4. CASE Fails /\ tunnel' = tunnel
  BY <1>4, FailsFine
<1>5. CASE /\ plan # NoPlan /\ KeepsTunnel(plan)
           /\ UNCHANGED <<session, current, fingerprint, listenPort, tunnel>>
  <2>1. fingerprint = [port |-> listenPort, plan |-> plan]
    BY <1>5 DEF KeepsTunnel
  <2>2. current # 0
    BY <1>3, <2>1, NotNone DEF Serves
  <2>3. tunnel[current].plan = plan /\ tunnel[current].port = listenPort
    BY <1>3, <2>1, <2>2 DEF Serves
  <2>4. Serves'
    BY <1>2, <1>5, <2>1, <2>2, <2>3 DEF Serves
  <2>5. Tasks'
    BY <1>3, <1>5 DEF Tasks
  <2>6. session.pc = "loop"
    BY DEF Heard
  <2> QED BY <1>5, <2>4, <2>5, <2>6 DEF TunnelInv
<1>6. CASE /\ session' = [pc |-> IF current # 0 THEN "join"
                                 ELSE IF plan = NoPlan THEN "unvpn" ELSE "start",
                          next |-> IF plan = NoPlan THEN "empty" ELSE "start",
                          plan |-> plan]
           /\ tunnel' = IF current # 0 THEN SentStop ELSE tunnel
           /\ UNCHANGED <<current, fingerprint, listenPort>>
  <2>1. Tasks'
    BY <1>3, <1>6 DEF Tasks, SentStop
  <2>2. Replaces'
    BY <1>2, <1>6 DEF Replaces
  <2>3. {"pc", "next", "plan"} \subseteq DOMAIN session'
    BY <1>6
  <2>4. /\ session'.pc \in {"join", "unvpn", "start"}
        /\ session'.pc = "join" <=> current' # 0
        /\ session'.pc = "start" => session'.next = "start"
    BY <1>6
  <2> QED BY <2>1, <2>2, <2>3, <2>4 DEF TunnelInv
<1> QED BY <1>1, <1>4, <1>5, <1>6 DEF Reconcile

(* The backend thread. *)
LEMMA ManagerFine ==
    ASSUME TunnelInv, (\E start \in BOOLEAN : Ask(start)) \/ Joined \/ Spawn \/ Refused
    PROVE  TunnelInv'
<1>1. ASSUME NEW start \in BOOLEAN, Ask(start) PROVE TunnelInv'
  BY <1>1, Aside, TunnelStaysSame DEF Ask, plans
<1>2. ASSUME Joined PROVE TunnelInv'
  <2>1. session'.pc = "off" /\ {"pc", "next", "plan"} \subseteq DOMAIN session'
    BY <1>2 DEF Joined, Off
  <2>2. Tasks'
    BY <1>2 DEF Joined, plans, TunnelInv, Tasks
  <2> QED BY <2>1, <2>2 DEF TunnelInv
<1>3. ASSUME Spawn PROVE TunnelInv'
  <2>1. session'.pc = "connect" /\ {"pc", "next", "plan"} \subseteq DOMAIN session'
    BY <1>3 DEF Spawn, At, Off
  <2>2. Tasks'
    BY <1>3, AndroidSessionAssumption DEF Spawn, TunnelInv, Tasks
  <2>3. current' = 0 /\ Serves'
    BY <1>3, NobodyHeard DEF Spawn, Serves
  <2> QED BY <2>1, <2>2, <2>3 DEF TunnelInv
<1>4. ASSUME Refused PROVE TunnelInv'
  BY <1>4, Aside, TunnelStaysSame DEF Refused, plans
<1> QED BY <1>1, <1>2, <1>3, <1>4

(* The session task, apart from its signals. *)
LEMMA SessionFine ==
    ASSUME TunnelInv, Session
    PROVE  TunnelInv'
<1>0. Tasks /\ {"pc", "next", "plan"} \subseteq DOMAIN session
  BY DEF TunnelInv
<1>1. ASSUME Connect PROVE TunnelInv'
  <2>1. session'.pc = "loop" /\ {"pc", "next", "plan"} \subseteq DOMAIN session'
    BY <1>1 DEF Connect, At, Off
  <2>2. Serves' /\ Tasks'
    BY <1>0, <1>1 DEF Connect, TunnelInv, plans, Serves, Tasks
  <2> QED BY <2>1, <2>2 DEF TunnelInv
<1>2. ASSUME JoinTunnel PROVE TunnelInv'
  <2>1. session'.pc = "unvpn" /\ session'.next = session.next /\ session'.plan = session.plan
        /\ {"pc", "next", "plan"} \subseteq DOMAIN session'
    BY <1>0, <1>2 DEF JoinTunnel
  <2>2. current' = 0 /\ Tasks'
    BY <1>0, <1>2, AndroidSessionAssumption DEF JoinTunnel, Tasks
  <2>3. Replaces'
    BY <1>2, <2>1 DEF JoinTunnel, TunnelInv, Replaces
  <2> QED BY <2>1, <2>2, <2>3 DEF TunnelInv
<1>3. ASSUME StopVpn PROVE TunnelInv'
  <2>1. Tasks' /\ current' = 0 /\ known' = known /\ Replaces
    BY <1>0, <1>3 DEF StopVpn, Tasks, TunnelInv
  <2>2. ASSUME session.next = "empty", session' = At("loop"), fingerprint' = None PROVE TunnelInv'
    <3>1. Serves'
      BY <2>1, <2>2 DEF Serves, Replaces
    <3>2. session'.pc = "loop" /\ {"pc", "next", "plan"} \subseteq DOMAIN session'
      BY <2>2 DEF At, Off
    <3> QED BY <2>1, <3>1, <3>2 DEF TunnelInv
  <2>3. ASSUME session.next = "start", session' = [session EXCEPT !.pc = "start"] PROVE TunnelInv'
    <3>1. session'.pc = "start" /\ session'.next = session.next /\ session'.plan = session.plan
          /\ {"pc", "next", "plan"} \subseteq DOMAIN session'
      BY <1>0, <2>3
    <3>2. Replaces'
      BY <2>1, <3>1 DEF Replaces
    <3> QED BY <2>1, <2>3, <3>1, <3>2 DEF TunnelInv
  <2>4. ASSUME session' = At("ended") PROVE TunnelInv'
    <3>1. session'.pc = "ended" /\ {"pc", "next", "plan"} \subseteq DOMAIN session'
      BY <2>4 DEF At, Off
    <3> QED BY <2>1, <3>1 DEF TunnelInv
  <2> QED BY <1>3, <2>2, <2>3, <2>4 DEF StopVpn
<1>4. ASSUME StartVpn PROVE TunnelInv'
  <2>1. session'.pc = "wait" /\ session'.next = session.next /\ session'.plan = session.plan
        /\ {"pc", "next", "plan"} \subseteq DOMAIN session'
    BY <1>0, <1>4 DEF StartVpn
  <2>2. Tasks' /\ current' = current /\ known' = known
    BY <1>0, <1>4 DEF StartVpn, plans, Tasks
  <2>3. Replaces'
    BY <1>4, <2>1, <2>2 DEF StartVpn, TunnelInv, Replaces
  <2> QED BY <1>4, <2>1, <2>2, <2>3 DEF StartVpn, TunnelInv
<1>5. ASSUME StartRejected \/ StartTimesOut PROVE TunnelInv'
  BY <1>5, FailsFine DEF StartRejected, StartTimesOut
<1>6. ASSUME SeeStop PROVE TunnelInv'
  <2>1. session'.pc = "goodbye" /\ session'.next = "end"
        /\ {"pc", "next", "plan"} \subseteq DOMAIN session'
    BY <1>6 DEF SeeStop, At, Off
  <2>2. Tasks'
    BY <1>0, <1>6 DEF SeeStop, plans, Tasks
  <2> QED BY <2>1, <2>2 DEF TunnelInv, Replaces
<1>7. ASSUME Goodbye PROVE TunnelInv'
  <2>1. /\ session'.pc = IF current # 0 THEN "join" ELSE "unvpn"
        /\ session'.next = session.next /\ session'.plan = session.plan
        /\ {"pc", "next", "plan"} \subseteq DOMAIN session'
    BY <1>0, <1>7 DEF Goodbye
  <2>2. Tasks' /\ current' = current /\ known' = known
    BY <1>0, <1>7 DEF Goodbye, plans, Tasks, SentStop
  <2>3. Replaces'
    BY <1>7, <2>1, <2>2 DEF Goodbye, TunnelInv, Replaces
  <2> QED BY <2>1, <2>2, <2>3 DEF TunnelInv
<1>8. ASSUME NEW t \in 1..MaxTunnels, StartTunnel(t) PROVE TunnelInv'
  <2>1. PICK port : /\ tunnel' = [tunnel EXCEPT ![t] = [st |-> "run", port |-> port, plan |-> session.plan]]
                    /\ listenPort' = port
                    /\ fingerprint' = StoredFingerprint(port, session.plan)
    BY <1>8 DEF StartTunnel
  <2>2. HeardIn(known) # {} /\ PlanFits(known, session.plan)
    BY <1>8 DEF StartTunnel, TunnelInv, Replaces
  <2>3. current' = t /\ known' = known /\ t # 0 /\ t \in 0..MaxTunnels
    BY <1>8, AndroidSessionAssumption DEF StartTunnel
  <2>4. tunnel'[t] = [st |-> "run", port |-> port, plan |-> session.plan]
    BY <1>0, <2>1 DEF Tasks
  <2>5. Tasks'
    BY <1>0, <2>1, <2>3, <2>4 DEF Tasks
  <2>6. Serves'
    BY <2>1, <2>2, <2>3, <2>4 DEF Serves, StoredFingerprint
  <2>7. session'.pc = "loop" /\ {"pc", "next", "plan"} \subseteq DOMAIN session'
    BY <1>8 DEF StartTunnel, At, Off
  <2> QED BY <2>5, <2>6, <2>7 DEF TunnelInv
<1> QED BY <1>1, <1>2, <1>3, <1>4, <1>5, <1>6, <1>7, <1>8 DEF Session

LEMMA TunnelInit == Init => TunnelInv
<1> SUFFICES ASSUME Init PROVE TunnelInv
  OBVIOUS
<1>1. Tasks
  BY AndroidSessionAssumption DEF Init, Tasks, NoTunnel
<1>2. session.pc = "off" /\ {"pc", "next", "plan"} \subseteq DOMAIN session
  BY DEF Init, Off
<1> QED BY <1>1, <1>2 DEF TunnelInv

LEMMA TunnelStep == TunnelInv /\ [Next]_vars => TunnelInv'
<1> SUFFICES ASSUME TunnelInv, [Next]_vars PROVE TunnelInv'
  OBVIOUS
<1>1. ASSUME Signal PROVE TunnelInv'
  BY <1>1, HeardFine DEF Signal, HearAnnounce, HearHello, HearDisconnect
<1>2. ASSUME ClientFails PROVE TunnelInv'
  BY <1>2, FailsFine DEF ClientFails
<1>3. ASSUME Service \/ ServiceStartFails \/ Revoked PROVE TunnelInv'
  <2>1. session' = session /\ UNCHANGED plans /\ tunnel' = tunnel
    BY <1>3 DEF Service, ServiceStop, ServiceStartMissing, ServiceStart, ServiceDestroyed,
                ServiceStartFails, Revoked
  <2> QED BY <2>1, Aside, TunnelStaysSame
<1>4. ASSUME NEW t \in 1..MaxTunnels, TunnelStops(t) \/ TunnelDies(t) PROVE TunnelInv'
  <2>1. session' = session /\ UNCHANGED plans /\ tunnel' = [tunnel EXCEPT ![t].st = "dead"]
    BY <1>4 DEF TunnelStops, TunnelDies
  <2>2. SameTasks
    BY <2>1 DEF SameTasks, TunnelInv, Tasks
  <2> QED BY <2>1, <2>2, Aside
<1>5. CASE UNCHANGED vars
  BY <1>5, Aside, TunnelStaysSame DEF vars
<1> QED BY <1>1, <1>2, <1>3, <1>4, <1>5, ManagerFine, SessionFine DEF Next

LEMMA TunnelInvImplies == TunnelInv => TunnelMatchesPeers
<1> SUFFICES ASSUME TunnelInv, session.pc = "loop" PROVE TunnelMatchesPeers
  BY DEF TunnelMatchesPeers
<1>1. Serves
  BY DEF TunnelInv
<1> QED BY <1>1 DEF Serves, PlanFits, HeardIn, TunnelMatchesPeers

(* Whatever the order of signals, restarts, refused permissions, failing    *)
(* services and dying tasks, a session in its loop has a tunnel exactly     *)
(* when it knows a peer, made for what it knows: the newest announcements,  *)
(* the port that is announced, each route for one peer (reconcile_tunnel).  *)
THEOREM TunnelIsPlanned == Spec => []TunnelMatchesPeers
BY TunnelInit, TunnelStep, TunnelInvImplies, PTL DEF Spec

-----------------------------------------------------------------------------
(* Types. *)

AppType ==
    /\ mgr \in {"idle", "stopping", "preparing"}
    /\ wanted \in BOOLEAN /\ stopSent \in BOOLEAN
    /\ snapshot \in [running : BOOLEAN, active : BOOLEAN]
    /\ portTaken \in BOOLEAN /\ pending \in BOOLEAN /\ future \in BOOLEAN
    /\ reply \in {"none", "waiting", "fd", "error"}
    /\ leaked \in BOOLEAN /\ broken \in BOOLEAN

Messages == {"START", "STOP", "DESTROY"}
OneDestroy(q) == \A i, j \in 1..Len(q) : q[i] = "DESTROY" /\ q[j] = "DESTROY" => i = j
ServiceType ==
    /\ svc \in [alive : BOOLEAN, iface : BOOLEAN, registered : BOOLEAN, active : BOOLEAN]
    /\ intents \in Seq(Messages)
    /\ OneDestroy(intents)

SessionType ==
    /\ session.pc \in {"off", "connect", "loop", "join", "unvpn", "start", "wait",
                       "goodbye", "ended"}
    /\ session.next \in {"none", "empty", "start", "end"}
    /\ known \in [Peers -> Announcements \cup {None}]
    /\ listenPort \in 0..MaxTunnels
    /\ fingerprint = None \/ fingerprint.port \in 0..MaxTunnels
    /\ \A t \in 1..MaxTunnels : /\ tunnel[t].st \in {"none", "run", "stop", "dead"}
                                /\ tunnel[t].port \in {0, t}

LEMMA ReplyStep ==
    AppType /\ [Next]_vars => reply' \in {"none", "waiting", "fd", "error"}
<1> SUFFICES ASSUME AppType, [Next]_vars PROVE reply' \in {"none", "waiting", "fd", "error"}
  OBVIOUS
<1>1. CASE UNCHANGED reply
  BY <1>1 DEF AppType
<1>2. CASE StartVpn \/ (\E t \in 1..MaxTunnels : StartTunnel(t)) \/ StartRejected \/ StartTimesOut
  BY <1>2 DEF StartVpn, PluginStart, StartTunnel, StartRejected, StartTimesOut
<1>3. CASE StopVpn
  BY <1>1, <1>3 DEF StopVpn, PluginStop
<1>4. CASE Service \/ ServiceStartFails \/ Revoked
  BY <1>1, <1>4 DEF Service, ServiceStop, ServiceStartMissing, ServiceStart, ServiceDestroyed,
                    ServiceStartFails, Revoked, FailStart
<1>5. CASE (\E start \in BOOLEAN : Ask(start)) \/ Joined \/ Spawn \/ Refused
  BY <1>1, <1>5 DEF Ask, Joined, Spawn, Refused
<1>6. CASE Connect \/ JoinTunnel \/ SeeStop \/ Goodbye \/ ClientFails \/ Signal
  BY <1>1, <1>6 DEF Connect, JoinTunnel, SeeStop, Goodbye, ClientFails,
                    Signal, HearAnnounce, HearHello, HearDisconnect, Heard
<1>7. CASE \E t \in 1..MaxTunnels : TunnelStops(t) \/ TunnelDies(t)
  BY <1>1, <1>7 DEF TunnelStops, TunnelDies
<1>8. CASE UNCHANGED vars
  BY <1>1, <1>8 DEF vars
<1> QED BY <1>2, <1>3, <1>4, <1>5, <1>6, <1>7, <1>8 DEF Next, Session

LEMMA FlagStep ==
    AppType /\ [Next]_vars
      => {pending', future', leaked', broken', portTaken', wanted', stopSent'} \subseteq BOOLEAN
<1> SUFFICES ASSUME AppType, [Next]_vars
             PROVE  /\ pending' \in BOOLEAN /\ future' \in BOOLEAN /\ leaked' \in BOOLEAN
                    /\ broken' \in BOOLEAN /\ portTaken' \in BOOLEAN /\ wanted' \in BOOLEAN
                    /\ stopSent' \in BOOLEAN
  OBVIOUS
<1> USE DEF AppType
<1>1. CASE UNCHANGED vars
  BY <1>1 DEF vars, app, android
<1>2. CASE (\E start \in BOOLEAN : Ask(start)) \/ Joined \/ Spawn \/ Refused
  BY <1>2, Zenon DEF Ask, Joined, Spawn, Refused, plans, android, app
<1>3. CASE Connect \/ JoinTunnel \/ StartVpn \/ SeeStop \/ Goodbye
           \/ \E t \in 1..MaxTunnels : StartTunnel(t)
  BY <1>3, Zenon DEF Connect, JoinTunnel, StartVpn, SeeStop, Goodbye, StartTunnel, PluginStart,
              app, android
<1>4. CASE StopVpn
  BY <1>4, Zenon DEF StopVpn, PluginStop, app
<1>5. CASE StartRejected \/ StartTimesOut \/ ClientFails
  BY <1>5, Zenon DEF StartRejected, StartTimesOut, ClientFails, Fails, app, android
<1>6. CASE Signal
  BY <1>6, Zenon DEF Signal, HearAnnounce, HearHello, HearDisconnect, Heard, Reconcile, Fails,
              app, android
<1>7. CASE Service \/ ServiceStartFails \/ Revoked
  BY <1>7, Zenon DEF Service, ServiceStop, ServiceStartMissing, ServiceStart, ServiceDestroyed,
              ServiceStartFails, Revoked, StopTunnel, FailStart, app
<1>8. CASE \E t \in 1..MaxTunnels : TunnelStops(t) \/ TunnelDies(t)
  BY <1>8, Zenon DEF TunnelStops, TunnelDies, app, android
<1> QED BY <1>1, <1>2, <1>3, <1>4, <1>5, <1>6, <1>7, <1>8 DEF Next, Session

LEMMA SnapshotStep ==
    AppType /\ [Next]_vars => /\ mgr' \in {"idle", "stopping", "preparing"}
                              /\ snapshot' \in [running : BOOLEAN, active : BOOLEAN]
<1> SUFFICES ASSUME AppType, [Next]_vars
             PROVE  /\ mgr' \in {"idle", "stopping", "preparing"}
                    /\ snapshot' \in [running : BOOLEAN, active : BOOLEAN]
  OBVIOUS
<1>0. \A on, up \in BOOLEAN : Running(on, up) \in [running : BOOLEAN, active : BOOLEAN]
  BY DEF Running
<1>1. CASE UNCHANGED <<mgr, snapshot>>
  BY <1>1 DEF AppType
<1>2. CASE (\E start \in BOOLEAN : Ask(start)) \/ Joined \/ Spawn \/ Refused
  BY <1>0, <1>2 DEF Ask, Joined, Spawn, Refused, AppType
<1>3. CASE Connect \/ StopVpn \/ \E t \in 1..MaxTunnels : StartTunnel(t)
  BY <1>0, <1>3 DEF Connect, StopVpn, StartTunnel, app, AppType
<1>4. CASE StartRejected \/ StartTimesOut \/ ClientFails
  BY <1>0, <1>4 DEF StartRejected, StartTimesOut, ClientFails, Fails, app, AppType
<1>5. CASE Signal
  BY <1>0, <1>5 DEF Signal, HearAnnounce, HearHello, HearDisconnect, Heard, Reconcile, Fails,
                    app, AppType
<1>6. CASE JoinTunnel \/ StartVpn \/ SeeStop \/ Goodbye \/ Service \/ ServiceStartFails \/ Revoked
  BY <1>1, <1>6 DEF JoinTunnel, StartVpn, SeeStop, Goodbye, Service, ServiceStop, 
       ServiceStartMissing, ServiceStart, ServiceDestroyed, ServiceStartFails, Revoked, app
<1>7. CASE \E t \in 1..MaxTunnels : TunnelStops(t) \/ TunnelDies(t)
  BY <1>1, <1>7 DEF TunnelStops, TunnelDies, app
<1>8. CASE UNCHANGED vars
  BY <1>1, <1>8 DEF vars, app
<1> QED BY <1>2, <1>3, <1>4, <1>5, <1>6, <1>7, <1>8 DEF Next, Session

LEMMA AppTypeStep == AppType /\ [Next]_vars => AppType'
BY ReplyStep, FlagStep, SnapshotStep DEF AppType

(* Messages are taken from the front and sent behind the others. *)
LEMMA TailType ==
    ASSUME NEW q \in Seq(Messages), q # <<>>, OneDestroy(q)
    PROVE  Tail(q) \in Seq(Messages) /\ OneDestroy(Tail(q))
<1>1. Tail(q) \in Seq(Messages) /\ Len(Tail(q)) = Len(q) - 1 /\ Len(q) \in Nat
  OBVIOUS
<1>2. \A i \in 1..Len(Tail(q)) : Tail(q)[i] = q[i + 1] /\ i + 1 \in 1..Len(q)
  BY <1>1
<1>3. ASSUME NEW i \in 1..Len(Tail(q)), NEW j \in 1..Len(Tail(q)),
             Tail(q)[i] = "DESTROY", Tail(q)[j] = "DESTROY"
      PROVE  i = j
  <2>1. i + 1 = j + 1
    BY <1>2, <1>3 DEF OneDestroy
  <2>2. i \in Int /\ j \in Int
    BY <1>1
  <2> QED BY <2>1, <2>2
<1> QED BY <1>1, <1>3 DEF OneDestroy

LEMMA AppendType ==
    ASSUME NEW q \in Seq(Messages), NEW m \in Messages, OneDestroy(q),
           m # "DESTROY" \/ \A i \in 1..Len(q) : q[i] # "DESTROY"
    PROVE  Append(q, m) \in Seq(Messages) /\ OneDestroy(Append(q, m))
<1>1. /\ Append(q, m) \in Seq(Messages) /\ Len(Append(q, m)) = Len(q) + 1 /\ Len(q) \in Nat
      /\ Append(q, m)[Len(q) + 1] = m
      /\ \A i \in 1..Len(q) : Append(q, m)[i] = q[i]
  OBVIOUS
<1>2. \A i \in 1..Len(Append(q, m)) : i \in 1..Len(q) \/ i = Len(q) + 1
  BY <1>1
<1> QED BY <1>1, <1>2 DEF OneDestroy

LEMMA DestroyingType ==
    ASSUME NEW q \in Seq(Messages), OneDestroy(q)
    PROVE  Destroying(q) \in Seq(Messages) /\ OneDestroy(Destroying(q))
BY AppendType DEF Destroying, Messages

LEMMA ServiceTypeStep == ServiceType /\ [Next]_vars => ServiceType'
<1> SUFFICES ASSUME ServiceType, [Next]_vars PROVE ServiceType'
  OBVIOUS
<1>1. CASE UNCHANGED <<svc, intents>>
  BY <1>1 DEF ServiceType
<1>2. CASE StartVpn
  <2>1. intents' = Append(intents, "START") /\ svc' = [svc EXCEPT !.active = FALSE]
    BY <1>2 DEF StartVpn, PluginStart
  <2>2. intents' \in Seq(Messages) /\ OneDestroy(intents')
    BY <2>1, AppendType DEF ServiceType, Messages
  <2> QED BY <2>1, <2>2 DEF ServiceType
<1>3. CASE StopVpn
  <2>1. /\ intents' = Append(intents, "STOP") \/ intents' = intents
        /\ svc' = [svc EXCEPT !.active = FALSE] \/ svc' = svc
    BY <1>3 DEF StopVpn, PluginStop
  <2>2. intents' \in Seq(Messages) /\ OneDestroy(intents')
    BY <2>1, AppendType DEF ServiceType, Messages
  <2> QED BY <2>1, <2>2 DEF ServiceType
<1>4. CASE Service \/ ServiceStartFails
  <2>1. /\ intents # <<>>
        /\ intents' = Tail(intents) \/ intents' = Destroying(Tail(intents))
    BY <1>4 DEF Service, ServiceStop, ServiceStartMissing, ServiceStart, ServiceDestroyed,
                ServiceStartFails
  <2>2. intents' \in Seq(Messages) /\ OneDestroy(intents')
    BY <2>1, TailType, DestroyingType DEF ServiceType
  <2>3. svc' \in { [svc EXCEPT !.iface = FALSE, !.registered = FALSE, !.active = FALSE],
                   [svc EXCEPT !.iface = FALSE], [svc EXCEPT !.alive = TRUE, !.active = FALSE],
                   [alive |-> TRUE, iface |-> TRUE, registered |-> TRUE, active |-> TRUE],
                   NoService, [NoService EXCEPT !.alive = TRUE] }
    BY <1>4, Zenon DEF Service, ServiceStop, ServiceStartMissing, ServiceStart, ServiceDestroyed,
                       ServiceStartFails, StopTunnel
  <2>4. svc' \in [alive : BOOLEAN, iface : BOOLEAN, registered : BOOLEAN, active : BOOLEAN]
    <3> DEFINE Services == [alive : BOOLEAN, iface : BOOLEAN, registered : BOOLEAN, active : BOOLEAN]
    <3>1. svc \in Services
      BY DEF ServiceType
    <3>2. /\ [svc EXCEPT !.iface = FALSE, !.registered = FALSE, !.active = FALSE] \in Services
          /\ [svc EXCEPT !.iface = FALSE] \in Services
          /\ [svc EXCEPT !.alive = TRUE, !.active = FALSE] \in Services
      BY <3>1
    <3>3. [alive |-> TRUE, iface |-> TRUE, registered |-> TRUE, active |-> TRUE] \in Services
      OBVIOUS
    <3>4. NoService \in Services /\ [NoService EXCEPT !.alive = TRUE] \in Services
      BY DEF NoService
    <3> HIDE DEF Services
    <3>5. svc' \in Services
      BY <2>3, <3>2, <3>3, <3>4
    <3> QED BY <3>5 DEF Services
  <2> QED BY <2>2, <2>4 DEF ServiceType
<1>5. CASE Revoked
  <2>1. intents' \in Seq(Messages) /\ OneDestroy(intents')
    BY <1>5, DestroyingType DEF Revoked, ServiceType
  <2>2. svc' \in [alive : BOOLEAN, iface : BOOLEAN, registered : BOOLEAN, active : BOOLEAN]
    BY <1>5 DEF Revoked, StopTunnel, ServiceType
  <2> QED BY <2>1, <2>2 DEF ServiceType
<1>6. CASE (\E start \in BOOLEAN : Ask(start)) \/ Joined \/ Spawn \/ Refused
  BY <1>1, <1>6 DEF Ask, Joined, Spawn, Refused, android
<1>7. CASE Connect \/ JoinTunnel \/ StartRejected \/ StartTimesOut \/ SeeStop \/ Goodbye
           \/ (\E t \in 1..MaxTunnels : StartTunnel(t)) \/ ClientFails
  BY <1>1, <1>7 DEF Connect, JoinTunnel, StartRejected, StartTimesOut, SeeStop, Goodbye,
                    StartTunnel, ClientFails, android
<1>8. CASE Signal
  BY <1>1, <1>8 DEF Signal, HearAnnounce, HearHello, HearDisconnect, Heard, android
<1>9. CASE \E t \in 1..MaxTunnels : TunnelStops(t) \/ TunnelDies(t)
  BY <1>1, <1>9 DEF TunnelStops, TunnelDies, android
<1>10. CASE UNCHANGED vars
  BY <1>1, <1>10 DEF vars, android
<1> QED BY <1>2, <1>3, <1>4, <1>5, <1>6, <1>7, <1>8, <1>9, <1>10 DEF Next, Session

LEMMA SentStopType ==
    ASSUME TunnelInv, SessionType
    PROVE  \A t \in 1..MaxTunnels : /\ SentStop[t].st \in {"none", "run", "stop", "dead"}
                                    /\ SentStop[t].port \in {0, t}
BY DEF TunnelInv, Tasks, SessionType, SentStop

LEMMA FailsType ==
    ASSUME SessionType, Fails, UNCHANGED <<listenPort, tunnel>>,
           known' \in [Peers -> Announcements \cup {None}]
    PROVE  SessionType'
BY DEF SessionType, Fails, At, Off

LEMMA HeardType ==
    ASSUME TunnelInv, SessionType, NEW p \in Peers, NEW said \in Announcements \cup {None},
           Heard(p, said)
    PROVE  SessionType'
<1>1. PICK plan \in Planned : Reconcile(plan)
  BY DEF Heard
<1>2. known' \in [Peers -> Announcements \cup {None}]
  BY DEF Heard, SessionType
<1>3. CASE Fails /\ UNCHANGED <<listenPort, tunnel>>
  BY <1>2, <1>3, FailsType
<1>4. CASE UNCHANGED <<session, current, fingerprint, listenPort, tunnel>>
  BY <1>2, <1>4 DEF SessionType
<1>5. CASE /\ session' = [pc |-> IF current # 0 THEN "join"
                                 ELSE IF plan = NoPlan THEN "unvpn" ELSE "start",
                          next |-> IF plan = NoPlan THEN "empty" ELSE "start",
                          plan |-> plan]
           /\ tunnel' = IF current # 0 THEN SentStop ELSE tunnel
           /\ UNCHANGED <<current, fingerprint, listenPort>>
  <2>1. \A t \in 1..MaxTunnels : /\ tunnel'[t].st \in {"none", "run", "stop", "dead"}
                                 /\ tunnel'[t].port \in {0, t}
    BY <1>5, SentStopType DEF SessionType
  <2> QED BY <1>2, <1>5, <2>1 DEF SessionType
<1> QED BY <1>1, <1>3, <1>4, <1>5 DEF Reconcile

LEMMA SessionTypeStep == TunnelInv /\ SessionType /\ [Next]_vars => SessionType'
<1> SUFFICES ASSUME TunnelInv, SessionType, [Next]_vars PROVE SessionType'
  OBVIOUS
<1>0. Tasks /\ {"pc", "next", "plan"} \subseteq DOMAIN session /\ MaxTunnels \in Nat
  BY AndroidSessionAssumption DEF TunnelInv
<1>1. CASE UNCHANGED <<session, plans, tunnel>>
  BY <1>1 DEF plans, SessionType
<1>2. CASE (\E start \in BOOLEAN : Ask(start)) \/ Refused
  BY <1>1, <1>2 DEF Ask, Refused
<1>3. CASE Joined
  BY <1>3 DEF Joined, plans, Off, SessionType
<1>4. CASE Spawn
  <2>1. known' \in [Peers -> Announcements \cup {None}]
    BY <1>4 DEF Spawn
  <2> QED BY <1>0, <1>4, <2>1 DEF Spawn, At, Off, SessionType
<1>5. CASE Connect \/ JoinTunnel \/ StartVpn \/ SeeStop
  BY <1>0, <1>5 DEF Connect, JoinTunnel, StartVpn, SeeStop, plans, At, Off, SessionType
<1>6. CASE StopVpn
  <2>1. /\ UNCHANGED <<known, tunnel>>
        /\ listenPort' \in {0, listenPort} /\ fingerprint' \in {None, fingerprint}
        /\ session' \in {At("loop"), At("ended"), [session EXCEPT !.pc = "start"]}
    BY <1>6, Zenon DEF StopVpn
  <2>2. listenPort' \in 0..MaxTunnels
    BY <1>0, <2>1 DEF SessionType
  <2> QED BY <1>0, <2>1, <2>2 DEF At, Off, SessionType
<1>7. CASE Goodbye
  <2>1. \A t \in 1..MaxTunnels : /\ tunnel'[t].st \in {"none", "run", "stop", "dead"}
                                 /\ tunnel'[t].port \in {0, t}
    BY <1>7, SentStopType DEF Goodbye, SessionType
  <2> QED BY <1>0, <1>7, <2>1 DEF Goodbye, plans, SessionType
<1>8. CASE StartRejected \/ StartTimesOut \/ ClientFails
  BY <1>8, FailsType DEF StartRejected, StartTimesOut, ClientFails, SessionType
<1>9. CASE \E t \in 1..MaxTunnels : StartTunnel(t)
  <2>1. PICK t \in 1..MaxTunnels : StartTunnel(t)
    BY <1>9
  <2>2. PICK port \in {0, t} :
          /\ tunnel' = [tunnel EXCEPT ![t] = [st |-> "run", port |-> port, plan |-> session.plan]]
          /\ listenPort' = port
          /\ fingerprint' = StoredFingerprint(port, session.plan)
          /\ session' = At("loop") /\ known' = known /\ current' = t
    BY <2>1 DEF StartTunnel
  <2>3. port \in 0..MaxTunnels
    BY <1>0
  <2>4. \A u \in 1..MaxTunnels : /\ tunnel'[u].st \in {"none", "run", "stop", "dead"}
                                 /\ tunnel'[u].port \in {0, u}
    BY <1>0, <2>2 DEF Tasks, SessionType
  <2> QED BY <1>0, <2>2, <2>3, <2>4 DEF StoredFingerprint, At, Off, SessionType
<1>10. CASE Signal
  <2>1. PICK p \in Peers, said \in Announcements \cup {None} : Heard(p, said)
    BY <1>10 DEF Signal, HearAnnounce, HearHello, HearDisconnect, SessionType
  <2> QED BY <2>1, HeardType
<1>11. CASE Service \/ ServiceStartFails \/ Revoked
  BY <1>1, <1>11 DEF Service, ServiceStop, ServiceStartMissing, ServiceStart, ServiceDestroyed,
                     ServiceStartFails, Revoked
<1>12. CASE \E t \in 1..MaxTunnels : TunnelStops(t) \/ TunnelDies(t)
  <2>1. PICK t \in 1..MaxTunnels :
          /\ tunnel' = [tunnel EXCEPT ![t].st = "dead"] /\ UNCHANGED <<session, plans>>
    BY <1>12 DEF TunnelStops, TunnelDies
  <2>2. \A u \in 1..MaxTunnels : /\ tunnel'[u].st \in {"none", "run", "stop", "dead"}
                                 /\ tunnel'[u].port \in {0, u}
    BY <1>0, <2>1 DEF Tasks, SessionType
  <2> QED BY <2>1, <2>2 DEF plans, SessionType
<1>13. CASE UNCHANGED vars
  BY <1>1, <1>13 DEF vars
<1> QED BY <1>2, <1>3, <1>4, <1>5, <1>6, <1>7, <1>8, <1>9, <1>10, <1>11, <1>12, <1>13
        DEF Next, Session

LEMMA TypesInit == Init => AppType /\ ServiceType /\ SessionType
<1> SUFFICES ASSUME Init PROVE AppType /\ ServiceType /\ SessionType
  OBVIOUS
<1>1. AppType /\ ServiceType
  <2>1. AppType
    BY DEF Init, AppType, Running
  <2>2. intents \in Seq(Messages) /\ OneDestroy(intents)
    BY DEF Init, OneDestroy
  <2> QED BY <2>1, <2>2 DEF Init, ServiceType, NoService
<1>2. SessionType
  BY AndroidSessionAssumption DEF Init, SessionType, Off, NoTunnel
<1> QED BY <1>1, <1>2

LEMMA TypesImply == TunnelInv /\ AppType /\ ServiceType /\ SessionType => TypeOK
<1> SUFFICES ASSUME TunnelInv, AppType, ServiceType, SessionType PROVE TypeOK
  OBVIOUS
<1> DEFINE D == {i \in 1..Len(intents) : intents[i] = "DESTROY"}
<1>1. Cardinality(D) <= 1
  <2>1. \A i, j \in D : i = j
    BY DEF ServiceType, OneDestroy
  <2> HIDE DEF D
  <2>2. D = {} => Cardinality(D) <= 1
    BY FS_EmptySet
  <2>3. ASSUME NEW i \in D PROVE Cardinality(D) <= 1
    <3>1. D \subseteq {i}
      BY <2>1, <2>3
    <3>2. IsFiniteSet({i}) /\ Cardinality({i}) = 1
      BY FS_Singleton
    <3> QED BY <3>1, <3>2, FS_Subset
  <2> QED BY <2>2, <2>3
<1>2. intents \in Seq({"START", "STOP", "DESTROY"})
  BY DEF ServiceType, Messages
<1> QED BY <1>1, <1>2 DEF TypeOK, TunnelInv, Tasks, AppType, ServiceType, SessionType

(* Whatever is asked, delivered late, refused or fails: the backend thread, *)
(* the session, its tunnel tasks and the service's instance have their      *)
(* types, and at most one message that destroys the service is under way    *)
(* (stopSelf of a service that is already stopping).                        *)
THEOREM AndroidTypeCorrect == Spec => []TypeOK
<1>1. Init => TunnelInv /\ AppType /\ ServiceType /\ SessionType
  BY TunnelInit, TypesInit
<1>2. TunnelInv /\ AppType /\ ServiceType /\ SessionType /\ [Next]_vars
        => (TunnelInv /\ AppType /\ ServiceType /\ SessionType)'
  BY TunnelStep, AppTypeStep, ServiceTypeStep, SessionTypeStep
<1> QED BY <1>1, <1>2, TypesImply, PTL DEF Spec

-----------------------------------------------------------------------------
(* What the backend reports. *)

There == session.pc \notin {"off", "ended"}

(* A session ends with a report that says running only on a stop, which its *)
(* manager waits for; the manager prepares a session only without one.      *)
ReportInv ==
    /\ There => snapshot.running
    /\ ~There /\ mgr # "stopping" => ~snapshot.running
    /\ There /\ (stopSent \/ session.next = "end") => mgr = "stopping"
    /\ mgr = "preparing" => session.pc = "off"

LEMMA ReportStep == TunnelInv /\ AppType /\ ReportInv /\ [Next]_vars => ReportInv'
<1> SUFFICES ASSUME TunnelInv, AppType, ReportInv, [Next]_vars PROVE ReportInv'
  OBVIOUS
<1>0. {"pc", "next", "plan"} \subseteq DOMAIN session
  BY DEF TunnelInv
<1>1. CASE UNCHANGED <<mgr, stopSent, snapshot, session>>
  BY <1>1 DEF ReportInv, There
<1>2. CASE (\E start \in BOOLEAN : Ask(start)) \/ Joined \/ Spawn \/ Refused
  BY <1>2 DEF Ask, Joined, Spawn, Refused, Running, At, Off, ReportInv, There, AppType
<1>3. CASE There /\ Fails /\ UNCHANGED app
  BY <1>3 DEF Fails, Running, At, Off, app, ReportInv, There
<1>4. CASE Connect \/ JoinTunnel \/ StartVpn \/ Goodbye \/ \E t \in 1..MaxTunnels : StartTunnel(t)
  BY <1>0, <1>4 DEF Connect, JoinTunnel, StartVpn, Goodbye, StartTunnel, Running, At, Off, app,
                    ReportInv, There
<1>5. CASE StopVpn
  BY <1>0, <1>5 DEF StopVpn, Running, At, Off, app, ReportInv, There
<1>6. CASE SeeStop
  BY <1>0, <1>6 DEF SeeStop, At, Off, app, ReportInv, There
<1>7. CASE Signal
  <2>1. PICK plan \in Planned : Reconcile(plan) /\ UNCHANGED app /\ session.pc = "loop"
    BY <1>7 DEF Signal, HearAnnounce, HearHello, HearDisconnect, Heard
  <2> QED BY <1>0, <1>1, <1>3, <2>1 DEF Reconcile, Running, app, ReportInv, There
<1>8. CASE StartRejected \/ StartTimesOut \/ ClientFails
  BY <1>3, <1>8 DEF StartRejected, StartTimesOut, ClientFails, There
<1>9. CASE Service \/ ServiceStartFails \/ Revoked
  BY <1>1, <1>9 DEF Service, ServiceStop, ServiceStartMissing, ServiceStart, ServiceDestroyed,
                    ServiceStartFails, Revoked, app
<1>10. CASE \E t \in 1..MaxTunnels : TunnelStops(t) \/ TunnelDies(t)
  BY <1>1, <1>10 DEF TunnelStops, TunnelDies, app
<1>11. CASE UNCHANGED vars
  BY <1>1, <1>11 DEF vars, app
<1> QED BY <1>2, <1>4, <1>5, <1>6, <1>7, <1>8, <1>9, <1>10, <1>11 DEF Next, Session

(* Whatever the order of requests, signals, failures and stops: while no    *)
(* stop is under way the backend reports a running session exactly when     *)
(* there is one (android_session.rs, the state that start stores before it  *)
(* spawns the task).                                                        *)
THEOREM ReportStaysTrue == Spec => []ReportIsTrue
<1>1. Init => TunnelInv /\ AppType /\ ReportInv
  BY TunnelInit, TypesInit DEF Init, ReportInv, There, Running, Off
<1>2. TunnelInv /\ AppType /\ ReportInv /\ [Next]_vars => (TunnelInv /\ AppType /\ ReportInv)'
  BY TunnelStep, AppTypeStep, ReportStep
<1>3. ReportInv => ReportIsTrue
  BY DEF ReportInv, ReportIsTrue, There
<1> QED BY <1>1, <1>2, <1>3, PTL DEF Spec
=============================================================================
