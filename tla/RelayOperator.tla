--------------------------- MODULE RelayOperator ---------------------------
(***************************************************************************)
(* The public relay operator, the process nvpn-udp-relay.  One main task   *)
(* reads allocation and probe requests one at a time; each granted lease   *)
(* owns two UDP sockets and two leg tasks that copy packets between them   *)
(* until the lease ends; a state writer persists the cumulative counters   *)
(* once a second.                                                          *)
(*                                                                         *)
(* Time.  clock counts ticks of the monotonic clock; unix_timestamp() is   *)
(* the tick count in whole seconds.  A lease is kept twice in the code, in *)
(* whole seconds (expires_at, what prune_expired_sessions looks at) and as *)
(* an Instant (deadline, what the leg tasks sleep on), so the entry of a   *)
(* session may be pruned while its sockets are still bound.                *)
(***************************************************************************)
EXTENDS Integers, FiniteSets

CONSTANTS
  RequestIds,              \* request_id values
  Requesters,              \* pubkeys that send requests
  Addrs,                   \* UDP source addresses
  NoAddr,                  \* Option::None for a bound address
  PacketSizes,             \* UDP payload lengths
  PortStart, PortEnd,      \* --relay-port-range-start/-end
  UsePortRange,            \* is a port range configured?
  MaxActiveSessions, MaxSessionsPerRequester,
  MaxBytesPerSession,
  MaxForwardBps,           \* 0 is None: no rate limit
  LeaseSecs, MinLeaseSecs, ProbeLeaseSecs,
  TicksPerSec,
  LegErrors,               \* may recv_from on a leg return an error?
  MaxClock, MaxRequests, MaxBoots   \* bounds of the model

Ports == PortStart .. PortEnd
RangeLen == PortEnd - PortStart + 1

(* relay_port_range refuses a range that cannot hold max_active_sessions.  *)
ASSUME PortAssumption ==
  /\ PortStart \in Nat \ {0} /\ PortEnd \in Nat /\ PortStart < PortEnd
  /\ UsePortRange \in BOOLEAN
  /\ UsePortRange => MaxActiveSessions <= RangeLen \div 2
ASSUME LimitAssumption ==
  /\ MaxActiveSessions \in Nat \ {0}
  /\ MaxSessionsPerRequester \in Nat \ {0}
  /\ MaxBytesPerSession \in Nat \ {0}
  /\ MaxForwardBps \in Nat
  /\ PacketSizes \subseteq Nat
ASSUME TimeAssumption ==
  /\ LeaseSecs \in Nat /\ MinLeaseSecs \in Nat \ {0}
  /\ ProbeLeaseSecs \in Nat \ {0} /\ TicksPerSec \in Nat \ {0}
  /\ MaxClock \in Nat /\ MaxRequests \in Nat /\ MaxBoots \in Nat
ASSUME NameAssumption ==
  /\ NoAddr \notin Addrs /\ LegErrors \in BOOLEAN
  /\ RequestIds # {} /\ Requesters # {} /\ IsFiniteSet(RequestIds)

Kinds == {"allocation", "probe"}
Legs  == {"requester", "target"}

VARIABLES
  clock,      \* monotonic time, in ticks
  up,         \* is the process running?
  boots,      \* how many times it has been started
  requests,   \* requests received so far (bounded)
  main,       \* main task: [pc, port] of the request it is working on
  active,     \* active_sessions: request id -> RelayOperatorSessionState
  served,     \* total_sessions_served
  forwarded,  \* total_forwarded_bytes
  next_port,  \* RelayPortAllocator.next_port
  pairs,      \* requester port -> the socket pair and SessionState of a lease
  disk,       \* the state file: the cumulative counters last written
  grants      \* the Granted messages published

memory == <<active, served, forwarded>>
vars == <<clock, up, boots, requests, main, active, served, forwarded,
          next_port, pairs, disk, grants>>

Now == clock \div TicksPerSec                          \* unix_timestamp()

Session == [requester : Requesters, expires_at : Nat,
            from_requester : Nat, from_target : Nat]

(* owners are the tasks that hold the Arc of both sockets: the main task   *)
(* between bind and spawn, then each leg task.  The ports are free exactly *)
(* when no task holds them.                                                *)
Pair == [owners : SUBSET (Legs \union {"main"}),
         target_port : Ports, request_id : RequestIds, requester : Requesters,
         expires_at : Nat, deadline : Nat,
         addr : [Legs -> Addrs \union {NoAddr}],
         bytes : Nat, closed : BOOLEAN,
         window : [open : BOOLEAN, at : Nat, available : Nat],
         since : Nat]

NoSessions == [i \in {} |-> {}]

NoWindow == [open |-> FALSE, at |-> 0, available |-> 0]

(* What pairs holds for a port no requester leg is bound to. *)
NoPair ==
  [owners |-> {}, target_port |-> PortStart,
   request_id |-> CHOOSE i \in RequestIds : TRUE,
   requester |-> CHOOSE r \in Requesters : TRUE,
   expires_at |-> 0, deadline |-> 0,
   addr |-> [l \in Legs |-> NoAddr], bytes |-> 0, closed |-> FALSE,
   window |-> NoWindow, since |-> 0]

Bound(p) == pairs[p].owners # {}
PortsOf(p) == {p, pairs[p].target_port}
(* Fault: only the requester legs' ports are skipped. *)
BusyPortsRequesterOnly == {q \in Ports : Bound(q)}
BusyPorts == UNION {PortsOf(p) : p \in {q \in Ports : Bound(q)}}
FreePorts == Ports \ BusyPorts

-----------------------------------------------------------------------------
(* RelayPortRange and RelayPortAllocator *)

(* The port that k calls of next_after lead to from port. *)
NextAfter(port, k) == PortStart + ((port - PortStart + k) % RangeLen)

(* p is the first port of free met when scanning n ports, k steps after port. *)
FirstFree(free, port, k, n, p) ==
  /\ p \in free
  /\ \E i \in k .. (k + n - 1) :
       /\ p = NextAfter(port, i)
       /\ \A j \in k .. (i - 1) : NextAfter(port, j) \notin free

(* bind_pair: the first free port from next_port, then the first other     *)
(* free port after it; without a range the OS picks two free ports.        *)
BindPair(p, q) ==
  LET free == FreePorts IN
  IF UsePortRange
  THEN /\ FirstFree(free, next_port, 0, RangeLen, p)
       /\ FirstFree(free, p, 1, RangeLen - 1, q)
  ELSE p \in free /\ q \in free \ {p}

-----------------------------------------------------------------------------
(* RelayRuntimeState *)

PruneExpired(sessions, now) ==
  [id \in {i \in DOMAIN sessions : sessions[i].expires_at > now} |-> sessions[id]]

SessionsOf(sessions, r) == {i \in DOMAIN sessions : sessions[i].requester = r}

(* Fault: one session over each limit is admitted. *)
RejectsLate(sessions, r) ==
  \/ Cardinality(DOMAIN sessions) > MaxActiveSessions
  \/ Cardinality(SessionsOf(sessions, r)) > MaxSessionsPerRequester

(* allocation_rejection_for_requester, on the pruned sessions. *)
Rejects(sessions, r) ==
  \/ Cardinality(DOMAIN sessions) >= MaxActiveSessions
  \/ Cardinality(SessionsOf(sessions, r)) >= MaxSessionsPerRequester

(* Fault: sessions are keyed by their requester. *)
WithSessionByRequester(sessions, id, s) ==
  [i \in DOMAIN sessions \union {s.requester} |-> IF i = s.requester THEN s ELSE sessions[i]]

WithSession(sessions, id, s) ==
  [i \in DOMAIN sessions \union {id} |-> IF i = id THEN s ELSE sessions[i]]

LeaseOf(kind) ==
  IF kind = "probe" THEN ProbeLeaseSecs
  ELSE IF LeaseSecs >= MinLeaseSecs THEN LeaseSecs ELSE MinLeaseSecs

(* Fault: the leg tasks of every lease sleep for a probe's lease. *)
NewPairProbeDeadline(q, kind, id, r) ==
  [owners |-> {"main"}, target_port |-> q, request_id |-> id, requester |-> r,
   expires_at |-> Now + LeaseOf(kind),
   deadline |-> clock + LeaseOf("probe") * TicksPerSec,
   addr |-> [l \in Legs |-> NoAddr], bytes |-> 0, closed |-> FALSE,
   window |-> NoWindow, since |-> 0]

NewPair(q, kind, id, r) ==
  [owners |-> {"main"}, target_port |-> q, request_id |-> id, requester |-> r,
   expires_at |-> Now + LeaseOf(kind),
   deadline |-> clock + LeaseOf(kind) * TicksPerSec,
   addr |-> [l \in Legs |-> NoAddr], bytes |-> 0, closed |-> FALSE,
   window |-> NoWindow, since |-> 0]

(* Fault: the sockets outlive the tasks that used them. *)
ReleasedNever(pair, task) == pair

(* A task drops its Arc; the sockets close with the last one. *)
Released(pair, task) ==
  IF pair.owners = {task} THEN NoPair ELSE [pair EXCEPT !.owners = @ \ {task}]

Idle == [pc |-> "recv", port |-> PortStart]

-----------------------------------------------------------------------------
(* The main task *)

(* A request is received; the bounds keep every lease within the clock the *)
(* model explores.                                                         *)
Receive(kind, r) ==
  /\ up /\ main.pc = "recv" /\ requests < MaxRequests
  /\ clock + LeaseOf(kind) * TicksPerSec <= MaxClock
  /\ requests' = requests + 1

(* Over a limit: the rejection is published and the task goes on. *)
RejectRequest(kind, r) ==
  /\ Receive(kind, r)
  /\ active' = PruneExpired(active, Now)
  /\ Rejects(active', r)
  /\ UNCHANGED <<clock, up, boots, main, served, forwarded, next_port,
                 pairs, disk, grants>>

(* No two free ports: rejected as OverCapacity; a publish error is logged. *)
BindFails(kind, r) ==
  /\ Receive(kind, r)
  /\ active' = PruneExpired(active, Now)
  /\ ~Rejects(active', r)
  /\ ~\E p, q \in Ports : BindPair(p, q)
  /\ UNCHANGED <<clock, up, boots, main, served, forwarded, next_port,
                 pairs, disk, grants>>

BindLegs(kind, id, r) ==
  /\ Receive(kind, r)
  /\ active' = PruneExpired(active, Now)
  /\ ~Rejects(active', r)
  /\ \E p, q \in Ports :
       /\ BindPair(p, q)
       /\ pairs' = [pairs EXCEPT ![p] = NewPair(q, kind, id, r)]
       /\ next_port' = IF UsePortRange THEN NextAfter(q, 1) ELSE next_port
       /\ main' = [pc |-> "publish", port |-> p]
  /\ UNCHANGED <<clock, up, boots, served, forwarded, disk, grants>>

(* Fault: the end of the grant is computed when it is published. *)
GrantFromNow(p) ==
  [boot |-> boots, request_id |-> pairs[p].request_id, to |-> pairs[p].requester,
   port |-> p, target_port |-> pairs[p].target_port,
   expires_at |-> Now + LeaseOf("allocation"), deadline |-> pairs[p].deadline]

Grant(p) ==
  [boot |-> boots, request_id |-> pairs[p].request_id, to |-> pairs[p].requester,
   port |-> p, target_port |-> pairs[p].target_port,
   expires_at |-> pairs[p].expires_at, deadline |-> pairs[p].deadline]

(* The grant is published before the session is recorded. *)
PublishGrant ==
  /\ up /\ main.pc = "publish"
  /\ grants' = grants \union {Grant(main.port)}
  /\ main' = [main EXCEPT !.pc = "note"]
  /\ UNCHANGED <<clock, up, boots, requests, memory, next_port, pairs, disk>>

(* note_session_started, which prunes first, then spawn_leg for both legs. *)
NoteSession ==
  /\ up /\ main.pc = "note"
  /\ LET p == pairs[main.port] IN
     /\ active' = WithSession(PruneExpired(active, Now), p.request_id,
          [requester |-> p.requester,
           expires_at |-> p.expires_at, from_requester |-> 0, from_target |-> 0])
  /\ served' = served + 1
  /\ pairs' = [pairs EXCEPT ![main.port].owners = Legs]
  /\ main' = Idle
  /\ UNCHANGED <<clock, up, boots, requests, forwarded, next_port, disk, grants>>

(* The process ends: every socket is closed, the memory is lost.  MaxBoots *)
(* bounds how often the model lets it happen.                              *)
Exit ==
  /\ boots < MaxBoots
  /\ up' = FALSE
  /\ main' = Idle
  /\ pairs' = [p \in Ports |-> NoPair]
  /\ active' = NoSessions
  /\ UNCHANGED <<clock, boots, served, forwarded, next_port, disk>>

(* A publish error of a rejection over a limit leaves main through `?`. *)
RejectPublishFails(kind, r) ==
  /\ Receive(kind, r)
  /\ Rejects(PruneExpired(active, Now), r)
  /\ Exit
  /\ UNCHANGED grants

(* So does an error publishing a grant; a relay may have taken it.         *)
GrantPublishFails ==
  /\ up /\ main.pc = "publish"
  /\ Exit
  /\ grants' \in {grants, grants \union {Grant(main.port)}}
  /\ UNCHANGED requests

Crash == up /\ Exit /\ UNCHANGED <<requests, grants>>

(* Fault: a restarted operator counts from zero. *)
RestartFromZero ==
  /\ ~up
  /\ up' = TRUE /\ boots' = boots + 1
  /\ served' = 0 /\ forwarded' = 0
  /\ active' = NoSessions
  /\ next_port' = PortStart
  /\ UNCHANGED <<clock, requests, main, pairs, disk, grants>>

(* load_runtime_state: the counters come back, the sessions do not. *)
Restart ==
  /\ ~up
  /\ up' = TRUE /\ boots' = boots + 1
  /\ served' = disk.served /\ forwarded' = disk.forwarded
  /\ active' = NoSessions
  /\ next_port' = PortStart
  /\ UNCHANGED <<clock, requests, main, pairs, disk, grants>>

-----------------------------------------------------------------------------
(* A leg task *)

Other(leg) == IF leg = "requester" THEN "target" ELSE "requester"

Larger(a, b) == IF a >= b THEN a ELSE b
Smaller(a, b) == IF a <= b THEN a ELSE b

(* Fault: the refill does not move the time of the last refill. *)
RefilledTwice(w, len) ==
  LET burst   == Larger(MaxForwardBps, len)
      opened  == IF w.open THEN w ELSE [open |-> TRUE, at |-> clock, available |-> burst]
      elapsed == clock - opened.at
  IN [opened EXCEPT !.available =
        Smaller(burst, @ + ((elapsed * MaxForwardBps) \div TicksPerSec))]

(* The token bucket of allow_forward after get_or_insert and the refill;   *)
(* the refill is truncated to whole bytes.                                 *)
Refilled(w, len) ==
  LET burst   == Larger(MaxForwardBps, len)
      opened  == IF w.open THEN w ELSE [open |-> TRUE, at |-> clock, available |-> burst]
      elapsed == clock - opened.at
  IN IF elapsed = 0 THEN opened
     ELSE [open |-> TRUE, at |-> clock,
           available |-> Smaller(burst,
              opened.available + ((elapsed * MaxForwardBps) \div TicksPerSec))]

(* Fault: the packet itself is not counted against the byte limit. *)
OverBytesBefore(pair, len) == pair.bytes > MaxBytesPerSession
OverBytes(pair, len) == pair.bytes + len > MaxBytesPerSession
RateLimited(pair, len) ==
  MaxForwardBps # 0 /\ Refilled(pair.window, len).available < len

(* allow_forward refuses: the byte cap closes the session for good, the    *)
(* rate limit only drops this packet (but keeps the refilled window).      *)
DropOverBytes(p, leg, len) ==
  /\ up /\ leg \in pairs[p].owners /\ ~pairs[p].closed
  /\ OverBytes(pairs[p], len)
  /\ pairs' = [pairs EXCEPT ![p].closed = TRUE]
  /\ UNCHANGED <<clock, up, boots, requests, main, memory, next_port, disk, grants>>

DropRateLimited(p, leg, len) ==
  /\ up /\ leg \in pairs[p].owners /\ ~pairs[p].closed
  /\ ~OverBytes(pairs[p], len) /\ RateLimited(pairs[p], len)
  /\ pairs' = [pairs EXCEPT ![p].window = Refilled(pairs[p].window, len)]
  /\ UNCHANGED <<clock, up, boots, requests, main, memory, next_port, disk, grants>>

(* The state after allow_forward said Ok: the budget is charged before the *)
(* source and the destination are looked at.                               *)
Charged(pair, len) ==
  [pair EXCEPT
     !.bytes = pair.bytes + len,
     !.window = IF MaxForwardBps = 0 THEN pair.window
                ELSE [Refilled(pair.window, len) EXCEPT !.available = @ - len],
     !.since = IF MaxForwardBps # 0 /\ ~pair.window.open THEN clock ELSE pair.since]

(* The first source binds the leg; a packet from any other is dropped.     *)
Binding(pair, leg, src) ==
  IF pair.addr[leg] = NoAddr THEN [pair.addr EXCEPT ![leg] = src] ELSE pair.addr

Destination(pair, leg, src) ==
  IF pair.addr[leg] \in {NoAddr, src} THEN pair.addr[Other(leg)] ELSE NoAddr

(* note_forwarded_bytes, after the send. *)
NoteForwarded(id, leg, len) ==
  /\ forwarded' = forwarded + len
  /\ active' = IF id \notin DOMAIN active THEN active
               ELSE IF leg = "requester"
               THEN [active EXCEPT ![id].from_requester = @ + len]
               ELSE [active EXCEPT ![id].from_target = @ + len]

(* A packet that allow_forward lets through.  It goes out when the other   *)
(* leg is bound and the send succeeds.                                     *)
ForwardPacket(p, leg, src, len) ==
  /\ up /\ leg \in pairs[p].owners /\ ~pairs[p].closed
  /\ ~OverBytes(pairs[p], len) /\ ~RateLimited(pairs[p], len)
  /\ pairs' = [pairs EXCEPT ![p] =
                 [Charged(@, len) EXCEPT !.addr = Binding(pairs[p], leg, src)]]
  /\ \/ /\ Destination(pairs[p], leg, src) # NoAddr
        /\ NoteForwarded(pairs[p].request_id, leg, len)
     \/ UNCHANGED <<forwarded, active>>
  /\ UNCHANGED <<clock, up, boots, requests, main, served, next_port, disk, grants>>

(* A leg task returns when its lease is over, or on a receive error; the   *)
(* sockets close when both tasks are gone.                                 *)
EndLeg(p, leg) ==
  /\ up /\ leg \in pairs[p].owners
  /\ pairs' = [pairs EXCEPT ![p] = Released(@, leg)]
  /\ UNCHANGED <<clock, up, boots, requests, main, memory, next_port, disk, grants>>

LegExpires(p, leg) == clock >= pairs[p].deadline /\ EndLeg(p, leg)
LegFails(p, leg) == LegErrors /\ EndLeg(p, leg)

-----------------------------------------------------------------------------
(* The state writer: snapshot prunes, then the file is replaced; a failed  *)
(* write is logged.                                                        *)
Snapshot ==
  /\ up
  /\ active' = PruneExpired(active, Now)
  /\ UNCHANGED <<clock, up, boots, requests, main, served, forwarded,
                 next_port, pairs, grants>>

WriteState ==
  /\ Snapshot
  /\ disk' = [served |-> served, forwarded |-> forwarded]

WriteStateFails == Snapshot /\ UNCHANGED disk

Tick ==
  /\ clock < MaxClock
  /\ clock' = clock + 1
  /\ UNCHANGED <<up, boots, requests, main, memory, next_port, pairs, disk, grants>>

-----------------------------------------------------------------------------
Init ==
  /\ clock = 0 /\ up = TRUE /\ boots = 1 /\ requests = 0
  /\ main = Idle
  /\ active = NoSessions
  /\ served = 0 /\ forwarded = 0
  /\ next_port = PortStart
  /\ pairs = [p \in Ports |-> NoPair]
  /\ disk = [served |-> 0, forwarded |-> 0]
  /\ grants = {}

HandleRequest ==
  \E kind \in Kinds, r \in Requesters :
    \/ RejectRequest(kind, r) \/ RejectPublishFails(kind, r)
    \/ BindFails(kind, r)
    \/ \E id \in RequestIds : BindLegs(kind, id, r)

LegStep(p, leg) ==
  \/ LegExpires(p, leg) \/ LegFails(p, leg)
  \/ \E len \in PacketSizes :
       \/ DropOverBytes(p, leg, len) \/ DropRateLimited(p, leg, len)
       \/ \E src \in Addrs : ForwardPacket(p, leg, src, len)

Next ==
  \/ HandleRequest \/ PublishGrant \/ GrantPublishFails \/ NoteSession
  \/ Crash \/ Restart \/ WriteState \/ WriteStateFails \/ Tick
  \/ \E p \in Ports, leg \in Legs : LegStep(p, leg)

(* Tokio polls every ready task: time passes, a publish completes or fails *)
(* and an expired leg returns.                                             *)
Fairness ==
  /\ WF_vars(Tick)
  /\ WF_vars(PublishGrant \/ GrantPublishFails)
  /\ WF_vars(NoteSession)
  /\ \A p \in Ports, leg \in Legs : WF_vars(LegExpires(p, leg))

Spec == Init /\ [][Next]_vars
FairSpec == Spec /\ Fairness

-----------------------------------------------------------------------------
GrantMsg == [boot : Nat, request_id : RequestIds, to : Requesters, port : Ports,
             target_port : Ports, expires_at : Nat, deadline : Nat]

(* Type correctness of the operator's memory, its sockets and its file. *)
TypeOK ==
  /\ clock \in Nat /\ up \in BOOLEAN /\ boots \in Nat /\ requests \in Nat
  /\ main \in [pc : {"recv", "publish", "note"}, port : Ports]
  /\ DOMAIN active \subseteq RequestIds
  /\ active \in [DOMAIN active -> Session]
  /\ served \in Nat /\ forwarded \in Nat
  /\ next_port \in Ports
  /\ pairs \in [Ports -> Pair]
  /\ disk \in [served : Nat, forwarded : Nat]
  /\ grants \subseteq GrantMsg

(* Two leases never share a UDP port, and the two legs of one lease never   *)
(* do: bind_pair skips every port some task still holds, also the ports of  *)
(* leases whose entry prune_expired_sessions already dropped and of the     *)
(* request the main task is publishing.                                     *)
PortsExclusive ==
  \A p \in Ports : Bound(p) =>
    /\ p # pairs[p].target_port
    /\ \A q \in Ports \ {p} : Bound(q) => PortsOf(p) \intersect PortsOf(q) = {}

(* The limits of allocation_rejection_for_requester hold of the recorded    *)
(* sessions although the check and note_session_started are separated by an *)
(* await: only the one main task adds sessions in between.                  *)
LimitsRespected ==
  /\ Cardinality(DOMAIN active) <= MaxActiveSessions
  /\ \A r \in Requesters :
       Cardinality(SessionsOf(active, r)) <= MaxSessionsPerRequester

(* A published, unexpired grant of the running process is backed by the     *)
(* bound sockets it names: no leg ends, and no port is handed to another    *)
(* lease, before expires_at, although the legs sleep on an Instant and      *)
(* expires_at is in whole seconds.  (Only where recv_from reports no error.)*)
GrantHonoured ==
  \A g \in grants : up /\ g.boot = boots /\ g.expires_at > Now =>
    /\ Bound(g.port)
    /\ pairs[g.port].request_id = g.request_id
    /\ pairs[g.port].target_port = g.target_port
    /\ pairs[g.port].deadline = g.deadline

(* The persisted totals stay consistent through crashes: a session can      *)
(* forward at most its byte budget, over both legs, and every session that  *)
(* forwards was counted as served first.                                    *)
TotalsWithinBudget ==
  /\ forwarded <= served * MaxBytesPerSession
  /\ disk.forwarded <= disk.served * MaxBytesPerSession

(* With a rate limit, what a session was allowed to send since its first    *)
(* packet is at most one burst plus the configured rate times the time.     *)
RateBound ==
  MaxForwardBps # 0 =>
    \A p \in Ports : pairs[p].window.open =>
      \E burst \in PacketSizes \union {MaxForwardBps} :
        pairs[p].bytes <=
          burst + ((clock - pairs[p].since) * MaxForwardBps) \div TicksPerSec

(* A leg keeps the first source it saw for as long as its sockets live.     *)
BindingSticky ==
  [][\A p \in Ports, leg \in Legs :
       pairs[p].addr[leg] # NoAddr /\ pairs[p]'.owners # {}
         => pairs[p]'.addr[leg] = pairs[p].addr[leg]]_vars

(* The cumulative counters in the state file never go back, whatever        *)
(* crashes: a restarted operator continues from the file.                   *)
CountersNeverGoBack ==
  [][disk.served <= disk'.served /\ disk.forwarded <= disk'.forwarded]_vars

(* Every lease ends: bound ports become free again.                         *)
LeaseEnds == \A p \in Ports : Bound(p) ~> ~Bound(p)

-----------------------------------------------------------------------------
(* The refinement.  A lease is a bound pair of sockets; a promise is a grant *)
(* of the running process, whose whole seconds are counted in ticks.         *)
HeldLeases ==
  {[port |-> p, target_port |-> pairs[p].target_port,
    request_id |-> pairs[p].request_id, to |-> pairs[p].requester,
    until |-> pairs[p].deadline] : p \in {q \in Ports : Bound(q)}}

Promises ==
  {[lease |-> [port |-> g.port, target_port |-> g.target_port,
               request_id |-> g.request_id, to |-> g.to, until |-> g.deadline],
    until |-> g.expires_at * TicksPerSec] :
   g \in {h \in grants : up /\ h.boot = boots}}

Lease == INSTANCE RelayLease
           WITH MayBreak <- LegErrors, leases <- HeldLeases, promises <- Promises

(* The operator, with its main task, leg tasks, session table, pruning,     *)
(* crashes and restarts, does to the ports and the published grants only    *)
(* what RelayLease allows: it takes free ports, promises an end no later    *)
(* than the one its sockets are held for, and lets a lease go when it is    *)
(* over or the process ends.                                                *)
ImplementsLease == Lease!Spec
=============================================================================
