------------------------------ MODULE PeerPaths ------------------------------
(* How one daemon reaches one peer: the peer's announcements (presence.rs), *)
(* the book of endpoints it may be reached at (paths.rs), the endpoint that *)
(* WireGuard is given, NAT hole punching, relay leases and the peer cache   *)
(* that survives a restart (main.rs, session_runtime.rs).                   *)
(*                                                                          *)
(* An announcement always names the peer's local endpoint; it may name a    *)
(* public one and the ingress of a relay the peer leased.  A relay endpoint *)
(* stands for one lease.  Time is in seconds and starts at 1, so that 0 is  *)
(* the time of what never happened.                                         *)
EXTENDS Integers, FiniteSets

CONSTANTS
  LocalEp,            \* the peer's endpoint in its own network
  Publics,            \* public endpoints of the peer: announced or only seen
  OwnRelays,          \* ingress endpoints of the relay leases this daemon gets
  PeerRelays,         \* ingress endpoints of the relay leases the peer gets
  LeaseEnd,           \* when the lease of a relay endpoint ends
  Host,               \* the host of an endpoint
  None,
  NatEnabled,         \* app.nat.enabled
  OtherPeers,         \* the network has other peers, set up by the same calls
  RetryAfter,         \* PEER_PATH_RETRY_AFTER_SECS
  Sticky,             \* OBSERVED_PUBLIC_ENDPOINT_STICKY_SECS
  SignalTimeout,      \* peer_signal_timeout_secs
  PathTimeout,        \* peer_path_cache_timeout_secs
  PeerCacheTimeout,   \* persisted_peer_cache_timeout_secs
  PathCacheTimeout,   \* persisted_path_cache_timeout_secs
  Announcements,      \* the announcements the peer makes
  Outages,            \* bound: whether there are pauses and restarts
  MaxTime,            \* bound: the clock stops here
  MaxEvents           \* bound: events from outside (messages, handshakes,
                      \* grants, lost connections, moves, pauses, restarts)

VARIABLES
  now,
  presence,           \* [active, known, seen]: PeerPresenceBook of the peer
  tunnel,             \* [paths, current, installed, wg, contacted]: path book, WireGuard
  lease,              \* the daemon's own active relay session, or None
  cache,              \* the peer cache file, or None
  enabled,            \* session_enabled
  connected,          \* relay_connected: the Nostr relays can be reached
  subnet,             \* LocalEp is in a private network this host is in, too
  events              \* how many events from outside there have been

vars == <<now, presence, tunnel, lease, cache, enabled, connected, subnet,
          events>>

Relays == OwnRelays \union PeerRelays
Endpoints == {LocalEp} \union Publics \union Relays
Times == 0 .. MaxTime

(* The timeouts of the path book have a positive minimum.                   *)
ASSUME TimesAssumption ==
  /\ {RetryAfter, Sticky, SignalTimeout, PeerCacheTimeout, MaxEvents} \subseteq Nat
  /\ {PathTimeout, PathCacheTimeout, MaxTime} \subseteq Nat \ {0}
ASSUME EndpointAssumption ==
  /\ LeaseEnd \in [Relays -> Nat]
  /\ DOMAIN Host = Endpoints
  /\ LocalEp \notin Publics \union Relays /\ Publics \intersect Relays = {}
  /\ OwnRelays \intersect PeerRelays = {} /\ None \notin Endpoints

Announcement ==
  [timestamp : 1 .. MaxTime, public : Publics \union {None}, relay : PeerRelays \union {None}]
(* What the tunnel is planned from: an announcement, in which the daemon's  *)
(* own relay may stand for the peer's.                                      *)
Plan == [timestamp : 1 .. MaxTime, public : Publics \union {None}, relay : Relays \union {None}]
ASSUME AnnouncementAssumption ==
  Announcements \subseteq Announcement /\ None \notin Announcement \union Plan
Source == {"local", "public", "relay", "observed"}
TrackedPath == [source : Source, announced_at : Times, selected_at : Times, success_at : Times]
PathBook == [Endpoints -> TrackedPath \union {None}]
ASSUME PathAssumption == None \notin TrackedPath

Largest(S) == CHOOSE x \in S : \A y \in S : y <= x
Cutoff(t, timeout) == IF timeout < t THEN t - timeout ELSE 0

-----------------------------------------------------------------------------
(* What an announcement says, and what is made of it for the tunnel.        *)

AnnouncedEndpoints(ann) == ({LocalEp, ann.public, ann.relay}) \ {None}
AnnouncedSource(ann, e) ==
  IF e = LocalEp THEN "local" ELSE IF e = ann.public THEN "public" ELSE "relay"

LeaseLive(r, t) == r # None /\ LeaseEnd[r] > t

(* Fault: a relay that the peer announced is used past its expiry. *)
WithoutExpiredRelayNever(ann, t) == ann

WithoutExpiredRelay(ann, t) ==
  IF ann.relay # None /\ LeaseEnd[ann.relay] <= t THEN [ann EXCEPT !.relay = None] ELSE ann

(* The daemon's own lease replaces the relay that the peer announced. *)
EffectiveAnn(ann, ls, t) ==
  IF ann = None THEN None
  ELSE IF LeaseLive(ls, t) THEN [ann EXCEPT !.relay = ls]
  ELSE WithoutExpiredRelay(ann, t)

DefaultEndpoint(ann) == IF subnet \/ ann.public = None THEN LocalEp ELSE ann.public

-----------------------------------------------------------------------------
(* The path book.                                                           *)

Tracked(b) == {e \in Endpoints : b.paths[e] # None}

NewPath(src, t) == [source |-> src, announced_at |-> t, selected_at |-> 0, success_at |-> 0]

SourceOrder == [local |-> 0, public |-> 1, relay |-> 2, observed |-> 3]
Merge(a, b) == IF SourceOrder[a] < SourceOrder[b] THEN b ELSE a

(* note_success of the endpoint that WireGuard has a handshake with; a      *)
(* local endpoint counts only in a network that both hosts share.           *)
Viable(e) == e # LocalEp \/ subnet
RecordSuccess(b, wg) ==
  IF wg.endpoint = None \/ wg.handshake_at = 0 \/ ~Viable(wg.endpoint) THEN b
  ELSE LET e == wg.endpoint
           old == IF b.paths[e] = None THEN NewPath("observed", wg.handshake_at) ELSE b.paths[e]
       IN [b EXCEPT !.paths[e] =
             [old EXCEPT !.success_at = Largest({old.success_at, wg.handshake_at})]]

(* An observed port of a host that now announces another one is dropped,    *)
(* unless it worked recently.                                               *)
Superseded(b, e, ann, t) ==
  /\ b.paths[e].source = "observed" /\ e # LocalEp
  /\ ~(b.paths[e].success_at > 0 /\ t - b.paths[e].success_at <= Sticky)
  /\ \E a \in AnnouncedEndpoints(ann) \ {LocalEp, e} : Host[a] = Host[e]

(* What refresh_from_announcement retains: not the relays that are          *)
(* announced no more, nor the superseded observations.                      *)
Kept(b, ann, t) ==
  {e \in Tracked(b) : /\ b.paths[e].source = "relay" => e = ann.relay
                      /\ ~Superseded(b, e, ann, t)}

(* Fault: a current endpoint that left the book stays current. *)
CurrentAmongAny(b, kept) == b.current

CurrentAmong(b, kept) == IF b.current \in kept THEN b.current ELSE None

(* Announced endpoints are entered, or renewed. *)
RefreshFromAnnouncement(b, ann, t) ==
  LET kept == Kept(b, ann, t)
      seen(e) == IF e \notin kept THEN NewPath(AnnouncedSource(ann, e), t)
                 ELSE [b.paths[e] EXCEPT !.source = Merge(@, AnnouncedSource(ann, e)),
                                         !.announced_at = Largest({@, t})]
  IN [b EXCEPT !.paths = [e \in Endpoints |->
                            IF e \in AnnouncedEndpoints(ann) THEN seen(e)
                            ELSE IF e \in kept THEN b.paths[e] ELSE None],
               !.current = CurrentAmong(b, kept)]

(* The last success, as far as it still applies. *)
SuccessAt(b, e) == IF e = LocalEp /\ ~subnet THEN 0 ELSE b.paths[e].success_at

(* Fault: a relay ranks below an endpoint of the shared network. *)
SourceRankLanFirst(e, src) ==
  IF e = LocalEp /\ subnet THEN 4
  ELSE IF src = "relay" THEN 3 ELSE IF src \in {"public", "observed"} THEN 2 ELSE 0

SourceRank(e, src) ==
  IF src = "relay" THEN 5
  ELSE IF e = LocalEp /\ subnet THEN 4
  ELSE IF src \in {"public", "observed"} THEN 2 ELSE 0

CandidateRank(b, ann, e) ==
  <<SuccessAt(b, e), SourceRank(e, b.paths[e].source),
    IF e = DefaultEndpoint(ann) THEN 1 ELSE 0, b.paths[e].announced_at>>
RanksBelow(k, l) == \E i \in 1 .. 4 : k[i] < l[i] /\ \A j \in 1 .. i - 1 : k[j] = l[j]
Preferred(b, ann) ==
  LET rank == [e \in Tracked(b) |-> CandidateRank(b, ann, e)]
  IN {e \in Tracked(b) : ~\E f \in Tracked(b) : RanksBelow(rank[e], rank[f])}

(* Fault: a proven endpoint is left for the best candidate like any other. *)
SelectRotates(b, t, preferred) ==
  LET cur == b.current
  IN IF cur = None \/ (cur = LocalEp /\ ~subnet) THEN preferred
     ELSE IF t - b.paths[cur].selected_at >= RetryAfter THEN preferred ELSE cur

(* select_endpoint_for_local_endpoints, for one of the preferred endpoints. *)
Select(b, t, preferred) ==
  LET cur == b.current
      rotates == b.paths[cur].selected_at = 0 \/ t - b.paths[cur].selected_at >= RetryAfter
  IN IF \/ cur \notin Tracked(b) \ {preferred}
        \/ cur = LocalEp /\ ~subnet
        \/ SuccessAt(b, cur) > 0 /\ SuccessAt(b, preferred) > SuccessAt(b, cur)
        \/ SuccessAt(b, cur) = 0 /\ rotates
     THEN preferred ELSE cur

FreshnessAt(p) == Largest({p.announced_at, p.selected_at, p.success_at})
PrunePaths(b, t, timeout) ==
  LET keep == {e \in Tracked(b) : FreshnessAt(b.paths[e]) > Cutoff(t, timeout)}
  IN [b EXCEPT !.paths = [e \in Endpoints |-> IF e \in keep THEN b.paths[e] ELSE None],
               !.current = CurrentAmong(b, keep)]

-----------------------------------------------------------------------------
(* The tunnel.                                                              *)

NoPeer == [endpoint |-> None, handshake_at |-> 0]
EmptyTunnel ==
  [paths |-> [e \in Endpoints |-> None], current |-> None, installed |-> None,
   wg |-> NoPeer, contacted |-> {}]
Stopped(b) == [b EXCEPT !.installed = None, !.wg = NoPeer]

RequiresPublicSignal(ann, e) == NatEnabled /\ ann.public = None /\ e = LocalEp /\ ~subnet

(* runtime_peer_endpoints_require_refresh *)
RequiresRefresh(wg, e) ==
  /\ wg.endpoint \notin {None, e}
  /\ ~Viable(wg.endpoint) \/ (wg.handshake_at = 0 /\ wg.endpoint # LocalEp)

(* The peer is set up anew with endpoint e, unless it is already set up so  *)
(* and nothing is changed for another peer.  The handshake is lost; a relay *)
(* that WireGuard is given has been sent to, which binds its leg.           *)
Install(b, e, t) ==
  LET done == [b EXCEPT !.paths[e].selected_at = t, !.current = e, !.installed = e,
                        !.wg = [endpoint |-> e, handshake_at |-> 0],
                        !.contacted = @ \union ({e} \intersect Relays)]
  IN IF b.installed # e \/ RequiresRefresh(b.wg, e) THEN {done}
     ELSE IF OtherPeers THEN {done, b} ELSE {b}

(* CliTunnelRuntime::apply with what the daemon knows of the peer: the set  *)
(* of states it may leave.                                                  *)
Apply(b, ann, t) ==
  IF ann = None THEN {Stopped(b)}
  ELSE LET a == WithoutExpiredRelay(ann, t)
           book == RefreshFromAnnouncement(RecordSuccess(b, b.wg), a, t)
       IN UNION {IF RequiresPublicSignal(a, e) THEN {Stopped(book)} ELSE Install(book, e, t) :
                   e \in {Select(book, t, p) : p \in Preferred(book, a)}}

(* apply_presence_runtime_update *)
ApplyUpdate(b, known, ls, t) == Apply(b, EffectiveAnn(known, ls, t), t)

(* maybe_run_nat_punch, when it runs: that depends on its last attempt and  *)
(* on the other peers.  It stops the tunnel and applies the announcement as *)
(* it is, without the daemon's own lease.                                   *)
NatPunch(bs, ann, t) == UNION {Apply(Stopped(b), ann, t) : b \in bs}

-----------------------------------------------------------------------------
(* Presence.                                                                *)

NoPresence == [active |-> None, known |-> None, seen |-> 0]

(* apply_signal for an announcement: what is active and what is known are   *)
(* replaced unless they are newer.                                          *)
Announced(p, ann) ==
  LET newest(old) == IF old = None \/ old.timestamp <= ann.timestamp THEN ann ELSE old
  IN [active |-> newest(p.active), known |-> newest(p.known), seen |-> now]

Stale(p) == p.active # None /\ p.seen <= Cutoff(now, SignalTimeout)
PrunePresence(p) == IF Stale(p) THEN [p EXCEPT !.active = None] ELSE p

(* direct_peer_announcements *)
DirectAnnouncement == IF connected THEN presence.active ELSE presence.known

-----------------------------------------------------------------------------
(* The peer cache.                                                          *)

(* write_daemon_peer_cache_if_changed: without a known peer the file stays. *)
(* (A file that the bounds leave nobody to read is not kept.)               *)
Cached(p, b) ==
  IF enabled /\ (events = MaxEvents \/ ~Outages) THEN None
  ELSE IF p.known = None THEN cache
  ELSE [announcement |-> p.known, seen |-> p.seen,
        cached_at |-> Largest({p.seen, b.wg.handshake_at, p.known.timestamp}),
        paths |-> b.paths, current |-> b.current]

(* restore_daemon_peer_cache, into an empty presence and path book. *)
Restorable == cache # None /\ cache.cached_at > Cutoff(now, PeerCacheTimeout)
RestoredPresence ==
  IF Restorable THEN [active |-> None, known |-> cache.announcement, seen |-> cache.seen]
  ELSE NoPresence

(* Fault: only the announcement is restored. *)
RestoredTunnelEmpty(b) == b

RestoredTunnel(b) ==
  IF Restorable
  THEN PrunePaths([b EXCEPT !.paths = cache.paths, !.current = cache.current],
                  now, PathCacheTimeout)
  ELSE b

-----------------------------------------------------------------------------
(* The arms of the daemon's loop.                                           *)

Init ==
  /\ now = 1 /\ presence = NoPresence /\ tunnel = EmptyTunnel /\ lease = None
  /\ cache = None /\ enabled = TRUE /\ connected = FALSE /\ subnet \in BOOLEAN
  /\ events = 0

(* A step of the world outside, of which the bound allows so many. *)
Event == events < MaxEvents /\ events' = events + 1

Tick == now < MaxTime /\ now' = now + 1
        /\ UNCHANGED <<presence, tunnel, lease, cache, enabled, connected, subnet, events>>

MayPunch(punch) == punch => NatEnabled

(* The signal arm. *)
ReceiveAnnounce(ann, punch) ==
  /\ Event /\ enabled /\ connected /\ MayPunch(punch)
  /\ presence' = Announced(presence, ann)
  /\ LET applied == ApplyUpdate(tunnel, presence'.known, lease, now)
     IN IF presence'.active = ann
        THEN tunnel' \in IF punch THEN NatPunch(applied, ann, now) ELSE applied
        ELSE ~punch /\ UNCHANGED tunnel
  /\ UNCHANGED <<now, lease, cache, enabled, connected, subnet>>

(* A Hello shows the peer to be alive. *)
ReceiveHello ==
  /\ Event /\ enabled /\ connected /\ presence' = [presence EXCEPT !.seen = now]
  /\ UNCHANGED <<now, tunnel, lease, cache, enabled, connected, subnet>>

(* A goodbye removes the peer from what is active and known. *)
ReceiveDisconnect ==
  /\ Event /\ enabled /\ connected
  /\ presence' = [active |-> None, known |-> None, seen |-> now]
  /\ IF presence.known = None /\ presence.active = None THEN UNCHANGED tunnel
     ELSE tunnel' = Stopped(tunnel)
  /\ UNCHANGED <<now, lease, cache, enabled, connected, subnet>>

(* The service arm, when a grant becomes the active session. *)
GrantLease(r) ==
  /\ Event /\ enabled /\ connected /\ ~LeaseLive(lease, now) /\ LeaseLive(r, now) /\ lease' = r
  /\ tunnel' \in ApplyUpdate(tunnel, presence.known, r, now)
  /\ UNCHANGED <<now, presence, cache, enabled, connected, subnet>>

(* The announce arm: an expired session is dropped, then NAT punching. *)
AnnounceArm(punch) ==
  /\ enabled /\ connected /\ MayPunch(punch) /\ (IF punch THEN Event ELSE UNCHANGED events)
  /\ lease' = IF LeaseLive(lease, now) THEN lease ELSE None
  /\ LET applied == IF lease' = lease THEN {tunnel}
                    ELSE ApplyUpdate(tunnel, presence.known, lease', now)
     IN tunnel' \in IF punch THEN NatPunch(applied, presence.active, now) ELSE applied
  /\ UNCHANGED <<now, presence, cache, enabled, connected, subnet>>

(* The heartbeat arm, every two seconds. *)
Heartbeat(punch) ==
  /\ enabled /\ MayPunch(punch) /\ (IF punch THEN Event /\ ~connected ELSE UNCHANGED events)
  /\ tunnel' \in UNION {ApplyUpdate(b, presence.known, lease, now) :
                        b \in IF punch THEN NatPunch({tunnel}, presence.known, now) ELSE {tunnel}}
  /\ UNCHANGED <<now, presence, lease, cache, enabled, connected, subnet>>

(* The network arm after this host moved, or its port mapping changed. *)
NetworkArm(changed, punch) ==
  /\ MayPunch(punch) /\ (changed \/ punch)
  /\ IF punch THEN Event /\ enabled ELSE UNCHANGED events
  /\ LET applied == IF changed THEN ApplyUpdate(tunnel, presence.known, lease, now) ELSE {tunnel}
     IN tunnel' \in IF punch THEN NatPunch(applied, DirectAnnouncement, now) ELSE applied
  /\ UNCHANGED <<now, presence, lease, cache, enabled, connected, subnet>>

(* The end of the state arm: stale entries go, the cache is written. *)
Housekeeping(p, b, ls) ==
  LET q == IF enabled' THEN PrunePresence(p) ELSE p
      c == IF enabled' THEN PrunePaths(b, now, PathTimeout) ELSE b
  IN /\ presence' = q
     /\ tunnel' \in IF q = p /\ c.paths = b.paths THEN {c} ELSE ApplyUpdate(c, q.known, ls, now)
     /\ cache' = Cached(presence', tunnel')

(* The state arm, every second: reconciliation may end the relay session or *)
(* put a standby in its place (RelayClient says when).                      *)
StateArm(ls) ==
  /\ \/ ls = lease /\ UNCHANGED events
     \/ lease \notin {None, ls} /\ (ls = None \/ LeaseLive(ls, now)) /\ Event
  /\ lease' = ls /\ UNCHANGED enabled
  /\ \E b \in IF ls = lease THEN {tunnel} ELSE ApplyUpdate(tunnel, presence.known, ls, now) :
       Housekeeping(presence, b, ls)
  /\ UNCHANGED <<now, connected, subnet>>

(* Fault: the tunnel is left as it is. *)
PauseKeepsTunnel ==
  /\ Outages /\ Event /\ enabled /\ enabled' = FALSE
  /\ presence' = NoPresence /\ lease' = None
  /\ connected' \in {connected, FALSE}
  /\ UNCHANGED <<now, tunnel, cache, subnet>>

(* A pause forgets the peer and its paths and stops the tunnel; the         *)
(* connection stays up where join requests need it.                         *)
Pause ==
  /\ Outages /\ Event /\ enabled /\ enabled' = FALSE
  /\ presence' = NoPresence /\ lease' = None
  /\ tunnel' = [EmptyTunnel EXCEPT !.contacted = tunnel.contacted]
  /\ connected' \in {connected, FALSE}
  /\ UNCHANGED <<now, cache, subnet>>

(* A resumed session starts from the peer cache. *)
Resume ==
  /\ ~enabled /\ enabled' = TRUE /\ connected' = FALSE
  /\ \E b \in ApplyUpdate(RestoredTunnel(tunnel), RestoredPresence.known, lease, now) :
       Housekeeping(RestoredPresence, b, lease)
  /\ UNCHANGED <<now, lease, subnet, events>>

(* The process ends, in whatever way, and is started again; what it         *)
(* restores may be punched for at once.                                     *)
Restart(punch) ==
  /\ Outages /\ Event /\ MayPunch(punch) /\ (punch => Restorable)
  /\ enabled' = TRUE /\ connected' = FALSE /\ lease' = None
  /\ presence' = RestoredPresence
  /\ LET fresh == [EmptyTunnel EXCEPT !.contacted = tunnel.contacted]
         applied == ApplyUpdate(RestoredTunnel(fresh), presence'.known, None, now)
     IN tunnel' \in IF punch THEN NatPunch(applied, presence'.known, now) ELSE applied
  /\ UNCHANGED <<now, cache, subnet>>

(* The connection to the Nostr relays is made, or lost. *)
Connect ==
  /\ ~connected /\ connected' = TRUE
  /\ UNCHANGED <<now, presence, tunnel, lease, cache, enabled, subnet, events>>

LoseConnection ==
  /\ Event /\ connected /\ connected' = FALSE
  /\ UNCHANGED <<now, presence, tunnel, lease, cache, enabled, subnet>>

(* External: one of the hosts moves into or out of the other's network. *)
Move ==
  /\ Event /\ subnet' = ~subnet
  /\ UNCHANGED <<now, presence, tunnel, lease, cache, enabled, connected>>

(* External: WireGuard hears the peer from e, in a new handshake or in the  *)
(* session it has, and answers there from now on.  A relay passes packets   *)
(* on while its lease lasts, to a host that has sent to it.                 *)
Hear(e, handshake) ==
  /\ Event /\ tunnel.wg.endpoint # None
  /\ e \in Relays => e \in tunnel.contacted /\ LeaseLive(e, now)
  /\ handshake \/ tunnel.wg.handshake_at > 0
  /\ tunnel' = [tunnel EXCEPT !.wg = [endpoint |-> e,
                  handshake_at |-> IF handshake THEN now ELSE tunnel.wg.handshake_at]]
  /\ UNCHANGED <<now, presence, lease, cache, enabled, connected, subnet>>

Next ==
  \/ Tick \/ ReceiveHello \/ ReceiveDisconnect
  \/ \E ann \in Announcements, punch \in BOOLEAN :
       ann.timestamp <= now /\ ReceiveAnnounce(ann, punch)
  \/ \E r \in OwnRelays : GrantLease(r)
  \/ \E punch \in BOOLEAN : AnnounceArm(punch) \/ Heartbeat(punch) \/ Restart(punch)
  \/ \E changed, punch \in BOOLEAN : NetworkArm(changed, punch)
  \/ \E ls \in OwnRelays \union {None} : StateArm(ls)
  \/ Pause \/ Resume \/ Connect \/ LoseConnection \/ Move
  \/ \E e \in Endpoints, b \in BOOLEAN : Hear(e, b)

Spec == Init /\ [][Next]_vars

-----------------------------------------------------------------------------
(* Type correctness; the book's current endpoint is one it tracks, and the  *)
(* one WireGuard was given last is it, or has left the book since.          *)
TypeOK ==
  /\ now \in 1 .. MaxTime /\ lease \in OwnRelays \union {None}
  /\ presence.active \in Announcement \union {None}
  /\ presence.known \in Announcement \union {None} /\ presence.seen \in Times
  /\ \A e \in Endpoints : tunnel.paths[e] \in TrackedPath \union {None}
  /\ tunnel.current \in Tracked(tunnel) \union {None}
  /\ tunnel.installed \in Endpoints \union {None}
  /\ tunnel.installed # None => tunnel.current \in {None, tunnel.installed}
  /\ tunnel.wg \in [endpoint : Endpoints \union {None}, handshake_at : Times]
  /\ tunnel.contacted \subseteq Relays
  /\ {enabled, connected, subnet} \subseteq BOOLEAN
  /\ events \in 0 .. MaxEvents

(* The peer is set up in WireGuard only while the session runs and an       *)
(* announcement of the peer is known, and what the tunnel is planned from   *)
(* is never older than what the peer is shown active with: no order of      *)
(* goodbyes, pauses, punches, stale and restored announcements leaves the   *)
(* peer behind or plans it from an outdated announcement.                   *)
InstalledIsKnown ==
  /\ tunnel.installed # None => enabled /\ presence.known # None
  /\ presence.active # None =>
       presence.known # None /\ presence.active.timestamp <= presence.known.timestamp

Proven(b, e) == b.paths[e] # None /\ SuccessAt(b, e) > 0

(* docs/protocol.md:128, keep using a recently successful path: an endpoint *)
(* that worked, and neither left the book nor is too old for it, gives way  *)
(* only to one that worked later, through every order of announcements,     *)
(* leases, moves and hole punching.  A punch plans twice: its second choice *)
(* may tie with the old endpoint when the first, that worked later than     *)
(* both, has left the book in between.                                      *)
LeftTheBook(e) == /\ tunnel.paths[e].source = "observed"
                  /\ tunnel'.paths[e].source # "observed"
LaterOneLost(at) ==
  LET b == RecordSuccess(tunnel, tunnel.wg)
  IN \E e \in Endpoints : Proven(b, e) /\ SuccessAt(b, e) > at /\ ~Proven(tunnel', e)
WorkingPathKept ==
  [][LET old == tunnel.current  new == tunnel'.installed
     IN /\ {old, new} \intersect {None} = {} /\ old # new
        /\ Proven(tunnel', old) /\ ~LeftTheBook(old)
        /\ FreshnessAt(tunnel.paths[old]) > Cutoff(now, PathTimeout)
        /\ ~\E punch \in BOOLEAN : Restart(punch)
        => LET at == SuccessAt(tunnel', old)
           IN /\ Proven(tunnel', new)
              /\ \/ SuccessAt(tunnel', new) > at
                 \/ SuccessAt(tunnel', new) = at /\ LaterOneLost(at)]_vars

(* A live relay lease is tried: as long as no other endpoint has worked, a  *)
(* heartbeat moves to it once the retry delay of the last choice is over.   *)
NothingWorked(b) == \A e \in Tracked(b) : SuccessAt(b, e) = 0
RelayTried ==
  [][/\ LeaseLive(lease, now) /\ presence.known # None /\ NothingWorked(tunnel')
     /\ tunnel.current # None => now - tunnel.paths[tunnel.current].selected_at >= RetryAfter
     /\ Heartbeat(FALSE)
     => tunnel'.installed = lease]_vars

(* WireGuard is not turned to an endpoint that nothing speaks for: to a     *)
(* relay endpoint whose lease has ended only if the peer was heard over it  *)
(* while other endpoints were planned, and to one that never worked and     *)
(* that the peer does not announce only when it announces no public one, or *)
(* when it was chosen so recently that its trial still runs.                *)
OnTrial(b, e) == /\ b.current = e /\ b.paths[e].selected_at > 0
                 /\ now - b.paths[e].selected_at < RetryAfter
TurnedToForAReason ==
  [][LET new == tunnel'.installed
     IN new # None /\ new # tunnel.installed =>
          /\ new \in Relays /\ LeaseEnd[new] <= now => tunnel'.paths[new].source = "observed"
          /\ \/ Proven(tunnel', new) \/ new \in {LocalEp, lease'}
             \/ OnTrial(tunnel, new) \/ (cache # None /\ OnTrial(cache, new))
             \/ \E ann \in {presence'.known, presence'.active} \ {None} :
                  new \in {ann.public, ann.relay} \/ ann.public = None]_vars

(* A daemon that starts or resumes from its cache takes up the endpoint it  *)
(* used last, if that worked and is not too old for the book, unless        *)
(* another worked later.                                                    *)
RestartReusesProvenPath ==
  [][/\ Restorable /\ cache.current \notin Relays \union {None}
     /\ Proven(cache, cache.current) /\ cache.paths[cache.current].source # "observed"
     /\ \A timeout \in {PathTimeout, PathCacheTimeout} :
          FreshnessAt(cache.paths[cache.current]) > Cutoff(now, timeout)
     /\ Resume \/ \E punch \in BOOLEAN : Restart(punch)
     => \/ tunnel'.installed = cache.current
        \/ SuccessAt(tunnel', tunnel'.installed) > SuccessAt(cache, cache.current)]_vars

=============================================================================
