-------------------------- MODULE PeerPaths_proofs --------------------------
(***************************************************************************)
(* Theorems about how the daemon reaches a peer, for any endpoints,        *)
(* leases, announcements, timeouts and numbers of events.                  *)
(***************************************************************************)
EXTENDS PeerPaths, TLAPS

(* A tunnel that is fit for a known announcement k: without one, the peer   *)
(* is not set up.                                                           *)
Fits(b, k) == "installed" \in DOMAIN b /\ (k = None => b.installed = None)

PresenceOK(p) ==
  /\ p = [active |-> p.active, known |-> p.known, seen |-> p.seen]
  /\ p.active \in Announcement \union {None} /\ p.known \in Announcement \union {None}
  /\ p.active # None => p.known # None /\ p.active.timestamp <= p.known.timestamp

(* A paused session knows no announcement; a cache holds one of the peer's. *)
KnownInv ==
  /\ enabled \in BOOLEAN
  /\ PresenceOK(presence) /\ (presence.known # None => enabled)
  /\ Fits(tunnel, presence.known)
  /\ cache # None => cache.announcement \in Announcement

-----------------------------------------------------------------------------
(* What keeps a tunnel a tunnel. *)

LEMMA RefreshKeeps ==
  ASSUME NEW b, "installed" \in DOMAIN b, NEW ann, NEW t
  PROVE  "installed" \in DOMAIN RefreshFromAnnouncement(RecordSuccess(b, b.wg), ann, t)
<1>1. "installed" \in DOMAIN RecordSuccess(b, b.wg)
  BY DEF RecordSuccess
<1> QED BY <1>1 DEF RefreshFromAnnouncement

LEMMA StoppedFits == ASSUME NEW b, "installed" \in DOMAIN b, NEW k PROVE Fits(Stopped(b), k)
BY DEF Stopped, Fits

LEMMA PruneKeeps ==
  ASSUME NEW b, "installed" \in DOMAIN b, NEW t, NEW timeout, NEW k, Fits(b, k)
  PROVE  Fits(PrunePaths(b, t, timeout), k)
BY DEF PrunePaths, Fits

LEMMA InstallKeeps ==
  ASSUME NEW b, "installed" \in DOMAIN b, NEW e, NEW t, NEW c \in Install(b, e, t)
  PROVE  "installed" \in DOMAIN c
BY DEF Install

(* Applying no announcement stops the tunnel. *)
LEMMA ApplyFits ==
  ASSUME NEW b, "installed" \in DOMAIN b, NEW ann, NEW t, NEW c \in Apply(b, ann, t)
  PROVE  Fits(c, ann)
<1>1. CASE ann = None
  BY <1>1, StoppedFits DEF Apply
<1>2. CASE ann # None
  <2> DEFINE a == WithoutExpiredRelay(ann, t)
             book == RefreshFromAnnouncement(RecordSuccess(b, b.wg), a, t)
  <2>1. "installed" \in DOMAIN book
    BY RefreshKeeps
  <2>2. \E e \in {Select(book, t, p) : p \in Preferred(book, a)} :
           c \in IF RequiresPublicSignal(a, e) THEN {Stopped(book)} ELSE Install(book, e, t)
    BY <1>2 DEF Apply
  <2> HIDE DEF book, a
  <2>3. "installed" \in DOMAIN c
    BY <2>1, <2>2, InstallKeeps DEF Stopped
  <2> QED BY <1>2, <2>3 DEF Fits
<1> QED BY <1>1, <1>2

LEMMA UpdateFits ==
  ASSUME NEW b, "installed" \in DOMAIN b, NEW k, NEW ls, NEW t, NEW c \in ApplyUpdate(b, k, ls, t)
  PROVE  Fits(c, k)
<1>1. Fits(c, EffectiveAnn(k, ls, t))
  BY ApplyFits DEF ApplyUpdate
<1> QED BY <1>1 DEF EffectiveAnn, Fits

(* A punch applies an announcement that may be another than the known one,  *)
(* but only if there is a known one.                                        *)
LEMMA PunchFits ==
  ASSUME NEW bs, \A b \in bs : "installed" \in DOMAIN b, NEW ann, NEW t, NEW k, k = None => ann = None,
         NEW c \in NatPunch(bs, ann, t)
  PROVE  Fits(c, k)
<1>1. PICK b \in bs : c \in Apply(Stopped(b), ann, t)
  BY DEF NatPunch
<1>2. "installed" \in DOMAIN Stopped(b)
  BY DEF Stopped
<1>3. Fits(c, ann)
  BY <1>1, <1>2, ApplyFits
<1> QED BY <1>3 DEF Fits

LEMMA RestoredFits ==
  ASSUME NEW b, "installed" \in DOMAIN b
  PROVE  "installed" \in DOMAIN RestoredTunnel(b)
BY DEF RestoredTunnel, PrunePaths

LEMMA RestoredPresenceOK == ASSUME KnownInv PROVE PresenceOK(RestoredPresence)
BY DEF KnownInv, PresenceOK, RestoredPresence, Restorable, NoPresence

(* The end of the state arm. *)
LEMMA HousekeepingKeeps ==
  ASSUME NEW p, PresenceOK(p), NEW b, Fits(b, p.known), NEW ls, Housekeeping(p, b, ls),
         enabled' \in BOOLEAN, p.known # None => enabled',
         cache # None => cache.announcement \in Announcement
  PROVE  KnownInv'
<1> DEFINE q == IF enabled' THEN PrunePresence(p) ELSE p
           c == IF enabled' THEN PrunePaths(b, now, PathTimeout) ELSE b
<1>1. PresenceOK(q) /\ q.known = p.known
  BY DEF PrunePresence, PresenceOK
<1>2. Fits(c, q.known)
  BY <1>1, PruneKeeps DEF Fits
<1>3. presence' = q /\ cache' = Cached(presence', tunnel')
      /\ tunnel' \in IF q = p /\ c.paths = b.paths THEN {c} ELSE ApplyUpdate(c, q.known, ls, now)
  BY DEF Housekeeping
<1> HIDE DEF q, c
<1>4. Fits(tunnel', presence'.known)
  BY <1>2, <1>3, UpdateFits DEF Fits
<1>5. cache' # None => cache'.announcement \in Announcement
  BY <1>1, <1>3 DEF Cached, PresenceOK
<1> QED BY <1>1, <1>3, <1>4, <1>5 DEF KnownInv

-----------------------------------------------------------------------------
LEMMA KnownInit == Init => KnownInv
BY DEF Init, KnownInv, NoPresence, EmptyTunnel, NoPeer, PresenceOK, Fits

(* The arms that only apply, or punch with, what the presence says. *)
LEMMA SamePresenceFine ==
  ASSUME KnownInv, UNCHANGED presence, UNCHANGED enabled, UNCHANGED cache,
         Fits(tunnel', presence.known)
  PROVE  KnownInv'
BY DEF KnownInv

LEMMA AnnouncedKeeps ==
  ASSUME NEW p, PresenceOK(p), NEW ann \in Announcements
  PROVE  /\ PresenceOK(Announced(p, ann)) /\ Announced(p, ann).known # None
         /\ Announced(p, ann).known = p.known
              => Announced(p, ann).active = ann \/ Announced(p, ann).active = p.active
<1>1. ann \in Announcement /\ ann # None
  BY AnnouncementAssumption
<1>2. \A x, y \in Announcement : x.timestamp <= y.timestamp \/ y.timestamp < x.timestamp
  BY DEF Announcement
<1>3. \A x, y, z \in Announcement :
         x.timestamp <= y.timestamp /\ y.timestamp <= z.timestamp => x.timestamp <= z.timestamp
  BY DEF Announcement
<1>4. \A x \in Announcement : x.timestamp <= x.timestamp
  BY DEF Announcement
<1>5. \A x, y \in Announcement : y.timestamp < x.timestamp => y.timestamp <= x.timestamp
  BY DEF Announcement
<1> HIDE DEF Announcement
<1> QED BY <1>1, <1>2, <1>3, <1>4, <1>5 DEF Announced, PresenceOK

LEMMA ReceiveAnnounceFine ==
  ASSUME KnownInv, NEW ann \in Announcements, NEW punch \in BOOLEAN, ReceiveAnnounce(ann, punch)
  PROVE  KnownInv'
<1> DEFINE applied == ApplyUpdate(tunnel, presence'.known, lease, now)
<1>1. PresenceOK(presence') /\ presence'.known # None
  BY AnnouncedKeeps DEF ReceiveAnnounce, KnownInv
<1>2. \A b \in applied : Fits(b, presence'.known)
  BY UpdateFits DEF KnownInv, Fits
<1>3. \/ tunnel' \in NatPunch(applied, ann, now) \/ tunnel' \in applied \/ tunnel' = tunnel
  BY DEF ReceiveAnnounce
<1> HIDE DEF applied
<1>4. Fits(tunnel', presence'.known)
  <2>1. CASE tunnel' \in NatPunch(applied, ann, now)
    BY <1>1, <1>2, <2>1, PunchFits DEF Fits
  <2>2. CASE tunnel' \in applied \/ tunnel' = tunnel
    BY <1>1, <1>2, <2>2 DEF KnownInv, Fits
  <2> QED BY <1>3, <2>1, <2>2
<1> QED BY <1>1, <1>4 DEF ReceiveAnnounce, KnownInv

LEMMA AnnounceArmFine ==
  ASSUME KnownInv, NEW punch \in BOOLEAN, AnnounceArm(punch)
  PROVE  KnownInv'
<1> DEFINE applied == IF lease' = lease THEN {tunnel}
                      ELSE ApplyUpdate(tunnel, presence.known, lease', now)
<1>1. \A b \in applied : Fits(b, presence.known)
  BY UpdateFits DEF KnownInv, Fits
<1>2. tunnel' \in NatPunch(applied, presence.active, now) \/ tunnel' \in applied
  BY DEF AnnounceArm
<1> HIDE DEF applied
<1>3. presence.known = None => presence.active = None
  BY DEF KnownInv, PresenceOK
<1>4. Fits(tunnel', presence.known)
  <2>1. \A b \in applied : "installed" \in DOMAIN b
    BY <1>1 DEF Fits
  <2>2. CASE tunnel' \in NatPunch(applied, presence.active, now)
    BY <1>3, <2>1, <2>2, PunchFits
  <2>3. CASE tunnel' \in applied
    BY <1>1, <2>3
  <2> QED BY <1>2, <2>2, <2>3
<1> QED BY <1>4, SamePresenceFine DEF AnnounceArm

LEMMA HeartbeatFine ==
  ASSUME KnownInv, NEW punch \in BOOLEAN, Heartbeat(punch)
  PROVE  KnownInv'
<1>1. PICK b \in IF punch THEN NatPunch({tunnel}, presence.known, now) ELSE {tunnel} :
         tunnel' \in ApplyUpdate(b, presence.known, lease, now)
  BY DEF Heartbeat
<1>2. Fits(b, presence.known)
  <2>1. Fits(tunnel, presence.known) /\ \A x \in {tunnel} : "installed" \in DOMAIN x
    BY DEF KnownInv, Fits
  <2>2. CASE b \in NatPunch({tunnel}, presence.known, now)
    BY <2>1, <2>2, PunchFits
  <2> QED BY <1>1, <2>1, <2>2
<1>3. Fits(tunnel', presence.known)
  BY <1>1, <1>2, UpdateFits DEF Fits
<1> QED BY <1>3, SamePresenceFine DEF Heartbeat

LEMMA NetworkArmFine ==
  ASSUME KnownInv, NEW changed \in BOOLEAN, NEW punch \in BOOLEAN, NetworkArm(changed, punch)
  PROVE  KnownInv'
<1> DEFINE applied == IF changed THEN ApplyUpdate(tunnel, presence.known, lease, now)
                      ELSE {tunnel}
<1>1. \A b \in applied : Fits(b, presence.known)
  BY UpdateFits DEF KnownInv, Fits
<1>2. tunnel' \in NatPunch(applied, DirectAnnouncement, now) \/ tunnel' \in applied
  BY DEF NetworkArm
<1> HIDE DEF applied
<1>3. presence.known = None => DirectAnnouncement = None
  BY DEF KnownInv, PresenceOK, DirectAnnouncement
<1>4. Fits(tunnel', presence.known)
  <2>1. \A b \in applied : "installed" \in DOMAIN b
    BY <1>1 DEF Fits
  <2>2. CASE tunnel' \in NatPunch(applied, DirectAnnouncement, now)
    BY <1>3, <2>1, <2>2, PunchFits
  <2>3. CASE tunnel' \in applied
    BY <1>1, <2>3
  <2> QED BY <1>2, <2>2, <2>3
<1> QED BY <1>4, SamePresenceFine DEF NetworkArm

LEMMA StateArmFine ==
  ASSUME KnownInv, NEW ls, StateArm(ls)
  PROVE  KnownInv'
<1>1. PICK b \in IF ls = lease THEN {tunnel} ELSE ApplyUpdate(tunnel, presence.known, ls, now) :
         Housekeeping(presence, b, ls)
  BY DEF StateArm
<1>2. Fits(b, presence.known)
  BY <1>1, UpdateFits DEF KnownInv, Fits
<1> QED BY <1>1, <1>2, HousekeepingKeeps DEF StateArm, KnownInv

LEMMA PauseFine == ASSUME KnownInv, Pause PROVE KnownInv'
BY DEF KnownInv, Pause, NoPresence, PresenceOK, EmptyTunnel, Fits

LEMMA ResumeFine == ASSUME KnownInv, Resume PROVE KnownInv'
<1>1. PICK b \in ApplyUpdate(RestoredTunnel(tunnel), RestoredPresence.known, lease, now) :
         Housekeeping(RestoredPresence, b, lease)
  BY DEF Resume
<1>2. Fits(b, RestoredPresence.known)
  BY <1>1, RestoredFits, UpdateFits DEF KnownInv, Fits
<1> QED BY <1>1, <1>2, RestoredPresenceOK, HousekeepingKeeps DEF Resume, KnownInv

LEMMA RestartFine ==
  ASSUME KnownInv, NEW punch \in BOOLEAN, Restart(punch)
  PROVE  KnownInv'
<1> DEFINE fresh == [EmptyTunnel EXCEPT !.contacted = tunnel.contacted]
           applied == ApplyUpdate(RestoredTunnel(fresh), presence'.known, None, now)
<1>1. "installed" \in DOMAIN RestoredTunnel(fresh)
  BY RestoredFits DEF EmptyTunnel
<1>2. tunnel' \in NatPunch(applied, presence'.known, now) \/ tunnel' \in applied
  BY DEF Restart
<1> HIDE DEF fresh
<1>3. \A b \in applied : Fits(b, presence'.known)
  BY <1>1, UpdateFits
<1> HIDE DEF applied
<1>4. Fits(tunnel', presence'.known)
  <2>1. \A b \in applied : "installed" \in DOMAIN b
    BY <1>3 DEF Fits
  <2>2. CASE tunnel' \in NatPunch(applied, presence'.known, now)
    BY <2>1, <2>2, PunchFits
  <2>3. CASE tunnel' \in applied
    BY <1>3, <2>3
  <2> QED BY <1>2, <2>2, <2>3
<1> QED BY <1>4, RestoredPresenceOK DEF Restart, KnownInv

LEMMA KnownStep == KnownInv /\ [Next]_vars => KnownInv'
<1> SUFFICES ASSUME KnownInv, [Next]_vars PROVE KnownInv'
  OBVIOUS
<1>0. Fits(tunnel, presence.known)
  BY DEF KnownInv
<1>1. CASE Tick \/ Connect \/ LoseConnection \/ Move
  BY <1>0, <1>1, SamePresenceFine DEF Tick, Connect, LoseConnection, Move
<1>2. CASE ReceiveHello
  BY <1>2 DEF ReceiveHello, KnownInv, PresenceOK
<1>3. CASE ReceiveDisconnect
  BY <1>3, StoppedFits DEF ReceiveDisconnect, KnownInv, PresenceOK, Fits
<1>4. ASSUME NEW ann \in Announcements, NEW punch \in BOOLEAN, ReceiveAnnounce(ann, punch)
      PROVE  KnownInv'
  BY <1>4, ReceiveAnnounceFine
<1>5. ASSUME NEW r \in OwnRelays, GrantLease(r) PROVE KnownInv'
  <2>1. tunnel' \in ApplyUpdate(tunnel, presence.known, r, now)
    BY <1>5 DEF GrantLease
  <2>2. Fits(tunnel', presence.known)
    BY <1>0, <2>1, UpdateFits DEF Fits
  <2> QED BY <1>5, <2>2, SamePresenceFine DEF GrantLease
<1>6. ASSUME NEW punch \in BOOLEAN, AnnounceArm(punch) \/ Heartbeat(punch) \/ Restart(punch)
      PROVE  KnownInv'
  BY <1>6, AnnounceArmFine, HeartbeatFine, RestartFine
<1>7. ASSUME NEW changed \in BOOLEAN, NEW punch \in BOOLEAN, NetworkArm(changed, punch)
      PROVE  KnownInv'
  BY <1>7, NetworkArmFine
<1>8. ASSUME NEW ls, StateArm(ls) PROVE KnownInv'
  BY <1>8, StateArmFine
<1>9. CASE Pause \/ Resume
  BY <1>9, PauseFine, ResumeFine
<1>10. ASSUME NEW e, NEW b \in BOOLEAN, Hear(e, b) PROVE KnownInv'
  <2>1. Fits(tunnel', presence.known)
    BY <1>0, <1>10 DEF Hear, Fits
  <2> QED BY <1>10, <2>1, SamePresenceFine DEF Hear
<1>11. CASE UNCHANGED vars
  BY <1>0, <1>11, SamePresenceFine DEF vars
<1> QED
  BY <1>1, <1>2, <1>3, <1>4, <1>5, <1>6, <1>7, <1>8, <1>9, <1>10, <1>11 DEF Next

(* The peer is set up in WireGuard only while the session runs and an       *)
(* announcement of the peer is known, and the tunnel is never planned from  *)
(* an older one than the peer is shown active with, whatever the order of   *)
(* announcements, goodbyes, punches, pauses and restarts (PeerPresenceBook, *)
(* CliTunnelRuntime::apply, maybe_run_nat_punch).                           *)
THEOREM SetUpOnlyWhenKnown == Spec => []InstalledIsKnown
<1>1. Init => KnownInv
  BY KnownInit
<1>2. KnownInv /\ [Next]_vars => KnownInv'
  BY KnownStep
<1>3. KnownInv => InstalledIsKnown
  BY DEF KnownInv, PresenceOK, Fits, InstalledIsKnown
<1> QED BY <1>1, <1>2, <1>3, PTL DEF Spec

-----------------------------------------------------------------------------
(* Type correctness: what the path book's operators make of a tunnel.       *)

Tunnels ==
  [paths : PathBook, current : Endpoints \union {None}, installed : Endpoints \union {None},
   wg : [endpoint : Endpoints \union {None}, handshake_at : Times], contacted : SUBSET Relays]

(* A path was observed only by a success; only relays are known as relays.  *)
PathFits(e, p) ==
  p # None => /\ p.source = "observed" => p.success_at > 0
              /\ p.source = "public" => e \in Publics
              /\ p.source = "local" => e = LocalEp
              /\ p.source = "relay" => e \in Relays
              /\ e \in Relays => p.source \in {"relay", "observed"}

BookFits(paths) == paths \in PathBook /\ \A e \in Endpoints : PathFits(e, paths[e])

Sound(b) ==
  /\ b \in Tunnels /\ BookFits(b.paths)
  /\ b.current \in Tracked(b) \union {None}
  /\ b.installed # None => b.current \in {None, b.installed}
  /\ b.installed = None => b.wg = NoPeer

LEMMA Constants ==
  /\ Times \subseteq Nat /\ 0 \in Times /\ MaxTime \in Nat /\ 1 .. MaxTime \subseteq Times
  /\ Announcement \subseteq Plan /\ Announcements \subseteq Announcement
  /\ None \notin Endpoints /\ None \notin TrackedPath /\ None \notin Announcement \union Plan
BY TimesAssumption, EndpointAssumption, AnnouncementAssumption, PathAssumption
   DEF Times, Announcement, Plan, Relays

LEMMA TimesAreNumbers == \A x \in Times : x \in Nat
BY TimesAssumption DEF Times

LEMMA LargestOfTwo ==
  ASSUME NEW x \in Int, NEW y \in Int
  PROVE  Largest({x, y}) \in {x, y} /\ Largest({x, y}) >= x /\ Largest({x, y}) >= y
<1>1. \E z \in {x, y} : \A u \in {x, y} : u <= z
  <2>1. CASE x <= y
    BY <2>1
  <2>2. CASE y <= x
    BY <2>2
  <2> QED BY <2>1, <2>2
<1>2. /\ Largest({x, y}) \in {x, y}
      /\ \A u \in {x, y} : u <= Largest({x, y})
  BY <1>1 DEF Largest
<1>3. Largest({x, y}) \in Int
  BY <1>2
<1> QED BY <1>2, <1>3

LEMMA LargestOfThree ==
  ASSUME NEW x \in Int, NEW y \in Int, NEW z \in Int
  PROVE  LET m == Largest({x, y, z})
         IN m \in {x, y, z} /\ m >= x /\ m >= y /\ m >= z
<1>1. \E v \in {x, y, z} : \A u \in {x, y, z} : u <= v
  <2>1. CASE x >= y /\ x >= z
    BY <2>1
  <2>2. CASE y >= x /\ y >= z
    BY <2>2
  <2>3. CASE z >= x /\ z >= y
    BY <2>3
  <2> QED BY <2>1, <2>2, <2>3
<1>2. /\ Largest({x, y, z}) \in {x, y, z}
      /\ \A u \in {x, y, z} : u <= Largest({x, y, z})
  BY <1>1 DEF Largest
<1>3. Largest({x, y, z}) \in Int
  BY <1>2
<1> QED BY <1>2, <1>3

(* A success is entered for the endpoint of the last handshake; nothing     *)
(* else changes.                                                            *)
SameBut(b, c) == /\ c.current = b.current /\ c.installed = b.installed
                 /\ c.wg = b.wg /\ c.contacted = b.contacted
Succeeded(old, new, at) ==
  /\ new \in TrackedPath /\ new.success_at >= at
  /\ old = None => /\ new.source = "observed" /\ new.announced_at = at
                   /\ new.selected_at = 0 /\ new.success_at = at
  /\ old # None => /\ new.source = old.source /\ new.announced_at = old.announced_at
                   /\ new.selected_at = old.selected_at
                   /\ new.success_at \in {old.success_at, at} /\ new.success_at >= old.success_at
LEMMA RecordIs ==
  ASSUME NEW b \in Tunnels
  PROVE  /\ RecordSuccess(b, b.wg) \in Tunnels /\ SameBut(b, RecordSuccess(b, b.wg))
         /\ \A e \in Endpoints :
              \/ RecordSuccess(b, b.wg).paths[e] = b.paths[e]
              \/ /\ e = b.wg.endpoint /\ b.wg.handshake_at > 0
                 /\ Succeeded(b.paths[e], RecordSuccess(b, b.wg).paths[e], b.wg.handshake_at)
<1>1. CASE b.wg.endpoint = None \/ b.wg.handshake_at = 0 \/ ~Viable(b.wg.endpoint)
  BY <1>1 DEF RecordSuccess, SameBut
<1>2. CASE ~(b.wg.endpoint = None \/ b.wg.handshake_at = 0 \/ ~Viable(b.wg.endpoint))
  <2> DEFINE e == b.wg.endpoint
             h == b.wg.handshake_at
             old == IF b.paths[e] = None THEN NewPath("observed", h) ELSE b.paths[e]
             m == Largest({old.success_at, h})
             new == [old EXCEPT !.success_at = m]
  <2>0. b.wg \in [endpoint : Endpoints \union {None}, handshake_at : Times] /\ b.paths \in PathBook
    BY DEF Tunnels
  <2>1. e \in Endpoints /\ h \in Times /\ h > 0 /\ b.paths[e] \in TrackedPath \union {None}
    <3>1. e \in Endpoints /\ h \in Times /\ h # 0
      BY <1>2, <2>0
    <3>2. h \in Nat
      BY <3>1, TimesAreNumbers
    <3>3. h > 0
      BY <3>1, <3>2
    <3> QED BY <2>0, <3>1, <3>3 DEF PathBook
  <2>2. old \in TrackedPath
    BY <2>1, Constants DEF NewPath, TrackedPath, Source
  <2>3. m \in {old.success_at, h} /\ m >= old.success_at /\ m >= h
    <3>1. old.success_at \in Times
      BY <2>2 DEF TrackedPath
    <3>2. old.success_at \in Nat /\ h \in Nat
      BY <2>1, <3>1, TimesAreNumbers
    <3>3. old.success_at \in Int /\ h \in Int
      BY <3>2
    <3> QED BY <3>3, LargestOfTwo
  <2>4. Succeeded(b.paths[e], new, h)
    <3>1. old.success_at \in Times /\ m \in Times
      BY <2>1, <2>2, <2>3 DEF TrackedPath
    <3>2. new \in TrackedPath /\ new.success_at = m
      BY <2>2, <3>1 DEF TrackedPath
    <3>3. new.source = old.source /\ new.announced_at = old.announced_at /\ new.selected_at = old.selected_at
      BY <2>2 DEF TrackedPath
    <3>4. CASE b.paths[e] = None
      <4>1. /\ old.source = "observed" /\ old.announced_at = h /\ old.selected_at = 0
            /\ old.success_at = 0
        BY <3>4 DEF NewPath
      <4>2. m = h
        <5>1. h \in Nat /\ h > 0 /\ m \in {0, h} /\ m >= h
          BY <2>1, <2>3, <4>1, TimesAreNumbers
        <5> QED BY <5>1
      <4> HIDE DEF new, old, m
      <4> QED BY <2>3, <3>2, <3>3, <3>4, <4>1, <4>2 DEF Succeeded
    <3>5. CASE b.paths[e] # None
      <4>1. old = b.paths[e]
        BY <3>5
      <4> HIDE DEF new, old, m
      <4> QED BY <2>3, <3>2, <3>3, <3>5, <4>1 DEF Succeeded
    <3> QED BY <3>4, <3>5
  <2>5. RecordSuccess(b, b.wg) = [b EXCEPT !.paths[e] = new]
    BY <1>2 DEF RecordSuccess
  <2>6. new \in TrackedPath
    BY <2>4 DEF Succeeded
  <2> HIDE DEF new
  <2>7. [b EXCEPT !.paths[e] = new] \in Tunnels
    BY <2>1, <2>6 DEF Tunnels, PathBook
  <2>8. SameBut(b, [b EXCEPT !.paths[e] = new])
    BY DEF Tunnels, SameBut
  <2>9. \A x \in Endpoints : [b EXCEPT !.paths[e] = new].paths[x]
                               = IF x = e THEN new ELSE b.paths[x]
    BY <2>1 DEF Tunnels, PathBook
  <2> QED BY <2>1, <2>4, <2>5, <2>7, <2>8, <2>9
<1> QED BY <1>1, <1>2

LEMMA RecordFits ==
  ASSUME NEW b \in Tunnels, BookFits(b.paths)
  PROVE  BookFits(RecordSuccess(b, b.wg).paths)
<1> DEFINE r == RecordSuccess(b, b.wg)
<1>1. r.paths \in PathBook
  BY RecordIs DEF Tunnels
<1>2. ASSUME NEW e \in Endpoints PROVE PathFits(e, r.paths[e])
  <2>1. PathFits(e, b.paths[e])
    BY DEF BookFits
  <2>2. \/ r.paths[e] = b.paths[e]
        \/ b.wg.handshake_at > 0 /\ Succeeded(b.paths[e], r.paths[e], b.wg.handshake_at)
    BY RecordIs
  <2> HIDE DEF r
  <2>3. CASE r.paths[e] = b.paths[e]
    BY <2>1, <2>3
  <2>4. CASE b.wg.handshake_at > 0 /\ Succeeded(b.paths[e], r.paths[e], b.wg.handshake_at)
    <3>1. r.paths[e].success_at > 0
      <4>1. r.paths[e].success_at \in Nat /\ b.wg.handshake_at \in Nat
        BY <2>4, TimesAreNumbers DEF Succeeded, TrackedPath, Tunnels
      <4> QED BY <2>4, <4>1 DEF Succeeded
    <3>2. CASE b.paths[e] = None
      BY <2>4, <3>1, <3>2, EndpointAssumption DEF Succeeded, PathFits
    <3>3. CASE b.paths[e] # None
      BY <2>1, <2>4, <3>1, <3>3 DEF Succeeded, PathFits
    <3> QED BY <3>2, <3>3
  <2> QED BY <2>2, <2>3, <2>4
<1> QED BY <1>1, <1>2 DEF BookFits

(* What is kept stays as it was but for its source and its last             *)
(* announcement; what is announced is entered anew unless it was kept.      *)
Renewed(e, old, new, ann, t) ==
  /\ new \in TrackedPath
  /\ new.selected_at = old.selected_at /\ new.success_at = old.success_at
  /\ new.announced_at >= old.announced_at
  /\ \/ new.source = old.source
     \/ e \in AnnouncedEndpoints(ann) /\ new.source = Merge(old.source, AnnouncedSource(ann, e))

LEMMA AnnouncedAre ==
  ASSUME NEW ann \in Plan
  PROVE  /\ AnnouncedEndpoints(ann) \subseteq Endpoints
         /\ LocalEp \in AnnouncedEndpoints(ann)
         /\ \A e \in AnnouncedEndpoints(ann) :
              /\ AnnouncedSource(ann, e) \in Source \ {"observed"}
              /\ AnnouncedSource(ann, e) = "local" => e = LocalEp
              /\ AnnouncedSource(ann, e) = "public" => e \in Publics
              /\ AnnouncedSource(ann, e) = "relay" => e \in Relays
              /\ e \in Relays => AnnouncedSource(ann, e) = "relay"
BY EndpointAssumption DEF Plan, AnnouncedEndpoints, AnnouncedSource, Endpoints, Source

LEMMA MergeIs ==
  ASSUME NEW a \in Source, NEW c \in Source
  PROVE  Merge(a, c) \in {a, c} /\ (Merge(a, c) = "observed" <=> "observed" \in {a, c})
BY DEF Merge, SourceOrder, Source

LEMMA RefreshIs ==
  ASSUME NEW b \in Tunnels, NEW ann \in Plan, NEW t \in Times
  PROVE  LET f == RefreshFromAnnouncement(b, ann, t)
             kept == Kept(b, ann, t)
         IN /\ f \in Tunnels
            /\ f.installed = b.installed /\ f.wg = b.wg /\ f.contacted = b.contacted
            /\ f.current = CurrentAmong(b, kept)
            /\ \A e \in Endpoints :
                 IF e \in kept THEN Renewed(e, b.paths[e], f.paths[e], ann, t)
                 ELSE IF e \in AnnouncedEndpoints(ann)
                      THEN f.paths[e] = NewPath(AnnouncedSource(ann, e), t)
                      ELSE f.paths[e] = None
<1> DEFINE kept == Kept(b, ann, t)
           seen(e) == IF e \notin kept THEN NewPath(AnnouncedSource(ann, e), t)
                      ELSE [b.paths[e] EXCEPT !.source = Merge(@, AnnouncedSource(ann, e)),
                                              !.announced_at = Largest({@, t})]
           paths == [e \in Endpoints |-> IF e \in AnnouncedEndpoints(ann) THEN seen(e)
                                         ELSE IF e \in kept THEN b.paths[e] ELSE None]
           f == [b EXCEPT !.paths = paths, !.current = CurrentAmong(b, kept)]
<1>1. f = RefreshFromAnnouncement(b, ann, t)
  BY DEF RefreshFromAnnouncement
<1>2. \A e \in kept : e \in Endpoints /\ b.paths[e] \in TrackedPath
  BY DEF Kept, Tracked, Tunnels, PathBook
<1>3. CurrentAmong(b, kept) \in Endpoints \union {None}
  BY <1>2 DEF CurrentAmong
<1>4. ASSUME NEW e \in kept, e \in AnnouncedEndpoints(ann)
      PROVE  Renewed(e, b.paths[e], seen(e), ann, t)
  <2> DEFINE p == b.paths[e]
             s == Merge(p.source, AnnouncedSource(ann, e))
             m == Largest({p.announced_at, t})
  <2>1. p \in TrackedPath
    BY <1>2
  <2>2. s \in Source
    BY <1>4, <2>1, AnnouncedAre, MergeIs DEF TrackedPath
  <2>3. m \in Times /\ m >= p.announced_at
    <3>1. p.announced_at \in Times
      BY <2>1 DEF TrackedPath
    <3>2. p.announced_at \in Int /\ t \in Int
      <4>1. p.announced_at \in Nat /\ t \in Nat
        BY <3>1, TimesAreNumbers
      <4> QED BY <4>1
    <3>3. m \in {p.announced_at, t} /\ m >= p.announced_at
      BY <3>2, LargestOfTwo
    <3> QED BY <3>1, <3>3
  <2>4. seen(e) = [p EXCEPT !.source = s, !.announced_at = m]
    OBVIOUS
  <2> HIDE DEF seen, s, m, p
  <2>5. seen(e) \in TrackedPath /\ seen(e).source = s /\ seen(e).announced_at = m
        /\ seen(e).selected_at = p.selected_at /\ seen(e).success_at = p.success_at
    BY <2>1, <2>2, <2>3, <2>4 DEF TrackedPath
  <2> QED BY <1>4, <2>3, <2>5 DEF Renewed, s, p
<1>5. ASSUME NEW e \in kept PROVE Renewed(e, b.paths[e], b.paths[e], ann, t)
  <2>1. b.paths[e].announced_at \in Nat
    BY <1>2, TimesAreNumbers DEF TrackedPath
  <2> QED BY <1>2, <2>1 DEF Renewed
<1>6. ASSUME NEW e \in AnnouncedEndpoints(ann)
      PROVE  NewPath(AnnouncedSource(ann, e), t) \in TrackedPath
  BY AnnouncedAre, Constants DEF NewPath, TrackedPath
<1>7. \A e \in Endpoints :
         IF e \in kept THEN Renewed(e, b.paths[e], paths[e], ann, t)
         ELSE IF e \in AnnouncedEndpoints(ann)
              THEN paths[e] = NewPath(AnnouncedSource(ann, e), t)
              ELSE paths[e] = None
  BY <1>4, <1>5
<1> HIDE DEF kept, seen
<1>8. paths \in PathBook
  <2>1. ASSUME NEW e \in Endpoints PROVE paths[e] \in TrackedPath \union {None}
    BY <1>6, <1>7 DEF Renewed
  <2> QED BY <2>1 DEF PathBook
<1> HIDE DEF paths
<1>9. f \in Tunnels /\ f.paths = paths /\ f.current = CurrentAmong(b, kept)
      /\ f.installed = b.installed /\ f.wg = b.wg /\ f.contacted = b.contacted
  BY <1>3, <1>8 DEF Tunnels
<1> QED BY <1>1, <1>7, <1>9 DEF kept

LEMMA RefreshFits ==
  ASSUME NEW b \in Tunnels, BookFits(b.paths), NEW ann \in Plan, NEW t \in Times
  PROVE  /\ BookFits(RefreshFromAnnouncement(b, ann, t).paths)
         /\ AnnouncedEndpoints(ann) \subseteq Tracked(RefreshFromAnnouncement(b, ann, t))
         /\ Kept(b, ann, t) \subseteq Tracked(RefreshFromAnnouncement(b, ann, t))
<1> DEFINE f == RefreshFromAnnouncement(b, ann, t)
           kept == Kept(b, ann, t)
<1>1. /\ f \in Tunnels
      /\ \A e \in Endpoints :
           IF e \in kept THEN Renewed(e, b.paths[e], f.paths[e], ann, t)
           ELSE IF e \in AnnouncedEndpoints(ann)
                THEN f.paths[e] = NewPath(AnnouncedSource(ann, e), t)
                ELSE f.paths[e] = None
  BY RefreshIs
<1>2. \A e \in kept : e \in Endpoints /\ b.paths[e] \in TrackedPath /\ b.paths[e] # None
  BY DEF Kept, Tracked, Tunnels, PathBook
<1> HIDE DEF f, kept
<1>3. ASSUME NEW e \in kept PROVE PathFits(e, f.paths[e])
  <2>1. PathFits(e, b.paths[e]) /\ Renewed(e, b.paths[e], f.paths[e], ann, t)
    BY <1>1, <1>2 DEF BookFits
  <2>2. CASE f.paths[e].source = b.paths[e].source
    BY <1>2, <2>1, <2>2 DEF PathFits, Renewed
  <2>3. CASE e \in AnnouncedEndpoints(ann)
             /\ f.paths[e].source = Merge(b.paths[e].source, AnnouncedSource(ann, e))
    <3> DEFINE s == AnnouncedSource(ann, e)
    <3>1. /\ s \in Source \ {"observed"} /\ b.paths[e].source \in Source
          /\ s = "local" => e = LocalEp
          /\ s = "public" => e \in Publics
          /\ s = "relay" => e \in Relays
          /\ e \in Relays => s = "relay"
      BY <1>2, <2>3, AnnouncedAre DEF TrackedPath
    <3>2. f.paths[e].source \in {b.paths[e].source, s}
          /\ (f.paths[e].source = "observed" => b.paths[e].source = "observed")
      BY <2>3, <3>1, MergeIs
    <3> HIDE DEF s
    <3> QED BY <1>2, <2>1, <3>1, <3>2 DEF PathFits, Renewed
  <2> QED BY <2>1, <2>2, <2>3 DEF Renewed
<1>4. ASSUME NEW e \in AnnouncedEndpoints(ann) PROVE PathFits(e, NewPath(AnnouncedSource(ann, e), t))
  BY AnnouncedAre DEF PathFits, NewPath
<1>5. \A e \in Endpoints : PathFits(e, f.paths[e])
  BY <1>1, <1>3, <1>4 DEF PathFits
<1>6. \A e \in AnnouncedEndpoints(ann) : NewPath(AnnouncedSource(ann, e), t) # None
  BY AnnouncedAre, Constants DEF NewPath, TrackedPath
<1>7. \A e \in kept : f.paths[e] # None
  BY <1>1, <1>2, Constants DEF Renewed
<1> QED BY <1>1, <1>2, <1>5, <1>6, <1>7, AnnouncedAre DEF BookFits, Tunnels, Tracked, f, kept

(* The choice is the current endpoint or the preferred one. *)
LEMMA SelectIs ==
  ASSUME NEW b, NEW t, NEW p \in Tracked(b)
  PROVE  Select(b, t, p) \in Tracked(b) /\ Select(b, t, p) \in {p, b.current}
BY DEF Select

(* Without an announcement the peer is stopped; with one, it is too where   *)
(* a public signal is needed, or it is set up at the choice.                *)
Booked(b, ann, t) ==
  RefreshFromAnnouncement(RecordSuccess(b, b.wg), WithoutExpiredRelay(ann, t), t)
Done(b, e, t) ==
  [b EXCEPT !.paths[e].selected_at = t, !.current = e, !.installed = e,
            !.wg = [endpoint |-> e, handshake_at |-> 0],
            !.contacted = @ \union ({e} \intersect Relays)]

LEMMA ApplyIs ==
  ASSUME NEW b, NEW ann, NEW t, NEW c \in Apply(b, ann, t), ann # None
  PROVE  \E p \in Preferred(Booked(b, ann, t), WithoutExpiredRelay(ann, t)) :
           LET book == Booked(b, ann, t)
               e == Select(book, t, p)
           IN \/ c = Stopped(book) /\ RequiresPublicSignal(WithoutExpiredRelay(ann, t), e)
              \/ c = book /\ book.installed = e /\ ~RequiresRefresh(book.wg, e)
              \/ c = Done(book, e, t)
<1> DEFINE a == WithoutExpiredRelay(ann, t)
           book == Booked(b, ann, t)
<1>1. \E e \in {Select(book, t, p) : p \in Preferred(book, a)} :
         c \in IF RequiresPublicSignal(a, e) THEN {Stopped(book)} ELSE Install(book, e, t)
  BY DEF Apply, Booked
<1> HIDE DEF book, a
<1>2. PICK p \in Preferred(book, a) :
         c \in IF RequiresPublicSignal(a, Select(book, t, p)) THEN {Stopped(book)}
               ELSE Install(book, Select(book, t, p), t)
  BY <1>1
<1> DEFINE e == Select(book, t, p)
<1>3. c \in Install(book, e, t) =>
         \/ c = book /\ book.installed = e /\ ~RequiresRefresh(book.wg, e)
         \/ c = Done(book, e, t)
  <2> HIDE DEF e
  <2>1. Install(book, e, t) =
          IF book.installed # e \/ RequiresRefresh(book.wg, e) THEN {Done(book, e, t)}
          ELSE IF OtherPeers THEN {Done(book, e, t), book} ELSE {book}
    BY DEF Install, Done
  <2> QED BY <2>1
<1>4. QED BY <1>2, <1>3 DEF book, a

LEMMA PlanIs ==
  ASSUME NEW ann \in Plan, NEW t \in Times
  PROVE  /\ WithoutExpiredRelay(ann, t) \in Plan
         /\ WithoutExpiredRelay(ann, t).public = ann.public
         /\ WithoutExpiredRelay(ann, t).relay \in {ann.relay, None}
         /\ WithoutExpiredRelay(ann, t).relay # None =>
              LeaseEnd[WithoutExpiredRelay(ann, t).relay] > t
<1>1. ann.relay # None => LeaseEnd[ann.relay] \in Nat
  BY EndpointAssumption DEF Plan
<1>2. t \in Nat
  BY TimesAreNumbers
<1> QED BY <1>1, <1>2 DEF WithoutExpiredRelay, Plan

LEMMA EffectiveIs ==
  ASSUME NEW ann \in Announcement, NEW ls \in OwnRelays \union {None}, NEW t \in Times
  PROVE  /\ EffectiveAnn(ann, ls, t) \in Plan /\ EffectiveAnn(ann, ls, t) # None
         /\ EffectiveAnn(ann, ls, t).public = ann.public
         /\ EffectiveAnn(ann, ls, t).relay \in {ann.relay, ls, None}
         /\ LeaseLive(ls, t) => EffectiveAnn(ann, ls, t).relay = ls
         /\ ls = None => EffectiveAnn(ann, ls, t) = WithoutExpiredRelay(ann, t)
<1>1. ann \in Plan /\ ann # None
  BY Constants
<1>2. CASE LeaseLive(ls, t)
  <2>1. EffectiveAnn(ann, ls, t) = [ann EXCEPT !.relay = ls]
    BY <1>1, <1>2 DEF EffectiveAnn
  <2>2. ls \in Relays /\ ls # None
    BY <1>2 DEF LeaseLive, Relays
  <2>3. [ann EXCEPT !.relay = ls] \in Plan
    BY <1>1, <2>2 DEF Plan
  <2>4. [ann EXCEPT !.relay = ls] # None
    BY <2>3, Constants
  <2>5. [ann EXCEPT !.relay = ls].public = ann.public /\ [ann EXCEPT !.relay = ls].relay = ls
    BY <1>1 DEF Plan
  <2> QED BY <1>2, <2>1, <2>2, <2>3, <2>4, <2>5
<1>3. CASE ~LeaseLive(ls, t)
  <2>1. EffectiveAnn(ann, ls, t) = WithoutExpiredRelay(ann, t)
    BY <1>1, <1>3 DEF EffectiveAnn
  <2>2. /\ WithoutExpiredRelay(ann, t) \in Plan /\ WithoutExpiredRelay(ann, t).public = ann.public
        /\ WithoutExpiredRelay(ann, t).relay \in {ann.relay, None}
    BY <1>1, PlanIs
  <2> QED BY <1>3, <2>1, <2>2, Constants
<1> QED BY <1>2, <1>3

LEMMA BookedSound ==
  ASSUME NEW b, Sound(b), NEW ann \in Plan, NEW t \in Times
  PROVE  Sound(Booked(b, ann, t))
<1> DEFINE a == WithoutExpiredRelay(ann, t)
           r == RecordSuccess(b, b.wg)
           f == RefreshFromAnnouncement(r, a, t)
<1>1. a \in Plan
  BY PlanIs
<1>2. r \in Tunnels /\ SameBut(b, r) /\ BookFits(r.paths)
  BY RecordIs, RecordFits DEF Sound
<1> HIDE DEF r, a
<1>3. /\ f \in Tunnels /\ f.installed = r.installed /\ f.wg = r.wg
      /\ f.current = CurrentAmong(r, Kept(r, a, t))
  BY <1>1, <1>2, RefreshIs
<1>4. BookFits(f.paths) /\ Kept(r, a, t) \subseteq Tracked(f)
  BY <1>1, <1>2, RefreshFits
<1> HIDE DEF f
<1>5. Sound(f)
  BY <1>2, <1>3, <1>4 DEF Sound, CurrentAmong, SameBut
<1> QED BY <1>5 DEF Booked, f, r, a

LEMMA StoppedSound == ASSUME NEW b, Sound(b) PROVE Sound(Stopped(b))
<1> DEFINE c == Stopped(b)
<1>1. /\ c.paths = b.paths /\ c.current = b.current /\ c.installed = None
      /\ c.wg = NoPeer /\ c \in Tunnels
  BY Constants DEF Sound, Stopped, Tunnels, NoPeer
<1> HIDE DEF c
<1>2. Sound(c)
  BY <1>1 DEF Sound, Tracked
<1> QED BY <1>2 DEF c

LEMMA DoneIs ==
  ASSUME NEW b, Sound(b), NEW e \in Tracked(b), NEW t \in Times
  PROVE  /\ Sound(Done(b, e, t))
         /\ Done(b, e, t).current = e /\ Done(b, e, t).installed = e
         /\ Done(b, e, t).wg = [endpoint |-> e, handshake_at |-> 0]
         /\ Done(b, e, t).paths = [b.paths EXCEPT ![e] = [b.paths[e] EXCEPT !.selected_at = t]]
<1> DEFINE c == Done(b, e, t)
           new == [b.paths[e] EXCEPT !.selected_at = t]
<1>1. e \in Endpoints /\ b.paths[e] \in TrackedPath /\ b \in Tunnels
  BY DEF Tracked, Sound, Tunnels, PathBook
<1>2. new \in TrackedPath /\ new.source = b.paths[e].source /\ new.success_at = b.paths[e].success_at
  BY <1>1 DEF TrackedPath
<1>3. c = [b EXCEPT !.paths[e] = new, !.current = e, !.installed = e,
                    !.wg = [endpoint |-> e, handshake_at |-> 0],
                    !.contacted = @ \union ({e} \intersect Relays)]
  BY DEF Done
<1> HIDE DEF c, new
<1>4. /\ c.paths = [b.paths EXCEPT ![e] = new] /\ c.current = e /\ c.installed = e
      /\ c.wg = [endpoint |-> e, handshake_at |-> 0]
      /\ c.contacted = b.contacted \union ({e} \intersect Relays)
      /\ c \in [paths : {c.paths}, current : {c.current}, installed : {c.installed},
                wg : {c.wg}, contacted : {c.contacted}]
  BY <1>1, <1>3 DEF Tunnels
<1>5. c.paths \in PathBook
  BY <1>1, <1>2, <1>4 DEF Tunnels, PathBook
<1>6. c.wg \in [endpoint : Endpoints \union {None}, handshake_at : Times]
  BY <1>1, <1>4, Constants
<1>7. c.contacted \subseteq Relays
  BY <1>1, <1>4 DEF Tunnels
<1>8. c \in Tunnels
  BY <1>1, <1>4, <1>5, <1>6, <1>7 DEF Tunnels
<1>9. \A x \in Endpoints : c.paths[x] = IF x = e THEN new ELSE b.paths[x]
  BY <1>1, <1>4 DEF Tunnels, PathBook
<1>10. \A x \in Endpoints : PathFits(x, c.paths[x])
  <2>1. \A x \in Endpoints : PathFits(x, b.paths[x])
    BY DEF Sound, BookFits
  <2>2. PathFits(e, new)
    BY <1>1, <1>2, <2>1, Constants DEF PathFits
  <2> QED BY <1>9, <2>1, <2>2
<1>11. e \in Tracked(c) /\ e # None
  BY <1>1, <1>2, <1>9, Constants DEF Tracked
<1>12. Sound(c)
  BY <1>4, <1>5, <1>8, <1>10, <1>11 DEF Sound, BookFits
<1> QED BY <1>4, <1>12 DEF c, new

LEMMA ApplySound ==
  ASSUME NEW b, Sound(b), NEW ann \in Plan \union {None}, NEW t \in Times, NEW c \in Apply(b, ann, t)
  PROVE  Sound(c)
<1>1. CASE ann = None
  BY <1>1, StoppedSound DEF Apply
<1>2. CASE ann # None
  <2> DEFINE book == Booked(b, ann, t)
             a == WithoutExpiredRelay(ann, t)
  <2>1. Sound(book)
    BY <1>2, BookedSound
  <2>2. PICK p \in Preferred(book, a) :
           \/ c = Stopped(book) \/ c = book \/ c = Done(book, Select(book, t, p), t)
    BY <1>2, ApplyIs
  <2> HIDE DEF book, a
  <2>3. Select(book, t, p) \in Tracked(book)
    BY SelectIs DEF Preferred
  <2>4. Sound(Stopped(book)) /\ Sound(Done(book, Select(book, t, p), t))
    BY <2>1, <2>3, StoppedSound, DoneIs
  <2> QED BY <2>1, <2>2, <2>4
<1> QED BY <1>1, <1>2

LEMMA UpdateSound ==
  ASSUME NEW b, Sound(b), NEW k \in Announcement \union {None}, NEW ls \in OwnRelays \union {None},
         NEW t \in Times, NEW c \in ApplyUpdate(b, k, ls, t)
  PROVE  Sound(c)
<1>1. EffectiveAnn(k, ls, t) \in Plan \union {None}
  BY EffectiveIs DEF EffectiveAnn
<1> QED BY <1>1, ApplySound DEF ApplyUpdate

LEMMA PunchSound ==
  ASSUME NEW bs, \A b \in bs : Sound(b), NEW ann \in Announcement \union {None}, NEW t \in Times,
         NEW c \in NatPunch(bs, ann, t)
  PROVE  Sound(c)
<1>1. PICK b \in bs : c \in Apply(Stopped(b), ann, t)
  BY DEF NatPunch
<1>2. ann \in Plan \union {None}
  BY Constants
<1> QED BY <1>1, <1>2, StoppedSound, ApplySound

(* What is pruned leaves the book; the rest stays as it is. *)
LEMMA PruneIs ==
  ASSUME NEW b \in Tunnels, NEW t, NEW timeout
  PROVE  LET c == PrunePaths(b, t, timeout)
             fresh == {e \in Tracked(b) : FreshnessAt(b.paths[e]) > Cutoff(t, timeout)}
         IN /\ c.paths = [e \in Endpoints |-> IF e \in fresh THEN b.paths[e] ELSE None]
            /\ c.current = IF b.current \in fresh THEN b.current ELSE None
            /\ c.installed = b.installed /\ c.wg = b.wg /\ c.contacted = b.contacted
            /\ Tracked(c) = fresh /\ c \in Tunnels
<1> DEFINE c == PrunePaths(b, t, timeout)
           fresh == {e \in Tracked(b) : FreshnessAt(b.paths[e]) > Cutoff(t, timeout)}
           paths == [e \in Endpoints |-> IF e \in fresh THEN b.paths[e] ELSE None]
<1>1. c = [b EXCEPT !.paths = paths, !.current = IF b.current \in fresh THEN b.current ELSE None]
  BY DEF PrunePaths, CurrentAmong
<1>2. fresh \subseteq Endpoints /\ paths \in PathBook /\ \A e \in fresh : b.paths[e] # None
  BY DEF Tracked, Tunnels, PathBook
<1>3. \A e \in Endpoints : paths[e] = IF e \in fresh THEN b.paths[e] ELSE None
  OBVIOUS
<1> HIDE DEF c, fresh, paths
<1>4. /\ c.paths = paths /\ c.current = IF b.current \in fresh THEN b.current ELSE None
      /\ c.installed = b.installed /\ c.wg = b.wg /\ c.contacted = b.contacted /\ c \in Tunnels
  BY <1>1, <1>2 DEF Tunnels
<1>5. Tracked(c) = fresh
  BY <1>2, <1>3, <1>4 DEF Tracked
<1> QED BY <1>4, <1>5 DEF c, fresh, paths

LEMMA PruneFits ==
  ASSUME NEW b \in Tunnels, BookFits(b.paths), NEW t, NEW timeout
  PROVE  BookFits(PrunePaths(b, t, timeout).paths)
         /\ PrunePaths(b, t, timeout).current \in Tracked(PrunePaths(b, t, timeout)) \union {None}
<1> DEFINE c == PrunePaths(b, t, timeout)
           fresh == {e \in Tracked(b) : FreshnessAt(b.paths[e]) > Cutoff(t, timeout)}
<1>1. /\ c.paths = [e \in Endpoints |-> IF e \in fresh THEN b.paths[e] ELSE None]
      /\ c.current = IF b.current \in fresh THEN b.current ELSE None
      /\ Tracked(c) = fresh /\ c \in Tunnels
  BY PruneIs
<1> HIDE DEF c, fresh
<1>2. BookFits(c.paths)
  BY <1>1 DEF BookFits, PathFits, Tunnels
<1> QED BY <1>1, <1>2 DEF c

LEMMA PruneSound ==
  ASSUME NEW b, Sound(b), NEW t, NEW timeout
  PROVE  Sound(PrunePaths(b, t, timeout))
<1> DEFINE c == PrunePaths(b, t, timeout)
           fresh == {e \in Tracked(b) : FreshnessAt(b.paths[e]) > Cutoff(t, timeout)}
<1>1. b \in Tunnels /\ BookFits(b.paths)
  BY DEF Sound
<1>2. /\ c.paths = [e \in Endpoints |-> IF e \in fresh THEN b.paths[e] ELSE None]
      /\ c.current = IF b.current \in fresh THEN b.current ELSE None
      /\ c.installed = b.installed /\ c.wg = b.wg /\ c.contacted = b.contacted
      /\ Tracked(c) = fresh /\ c \in Tunnels
  BY <1>1, PruneIs
<1>3. BookFits(c.paths) /\ c.current \in Tracked(c) \union {None}
  BY <1>1, PruneFits
<1> HIDE DEF c, fresh
<1>4. Sound(c)
  BY <1>2, <1>3 DEF Sound
<1> QED BY <1>4 DEF c

(* The invariant: the tunnel is sound, a paused session has no lease and no *)
(* current endpoint, and the cache holds what may be restored.              *)
PresenceTyped(p) ==
  p.active \in Announcement \union {None} /\ p.known \in Announcement \union {None} /\ p.seen \in Times
CacheTyped ==
  cache # None =>
    /\ cache.announcement \in Announcement /\ cache.seen \in Times
    /\ BookFits(cache.paths) /\ cache.current \in Tracked(cache) \union {None}
TypeInv ==
  /\ now \in 1 .. MaxTime /\ lease \in OwnRelays \union {None}
  /\ PresenceTyped(presence) /\ Sound(tunnel) /\ CacheTyped
  /\ enabled \in BOOLEAN /\ connected \in BOOLEAN /\ subnet \in BOOLEAN
  /\ events \in 0 .. MaxEvents
  /\ ~enabled => lease = None /\ tunnel.current = None

LEMMA TypeInit == Init => TypeInv
<1> SUFFICES ASSUME Init PROVE TypeInv
  OBVIOUS
<1>1. Sound(tunnel)
  <2>1. tunnel \in Tunnels
    BY Constants DEF Init, EmptyTunnel, NoPeer, Tunnels, PathBook
  <2> QED BY <2>1 DEF Init, EmptyTunnel, NoPeer, Sound, BookFits, PathFits, Tunnels
<1>2. now \in 1 .. MaxTime /\ events \in 0 .. MaxEvents
  BY TimesAssumption DEF Init
<1>3. PresenceTyped(presence)
  BY Constants DEF Init, NoPresence, PresenceTyped
<1> QED BY <1>1, <1>2, <1>3 DEF Init, TypeInv, CacheTyped

LEMMA RestoredSound ==
  ASSUME TypeInv, NEW b, Sound(b), b.installed = None, b.current = None
  PROVE  Sound(RestoredTunnel(b))
<1>1. CASE ~Restorable
  BY <1>1 DEF RestoredTunnel
<1>2. CASE Restorable
  <2> DEFINE c == [b EXCEPT !.paths = cache.paths, !.current = cache.current]
  <2>1. BookFits(cache.paths) /\ cache.current \in Tracked(cache) \union {None}
    BY <1>2 DEF TypeInv, CacheTyped, Restorable
  <2>2. cache.paths \in PathBook /\ cache.current \in Endpoints \union {None}
    BY <2>1 DEF BookFits, Tracked
  <2>3. /\ c \in Tunnels /\ c.paths = cache.paths /\ c.current = cache.current
        /\ c.installed = None /\ c.wg = NoPeer
    BY <2>2 DEF Sound, Tunnels
  <2> HIDE DEF c
  <2>4. Sound(c)
    BY <2>1, <2>3 DEF Sound, Tracked
  <2>5. RestoredTunnel(b) = PrunePaths(c, now, PathCacheTimeout)
    BY <1>2 DEF RestoredTunnel, c
  <2> QED BY <2>4, <2>5, PruneSound
<1> QED BY <1>1, <1>2

LEMMA RestoredPresenceTyped == ASSUME TypeInv PROVE PresenceTyped(RestoredPresence)
BY Constants DEF TypeInv, CacheTyped, PresenceTyped, RestoredPresence, Restorable, NoPresence

(* The end of the state arm keeps the types. *)
LEMMA HousekeepingTyped ==
  ASSUME TypeInv, NEW p, PresenceTyped(p), NEW b, Sound(b), NEW ls \in OwnRelays \union {None},
         Housekeeping(p, b, ls), now' = now
  PROVE  PresenceTyped(presence') /\ Sound(tunnel') /\ CacheTyped'
<1> DEFINE q == IF enabled' THEN PrunePresence(p) ELSE p
           c == IF enabled' THEN PrunePaths(b, now, PathTimeout) ELSE b
<1>1. PresenceTyped(q) /\ q.known = p.known
  BY DEF PrunePresence, PresenceTyped
<1>2. Sound(c)
  BY PruneSound
<1>3. presence' = q /\ cache' = Cached(presence', tunnel')
      /\ tunnel' \in IF q = p /\ c.paths = b.paths THEN {c} ELSE ApplyUpdate(c, q.known, ls, now)
  BY DEF Housekeeping
<1> HIDE DEF q, c
<1>4. Sound(tunnel')
  <2>1. now \in Times /\ q.known \in Announcement \union {None}
    BY <1>1, Constants DEF TypeInv, PresenceTyped
  <2> QED BY <1>2, <1>3, <2>1, UpdateSound
<1>5. CacheTyped'
  <2>1. CASE cache' = None
    BY <2>1 DEF CacheTyped
  <2>2. CASE cache' = cache
    BY <2>2 DEF TypeInv, CacheTyped, Tracked
  <2>3. CASE /\ q.known # None
             /\ cache' = [announcement |-> q.known, seen |-> q.seen,
                          cached_at |-> Largest({q.seen, tunnel'.wg.handshake_at, q.known.timestamp}),
                          paths |-> tunnel'.paths, current |-> tunnel'.current]
    <3>1. /\ cache'.announcement = q.known /\ cache'.seen = q.seen
          /\ cache'.paths = tunnel'.paths /\ cache'.current = tunnel'.current
      BY <2>3
    <3>2. Tracked(cache') = Tracked(tunnel')
      BY <3>1 DEF Tracked
    <3>3. /\ cache'.announcement \in Announcement /\ cache'.seen \in Times
          /\ BookFits(cache'.paths) /\ cache'.current \in Tracked(cache') \union {None}
      BY <1>1, <1>4, <2>3, <3>1, <3>2 DEF PresenceTyped, Sound
    <3>4. (Tracked(cache))' = Tracked(cache')
      BY DEF Tracked
    <3> QED BY <3>3, <3>4 DEF CacheTyped
  <2> QED BY <1>3, <2>1, <2>2, <2>3 DEF Cached
<1> QED BY <1>1, <1>3, <1>4, <1>5

LEMMA TypeStep == TypeInv /\ KnownInv /\ [Next]_vars => TypeInv'
<1> SUFFICES ASSUME TypeInv, KnownInv, [Next]_vars PROVE TypeInv'
  OBVIOUS
<1>0. /\ now \in Times /\ Sound(tunnel) /\ PresenceTyped(presence) /\ lease \in OwnRelays \union {None}
      /\ (enabled /\ presence.known # None) \/ presence.known = None
      /\ presence.known \in Announcement \union {None} /\ presence.active \in Announcement \union {None}
      /\ 0 \in Times
  BY Constants DEF TypeInv, KnownInv, PresenceTyped
<1>e. Event => events' \in 0 .. MaxEvents
  <2>1. MaxEvents \in Nat
    BY TimesAssumption
  <2> QED BY <2>1 DEF Event, TypeInv
<1> DEFINE Rest == /\ now' \in 1 .. MaxTime /\ lease' \in OwnRelays \union {None}
                   /\ connected' \in BOOLEAN /\ subnet' \in BOOLEAN /\ events' \in 0 .. MaxEvents
<1>c. UNCHANGED cache => CacheTyped'
  BY DEF TypeInv, CacheTyped, Tracked
<1>f. ASSUME enabled' = TRUE, Rest, PresenceTyped(presence'), Sound(tunnel'), CacheTyped' PROVE TypeInv'
  BY <1>f DEF TypeInv
<1>1. CASE Tick \/ Connect \/ LoseConnection \/ Move
  <2>1. now' \in 1 .. MaxTime
    BY <1>1, TimesAssumption DEF Tick, Connect, LoseConnection, Move, TypeInv
  <2>2. UNCHANGED <<presence, tunnel, lease, cache, enabled>>
    BY <1>1 DEF Tick, Connect, LoseConnection, Move
  <2>3. connected' \in BOOLEAN /\ subnet' \in BOOLEAN /\ events' \in 0 .. MaxEvents
    BY <1>1, <1>e DEF Tick, Connect, LoseConnection, Move, TypeInv
  <2> QED BY <1>0, <1>c, <2>1, <2>2, <2>3 DEF TypeInv
<1>2. CASE ReceiveHello
  <2>1. PresenceTyped(presence')
    BY <1>0, <1>2 DEF ReceiveHello, PresenceTyped, KnownInv, PresenceOK
  <2> QED BY <1>0, <1>2, <1>c, <1>e, <2>1 DEF ReceiveHello, TypeInv
<1>3. CASE ReceiveDisconnect
  <2>1. PresenceTyped(presence')
    BY <1>0, <1>3 DEF ReceiveDisconnect, PresenceTyped
  <2>2. Sound(tunnel')
    BY <1>0, <1>3, StoppedSound DEF ReceiveDisconnect
  <2> QED BY <1>0, <1>3, <1>c, <1>e, <2>1, <2>2 DEF ReceiveDisconnect, TypeInv
<1>4. ASSUME NEW ann \in Announcements, NEW punch \in BOOLEAN, ReceiveAnnounce(ann, punch)
      PROVE  TypeInv'
  <2> DEFINE applied == ApplyUpdate(tunnel, presence'.known, lease, now)
  <2>0. ann \in Announcement
    BY Constants
  <2>1. PresenceTyped(presence')
    BY <1>0, <1>4, <2>0 DEF ReceiveAnnounce, Announced, PresenceTyped
  <2>2. \A b \in applied : Sound(b)
    BY <1>0, <2>1, UpdateSound DEF PresenceTyped
  <2>3. tunnel' \in NatPunch(applied, ann, now) \/ tunnel' \in applied \/ tunnel' = tunnel
    BY <1>4 DEF ReceiveAnnounce
  <2> HIDE DEF applied
  <2>4. Sound(tunnel')
    BY <1>0, <2>0, <2>2, <2>3, PunchSound
  <2> QED BY <1>0, <1>4, <1>c, <1>e, <2>1, <2>4 DEF ReceiveAnnounce, TypeInv
<1>5. ASSUME NEW r \in OwnRelays, GrantLease(r) PROVE TypeInv'
  <2>1. tunnel' \in ApplyUpdate(tunnel, presence.known, r, now)
    BY <1>5 DEF GrantLease
  <2>2. Sound(tunnel')
    BY <1>0, <2>1, UpdateSound
  <2> QED BY <1>0, <1>5, <1>c, <1>e, <2>2 DEF GrantLease, TypeInv
<1>6. ASSUME NEW punch \in BOOLEAN, AnnounceArm(punch) PROVE TypeInv'
  <2> DEFINE applied == IF lease' = lease THEN {tunnel}
                        ELSE ApplyUpdate(tunnel, presence.known, lease', now)
  <2>0. lease' \in OwnRelays \union {None}
    BY <1>0, <1>6 DEF AnnounceArm
  <2>1. \A b \in applied : Sound(b)
    BY <1>0, <2>0, UpdateSound
  <2>2. tunnel' \in NatPunch(applied, presence.active, now) \/ tunnel' \in applied
    BY <1>6 DEF AnnounceArm
  <2> HIDE DEF applied
  <2>3. Sound(tunnel')
    BY <1>0, <2>1, <2>2, PunchSound
  <2>4. events' \in 0 .. MaxEvents
    BY <1>6, <1>e DEF AnnounceArm, TypeInv
  <2> QED BY <1>0, <1>6, <1>c, <2>0, <2>3, <2>4 DEF AnnounceArm, TypeInv
<1>7. ASSUME NEW punch \in BOOLEAN, Heartbeat(punch) PROVE TypeInv'
  <2>1. PICK b \in IF punch THEN NatPunch({tunnel}, presence.known, now) ELSE {tunnel} :
           tunnel' \in ApplyUpdate(b, presence.known, lease, now)
    BY <1>7 DEF Heartbeat
  <2>2. Sound(b)
    BY <1>0, <2>1, PunchSound
  <2>3. Sound(tunnel')
    BY <1>0, <2>1, <2>2, UpdateSound
  <2>4. events' \in 0 .. MaxEvents
    BY <1>7, <1>e DEF Heartbeat, TypeInv
  <2> QED BY <1>0, <1>7, <1>c, <2>3, <2>4 DEF Heartbeat, TypeInv
<1>8. ASSUME NEW changed \in BOOLEAN, NEW punch \in BOOLEAN, NetworkArm(changed, punch)
      PROVE  TypeInv'
  <2> DEFINE applied == IF changed THEN ApplyUpdate(tunnel, presence.known, lease, now)
                        ELSE {tunnel}
  <2>1. \A b \in applied : Sound(b)
    BY <1>0, UpdateSound
  <2>2. /\ punch => tunnel' \in NatPunch(applied, DirectAnnouncement, now)
        /\ ~punch => tunnel' \in applied
    BY <1>8 DEF NetworkArm
  <2>3. DirectAnnouncement \in Announcement \union {None}
    BY <1>0 DEF DirectAnnouncement
  <2>4. ~enabled => ~punch /\ (changed => tunnel' = Stopped(tunnel)) /\ (~changed => tunnel' = tunnel)
    <3> SUFFICES ASSUME ~enabled
                 PROVE  ~punch /\ (changed => tunnel' = Stopped(tunnel)) /\ (~changed => tunnel' = tunnel)
      OBVIOUS
    <3>1. ~punch /\ presence.known = None
      BY <1>0, <1>8 DEF NetworkArm
    <3>2. ApplyUpdate(tunnel, presence.known, lease, now) = {Stopped(tunnel)}
      BY <3>1 DEF ApplyUpdate, EffectiveAnn, Apply
    <3> QED BY <2>2, <3>1, <3>2
  <2> HIDE DEF applied
  <2>5. Sound(tunnel')
    BY <1>0, <2>1, <2>2, <2>3, PunchSound
  <2>6. events' \in 0 .. MaxEvents
    BY <1>8, <1>e DEF NetworkArm, TypeInv
  <2>7. ~enabled => lease = None /\ tunnel'.current = None
    <3>1. Stopped(tunnel).current = tunnel.current
      BY <1>0 DEF Stopped, Sound, Tunnels
    <3> QED BY <2>4, <3>1 DEF TypeInv
  <2> QED BY <1>0, <1>8, <1>c, <2>5, <2>6, <2>7 DEF NetworkArm, TypeInv
<1>9. ASSUME NEW ls \in OwnRelays \union {None}, StateArm(ls) PROVE TypeInv'
  <2>1. PICK b \in IF ls = lease THEN {tunnel} ELSE ApplyUpdate(tunnel, presence.known, ls, now) :
           Housekeeping(presence, b, ls)
    BY <1>9 DEF StateArm
  <2>2. Sound(b)
    BY <1>0, <2>1, UpdateSound
  <2>3. PresenceTyped(presence') /\ Sound(tunnel') /\ CacheTyped'
    BY <1>0, <1>9, <2>1, <2>2, HousekeepingTyped DEF StateArm
  <2>4. events' \in 0 .. MaxEvents
    BY <1>9, <1>e DEF StateArm, TypeInv
  <2>5. ~enabled => ls = None /\ tunnel' = tunnel
    <3> SUFFICES ASSUME ~enabled PROVE ls = None /\ tunnel' = tunnel
      OBVIOUS
    <3>1. ls = lease /\ lease = None
      BY <1>9 DEF StateArm, TypeInv
    <3>2. b = tunnel /\ ~enabled'
      BY <1>9, <2>1, <3>1 DEF StateArm
    <3> QED BY <2>1, <3>1, <3>2 DEF Housekeeping
  <2> QED BY <1>0, <1>9, <2>3, <2>4, <2>5 DEF StateArm, TypeInv
<1>10. CASE Pause
  <2>1. tunnel' = [EmptyTunnel EXCEPT !.contacted = tunnel.contacted]
    BY <1>10 DEF Pause
  <2>2. tunnel.contacted \subseteq Relays
    BY <1>0 DEF Sound, Tunnels
  <2>3. tunnel' \in Tunnels
    BY <2>1, <2>2, Constants DEF EmptyTunnel, NoPeer, Tunnels, PathBook
  <2>4. Sound(tunnel') /\ tunnel'.current = None
    BY <2>1, <2>3 DEF EmptyTunnel, NoPeer, Sound, BookFits, PathFits, Tunnels
  <2>5. PresenceTyped(presence')
    BY <1>10, Constants DEF Pause, NoPresence, PresenceTyped
  <2> QED BY <1>0, <1>10, <1>c, <1>e, <2>4, <2>5 DEF Pause, TypeInv
<1>11. CASE Resume
  <2>1. PICK b \in ApplyUpdate(RestoredTunnel(tunnel), RestoredPresence.known, lease, now) :
           Housekeeping(RestoredPresence, b, lease)
    BY <1>11 DEF Resume
  <2>2. tunnel.installed = None /\ tunnel.current = None
    BY <1>0, <1>11 DEF Resume, TypeInv, KnownInv, Fits
  <2>3. Sound(RestoredTunnel(tunnel))
    BY <1>0, <2>2, RestoredSound
  <2>4. PresenceTyped(RestoredPresence)
    BY RestoredPresenceTyped
  <2>5. Sound(b)
    BY <1>0, <2>1, <2>3, <2>4, UpdateSound DEF PresenceTyped
  <2>6. PresenceTyped(presence') /\ Sound(tunnel') /\ CacheTyped'
    BY <1>0, <1>11, <2>1, <2>4, <2>5, HousekeepingTyped DEF Resume
  <2> QED BY <1>0, <1>11, <2>6 DEF Resume, TypeInv
<1>12. ASSUME NEW punch \in BOOLEAN, Restart(punch) PROVE TypeInv'
  <2> DEFINE fresh == [EmptyTunnel EXCEPT !.contacted = tunnel.contacted]
             applied == ApplyUpdate(RestoredTunnel(fresh), presence'.known, None, now)
  <2>1. Sound(fresh) /\ fresh.installed = None /\ fresh.current = None
    <3>1. tunnel.contacted \subseteq Relays
      BY <1>0 DEF Sound, Tunnels
    <3>2. fresh \in Tunnels
      BY <3>1, Constants DEF EmptyTunnel, NoPeer, Tunnels, PathBook
    <3> QED BY <3>2 DEF EmptyTunnel, NoPeer, Sound, BookFits, PathFits, Tunnels
  <2>2. tunnel' \in NatPunch(applied, presence'.known, now) \/ tunnel' \in applied
    BY <1>12 DEF Restart
  <2> HIDE DEF fresh
  <2>3. PresenceTyped(presence')
    BY <1>12, RestoredPresenceTyped DEF Restart
  <2>4. \A b \in applied : Sound(b)
    BY <1>0, <2>1, <2>3, RestoredSound, UpdateSound DEF PresenceTyped
  <2> HIDE DEF applied
  <2>5. Sound(tunnel')
    BY <1>0, <2>2, <2>3, <2>4, PunchSound DEF PresenceTyped
  <2> QED BY <1>0, <1>12, <1>c, <1>e, <2>3, <2>5 DEF Restart, TypeInv
<1>13. ASSUME NEW e \in Endpoints, NEW handshake \in BOOLEAN, Hear(e, handshake) PROVE TypeInv'
  <2> DEFINE at == IF handshake THEN now ELSE tunnel.wg.handshake_at
             w == [endpoint |-> e, handshake_at |-> at]
  <2>1. tunnel' = [tunnel EXCEPT !.wg = w] /\ tunnel.wg.endpoint # None
    BY <1>13 DEF Hear
  <2>2. at \in Times /\ tunnel \in Tunnels
    BY <1>0 DEF Sound, Tunnels
  <2> HIDE DEF at
  <2>3. w \in [endpoint : Endpoints \union {None}, handshake_at : Times]
    BY <2>2
  <2> HIDE DEF w
  <2>4. /\ tunnel' \in Tunnels /\ tunnel'.paths = tunnel.paths /\ tunnel'.current = tunnel.current
        /\ tunnel'.installed = tunnel.installed
    BY <2>1, <2>2, <2>3 DEF Tunnels
  <2>5. tunnel.installed # None
    BY <1>0, <2>1 DEF Sound, NoPeer
  <2>6. Sound(tunnel')
    BY <1>0, <2>4, <2>5 DEF Sound, Tracked
  <2> QED BY <1>0, <1>13, <1>c, <1>e, <2>4, <2>6 DEF Hear, TypeInv
<1>14. CASE UNCHANGED vars
  BY <1>0, <1>14, <1>c DEF vars, TypeInv
<1> QED
  BY <1>1, <1>2, <1>3, <1>4, <1>5, <1>6, <1>7, <1>8, <1>9, <1>10, <1>11, <1>12, <1>13, <1>14 DEF Next

(* Whatever the peer announces, whichever leases end and however often the  *)
(* daemon pauses, restarts and punches: presence, path book, tunnel, lease  *)
(* and clock have their types, the book's current endpoint is one it tracks *)
(* and WireGuard's is no other (PeerPathBook, CliTunnelRuntime::apply).     *)
THEOREM PathsTypeCorrect == Spec => []TypeOK
<1>1. Init => TypeInv /\ KnownInv
  BY TypeInit, KnownInit
<1>2. TypeInv /\ KnownInv /\ [Next]_vars => (TypeInv /\ KnownInv)'
  BY TypeStep, KnownStep
<1>3. TypeInv => TypeOK
  BY DEF TypeInv, PresenceTyped, Sound, Tunnels, PathBook, TypeOK
<1> QED BY <1>1, <1>2, <1>3, PTL DEF Spec

-----------------------------------------------------------------------------
(* What is preferred, and what the choice makes of it.                      *)

LEMMA SuccessIs ==
  ASSUME NEW b \in Tunnels, NEW e \in Tracked(b)
  PROVE  /\ SuccessAt(b, e) \in Nat
         /\ SuccessAt(b, e) = IF e = LocalEp /\ ~subnet THEN 0 ELSE b.paths[e].success_at
<1>1. b.paths[e] \in TrackedPath
  BY DEF Tracked, Tunnels, PathBook
<1>2. b.paths[e].success_at \in Nat
  BY <1>1, TimesAreNumbers DEF TrackedPath
<1> QED BY <1>2 DEF SuccessAt

LEMMA PreferredIs ==
  ASSUME NEW b \in Tunnels, NEW ann, NEW p \in Preferred(b, ann), NEW f \in Tracked(b)
  PROVE  /\ p \in Tracked(b)
         /\ SuccessAt(b, p) >= SuccessAt(b, f)
         /\ SuccessAt(b, p) = SuccessAt(b, f) =>
              /\ SourceRank(p, b.paths[p].source) >= SourceRank(f, b.paths[f].source)
              /\ SourceRank(p, b.paths[p].source) = SourceRank(f, b.paths[f].source)
                 /\ f = DefaultEndpoint(ann) => p = DefaultEndpoint(ann)
<1> DEFINE rank == [e \in Tracked(b) |-> CandidateRank(b, ann, e)]
           k == CandidateRank(b, ann, p)
           l == CandidateRank(b, ann, f)
<1>1. p \in Tracked(b) /\ ~RanksBelow(rank[p], rank[f])
  BY DEF Preferred
<1>2. ~RanksBelow(k, l)
  BY <1>1
<1>3. /\ k[1] = SuccessAt(b, p) /\ k[2] = SourceRank(p, b.paths[p].source)
      /\ k[3] = IF p = DefaultEndpoint(ann) THEN 1 ELSE 0
      /\ l[1] = SuccessAt(b, f) /\ l[2] = SourceRank(f, b.paths[f].source)
      /\ l[3] = IF f = DefaultEndpoint(ann) THEN 1 ELSE 0
  BY DEF CandidateRank
<1> HIDE DEF k, l, rank
<1>4. /\ ~(k[1] < l[1])
      /\ ~(k[2] < l[2] /\ k[1] = l[1])
      /\ ~(k[3] < l[3] /\ k[1] = l[1] /\ k[2] = l[2])
  <2>1. \A i \in 1 .. 4 : ~(k[i] < l[i] /\ \A j \in 1 .. i - 1 : k[j] = l[j])
    BY <1>2 DEF RanksBelow
  <2>2. (\A j \in 1 .. 1 - 1 : k[j] = l[j])
    OBVIOUS
  <2>3. k[1] = l[1] => \A j \in 1 .. 2 - 1 : k[j] = l[j]
    OBVIOUS
  <2>4. k[1] = l[1] /\ k[2] = l[2] => \A j \in 1 .. 3 - 1 : k[j] = l[j]
    OBVIOUS
  <2> QED BY <2>1, <2>2, <2>3, <2>4
<1>5. SuccessAt(b, p) \in Nat /\ SuccessAt(b, f) \in Nat
  BY <1>1, SuccessIs
<1>6. k[2] \in Nat /\ l[2] \in Nat
  BY <1>3 DEF SourceRank
<1>7. SuccessAt(b, p) >= SuccessAt(b, f)
  BY <1>3, <1>4, <1>5
<1>8. k[1] = l[1] => k[2] >= l[2]
  BY <1>4, <1>6
<1>9. k[1] = l[1] /\ k[2] = l[2] /\ f = DefaultEndpoint(ann) => p = DefaultEndpoint(ann)
  BY <1>3, <1>4
<1> QED BY <1>1, <1>3, <1>7, <1>8, <1>9

(* An endpoint booked as a relay is the one that is announced. *)
LEMMA BookedRelays ==
  ASSUME NEW b, Sound(b), NEW ann \in Plan, NEW t \in Times,
         NEW e \in Tracked(Booked(b, ann, t)), Booked(b, ann, t).paths[e].source = "relay"
  PROVE  e = WithoutExpiredRelay(ann, t).relay
<1> DEFINE a == WithoutExpiredRelay(ann, t)
           r == RecordSuccess(b, b.wg)
           f == RefreshFromAnnouncement(r, a, t)
           kept == Kept(r, a, t)
<1>1. a \in Plan /\ r \in Tunnels
  BY PlanIs, RecordIs DEF Sound
<1>2. e \in Endpoints /\ f.paths[e] # None /\ f.paths[e].source = "relay"
  BY DEF Booked, Tracked
<1>3. IF e \in kept THEN Renewed(e, r.paths[e], f.paths[e], a, t)
      ELSE IF e \in AnnouncedEndpoints(a) THEN f.paths[e] = NewPath(AnnouncedSource(a, e), t)
           ELSE f.paths[e] = None
  BY <1>1, <1>2, RefreshIs
<1>4. e \in kept /\ r.paths[e].source = "relay" => e = a.relay
  BY DEF Kept
<1>5. e \in kept => r.paths[e].source \in Source
  BY <1>1 DEF Kept, Tracked, Tunnels, PathBook, TrackedPath
<1>6. e \in AnnouncedEndpoints(a) /\ AnnouncedSource(a, e) = "relay" => e = a.relay
  BY DEF AnnouncedEndpoints, AnnouncedSource
<1>7. e \in AnnouncedEndpoints(a) => AnnouncedSource(a, e) \in Source
  BY <1>1, AnnouncedAre
<1> HIDE DEF f, r, kept, a
<1>8. ASSUME e \in kept PROVE e = a.relay
  <2>1. CASE f.paths[e].source = r.paths[e].source
    BY <1>2, <1>4, <1>8, <2>1
  <2>2. CASE e \in AnnouncedEndpoints(a)
             /\ f.paths[e].source = Merge(r.paths[e].source, AnnouncedSource(a, e))
    <3>1. "relay" \in {r.paths[e].source, AnnouncedSource(a, e)}
      BY <1>2, <1>5, <1>7, <1>8, <2>2, MergeIs
    <3> QED BY <1>4, <1>6, <1>8, <2>2, <3>1
  <2> QED BY <1>3, <1>8, <2>1, <2>2 DEF Renewed
<1>9. ASSUME e \notin kept PROVE e = a.relay
  BY <1>2, <1>3, <1>6, <1>9 DEF NewPath
<1> QED BY <1>8, <1>9 DEF a

(* What the book knows after an announcement: what it kept is as it was,    *)
(* but for a success of the last handshake.                                 *)
LEMMA BookedIs ==
  ASSUME NEW b, Sound(b), NEW ann \in Plan, NEW t \in Times
  PROVE  LET a == WithoutExpiredRelay(ann, t)
             r == RecordSuccess(b, b.wg)
             book == Booked(b, ann, t)
         IN /\ Sound(book) /\ book.installed = b.installed /\ book.wg = b.wg
            /\ book.current = CurrentAmong(r, Kept(r, a, t)) /\ r.current = b.current
            /\ AnnouncedEndpoints(a) \subseteq Tracked(book)
            /\ Kept(r, a, t) \subseteq Tracked(book)
            /\ \A e \in Kept(r, a, t) : Renewed(e, r.paths[e], book.paths[e], a, t)
            /\ \A e \in Tracked(book) \ Kept(r, a, t) :
                  e \in AnnouncedEndpoints(a) /\ book.paths[e] = NewPath(AnnouncedSource(a, e), t)
<1> DEFINE a == WithoutExpiredRelay(ann, t)
           r == RecordSuccess(b, b.wg)
           kept == Kept(r, a, t)
           f == RefreshFromAnnouncement(r, a, t)
<1>1. a \in Plan
  BY PlanIs
<1>2. r \in Tunnels /\ SameBut(b, r) /\ BookFits(r.paths)
  BY RecordIs, RecordFits DEF Sound
<1>3. Sound(f)
  BY BookedSound DEF Booked
<1>4. kept \subseteq Endpoints
  BY DEF Kept, Tracked
<1> HIDE DEF r, a
<1>5. AnnouncedEndpoints(a) \subseteq Tracked(f) /\ kept \subseteq Tracked(f)
  BY <1>1, <1>2, RefreshFits
<1>6. /\ f.installed = r.installed /\ f.wg = r.wg /\ f.current = CurrentAmong(r, kept)
      /\ \A e \in Endpoints :
           IF e \in kept THEN Renewed(e, r.paths[e], f.paths[e], a, t)
           ELSE IF e \in AnnouncedEndpoints(a)
                THEN f.paths[e] = NewPath(AnnouncedSource(a, e), t)
                ELSE f.paths[e] = None
  BY <1>1, <1>2, RefreshIs
<1>7. Booked(b, ann, t) = f
  BY DEF Booked, r, a
<1> HIDE DEF f, kept
<1>8. \A e \in Tracked(f) \ kept :
         e \in AnnouncedEndpoints(a) /\ f.paths[e] = NewPath(AnnouncedSource(a, e), t)
  BY <1>6 DEF Tracked
<1>9. \A e \in kept : Renewed(e, r.paths[e], f.paths[e], a, t)
  BY <1>4, <1>6
<1> QED BY <1>2, <1>3, <1>5, <1>6, <1>7, <1>8, <1>9 DEF SameBut, r, a, kept

-----------------------------------------------------------------------------
(* A live relay is tried.                                                   *)

LEMMA SuccessKept ==
  ASSUME NEW b, Sound(b), NEW e \in Tracked(b), NEW t \in Times, NEW c, NEW f \in Tracked(b),
         c \in {b, Stopped(b), Done(b, e, t)}
  PROVE  /\ f \in Tracked(c) /\ c.paths[f].source = b.paths[f].source
         /\ SuccessAt(c, f) = SuccessAt(b, f) /\ c.paths[f].success_at = b.paths[f].success_at
         /\ Tracked(c) = Tracked(b)
<1>1. \A x \in Tracked(b) : x \in Endpoints /\ b.paths[x] \in TrackedPath /\ b.paths[x] # None
  BY DEF Tracked, Sound, Tunnels, PathBook
<1>2. CASE c = b
  BY <1>2
<1>3. CASE c = Stopped(b)
  <2>1. c.paths = b.paths
    BY <1>3 DEF Stopped, Sound, Tunnels
  <2> QED BY <1>1, <2>1 DEF Tracked, SuccessAt
<1>4. CASE c = Done(b, e, t)
  <2> DEFINE new == [b.paths[e] EXCEPT !.selected_at = t]
  <2>1. /\ Sound(Done(b, e, t))
        /\ Done(b, e, t).current = e /\ Done(b, e, t).installed = e
        /\ Done(b, e, t).wg = [endpoint |-> e, handshake_at |-> 0]
        /\ Done(b, e, t).paths = [b.paths EXCEPT ![e] = new]
    BY DoneIs
  <2>2. new \in TrackedPath /\ new.source = b.paths[e].source
        /\ new.success_at = b.paths[e].success_at /\ new # None
    BY <1>1, Constants DEF TrackedPath
  <2> HIDE DEF new
  <2>3. \A x \in Endpoints : c.paths[x] = IF x = e THEN new ELSE b.paths[x]
    BY <1>1, <1>4, <2>1 DEF Sound, Tunnels, PathBook
  <2>4. Tracked(c) = Tracked(b)
    BY <1>1, <2>2, <2>3 DEF Tracked
  <2> QED BY <1>1, <2>2, <2>3, <2>4 DEF SuccessAt
<1> QED BY <1>2, <1>3, <1>4

LEMMA RelayIsTried ==
  ASSUME TypeInv, LeaseLive(lease, now), presence.known # None, NothingWorked(tunnel'),
         tunnel.current # None => now - tunnel.paths[tunnel.current].selected_at >= RetryAfter,
         Heartbeat(FALSE)
  PROVE  tunnel'.installed = lease
<1> DEFINE ann == EffectiveAnn(presence.known, lease, now)
           a == WithoutExpiredRelay(ann, now)
           r == RecordSuccess(tunnel, tunnel.wg)
           book == Booked(tunnel, ann, now)
<1>0. /\ Sound(tunnel) /\ tunnel \in Tunnels /\ now \in Times /\ lease \in OwnRelays /\ lease # None
      /\ lease \in Relays /\ lease # LocalEp
  BY Constants, EndpointAssumption DEF TypeInv, LeaseLive, Sound, Relays
<1>1. ann \in Plan /\ ann # None /\ ann.relay = lease
  BY <1>0, EffectiveIs DEF TypeInv, PresenceTyped
<1>2. a = ann /\ lease \in AnnouncedEndpoints(a)
  <2>1. LeaseEnd[lease] \in Nat /\ now \in Nat /\ LeaseEnd[lease] > now
    BY <1>0, EndpointAssumption, TimesAreNumbers DEF LeaseLive
  <2> QED BY <1>0, <1>1, <2>1 DEF WithoutExpiredRelay, AnnouncedEndpoints
<1>3. tunnel' \in Apply(tunnel, ann, now)
  BY DEF Heartbeat, ApplyUpdate
<1> HIDE DEF ann
<1>4. PICK p \in Preferred(book, a) :
         LET e == Select(book, now, p)
         IN \/ tunnel' = Stopped(book) /\ RequiresPublicSignal(a, e)
            \/ tunnel' = book /\ book.installed = e /\ ~RequiresRefresh(book.wg, e)
            \/ tunnel' = Done(book, e, now)
  BY <1>1, <1>3, ApplyIs
<1>5. /\ Sound(book) /\ book \in Tunnels
      /\ book.current = CurrentAmong(r, Kept(r, a, now)) /\ r.current = tunnel.current
      /\ AnnouncedEndpoints(a) \subseteq Tracked(book)
      /\ \A e \in Kept(r, a, now) : Renewed(e, r.paths[e], book.paths[e], a, now)
  <2>1. Sound(book)
    BY <1>0, <1>1, BookedIs
  <2>2. book \in Tunnels
    BY <2>1 DEF Sound
  <2> QED BY <1>0, <1>1, <2>1, <2>2, BookedIs
<1>6. ASSUME NEW f \in Tracked(book), book.paths[f].source = "relay" PROVE f = lease
  BY <1>0, <1>1, <1>2, <1>6, BookedRelays
<1>7. r.paths \in PathBook /\ \A e \in Endpoints : tunnel.paths[e] # None =>
         r.paths[e].selected_at = tunnel.paths[e].selected_at
  BY <1>0, RecordIs DEF Succeeded, Tunnels
<1> HIDE DEF book, a, r
<1>8. p \in Tracked(book)
  BY <1>5, PreferredIs DEF Preferred
<1> DEFINE e == Select(book, now, p)
<1>9. e \in Tracked(book) /\ e \in {p, book.current}
  BY <1>8, SelectIs
<1>10. \A f \in Tracked(book) : SuccessAt(book, f) = 0 /\ SuccessAt(book, f) = SuccessAt(tunnel', f)
  <2>1. tunnel' \in {book, Stopped(book), Done(book, e, now)}
    BY <1>4
  <2> HIDE DEF e
  <2>2. \A f \in Tracked(book) : f \in Tracked(tunnel') /\ SuccessAt(tunnel', f) = SuccessAt(book, f)
    BY <1>0, <1>5, <1>9, <2>1, SuccessKept
  <2> QED BY <2>2 DEF NothingWorked
<1>11. book.paths[lease].source = "relay" /\ lease \in Tracked(book)
  <2>1. lease \in Tracked(book)
    BY <1>2, <1>5
  <2>2. book.paths[lease] # None /\ PathFits(lease, book.paths[lease])
    BY <2>1, <1>5 DEF Tracked, Sound, BookFits
  <2>3. SuccessAt(book, lease) = book.paths[lease].success_at
    BY <1>0, <1>5, <2>1, SuccessIs
  <2>4. book.paths[lease].success_at = 0
    BY <1>10, <2>1, <2>3
  <2> QED BY <1>0, <2>1, <2>2, <2>4 DEF PathFits
<1>12. p = lease
  <2>1. SuccessAt(book, p) = SuccessAt(book, lease)
    BY <1>8, <1>10, <1>11
  <2>2. SourceRank(p, book.paths[p].source) >= SourceRank(lease, book.paths[lease].source)
    BY <1>5, <1>11, <2>1, PreferredIs
  <2>3. SourceRank(p, book.paths[p].source) >= 5
    BY <1>11, <2>2 DEF SourceRank
  <2>4. book.paths[p].source = "relay"
    BY <2>3 DEF SourceRank
  <2> QED BY <1>6, <1>8, <2>4
<1>13. e = lease
  <2>1. SUFFICES ASSUME e # p PROVE FALSE
    BY <1>12
  <2> DEFINE cur == book.current
  <2>2. cur \in Tracked(book) /\ cur # p /\ ~(SuccessAt(book, cur) = 0 /\
          (book.paths[cur].selected_at = 0 \/ now - book.paths[cur].selected_at >= RetryAfter))
    BY <2>1 DEF Select
  <2>3. SuccessAt(book, cur) = 0
    BY <1>10, <2>2
  <2>4. cur \in Endpoints /\ cur # None
    BY <2>2, Constants DEF Tracked
  <2>5. cur = tunnel.current /\ cur \in Kept(r, a, now)
    BY <1>5, <2>4 DEF CurrentAmong
  <2>6. book.paths[cur].selected_at = r.paths[cur].selected_at
    BY <1>5, <2>5 DEF Renewed
  <2>7. tunnel.paths[cur] # None
    BY <1>0, <2>4, <2>5 DEF Sound, Tracked
  <2>8. r.paths[cur].selected_at = tunnel.paths[cur].selected_at
    BY <1>7, <2>4, <2>7
  <2> QED BY <2>2, <2>3, <2>4, <2>5, <2>6, <2>8
<1>14. ~RequiresPublicSignal(a, e)
  BY <1>0, <1>13 DEF RequiresPublicSignal
<1>15. Done(book, lease, now).installed = lease
  <2>1. Sound(book) /\ lease \in Tracked(book) /\ now \in Times
    BY <1>0, <1>5, <1>11
  <2>2. /\ Sound(Done(book, lease, now))
        /\ Done(book, lease, now).current = lease /\ Done(book, lease, now).installed = lease
        /\ Done(book, lease, now).wg = [endpoint |-> lease, handshake_at |-> 0]
        /\ Done(book, lease, now).paths
             = [book.paths EXCEPT ![lease] = [book.paths[lease] EXCEPT !.selected_at = now]]
    BY <2>1, DoneIs
  <2> QED BY <2>2
<1> QED BY <1>4, <1>13, <1>14, <1>15

(* As long as no endpoint has worked, a heartbeat with a live lease turns   *)
(* to the relay once the retry delay of the last choice is over             *)
(* (select_endpoint_for_local_endpoints, the effective announcement).       *)
THEOREM LiveRelayTried == Spec => RelayTried
<1>1. TypeInv /\ [Next]_vars =>
        [/\ LeaseLive(lease, now) /\ presence.known # None /\ NothingWorked(tunnel')
         /\ tunnel.current # None => now - tunnel.paths[tunnel.current].selected_at >= RetryAfter
         /\ Heartbeat(FALSE)
         => tunnel'.installed = lease]_vars
  BY RelayIsTried
<1>2. Spec => [](TypeInv /\ KnownInv)
  BY TypeInit, KnownInit, TypeStep, KnownStep, PTL DEF Spec
<1> QED BY <1>1, <1>2, PTL DEF Spec, RelayTried

-----------------------------------------------------------------------------
(* Why WireGuard is turned to an endpoint.                                  *)

(* What speaks for endpoint e in tunnel c, given the peer's announcements   *)
(* anns and the daemon's lease ls; that the current endpoint was chosen as  *)
(* it is in b.                                                              *)
Speaks(anns, ls, c, e) ==
  \/ Proven(c, e) \/ e \in {LocalEp, ls}
  \/ \E ann \in anns \ {None} : e \in {ann.public, ann.relay} \/ ann.public = None
Tried(e) == OnTrial(tunnel, e) \/ (cache # None /\ OnTrial(cache, e))
ChosenAsIn(b, c) ==
  c.current = b.current /\ c.paths[c.current].selected_at = b.paths[c.current].selected_at
ChosenBefore(c) == ChosenAsIn(tunnel, c) \/ (cache # None /\ ChosenAsIn(cache, c))

(* A tunnel that one step plans: its current endpoint is one of before, or  *)
(* one with a reason; so is the one WireGuard is turned to.                 *)
CurrentHasReason(anns, ls, c) ==
  c.current # None => Speaks(anns, ls, c, c.current) \/ Tried(c.current) \/ ChosenBefore(c)
TurnHasReason(anns, ls, c) ==
  LET new == c.installed
  IN new \notin {None, tunnel.installed} =>
       /\ new \in Relays /\ LeaseEnd[new] <= now => c.paths[new].source = "observed"
       /\ Speaks(anns, ls, c, new) \/ Tried(new)

(* The preferred endpoint always has something that speaks for it.          *)
LEMMA PreferredSpeaks ==
  ASSUME TypeInv, NEW b, Sound(b), NEW ann \in Plan, NEW anns, NEW k \in anns \ {None}, NEW ls,
         ann.public = k.public, ann.relay \in {k.relay, ls, None},
         NEW p \in Preferred(Booked(b, ann, now), WithoutExpiredRelay(ann, now))
  PROVE  Speaks(anns, ls, Booked(b, ann, now), p)
<1> DEFINE a == WithoutExpiredRelay(ann, now)
           book == Booked(b, ann, now)
<1>0. now \in Times
  BY Constants DEF TypeInv
<1>1. /\ a \in Plan /\ a.public = ann.public /\ a.relay \in {ann.relay, None}
  BY <1>0, PlanIs
<1>2. Sound(book) /\ book \in Tunnels /\ AnnouncedEndpoints(a) \subseteq Tracked(book)
  <2>1. Sound(book) /\ AnnouncedEndpoints(a) \subseteq Tracked(book)
    BY <1>0, BookedIs
  <2> QED BY <2>1 DEF Sound
<1>3. p \in Tracked(book)
  BY DEF Preferred
<1>4. book.paths[p].source = "relay" => p = a.relay
  BY <1>0, <1>3, BookedRelays
<1>5. \A f \in Tracked(book) :
        /\ SuccessAt(book, p) >= SuccessAt(book, f)
        /\ SuccessAt(book, p) = SuccessAt(book, f) =>
             /\ SourceRank(p, book.paths[p].source) >= SourceRank(f, book.paths[f].source)
             /\ SourceRank(p, book.paths[p].source) = SourceRank(f, book.paths[f].source)
                /\ f = DefaultEndpoint(a) => p = DefaultEndpoint(a)
  BY <1>2, PreferredIs
<1> HIDE DEF a, book
<1>6. \A f \in Tracked(book) :
        /\ f \in Endpoints /\ book.paths[f] \in TrackedPath /\ book.paths[f] # None
        /\ PathFits(f, book.paths[f]) /\ SuccessAt(book, f) \in Nat
        /\ SuccessAt(book, f) = IF f = LocalEp /\ ~subnet THEN 0 ELSE book.paths[f].success_at
  BY <1>2, SuccessIs, Constants DEF Sound, BookFits, Tracked, Tunnels, PathBook
<1>7. SUFFICES ASSUME ~Proven(book, p), p # LocalEp, p # ls, p # k.relay, k.public # None
               PROVE  p = k.public
  BY DEF Speaks, book
<1>8. SuccessAt(book, p) = 0
  BY <1>3, <1>6, <1>7 DEF Proven
<1>9. book.paths[p].source = "public" /\ p \in Publics
  <2>1. book.paths[p].source # "observed"
    BY <1>3, <1>6, <1>7, <1>8 DEF PathFits
  <2>2. book.paths[p].source # "relay"
    BY <1>1, <1>3, <1>4, <1>6, <1>7, Constants
  <2>3. book.paths[p].source \in Source
    BY <1>3, <1>6 DEF TrackedPath
  <2> QED BY <1>3, <1>6, <1>7, <2>1, <2>2, <2>3 DEF PathFits, Source
<1>10. LocalEp \in Tracked(book) /\ a.public \in Tracked(book) /\ a.public \in Publics
  BY <1>1, <1>2, <1>7, Constants DEF AnnouncedEndpoints, Plan, Endpoints
<1>11. \A f \in Tracked(book) : SuccessAt(book, f) = SuccessAt(book, p)
  BY <1>3, <1>5, <1>6, <1>8
<1>12. SourceRank(p, book.paths[p].source) = 2
  BY <1>7, <1>9 DEF SourceRank
<1>13. ~subnet
  <2>1. subnet => SourceRank(LocalEp, book.paths[LocalEp].source) \in {4, 5}
    BY DEF SourceRank
  <2>2. SourceRank(p, book.paths[p].source) >= SourceRank(LocalEp, book.paths[LocalEp].source)
    BY <1>5, <1>10, <1>11
  <2> QED BY <1>12, <2>1, <2>2
<1>14. SourceRank(a.public, book.paths[a.public].source) = 2
  <2>1. book.paths[a.public].source \in {"public", "observed"}
    BY <1>6, <1>10, EndpointAssumption DEF PathFits, TrackedPath, Source
  <2> QED BY <1>13, <2>1 DEF SourceRank
<1>15. DefaultEndpoint(a) = a.public
  BY <1>1, <1>7, <1>13 DEF DefaultEndpoint
<1>16. p = a.public
  BY <1>5, <1>10, <1>11, <1>12, <1>14, <1>15
<1> QED BY <1>1, <1>16

LEMMA BookedCurrent ==
  ASSUME TypeInv, NEW b, Sound(b), NEW ann \in Plan, NEW anns, NEW ls,
         CurrentHasReason(anns, ls, b)
  PROVE  CurrentHasReason(anns, ls, Booked(b, ann, now))
<1> DEFINE a == WithoutExpiredRelay(ann, now)
           r == RecordSuccess(b, b.wg)
           book == Booked(b, ann, now)
           cur == book.current
           kept == Kept(r, a, now)
<1>0. now \in Times /\ b \in Tunnels
  BY Constants DEF TypeInv, Sound
<1>1. /\ Sound(book) /\ cur = CurrentAmong(r, kept) /\ r.current = b.current
      /\ kept \subseteq Tracked(book)
      /\ \A e \in kept : Renewed(e, r.paths[e], book.paths[e], a, now)
  BY <1>0, BookedIs
<1>2. SUFFICES ASSUME cur # None PROVE Speaks(anns, ls, book, cur) \/ Tried(cur) \/ ChosenBefore(book)
  BY DEF CurrentHasReason
<1>3. cur = b.current /\ cur \in kept /\ cur \in Tracked(book)
  BY <1>1, <1>2 DEF CurrentAmong
<1>4. cur \in Tracked(b) /\ cur \in Endpoints
  BY <1>2, <1>3 DEF Sound, Tracked
<1>5. book.paths[cur].selected_at = r.paths[cur].selected_at
      /\ book.paths[cur].success_at = r.paths[cur].success_at
  BY <1>1, <1>3 DEF Renewed
<1>6. /\ r.paths[cur].selected_at = b.paths[cur].selected_at
      /\ r.paths[cur].success_at = b.paths[cur].success_at
         \/ r.paths[cur].success_at >= b.paths[cur].success_at
  BY <1>0, <1>4, RecordIs DEF Succeeded, Tracked
<1>7. book \in Tunnels
  BY <1>1 DEF Sound
<1> HIDE DEF book, r, a, cur, kept
<1>8. Proven(b, cur) => Proven(book, cur)
  <2>1. /\ SuccessAt(b, cur) = IF cur = LocalEp /\ ~subnet THEN 0 ELSE b.paths[cur].success_at
        /\ SuccessAt(book, cur) = IF cur = LocalEp /\ ~subnet THEN 0 ELSE book.paths[cur].success_at
        /\ SuccessAt(b, cur) \in Nat /\ SuccessAt(book, cur) \in Nat
    BY <1>0, <1>3, <1>4, <1>7, SuccessIs
  <2>2. book.paths[cur] # None
    BY <1>3 DEF Tracked
  <2> QED BY <1>5, <1>6, <2>1, <2>2 DEF Proven
<1>9. ChosenBefore(b) => ChosenBefore(book)
  BY <1>3, <1>5, <1>6 DEF ChosenBefore, ChosenAsIn, cur
<1>10. Speaks(anns, ls, b, cur) => Speaks(anns, ls, book, cur)
  BY <1>8 DEF Speaks
<1> QED BY <1>2, <1>3, <1>9, <1>10 DEF CurrentHasReason

LEMMA ApplyHasReason ==
  ASSUME TypeInv, NEW b, Sound(b), NEW ann \in Plan \union {None}, NEW anns, NEW ls,
         ann # None => \E k \in anns \ {None} : ann.public = k.public /\ ann.relay \in {k.relay, ls, None},
         CurrentHasReason(anns, ls, b), NEW c \in Apply(b, ann, now)
  PROVE  Sound(c) /\ CurrentHasReason(anns, ls, c) /\ TurnHasReason(anns, ls, c)
<1>0. now \in Times /\ b \in Tunnels
  BY Constants DEF TypeInv, Sound
<1>1. Sound(c)
  BY <1>0, ApplySound
<1>s. ASSUME NEW x, Sound(x), CurrentHasReason(anns, ls, x)
      PROVE  CurrentHasReason(anns, ls, Stopped(x)) /\ TurnHasReason(anns, ls, Stopped(x))
  <2>1. /\ Stopped(x).paths = x.paths /\ Stopped(x).current = x.current
        /\ Stopped(x).installed = None
    BY <1>s DEF Stopped, Sound, Tunnels
  <2>2. \A e : Speaks(anns, ls, x, e) => Speaks(anns, ls, Stopped(x), e)
    BY <2>1 DEF Speaks, Proven, SuccessAt
  <2>3. ChosenBefore(x) => ChosenBefore(Stopped(x))
    BY <2>1 DEF ChosenBefore, ChosenAsIn
  <2> QED BY <1>s, <2>1, <2>2, <2>3 DEF CurrentHasReason, TurnHasReason
<1>2. CASE ann = None
  <2>1. c = Stopped(b)
    BY <1>2 DEF Apply
  <2> QED BY <1>1, <1>s, <2>1
<1>3. CASE ann # None
  <2> DEFINE a == WithoutExpiredRelay(ann, now)
             book == Booked(b, ann, now)
  <2>1. PICK p \in Preferred(book, a) :
           LET e == Select(book, now, p)
           IN \/ c = Stopped(book) /\ RequiresPublicSignal(a, e)
              \/ c = book /\ book.installed = e /\ ~RequiresRefresh(book.wg, e)
              \/ c = Done(book, e, now)
    BY <1>3, ApplyIs
  <2> DEFINE e == Select(book, now, p)
  <2>2. ann \in Plan
    BY <1>3
  <2>3. Sound(book) /\ CurrentHasReason(anns, ls, book)
    BY <1>0, <2>2, BookedSound, BookedCurrent
  <2>4. Speaks(anns, ls, book, p)
    <3>1. PICK k \in anns \ {None} : ann.public = k.public /\ ann.relay \in {k.relay, ls, None}
      BY <1>3
    <3> QED BY <2>2, <3>1, PreferredSpeaks
  <2>5. \A x \in Tracked(book) : book.paths[x].source = "relay" => x = a.relay
    BY <1>0, <2>2, BookedRelays
  <2>6. a.relay # None => LeaseEnd[a.relay] > now
    BY <1>0, <2>2, PlanIs
  <2>7. p \in Tracked(book)
    BY DEF Preferred
  <2> HIDE DEF book, a
  <2>8. e \in Tracked(book) /\ e \in {p, book.current}
    BY <2>7, SelectIs
  <2>9. e \in Endpoints /\ book.paths[e] \in TrackedPath /\ PathFits(e, book.paths[e]) /\ e # None
        /\ book.paths[e] # None
    BY <2>3, <2>8, Constants DEF Sound, BookFits, Tracked, Tunnels, PathBook
  <2>10. Speaks(anns, ls, book, e) \/ Tried(e)
    <3>1. CASE e = p
      BY <2>4, <3>1
    <3>2. CASE e # p
      <4> DEFINE cur == book.current
      <4>1. /\ e = cur /\ cur # None
            /\ ~(SuccessAt(book, cur) = 0 /\
                 (book.paths[cur].selected_at = 0 \/ now - book.paths[cur].selected_at >= RetryAfter))
        BY <2>8, <2>9, <3>2 DEF Select
      <4>2. CASE SuccessAt(book, cur) # 0
        <5>1. SuccessAt(book, cur) \in Nat
          BY <2>3, <2>8, <4>1, SuccessIs DEF Sound
        <5> QED BY <2>9, <4>1, <4>2, <5>1 DEF Speaks, Proven
      <4>3. CASE SuccessAt(book, cur) = 0
        <5>1. book.paths[cur].selected_at \in Nat /\ now \in Nat /\ RetryAfter \in Nat
          BY <1>0, <2>9, <4>1, TimesAreNumbers, TimesAssumption DEF TrackedPath
        <5>2. book.paths[cur].selected_at > 0 /\ now - book.paths[cur].selected_at < RetryAfter
          BY <4>1, <4>3, <5>1
        <5>3. ChosenBefore(book) => Tried(cur)
          BY <4>1, <5>2 DEF ChosenBefore, ChosenAsIn, Tried, OnTrial
        <5> QED BY <2>3, <4>1, <5>3 DEF CurrentHasReason
      <4> QED BY <4>2, <4>3
    <3> QED BY <3>1, <3>2
  <2>11. e \in Relays /\ LeaseEnd[e] <= now => book.paths[e].source = "observed"
    <3>1. CASE book.paths[e].source = "relay"
      <4>1. e = a.relay /\ LeaseEnd[e] > now
        BY <2>5, <2>6, <2>8, <2>9, <3>1
      <4>2. e \in Relays => LeaseEnd[e] \in Nat
        BY EndpointAssumption
      <4>3. now \in Nat
        BY <1>0, TimesAreNumbers
      <4> QED BY <4>1, <4>2, <4>3
    <3>2. CASE book.paths[e].source # "relay"
      BY <2>9, <3>2 DEF PathFits
    <3> QED BY <3>1, <3>2
  <2> HIDE DEF e
  <2>12. CASE c = Stopped(book)
    BY <1>1, <1>s, <2>3, <2>12
  <2>13. CASE c = book /\ book.installed = e
    BY <1>1, <2>3, <2>10, <2>11, <2>13 DEF TurnHasReason
  <2>14. CASE c = Done(book, e, now)
    <3>1. c.paths[e].source = book.paths[e].source /\ SuccessAt(c, e) = SuccessAt(book, e)
          /\ e \in Tracked(c)
      BY <1>0, <2>3, <2>8, <2>14, SuccessKept
    <3>2. /\ Sound(Done(book, e, now))
          /\ Done(book, e, now).current = e /\ Done(book, e, now).installed = e
          /\ Done(book, e, now).wg = [endpoint |-> e, handshake_at |-> 0]
          /\ Done(book, e, now).paths
               = [book.paths EXCEPT ![e] = [book.paths[e] EXCEPT !.selected_at = now]]
      BY <1>0, <2>3, <2>8, DoneIs
    <3>3. c.current = e /\ c.installed = e
      BY <2>14, <3>2
    <3>4. Speaks(anns, ls, book, e) => Speaks(anns, ls, c, e)
      BY <3>1 DEF Speaks, Proven, Tracked
    <3> QED BY <1>1, <2>10, <2>11, <3>1, <3>3, <3>4 DEF CurrentHasReason, TurnHasReason
  <2> QED BY <2>1, <2>12, <2>13, <2>14 DEF e
<1> QED BY <1>2, <1>3

LEMMA UpdateHasReason ==
  ASSUME TypeInv, NEW b, Sound(b), NEW anns, NEW k \in anns, k \in Announcement \union {None},
         NEW ls \in OwnRelays \union {None},
         CurrentHasReason(anns, ls, b), NEW c \in ApplyUpdate(b, k, ls, now)
  PROVE  Sound(c) /\ CurrentHasReason(anns, ls, c) /\ TurnHasReason(anns, ls, c)
<1> DEFINE ann == EffectiveAnn(k, ls, now)
<1>0. now \in Times
  BY Constants DEF TypeInv
<1>1. ann \in Plan \union {None}
  BY <1>0, EffectiveIs DEF EffectiveAnn
<1>2. ann # None => k # None /\ ann.public = k.public /\ ann.relay \in {k.relay, ls, None}
  BY <1>0, EffectiveIs DEF EffectiveAnn
<1>3. c \in Apply(b, ann, now)
  BY DEF ApplyUpdate
<1> HIDE DEF ann
<1> QED BY <1>1, <1>2, <1>3, ApplyHasReason

LEMMA PunchHasReason ==
  ASSUME TypeInv, NEW anns, NEW ls, NEW bs,
         \A b \in bs : Sound(b) /\ CurrentHasReason(anns, ls, b),
         NEW ann \in anns, ann \in Announcement \union {None}, NEW c \in NatPunch(bs, ann, now)
  PROVE  Sound(c) /\ CurrentHasReason(anns, ls, c) /\ TurnHasReason(anns, ls, c)
<1>1. PICK b \in bs : c \in Apply(Stopped(b), ann, now)
  BY DEF NatPunch
<1>2. Sound(Stopped(b))
  BY StoppedSound
<1>3. CurrentHasReason(anns, ls, Stopped(b))
  <2>1. Stopped(b).paths = b.paths /\ Stopped(b).current = b.current
    BY DEF Stopped, Sound, Tunnels
  <2>2. \A e : Speaks(anns, ls, b, e) => Speaks(anns, ls, Stopped(b), e)
    BY <2>1 DEF Speaks, Proven, SuccessAt
  <2>3. ChosenBefore(b) => ChosenBefore(Stopped(b))
    BY <2>1 DEF ChosenBefore, ChosenAsIn
  <2> QED BY <2>1, <2>2, <2>3 DEF CurrentHasReason
<1>4. ann \in Plan \union {None}
  BY Constants
<1>5. ann # None => \E k \in anns \ {None} : ann.public = k.public /\ ann.relay \in {k.relay, ls, None}
  OBVIOUS
<1> QED BY <1>1, <1>2, <1>3, <1>4, <1>5, ApplyHasReason

LEMMA PruneHasReason ==
  ASSUME NEW b, Sound(b), NEW timeout, NEW anns, NEW ls, CurrentHasReason(anns, ls, b)
  PROVE  LET c == PrunePaths(b, now, timeout)
         IN /\ CurrentHasReason(anns, ls, c)
            /\ c.paths = b.paths /\ TurnHasReason(anns, ls, b) => TurnHasReason(anns, ls, c)
<1> DEFINE c == PrunePaths(b, now, timeout)
           fresh == {e \in Tracked(b) : FreshnessAt(b.paths[e]) > Cutoff(now, timeout)}
<1>0. b \in Tunnels
  BY DEF Sound
<1>1. /\ c.paths = [e \in Endpoints |-> IF e \in fresh THEN b.paths[e] ELSE None]
      /\ c.current = IF b.current \in fresh THEN b.current ELSE None
      /\ c.installed = b.installed /\ c.wg = b.wg /\ c.contacted = b.contacted
      /\ Tracked(c) = fresh /\ c \in Tunnels
  BY <1>0, PruneIs
<1>2. fresh \subseteq Endpoints /\ None \notin fresh
  BY Constants DEF Tracked
<1> HIDE DEF c, fresh
<1>3. CurrentHasReason(anns, ls, c)
  <2>1. SUFFICES ASSUME c.current # None
                 PROVE  Speaks(anns, ls, c, c.current) \/ Tried(c.current) \/ ChosenBefore(c)
    BY DEF CurrentHasReason
  <2>2. c.current = b.current /\ c.paths[c.current] = b.paths[c.current]
    BY <1>1, <1>2, <2>1
  <2>3. Speaks(anns, ls, b, c.current) => Speaks(anns, ls, c, c.current)
    BY <2>2 DEF Speaks, Proven, SuccessAt
  <2>4. ChosenBefore(b) => ChosenBefore(c)
    BY <2>2 DEF ChosenBefore, ChosenAsIn
  <2> QED BY <2>1, <2>2, <2>3, <2>4 DEF CurrentHasReason
<1>4. c.paths = b.paths /\ TurnHasReason(anns, ls, b) => TurnHasReason(anns, ls, c)
  BY <1>1 DEF TurnHasReason, Speaks, Proven, SuccessAt
<1> QED BY <1>3, <1>4 DEF c

(* The announcements that may speak after a step. *)
Speaking == {presence'.known, presence'.active}

LEMMA HousekeepingHasReason ==
  ASSUME TypeInv, NEW p, PresenceTyped(p), NEW b, Sound(b), NEW ls \in OwnRelays \union {None},
         CurrentHasReason(Speaking, ls, b), TurnHasReason(Speaking, ls, b), Housekeeping(p, b, ls)
  PROVE  TurnHasReason(Speaking, ls, tunnel')
<1> DEFINE q == IF enabled' THEN PrunePresence(p) ELSE p
           c == IF enabled' THEN PrunePaths(b, now, PathTimeout) ELSE b
<1>1. q.known = p.known /\ q.known \in Announcement \union {None}
  BY DEF PrunePresence, PresenceTyped
<1>2. Sound(c) /\ CurrentHasReason(Speaking, ls, c)
      /\ (c.paths = b.paths => TurnHasReason(Speaking, ls, c))
  BY PruneSound, PruneHasReason
<1>3. presence' = q
      /\ tunnel' \in IF q = p /\ c.paths = b.paths THEN {c} ELSE ApplyUpdate(c, q.known, ls, now)
  BY DEF Housekeeping
<1>4. q.known \in Speaking
  BY <1>3 DEF Speaking
<1> HIDE DEF q, c
<1>5. CASE tunnel' = c /\ c.paths = b.paths
  BY <1>2, <1>5
<1>6. CASE tunnel' \in ApplyUpdate(c, q.known, ls, now)
  BY <1>1, <1>2, <1>4, <1>6, UpdateHasReason
<1> QED BY <1>3, <1>5, <1>6

LEMMA RestoredHasReason ==
  ASSUME TypeInv, NEW b, Sound(b), b.installed = None, b.current = None, NEW anns, NEW ls
  PROVE  CurrentHasReason(anns, ls, RestoredTunnel(b))
<1>1. CASE ~Restorable
  BY <1>1 DEF RestoredTunnel, CurrentHasReason
<1>2. CASE Restorable
  <2> DEFINE c == [b EXCEPT !.paths = cache.paths, !.current = cache.current]
  <2>1. /\ BookFits(cache.paths) /\ cache.current \in Tracked(cache) \union {None} /\ cache # None
    BY <1>2 DEF TypeInv, CacheTyped, Restorable
  <2>2. cache.paths \in PathBook /\ cache.current \in Endpoints \union {None}
    BY <2>1 DEF BookFits, Tracked
  <2>3. /\ c \in Tunnels /\ c.paths = cache.paths /\ c.current = cache.current
        /\ c.installed = None /\ c.wg = NoPeer
    BY <2>2 DEF Sound, Tunnels
  <2> HIDE DEF c
  <2>4. Sound(c)
    BY <2>1, <2>3 DEF Sound, Tracked
  <2>5. CurrentHasReason(anns, ls, c)
    BY <2>1, <2>3 DEF CurrentHasReason, ChosenBefore, ChosenAsIn
  <2>6. RestoredTunnel(b) = PrunePaths(c, now, PathCacheTimeout)
    BY <1>2 DEF RestoredTunnel, c
  <2> QED BY <2>4, <2>5, <2>6, PruneHasReason
<1> QED BY <1>1, <1>2

LEMMA TurnStep == TypeInv /\ KnownInv /\ [Next]_vars => TurnHasReason(Speaking, lease', tunnel')
<1> SUFFICES ASSUME TypeInv, KnownInv, [Next]_vars PROVE TurnHasReason(Speaking, lease', tunnel')
  OBVIOUS
<1>0. /\ now \in Times /\ Sound(tunnel) /\ PresenceTyped(presence) /\ lease \in OwnRelays \union {None}
      /\ presence.known \in Announcement \union {None} /\ presence.active \in Announcement \union {None}
  BY Constants DEF TypeInv, PresenceTyped
<1>c. \A ls : CurrentHasReason(Speaking, ls, tunnel)
  BY DEF CurrentHasReason, ChosenBefore, ChosenAsIn
<1>n. tunnel'.installed \in {None, tunnel.installed} => TurnHasReason(Speaking, lease', tunnel')
  BY DEF TurnHasReason
<1>1. CASE UNCHANGED tunnel
  BY <1>1, <1>n
<1>2. CASE Tick \/ Connect \/ LoseConnection \/ Move \/ ReceiveHello
  BY <1>1, <1>2 DEF Tick, Connect, LoseConnection, Move, ReceiveHello
<1>3. CASE ReceiveDisconnect
  <2>1. Stopped(tunnel).installed = None
    BY <1>0 DEF Stopped, Sound, Tunnels
  <2> QED BY <1>1, <1>3, <1>n, <2>1 DEF ReceiveDisconnect
<1>4. ASSUME NEW ann \in Announcements, NEW punch \in BOOLEAN, ReceiveAnnounce(ann, punch)
      PROVE  TurnHasReason(Speaking, lease', tunnel')
  <2> DEFINE applied == ApplyUpdate(tunnel, presence'.known, lease, now)
  <2>0. ann \in Announcement /\ lease' = lease
    BY <1>4, Constants DEF ReceiveAnnounce
  <2>1. presence'.known \in Announcement \union {None} /\ presence'.known \in Speaking
    BY <1>0, <1>4, <2>0 DEF ReceiveAnnounce, Announced, PresenceTyped, Speaking
  <2>2. \A b \in applied : /\ Sound(b) /\ CurrentHasReason(Speaking, lease, b)
                           /\ TurnHasReason(Speaking, lease, b)
    BY <1>0, <1>c, <2>1, UpdateHasReason
  <2>3. \/ ann \in Speaking /\ tunnel' \in NatPunch(applied, ann, now)
        \/ tunnel' \in applied \/ tunnel' = tunnel
    BY <1>4 DEF ReceiveAnnounce, Speaking
  <2> HIDE DEF applied
  <2>4. CASE ann \in Speaking /\ tunnel' \in NatPunch(applied, ann, now)
    BY <2>0, <2>2, <2>4, PunchHasReason
  <2> QED BY <1>1, <2>0, <2>2, <2>3, <2>4
<1>5. ASSUME NEW r \in OwnRelays, GrantLease(r) PROVE TurnHasReason(Speaking, lease', tunnel')
  <2>1. tunnel' \in ApplyUpdate(tunnel, presence.known, r, now) /\ lease' = r
    BY <1>5 DEF GrantLease
  <2>2. presence.known \in Speaking
    BY <1>5 DEF GrantLease, Speaking
  <2> QED BY <1>0, <1>c, <2>1, <2>2, UpdateHasReason
<1>6. ASSUME NEW punch \in BOOLEAN, AnnounceArm(punch) PROVE TurnHasReason(Speaking, lease', tunnel')
  <2> DEFINE applied == IF lease' = lease THEN {tunnel}
                        ELSE ApplyUpdate(tunnel, presence.known, lease', now)
  <2>0. lease' \in OwnRelays \union {None} /\ presence.known \in Speaking /\ presence.active \in Speaking
    BY <1>0, <1>6 DEF AnnounceArm, Speaking
  <2>t. TurnHasReason(Speaking, lease', tunnel)
    BY DEF TurnHasReason
  <2>1. \A b \in applied : /\ Sound(b) /\ CurrentHasReason(Speaking, lease', b)
                           /\ TurnHasReason(Speaking, lease', b)
    BY <1>0, <1>c, <2>0, <2>t, UpdateHasReason
  <2>2. tunnel' \in NatPunch(applied, presence.active, now) \/ tunnel' \in applied
    BY <1>6 DEF AnnounceArm
  <2> HIDE DEF applied
  <2>3. CASE tunnel' \in NatPunch(applied, presence.active, now)
    BY <1>0, <2>0, <2>1, <2>3, PunchHasReason
  <2> QED BY <2>1, <2>2, <2>3
<1>7. ASSUME NEW punch \in BOOLEAN, Heartbeat(punch) PROVE TurnHasReason(Speaking, lease', tunnel')
  <2>0. lease' = lease /\ presence.known \in Speaking
    BY <1>7 DEF Heartbeat, Speaking
  <2>1. PICK b \in IF punch THEN NatPunch({tunnel}, presence.known, now) ELSE {tunnel} :
           tunnel' \in ApplyUpdate(b, presence.known, lease, now)
    BY <1>7 DEF Heartbeat
  <2>2. Sound(b) /\ CurrentHasReason(Speaking, lease, b)
    <3>1. \A x \in {tunnel} : Sound(x) /\ CurrentHasReason(Speaking, lease, x)
      BY <1>0, <1>c
    <3>2. CASE b \in NatPunch({tunnel}, presence.known, now)
      BY <1>0, <2>0, <3>1, <3>2, PunchHasReason
    <3> QED BY <2>1, <3>1, <3>2
  <2> QED BY <1>0, <2>0, <2>1, <2>2, UpdateHasReason
<1>8. ASSUME NEW changed \in BOOLEAN, NEW punch \in BOOLEAN, NetworkArm(changed, punch)
      PROVE  TurnHasReason(Speaking, lease', tunnel')
  <2> DEFINE applied == IF changed THEN ApplyUpdate(tunnel, presence.known, lease, now)
                        ELSE {tunnel}
  <2>0. lease' = lease /\ presence.known \in Speaking /\ DirectAnnouncement \in Speaking
        /\ DirectAnnouncement \in Announcement \union {None}
    BY <1>0, <1>8 DEF NetworkArm, Speaking, DirectAnnouncement
  <2>t. TurnHasReason(Speaking, lease, tunnel)
    BY DEF TurnHasReason
  <2>1. \A b \in applied : /\ Sound(b) /\ CurrentHasReason(Speaking, lease, b)
                           /\ TurnHasReason(Speaking, lease, b)
    BY <1>0, <1>c, <2>0, <2>t, UpdateHasReason
  <2>2. tunnel' \in NatPunch(applied, DirectAnnouncement, now) \/ tunnel' \in applied
    BY <1>8 DEF NetworkArm
  <2> HIDE DEF applied
  <2>3. CASE tunnel' \in NatPunch(applied, DirectAnnouncement, now)
    BY <2>0, <2>1, <2>3, PunchHasReason
  <2> QED BY <2>0, <2>1, <2>2, <2>3
<1>9. ASSUME NEW ls \in OwnRelays \union {None}, StateArm(ls)
      PROVE  TurnHasReason(Speaking, lease', tunnel')
  <2>1. PICK b \in IF ls = lease THEN {tunnel} ELSE ApplyUpdate(tunnel, presence.known, ls, now) :
           Housekeeping(presence, b, ls)
    BY <1>9 DEF StateArm
  <2>2. lease' = ls /\ presence'.known = presence.known
    BY <1>9, <2>1 DEF StateArm, Housekeeping, PrunePresence, KnownInv, PresenceOK
  <2>3. presence.known \in Speaking
    BY <2>2 DEF Speaking
  <2>t. TurnHasReason(Speaking, ls, tunnel)
    BY DEF TurnHasReason
  <2>4. Sound(b) /\ CurrentHasReason(Speaking, ls, b) /\ TurnHasReason(Speaking, ls, b)
    BY <1>0, <1>c, <2>1, <2>3, <2>t, UpdateHasReason
  <2> QED BY <1>0, <2>1, <2>2, <2>4, HousekeepingHasReason
<1>10. CASE Pause
  <2>1. tunnel'.installed = None
    BY <1>10 DEF Pause, EmptyTunnel
  <2> QED BY <1>n, <2>1
<1>11. CASE Resume
  <2>1. PICK b \in ApplyUpdate(RestoredTunnel(tunnel), RestoredPresence.known, lease, now) :
           Housekeeping(RestoredPresence, b, lease)
    BY <1>11 DEF Resume
  <2>2. tunnel.installed = None /\ tunnel.current = None
    BY <1>11 DEF Resume, TypeInv, KnownInv, Fits
  <2>3. Sound(RestoredTunnel(tunnel)) /\ CurrentHasReason(Speaking, lease, RestoredTunnel(tunnel))
    BY <1>0, <2>2, RestoredSound, RestoredHasReason
  <2>4. PresenceTyped(RestoredPresence) /\ PresenceOK(RestoredPresence)
    BY RestoredPresenceTyped, RestoredPresenceOK
  <2>5. RestoredPresence.known \in Speaking /\ lease' = lease
    BY <1>11, <2>1, <2>4 DEF Resume, Housekeeping, PrunePresence, PresenceOK, Speaking
  <2>6. Sound(b) /\ CurrentHasReason(Speaking, lease, b) /\ TurnHasReason(Speaking, lease, b)
    BY <1>0, <2>1, <2>3, <2>4, <2>5, UpdateHasReason DEF PresenceTyped
  <2> QED BY <1>0, <2>1, <2>4, <2>5, <2>6, HousekeepingHasReason
<1>12. ASSUME NEW punch \in BOOLEAN, Restart(punch) PROVE TurnHasReason(Speaking, lease', tunnel')
  <2> DEFINE fresh == [EmptyTunnel EXCEPT !.contacted = tunnel.contacted]
             applied == ApplyUpdate(RestoredTunnel(fresh), presence'.known, None, now)
  <2>1. Sound(fresh) /\ fresh.installed = None /\ fresh.current = None
    <3>1. tunnel.contacted \subseteq Relays
      BY <1>0 DEF Sound, Tunnels
    <3>2. fresh \in Tunnels
      BY <3>1, Constants DEF EmptyTunnel, NoPeer, Tunnels, PathBook
    <3> QED BY <3>2 DEF EmptyTunnel, NoPeer, Sound, BookFits, PathFits, Tunnels
  <2>2. tunnel' \in NatPunch(applied, presence'.known, now) \/ tunnel' \in applied
    BY <1>12 DEF Restart
  <2> HIDE DEF fresh
  <2>3. presence'.known \in Announcement \union {None} /\ presence'.known \in Speaking /\ lease' = None
    BY <1>12, RestoredPresenceTyped DEF Restart, PresenceTyped, Speaking
  <2>4. Sound(RestoredTunnel(fresh)) /\ CurrentHasReason(Speaking, None, RestoredTunnel(fresh))
    BY <2>1, RestoredSound, RestoredHasReason
  <2>5. \A b \in applied : /\ Sound(b) /\ CurrentHasReason(Speaking, None, b)
                           /\ TurnHasReason(Speaking, None, b)
    BY <2>3, <2>4, UpdateHasReason
  <2> HIDE DEF applied
  <2>6. CASE tunnel' \in NatPunch(applied, presence'.known, now)
    BY <2>3, <2>5, <2>6, PunchHasReason
  <2> QED BY <2>2, <2>3, <2>5, <2>6
<1>13. ASSUME NEW e \in Endpoints, NEW handshake \in BOOLEAN, Hear(e, handshake)
       PROVE  TurnHasReason(Speaking, lease', tunnel')
  <2>1. tunnel'.installed = tunnel.installed
    BY <1>0, <1>13 DEF Hear, Sound, Tunnels
  <2> QED BY <1>n, <2>1
<1>14. CASE UNCHANGED vars
  BY <1>1, <1>14 DEF vars
<1> QED
  BY <1>2, <1>3, <1>4, <1>5, <1>6, <1>7, <1>8, <1>9, <1>10, <1>11, <1>12, <1>13, <1>14 DEF Next

(* WireGuard is never turned to an endpoint that nothing speaks for: to a   *)
(* relay endpoint whose lease has ended only if the peer was heard over it, *)
(* to one that never worked and is not announced only while its trial runs  *)
(* or the peer announces no public one (refresh_from_announcement,          *)
(* select_endpoint_for_local_endpoints, without_expired_relay).             *)
THEOREM TurnsForAReason == Spec => TurnedToForAReason
<1>1. TypeInv /\ KnownInv /\ [Next]_vars =>
        [LET new == tunnel'.installed
         IN new # None /\ new # tunnel.installed =>
              /\ new \in Relays /\ LeaseEnd[new] <= now => tunnel'.paths[new].source = "observed"
              /\ \/ Proven(tunnel', new) \/ new \in {LocalEp, lease'}
                 \/ OnTrial(tunnel, new) \/ (cache # None /\ OnTrial(cache, new))
                 \/ \E ann \in {presence'.known, presence'.active} \ {None} :
                      new \in {ann.public, ann.relay} \/ ann.public = None]_vars
  BY TurnStep DEF TurnHasReason, Speaks, Tried, Speaking
<1>2. Spec => [](TypeInv /\ KnownInv)
  BY TypeInit, KnownInit, TypeStep, KnownStep, PTL DEF Spec
<1> QED BY <1>1, <1>2, PTL DEF Spec, TurnedToForAReason

-----------------------------------------------------------------------------
(* A working path is kept.  One step plans the tunnel up to three times: by *)
(* an announcement, by a hole punch, after stale paths were pruned.  s is   *)
(* the tunnel it starts from, b the one it has come to, o the endpoint in   *)
(* use at the start.                                                        *)
At(b, e) == IF b.paths[e] = None THEN 0 ELSE SuccessAt(b, e)
Heard(s) == RecordSuccess(s, s.wg)
Recent(p) == \E x \in {p.announced_at, p.selected_at, p.success_at} : x > Cutoff(now, PathTimeout)

(* No endpoint has more success than was heard of at the start, a handshake *)
(* is the one of the start, and o is too recent to be pruned.               *)
Planned(s, b, o) ==
  /\ Sound(b)
  /\ \A e \in Endpoints : At(b, e) <= At(Heard(s), e)
  /\ b.wg.handshake_at # 0 => b.wg = s.wg /\ b.installed \in {None, o}
  /\ b.paths[o] # None =>
       Recent(b.paths[o]) /\ (b.paths[o].source = "observed" => s.paths[o].source = "observed")

(* Where o may stand: it is in use; its success is lost for good; it was    *)
(* observed and is now only announced; or it gave way to a better one.      *)
InUse(b, o) == b.paths[o] # None /\ b.current = o /\ b.installed \in {None, o}
LostForGood(b, o) == b.wg.handshake_at = 0 /\ At(b, o) = 0
Demoted(s, b, o) == /\ b.paths[o] # None
                    /\ s.paths[o].source = "observed" /\ b.paths[o].source # "observed"
BetterLost(s, b, o) == \E e \in Endpoints : At(Heard(s), e) > At(b, o) /\ At(b, e) = 0
Better(s, b, o, x) ==
  \/ x # None /\ At(b, x) > At(b, o)
  \/ BetterLost(s, b, o) /\ (x = None \/ At(b, x) >= At(b, o))
Standing(s, b, o) ==
  \/ InUse(b, o) \/ LostForGood(b, o) \/ Demoted(s, b, o)
  \/ b.wg.handshake_at = 0 /\ Better(s, b, o, b.current)
Settled(s, b, o) ==
  \/ b.installed \in {None, o} \/ LostForGood(b, o) \/ Demoted(s, b, o)
  \/ b.wg.handshake_at = 0 /\ Better(s, b, o, b.installed)

LEMMA AtIs ==
  ASSUME NEW b, Sound(b), NEW e \in Endpoints
  PROVE  /\ At(b, e) \in Nat /\ (At(b, e) > 0 => e \in Tracked(b))
         /\ (e \in Tracked(b) <=> b.paths[e] # None)
         /\ e \in Tracked(b) => At(b, e) = SuccessAt(b, e) /\ b.paths[e] \in TrackedPath
BY SuccessIs DEF At, Sound, Tracked, Tunnels, PathBook

(* The handshake is entered as a success, unless it does not count.         *)
LEMMA LastIsRecorded ==
  ASSUME NEW b \in Tunnels, NEW e \in Endpoints, e = b.wg.endpoint, b.wg.handshake_at # 0, Viable(e)
  PROVE  /\ Heard(b).paths[e] # None
         /\ Heard(b).paths[e].success_at >= b.wg.handshake_at
<1> DEFINE h == b.wg.handshake_at
           old == IF b.paths[e] = None THEN NewPath("observed", h) ELSE b.paths[e]
           m == Largest({old.success_at, h})
           new == [old EXCEPT !.success_at = m]
<1>0. b.wg \in [endpoint : Endpoints \union {None}, handshake_at : Times] /\ b.paths \in PathBook
  BY DEF Tunnels
<1>1. h \in Times /\ h \in Nat /\ e # None
  BY <1>0, TimesAreNumbers, Constants
<1>2. old \in TrackedPath /\ old.success_at \in Nat
  <2>1. old \in TrackedPath
    BY <1>0, <1>1, Constants DEF NewPath, TrackedPath, Source, PathBook
  <2> QED BY <2>1, TimesAreNumbers DEF TrackedPath
<1>3. Heard(b) = [b EXCEPT !.paths[e] = new]
  BY <1>1 DEF Heard, RecordSuccess
<1> HIDE DEF old
<1>4. m \in {old.success_at, h} /\ m >= h
  <2>1. old.success_at \in Int /\ h \in Int
    BY <1>1, <1>2
  <2> QED BY <2>1, LargestOfTwo
<1>5. m \in Times
  BY <1>1, <1>2, <1>4 DEF TrackedPath
<1> HIDE DEF m
<1>6. new \in TrackedPath /\ new.success_at = m /\ new # None
  BY <1>2, <1>5, Constants DEF TrackedPath
<1> HIDE DEF new
<1>7. Heard(b).paths[e] = new
  BY <1>0, <1>3 DEF Tunnels, PathBook
<1> QED BY <1>4, <1>6, <1>7

(* What was heard is not lost by hearing it once more.                      *)
LEMMA HeardAgain ==
  ASSUME NEW s, Sound(s), NEW b, NEW o \in Endpoints, Planned(s, b, o)
  PROVE  LET r == RecordSuccess(b, b.wg)
         IN /\ r \in Tunnels /\ BookFits(r.paths) /\ SameBut(b, r)
            /\ \A e \in Endpoints : At(b, e) <= At(r, e) /\ At(r, e) <= At(Heard(s), e)
            /\ \A e \in Endpoints : At(r, e) \in Nat
            /\ b.wg.handshake_at = 0 => \A e \in Endpoints : r.paths[e] = b.paths[e]
            /\ \A e \in Endpoints : b.paths[e] # None =>
                 /\ r.paths[e] # None /\ r.paths[e].source = b.paths[e].source
                 /\ r.paths[e].announced_at = b.paths[e].announced_at
                 /\ r.paths[e].selected_at = b.paths[e].selected_at
                 /\ r.paths[e].success_at >= b.paths[e].success_at
<1> DEFINE r == RecordSuccess(b, b.wg)
<1>0. Sound(b) /\ b \in Tunnels /\ s \in Tunnels
  BY DEF Planned, Sound
<1>1. r \in Tunnels /\ BookFits(r.paths) /\ SameBut(b, r)
  BY <1>0, RecordIs, RecordFits DEF Sound
<1>2. \A e \in Endpoints :
        \/ r.paths[e] = b.paths[e]
        \/ /\ e = b.wg.endpoint /\ b.wg.handshake_at > 0
           /\ Succeeded(b.paths[e], r.paths[e], b.wg.handshake_at)
  BY <1>0, RecordIs
<1> HIDE DEF r
<1>3. b.wg.handshake_at \in Nat /\ \A e \in Endpoints : b.paths[e] \in TrackedPath \union {None}
  BY <1>0, TimesAreNumbers DEF Tunnels, PathBook
<1>4. ASSUME NEW e \in Endpoints
      PROVE  /\ At(b, e) <= At(r, e) /\ At(r, e) <= At(Heard(s), e) /\ At(r, e) \in Nat
             /\ b.wg.handshake_at = 0 => r.paths[e] = b.paths[e]
             /\ b.paths[e] # None =>
                 /\ r.paths[e] # None /\ r.paths[e].source = b.paths[e].source
                 /\ r.paths[e].announced_at = b.paths[e].announced_at
                 /\ r.paths[e].selected_at = b.paths[e].selected_at
                 /\ r.paths[e].success_at >= b.paths[e].success_at
  <2>0. At(b, e) \in Nat /\ At(b, e) <= At(Heard(s), e)
    BY <1>0, AtIs DEF Planned
  <2>1. CASE r.paths[e] = b.paths[e]
    <3>1. At(r, e) = At(b, e)
      BY <2>1 DEF At, SuccessAt
    <3>2. b.paths[e] # None => b.paths[e].success_at \in Nat
      BY <1>3, TimesAreNumbers DEF TrackedPath
    <3> QED BY <2>0, <2>1, <3>1, <3>2
  <2>2. CASE /\ e = b.wg.endpoint /\ b.wg.handshake_at > 0
             /\ Succeeded(b.paths[e], r.paths[e], b.wg.handshake_at)
    <3> DEFINE h == b.wg.handshake_at
    <3>1. h \in Nat /\ h # 0 /\ b.wg = s.wg
      BY <1>3, <2>2 DEF Planned
    <3>2. r.paths[e] \in TrackedPath /\ r.paths[e] # None
      BY <2>2, Constants DEF Succeeded
    <3>3. r.paths[e].success_at \in Nat
      BY <3>2, TimesAreNumbers DEF TrackedPath
    <3>4. /\ b.paths[e] # None =>
               /\ r.paths[e].source = b.paths[e].source
               /\ r.paths[e].announced_at = b.paths[e].announced_at
               /\ r.paths[e].selected_at = b.paths[e].selected_at
               /\ r.paths[e].success_at \in {b.paths[e].success_at, h}
               /\ r.paths[e].success_at >= b.paths[e].success_at
          /\ b.paths[e] = None => r.paths[e].success_at = h
      BY <2>2 DEF Succeeded
    <3>5. CASE e = LocalEp /\ ~subnet
      <4>1. At(r, e) = 0 /\ At(b, e) = 0
        BY <3>2, <3>5 DEF At, SuccessAt
      <4> QED BY <2>0, <3>1, <3>2, <3>4, <4>1
    <3>6. CASE ~(e = LocalEp /\ ~subnet)
      <4>1. /\ At(r, e) = r.paths[e].success_at
            /\ b.paths[e] # None => At(b, e) = b.paths[e].success_at
            /\ b.paths[e] = None => At(b, e) = 0
        BY <3>2, <3>6 DEF At, SuccessAt
      <4>2. /\ Heard(s).paths[e] # None
            /\ Heard(s).paths[e].success_at >= h
        BY <1>0, <2>2, <3>1, <3>6, LastIsRecorded DEF Viable
      <4>3. At(Heard(s), e) = Heard(s).paths[e].success_at
        BY <3>6, <4>2 DEF At, SuccessAt
      <4>4. At(Heard(s), e) >= h
        BY <4>2, <4>3
      <4>5. At(r, e) <= At(Heard(s), e)
        BY <2>0, <3>1, <3>4, <4>1, <4>4
      <4> QED BY <2>0, <3>1, <3>2, <3>3, <3>4, <4>1, <4>5
    <3> QED BY <3>5, <3>6
  <2> QED BY <1>2, <2>1, <2>2
<1> QED BY <1>1, <1>4 DEF r

(* Planning loses a success, or leaves it as it is.                         *)
LEMMA BookedAt ==
  ASSUME NEW s, Sound(s), NEW b, NEW o \in Endpoints, Planned(s, b, o), NEW ann \in Plan, now \in Times
  PROVE  LET a == WithoutExpiredRelay(ann, now)
             r == RecordSuccess(b, b.wg)
             book == Booked(b, ann, now)
         IN \A e \in Endpoints :
              /\ At(book, e) = IF e \in Kept(r, a, now) THEN At(r, e) ELSE 0
              /\ At(book, e) \in Nat /\ At(book, e) <= At(r, e)
<1> DEFINE a == WithoutExpiredRelay(ann, now)
           r == RecordSuccess(b, b.wg)
           book == Booked(b, ann, now)
           kept == Kept(r, a, now)
<1>1. Sound(b)
  BY DEF Planned
<1>2. /\ kept \subseteq Tracked(book) /\ Sound(book)
      /\ \A e \in kept : Renewed(e, r.paths[e], book.paths[e], a, now)
      /\ \A e \in Tracked(book) \ kept : book.paths[e] = NewPath(AnnouncedSource(a, e), now)
  BY <1>1, BookedIs
<1>3. \A e \in Endpoints : At(r, e) \in Nat
  BY HeardAgain
<1>4. \A e \in kept : r.paths[e] # None
  BY DEF Kept, Tracked
<1> HIDE DEF a, r, book, kept
<1>5. ASSUME NEW e \in Endpoints
      PROVE  /\ At(book, e) = IF e \in kept THEN At(r, e) ELSE 0
             /\ At(book, e) \in Nat /\ At(book, e) <= At(r, e)
  <2>1. At(book, e) \in Nat /\ At(r, e) \in Nat
    BY <1>2, <1>3, AtIs
  <2>2. CASE e \in kept
    <3>1. book.paths[e] # None /\ r.paths[e] # None
      BY <1>2, <1>4, <2>2 DEF Tracked
    <3>2. book.paths[e].success_at = r.paths[e].success_at
      BY <1>2, <2>2 DEF Renewed
    <3>3. At(book, e) = At(r, e)
      BY <3>1, <3>2 DEF At, SuccessAt
    <3> QED BY <2>1, <2>2, <3>3
  <2>3. CASE e \notin kept
    <3>1. book.paths[e] = None \/ book.paths[e] = NewPath(AnnouncedSource(a, e), now)
      BY <1>2, <2>3 DEF Tracked
    <3>2. At(book, e) = 0
      BY <3>1 DEF At, SuccessAt, NewPath
    <3> QED BY <2>1, <2>3, <3>2
  <2> QED BY <2>2, <2>3
<1> QED BY <1>5 DEF a, r, book, kept

(* A current endpoint that worked gives way only to one that worked later;  *)
(* otherwise the choice has the latest success there is.                    *)
LEMMA ChoiceIs ==
  ASSUME NEW b, Sound(b), NEW ann, NEW t, NEW p \in Preferred(b, ann)
  PROVE  LET e == Select(b, t, p)
         IN /\ e \in Tracked(b) /\ e \in {p, b.current} /\ e \in Endpoints
            /\ b.current # None /\ At(b, b.current) > 0 =>
                 e = b.current \/ At(b, e) > At(b, b.current)
            /\ \A x \in Endpoints : At(b, p) >= At(b, x)
<1> DEFINE e == Select(b, t, p)
           cur == b.current
<1>1. p \in Tracked(b) /\ p \in Endpoints /\ b \in Tunnels
  BY DEF Preferred, Tracked, Sound
<1>2. e \in Tracked(b) /\ e \in {p, cur}
  BY <1>1, SelectIs
<1>3. ASSUME NEW x \in Endpoints PROVE At(b, p) >= At(b, x)
  <2>1. CASE x \in Tracked(b)
    <3>1. SuccessAt(b, p) >= SuccessAt(b, x)
      BY <1>1, <2>1, PreferredIs
    <3> QED BY <1>1, <2>1, <3>1, AtIs
  <2>2. CASE x \notin Tracked(b)
    <3>1. At(b, x) = 0 /\ At(b, p) \in Nat
      BY <1>1, <2>2, AtIs
    <3> QED BY <3>1
  <2> QED BY <2>1, <2>2
<1>4. ASSUME cur # None, At(b, cur) > 0, e # cur PROVE At(b, e) > At(b, cur)
  <2>1. cur \in Tracked(b) /\ cur \in Endpoints
    BY <1>4 DEF Sound, Tracked
  <2>2. At(b, cur) = SuccessAt(b, cur) /\ At(b, p) = SuccessAt(b, p)
        /\ SuccessAt(b, cur) \in Nat
    BY <1>1, <2>1, AtIs
  <2>3. ~(cur = LocalEp /\ ~subnet)
    BY <1>4, <2>2 DEF SuccessAt
  <2>4. e = p /\ cur \in Tracked(b) \ {p}
    BY <1>2, <1>4, <2>1
  <2>5. SuccessAt(b, cur) > 0 /\ SuccessAt(b, p) > SuccessAt(b, cur)
    <3>1. \/ cur \notin Tracked(b) \ {p}
          \/ cur = LocalEp /\ ~subnet
          \/ SuccessAt(b, cur) > 0 /\ SuccessAt(b, p) > SuccessAt(b, cur)
          \/ SuccessAt(b, cur) = 0
      BY <1>4 DEF Select
    <3> QED BY <1>4, <2>2, <2>3, <2>4, <3>1
  <2> QED BY <2>2, <2>4, <2>5
<1>5. e \in Endpoints
  BY <1>2 DEF Tracked
<1> QED BY <1>2, <1>3, <1>4, <1>5

(* The three ways in which a choice is carried out: what they leave of the  *)
(* book, and the handshake they lose.                                       *)
LEMMA CarriedOut ==
  ASSUME TypeInv, NEW book, Sound(book), NEW e \in Tracked(book), NEW c, NEW o \in Endpoints,
         \/ c = Stopped(book)
         \/ c = book /\ book.installed = e
         \/ c = Done(book, e, now)
  PROVE  /\ Sound(c)
         /\ \A x \in Endpoints : At(c, x) = At(book, x)
         /\ c.paths[o] # None <=> book.paths[o] # None
         /\ book.paths[o] # None =>
              /\ c.paths[o].source = book.paths[o].source
              /\ Recent(book.paths[o]) => Recent(c.paths[o])
         /\ c.current \in {book.current, e} /\ c.installed \in {None, e}
         /\ c.current = book.current \/ c.installed = e
         /\ c = book \/ (c.wg.handshake_at = 0 /\ (c.installed = None \/ c.current = e))
<1>0. now \in Times /\ Cutoff(now, PathTimeout) < now /\ now \in Nat
  <2>1. now \in Nat /\ now >= 1 /\ PathTimeout \in Nat \ {0}
    BY TimesAssumption DEF TypeInv
  <2> QED BY <2>1, Constants DEF TypeInv, Cutoff
<1>1. CASE c = Stopped(book)
  <2>1. /\ c.paths = book.paths /\ c.current = book.current /\ c.installed = None
        /\ c.wg = NoPeer
    BY <1>1 DEF Stopped, Sound, Tunnels
  <2>2. \A x \in Endpoints : At(c, x) = At(book, x)
    BY <2>1 DEF At, SuccessAt
  <2>3. c.wg.handshake_at = 0
    BY <2>1 DEF NoPeer
  <2>4. Sound(c)
    BY <1>1, StoppedSound
  <2> QED BY <2>1, <2>2, <2>3, <2>4
<1>2. CASE c = book /\ book.installed = e
  BY <1>2
<1>3. CASE c = Done(book, e, now)
  <2> DEFINE new == [book.paths[e] EXCEPT !.selected_at = now]
  <2>1. /\ Sound(c) /\ c.current = e /\ c.installed = e
        /\ c.wg = [endpoint |-> e, handshake_at |-> 0]
        /\ c.paths = [book.paths EXCEPT ![e] = new]
    BY <1>0, <1>3, DoneIs
  <2>2. book.paths \in PathBook /\ e \in Endpoints /\ book.paths[e] \in TrackedPath
    BY DEF Sound, Tunnels, Tracked, PathBook
  <2>3. /\ new \in TrackedPath /\ new # None /\ new.source = book.paths[e].source
        /\ new.success_at = book.paths[e].success_at /\ new.selected_at = now
    BY <1>0, <2>2, Constants DEF TrackedPath
  <2> HIDE DEF new
  <2>4. \A x \in Endpoints : c.paths[x] = IF x = e THEN new ELSE book.paths[x]
    BY <2>1, <2>2 DEF PathBook
  <2>5. \A x \in Endpoints : At(c, x) = At(book, x)
    BY <2>2, <2>3, <2>4, Constants DEF At, SuccessAt
  <2>6. /\ c.paths[o] # None <=> book.paths[o] # None
        /\ book.paths[o] # None =>
              /\ c.paths[o].source = book.paths[o].source
              /\ Recent(book.paths[o]) => Recent(c.paths[o])
    BY <1>0, <2>2, <2>3, <2>4, Constants DEF Recent
  <2>7. c.wg.handshake_at = 0
    BY <2>1
  <2> QED BY <2>1, <2>5, <2>6, <2>7
<1> QED BY <1>1, <1>2, <1>3

(* What the announcement makes of o.                                        *)
LEMMA BookedUse ==
  ASSUME TypeInv, NEW s, Sound(s), NEW b, NEW o \in Endpoints, Planned(s, b, o), NEW ann \in Plan
  PROVE  LET a == WithoutExpiredRelay(ann, now)
             r == RecordSuccess(b, b.wg)
             book == Booked(b, ann, now)
         IN /\ o \in Kept(r, a, now) /\ b.paths[o] # None =>
                 /\ Recent(book.paths[o])
                 /\ book.paths[o].source = "observed" <=> b.paths[o].source = "observed"
            /\ o \notin Kept(r, a, now) /\ book.paths[o] # None =>
                 /\ Recent(book.paths[o]) /\ book.paths[o].source # "observed"
                 /\ b.paths[o] # None => b.paths[o].source = "observed"
<1> DEFINE a == WithoutExpiredRelay(ann, now)
           r == RecordSuccess(b, b.wg)
           book == Booked(b, ann, now)
           kept == Kept(r, a, now)
<1>0. now \in Times /\ Cutoff(now, PathTimeout) < now /\ now \in Nat
  <2>1. now \in Nat /\ now >= 1 /\ PathTimeout \in Nat \ {0}
    BY TimesAssumption DEF TypeInv
  <2> QED BY <2>1, Constants DEF TypeInv, Cutoff
<1>1. Sound(b) /\ a \in Plan
  BY <1>0, PlanIs DEF Planned
<1>2. /\ Sound(book)
      /\ kept \subseteq Tracked(book)
      /\ \A e \in kept : Renewed(e, r.paths[e], book.paths[e], a, now)
      /\ \A e \in Tracked(book) \ kept :
           e \in AnnouncedEndpoints(a) /\ book.paths[e] = NewPath(AnnouncedSource(a, e), now)
  BY <1>0, <1>1, BookedIs
<1>3. /\ r \in Tunnels /\ BookFits(r.paths)
      /\ b.paths[o] # None =>
                 /\ r.paths[o] # None /\ r.paths[o].source = b.paths[o].source
                 /\ r.paths[o].announced_at = b.paths[o].announced_at
                 /\ r.paths[o].selected_at = b.paths[o].selected_at
                 /\ r.paths[o].success_at >= b.paths[o].success_at
  BY HeardAgain
<1>4. \A e \in AnnouncedEndpoints(a) :
              /\ AnnouncedSource(a, e) \in Source \ {"observed"}
              /\ e \in Relays => AnnouncedSource(a, e) = "relay"
  BY <1>1, AnnouncedAre
<1>5. \A e \in AnnouncedEndpoints(a) : AnnouncedSource(a, e) = "relay" => e = a.relay
  BY DEF AnnouncedEndpoints, AnnouncedSource
<1>6. o \in Tracked(r) /\ o \notin kept =>
        r.paths[o].source = "observed" \/ (r.paths[o].source = "relay" /\ o # a.relay)
  BY DEF Kept, Superseded
<1>7. kept \subseteq Tracked(r)
  BY DEF Kept
<1> HIDE DEF a, r, book, kept
<1>8. \A p \in TrackedPath : /\ p.announced_at \in Nat /\ p.selected_at \in Nat
                             /\ p.success_at \in Nat /\ p.source \in Source
  BY TimesAreNumbers DEF TrackedPath
<1>9. b.paths[o] \in TrackedPath \union {None} /\ r.paths[o] \in TrackedPath \union {None}
  BY <1>1, <1>3 DEF Sound, Tunnels, PathBook
<1>10. Cutoff(now, PathTimeout) \in Nat
  BY <1>0, TimesAssumption DEF Cutoff
<1>11. ASSUME o \in kept, b.paths[o] # None
       PROVE  /\ Recent(book.paths[o])
              /\ book.paths[o].source = "observed" <=> b.paths[o].source = "observed"
  <2>1. Renewed(o, r.paths[o], book.paths[o], a, now) /\ r.paths[o] # None /\ Recent(b.paths[o])
    BY <1>2, <1>3, <1>11 DEF Planned
  <2>2. /\ book.paths[o] \in TrackedPath
        /\ book.paths[o].selected_at = r.paths[o].selected_at
        /\ book.paths[o].success_at = r.paths[o].success_at
        /\ book.paths[o].announced_at >= r.paths[o].announced_at
        /\ \/ book.paths[o].source = r.paths[o].source
           \/ /\ o \in AnnouncedEndpoints(a)
              /\ book.paths[o].source = Merge(r.paths[o].source, AnnouncedSource(a, o))
    BY <2>1 DEF Renewed
  <2>3. Recent(book.paths[o])
    <3>1. /\ book.paths[o].announced_at >= b.paths[o].announced_at
          /\ book.paths[o].selected_at = b.paths[o].selected_at
          /\ book.paths[o].success_at >= b.paths[o].success_at
      BY <1>3, <1>11, <2>2
    <3>2. /\ book.paths[o].announced_at \in Nat /\ book.paths[o].success_at \in Nat
          /\ b.paths[o].announced_at \in Nat /\ b.paths[o].success_at \in Nat
      BY <1>8, <1>9, <1>11, <2>2
    <3>3. \/ b.paths[o].announced_at > Cutoff(now, PathTimeout)
          \/ b.paths[o].selected_at > Cutoff(now, PathTimeout)
          \/ b.paths[o].success_at > Cutoff(now, PathTimeout)
      BY <2>1 DEF Recent
    <3>4. \/ book.paths[o].announced_at > Cutoff(now, PathTimeout)
          \/ book.paths[o].selected_at > Cutoff(now, PathTimeout)
          \/ book.paths[o].success_at > Cutoff(now, PathTimeout)
      BY <1>10, <3>1, <3>2, <3>3
    <3> QED BY <3>4 DEF Recent
  <2>4. book.paths[o].source = "observed" <=> b.paths[o].source = "observed"
    <3>1. r.paths[o].source = b.paths[o].source /\ r.paths[o].source \in Source
      BY <1>3, <1>8, <1>9, <1>11, <2>1
    <3>2. CASE book.paths[o].source = r.paths[o].source
      BY <3>1, <3>2
    <3>3. CASE /\ o \in AnnouncedEndpoints(a)
               /\ book.paths[o].source = Merge(r.paths[o].source, AnnouncedSource(a, o))
      <4>1. AnnouncedSource(a, o) \in Source /\ AnnouncedSource(a, o) # "observed"
        BY <1>4, <3>3
      <4> QED BY <3>1, <3>3, <4>1, MergeIs
    <3> QED BY <2>2, <3>2, <3>3
  <2> QED BY <2>3, <2>4
<1>12. ASSUME o \notin kept, book.paths[o] # None
       PROVE  /\ Recent(book.paths[o]) /\ book.paths[o].source # "observed"
              /\ b.paths[o] # None => b.paths[o].source = "observed"
  <2>1. o \in AnnouncedEndpoints(a) /\ book.paths[o] = NewPath(AnnouncedSource(a, o), now)
    BY <1>2, <1>12 DEF Tracked
  <2>2. Recent(book.paths[o]) /\ book.paths[o].source # "observed"
    BY <1>0, <1>4, <2>1 DEF NewPath, Recent
  <2>3. ASSUME b.paths[o] # None PROVE b.paths[o].source = "observed"
    <3>1. o \in Tracked(r) /\ r.paths[o].source = b.paths[o].source
      BY <1>3, <2>3 DEF Tracked
    <3>2. ~(r.paths[o].source = "relay" /\ o # a.relay)
      <4>1. SUFFICES ASSUME r.paths[o].source = "relay" PROVE o = a.relay
        OBVIOUS
      <4>2. o \in Relays
        BY <1>3, <3>1, <4>1 DEF BookFits, PathFits, Tracked
      <4> QED BY <1>4, <1>5, <2>1, <4>2
    <3> QED BY <1>6, <1>12, <3>1, <3>2
  <2> QED BY <2>2, <2>3
<1> QED BY <1>11, <1>12 DEF a, r, book, kept

(* A tunnel that is stopped keeps its paths. *)
LEMMA StoppedKeepsPath ==
  ASSUME NEW s, NEW b, NEW o \in Endpoints, Planned(s, b, o), Standing(s, b, o)
  PROVE  LET c == Stopped(b) IN Planned(s, c, o) /\ Standing(s, c, o) /\ Settled(s, c, o)
<1> DEFINE c == Stopped(b)
<1>1. Sound(b) /\ Sound(c)
  BY StoppedSound DEF Planned
<1>2. c.paths = b.paths /\ c.current = b.current /\ c.installed = None /\ c.wg = NoPeer
  BY <1>1 DEF Stopped, Sound, Tunnels
<1> HIDE DEF c
<1>3. \A x \in Endpoints : At(c, x) = At(b, x)
  BY <1>2 DEF At, SuccessAt
<1>4. c.wg.handshake_at = 0
  BY <1>2 DEF NoPeer
<1>5. Planned(s, c, o)
  BY <1>1, <1>2, <1>3, <1>4 DEF Planned
<1>6. Better(s, b, o, b.current) => Better(s, c, o, c.current)
  BY <1>1, <1>2, <1>3 DEF Better, BetterLost, Sound, Tracked
<1>7. Standing(s, c, o)
  BY <1>2, <1>3, <1>4, <1>6 DEF Standing, InUse, LostForGood, Demoted
<1>8. Settled(s, c, o)
  BY <1>2 DEF Settled
<1> QED BY <1>5, <1>7, <1>8 DEF c

(* Planning keeps what is said of o: whatever the announcement, o is used   *)
(* on, has lost its success, was demoted, or gave way to a better one.      *)
LEMMA ApplyKeepsPath ==
  ASSUME TypeInv, NEW s, Sound(s), NEW b, NEW o \in Endpoints, Planned(s, b, o), Standing(s, b, o),
         NEW ann \in Plan \union {None}, NEW c \in Apply(b, ann, now)
  PROVE  Planned(s, c, o) /\ Standing(s, c, o) /\ Settled(s, c, o)
<1>0. now \in Times /\ Sound(b) /\ o # None
  BY Constants DEF TypeInv, Planned
<1>1. CASE ann = None
  BY <1>1, StoppedKeepsPath DEF Apply
<1>2. CASE ann # None
  <2> DEFINE a == WithoutExpiredRelay(ann, now)
             r == RecordSuccess(b, b.wg)
             book == Booked(b, ann, now)
             kept == Kept(r, a, now)
  <2>0. ann \in Plan
    BY <1>2
  <2>1. PICK p \in Preferred(book, a) :
           \/ c = Stopped(book)
           \/ c = book /\ book.installed = Select(book, now, p)
           \/ c = Done(book, Select(book, now, p), now)
    BY <1>2, ApplyIs
  <2> DEFINE e == Select(book, now, p)
  <2>2. /\ Sound(book) /\ book.installed = b.installed /\ book.wg = b.wg
        /\ book.current = CurrentAmong(r, kept) /\ r.current = b.current
        /\ kept \subseteq Tracked(book)
    BY <1>0, <2>0, BookedIs
  <2>3. /\ e \in Tracked(book) /\ e \in {p, book.current} /\ e \in Endpoints
        /\ book.current # None /\ At(book, book.current) > 0 =>
             e = book.current \/ At(book, e) > At(book, book.current)
        /\ \A x \in Endpoints : At(book, p) >= At(book, x)
    BY <2>2, ChoiceIs
  <2>4. /\ Sound(c)
        /\ \A x \in Endpoints : At(c, x) = At(book, x)
        /\ c.paths[o] # None <=> book.paths[o] # None
        /\ book.paths[o] # None =>
              /\ c.paths[o].source = book.paths[o].source
              /\ Recent(book.paths[o]) => Recent(c.paths[o])
        /\ c.current \in {book.current, e} /\ c.installed \in {None, e}
        /\ c.current = book.current \/ c.installed = e
        /\ c = book \/ (c.wg.handshake_at = 0 /\ (c.installed = None \/ c.current = e))
    BY <2>1, <2>2, <2>3, CarriedOut
  <2>5. \A x \in Endpoints :
              /\ At(book, x) = IF x \in kept THEN At(r, x) ELSE 0
              /\ At(book, x) \in Nat /\ At(book, x) <= At(r, x)
    BY <1>0, <2>0, BookedAt
  <2>6. /\ \A x \in Endpoints : At(r, x) <= At(Heard(s), x) /\ At(r, x) \in Nat
        /\ b.wg.handshake_at = 0 => \A x \in Endpoints : At(r, x) = At(b, x)
    <3>1. /\ \A x \in Endpoints : At(r, x) <= At(Heard(s), x) /\ At(r, x) \in Nat
          /\ b.wg.handshake_at = 0 => \A x \in Endpoints : r.paths[x] = b.paths[x]
      BY HeardAgain
    <3> HIDE DEF r
    <3> QED BY <3>1 DEF At, SuccessAt
  <2>7. /\ o \in kept /\ b.paths[o] # None =>
                 /\ Recent(book.paths[o])
                 /\ book.paths[o].source = "observed" <=> b.paths[o].source = "observed"
        /\ o \notin kept /\ book.paths[o] # None =>
                 /\ Recent(book.paths[o]) /\ book.paths[o].source # "observed"
                 /\ b.paths[o] # None => b.paths[o].source = "observed"
    BY <2>0, BookedUse
  <2>8. c.wg.handshake_at # 0 => c = book /\ c.installed = e
    <3>1. c.installed = None => c.wg = NoPeer
      BY <2>4 DEF Sound
    <3> QED BY <2>4, <3>1 DEF NoPeer
  <2>9. e # None /\ \A x \in Endpoints : At(Heard(s), x) \in Nat
    <3>1. Heard(s) \in Tunnels
      BY RecordIs DEF Sound, Heard
    <3>2. ASSUME NEW x \in Endpoints PROVE At(Heard(s), x) \in Nat
      <4>1. Heard(s).paths[x] # None => x \in Tracked(Heard(s))
        BY DEF Tracked
      <4> QED BY <3>1, <4>1, SuccessIs DEF At
    <3> QED BY <2>3, <3>2, Constants
  <2>10. b.wg.handshake_at # 0 => b.installed \in {None, o} /\ b.wg = s.wg
    BY DEF Planned
  <2>11. o \in kept => b.paths[o] # None
    <3>1. SUFFICES ASSUME o \in kept, b.paths[o] = None PROVE FALSE
      OBVIOUS
    <3>2. b.wg.handshake_at = 0
      BY <3>1 DEF Standing, InUse, Demoted, LostForGood
    <3>3. r.paths[o] = None
      BY <3>1, <3>2, HeardAgain
    <3> QED BY <3>1, <3>3 DEF Kept, Tracked
  <2>12. \A x \in kept : x \in Endpoints
    BY DEF Kept, Tracked
  <2>13. \A x \in Endpoints : (x \in Tracked(book) <=> book.paths[x] # None) /\ At(b, x) \in Nat
    BY <1>0, AtIs DEF Tracked
  <2>14. book.current = IF b.current \in kept THEN b.current ELSE None
    BY <2>2 DEF CurrentAmong
  <2> HIDE DEF a, r, book, kept, e
  <2>15. Planned(s, c, o)
    <3>1. \A x \in Endpoints : At(c, x) <= At(Heard(s), x)
      BY <2>4, <2>5, <2>6, <2>9
    <3>2. c.wg.handshake_at # 0 => c.wg = s.wg /\ c.installed \in {None, o}
      BY <2>2, <2>8, <2>10
    <3>3. ASSUME c.paths[o] # None
          PROVE  Recent(c.paths[o])
                 /\ (c.paths[o].source = "observed" => s.paths[o].source = "observed")
      <4>1. book.paths[o] # None /\ c.paths[o].source = book.paths[o].source
        BY <2>4, <3>3
      <4>2. b.paths[o] # None /\ b.paths[o].source = "observed" => s.paths[o].source = "observed"
        BY DEF Planned
      <4>3. Recent(book.paths[o]) /\ (book.paths[o].source = "observed" => s.paths[o].source = "observed")
        BY <2>7, <2>11, <4>1, <4>2
      <4> QED BY <2>4, <4>1, <4>3
    <3> QED BY <2>4, <3>1, <3>2, <3>3 DEF Planned
  <2>l. ASSUME At(book, o) = 0, c.wg.handshake_at = 0 PROVE LostForGood(c, o)
    BY <2>4, <2>l DEF LostForGood
  (* While o is not kept, or was demoted, the handshake is lost with it. *)
  <2>16. CASE InUse(b, o)
    <3>1. CASE o \in kept
      <4>1. book.current = o /\ book.paths[o] # None
        BY <2>2, <2>13, <2>14, <2>16, <3>1 DEF InUse
      <4>2. CASE e = o
        <5>1. InUse(c, o) /\ c.installed \in {None, o}
          BY <2>4, <4>1, <4>2 DEF InUse
        <5> QED BY <2>15, <5>1 DEF Standing, Settled
      <4>3. CASE e # o
        <5>1. c.wg.handshake_at = 0
          BY <2>2, <2>8, <2>9, <2>16, <4>3 DEF InUse
        <5>2. CASE At(book, o) = 0
          BY <2>15, <2>l, <5>1, <5>2 DEF Standing, Settled
        <5>3. CASE At(book, o) # 0
          <6>1. At(book, e) > At(book, o)
            BY <1>0, <2>3, <2>5, <4>1, <4>3, <5>3
          <6>2. At(c, e) > At(c, o)
            BY <2>3, <2>4, <6>1
          <6>3. Better(s, c, o, e)
            BY <2>9, <6>2 DEF Better
          <6>4. CASE c.installed = None
            <7>1. c.current \in {o, e} /\ c.paths[o] # None
              BY <2>4, <4>1
            <7> QED BY <2>15, <5>1, <6>3, <6>4, <7>1 DEF Standing, Settled, InUse
          <6>5. CASE c.installed = e
            <7>1. c # book
              BY <2>2, <2>9, <2>16, <4>3, <6>5 DEF InUse
            <7>2. c.current = e
              BY <2>4, <2>9, <6>5, <7>1
            <7> QED BY <2>15, <5>1, <6>3, <6>5, <7>2 DEF Standing, Settled
          <6> QED BY <2>4, <6>4, <6>5
        <5> QED BY <5>2, <5>3
      <4> QED BY <4>2, <4>3
    <3>2. CASE o \notin kept
      <4>1. At(book, o) = 0
        BY <2>5, <3>2
      <4>2. CASE c.wg.handshake_at = 0
        BY <2>15, <2>l, <4>1, <4>2 DEF Standing, Settled
      <4>3. CASE c.wg.handshake_at # 0
        <5>1. e = o
          BY <2>2, <2>8, <2>9, <2>16, <4>3 DEF InUse
        <5>2. book.paths[o] # None
          BY <2>3, <2>13, <5>1
        <5>3. book.paths[o].source # "observed" /\ b.paths[o].source = "observed"
          BY <2>7, <2>16, <3>2, <5>2 DEF InUse
        <5>4. s.paths[o].source = "observed"
          BY <2>16, <5>3 DEF Planned, InUse
        <5>5. Demoted(s, c, o)
          BY <2>4, <5>2, <5>3, <5>4 DEF Demoted
        <5> QED BY <2>15, <5>5 DEF Standing, Settled
      <4> QED BY <4>2, <4>3
    <3> QED BY <3>1, <3>2
  <2>17. CASE LostForGood(b, o)
    <3>1. c.wg.handshake_at = 0
      BY <2>2, <2>8, <2>17 DEF LostForGood
    <3>2. At(book, o) = 0
      <4>1. At(r, o) = 0
        BY <2>6, <2>17 DEF LostForGood
      <4> QED BY <2>5, <4>1
    <3> QED BY <2>15, <2>l, <3>1, <3>2 DEF Standing, Settled
  <2>18. CASE Demoted(s, b, o)
    <3>1. CASE book.paths[o] # None
      <4>1. book.paths[o].source # "observed"
        BY <2>7, <2>18, <3>1 DEF Demoted
      <4>2. Demoted(s, c, o)
        BY <2>4, <2>18, <3>1, <4>1 DEF Demoted
      <4> QED BY <2>15, <4>2 DEF Standing, Settled
    <3>2. CASE book.paths[o] = None
      <4>1. e # o /\ At(book, o) = 0
        BY <2>3, <2>13, <3>2 DEF At
      <4>2. c.wg.handshake_at = 0
        BY <2>2, <2>8, <2>9, <2>10, <4>1
      <4> QED BY <2>15, <2>l, <4>1, <4>2 DEF Standing, Settled
    <3> QED BY <3>1, <3>2
  <2>19. CASE b.wg.handshake_at = 0 /\ Better(s, b, o, b.current)
    <3>1. c.wg.handshake_at = 0
      BY <2>2, <2>8, <2>19
    <3>2. CASE At(book, o) = 0
      BY <2>15, <2>l, <3>1, <3>2 DEF Standing, Settled
    <3>3. CASE At(book, o) # 0
      <4>1. /\ At(book, o) = At(b, o) /\ At(b, o) > 0
            /\ \A x \in Endpoints : At(book, x) = IF x \in kept THEN At(b, x) ELSE 0
        BY <2>5, <2>6, <2>13, <2>19, <3>3
      <4>2. BetterLost(s, b, o) => BetterLost(s, book, o)
        BY <4>1 DEF BetterLost
      <4>3. b.current \in Endpoints \union {None}
        BY <1>0 DEF Sound, Tracked
      <4>4. /\ Better(s, book, o, e) /\ Better(s, book, o, book.current)
        <5>1. CASE b.current \in kept
          <6>1. /\ b.current \in Endpoints /\ b.current # None /\ book.current = b.current
                /\ At(book, b.current) = At(b, b.current)
            BY <2>12, <2>14, <4>1, <5>1, Constants
          <6>2. At(b, b.current) >= At(b, o) /\ Better(s, book, o, book.current)
            BY <2>13, <2>19, <4>1, <4>2, <6>1 DEF Better
          <6>3. At(book, b.current) > 0
            BY <2>13, <4>1, <6>1, <6>2
          <6>4. CASE e = b.current
            BY <6>1, <6>2, <6>4
          <6>5. CASE At(book, e) > At(book, b.current)
            <7>1. At(book, e) > At(book, o)
              BY <2>3, <2>5, <4>1, <6>1, <6>2, <6>5
            <7> QED BY <2>9, <6>2, <7>1 DEF Better
          <6> QED BY <2>3, <6>1, <6>3, <6>4, <6>5
        <5>2. CASE b.current \notin kept
          <6>1. book.current = None /\ e = p
            BY <2>3, <2>9, <2>14, <5>2
          <6>2. BetterLost(s, book, o)
            <7>1. CASE BetterLost(s, b, o)
              BY <4>2, <7>1
            <7>2. CASE b.current # None /\ At(b, b.current) > At(b, o)
              <8>1. b.current \in Endpoints /\ At(book, b.current) = 0
                BY <4>1, <4>3, <5>2, <7>2
              <8>2. At(Heard(s), b.current) >= At(b, b.current)
                BY <2>6, <2>9, <2>13, <2>19, <8>1 DEF Planned
              <8>3. At(Heard(s), b.current) > At(book, o)
                BY <2>9, <2>13, <4>1, <7>2, <8>1, <8>2
              <8> QED BY <8>1, <8>3 DEF BetterLost
            <7> QED BY <2>19, <7>1, <7>2 DEF Better
          <6>3. At(book, e) >= At(book, o)
            BY <2>3, <6>1
          <6> QED BY <6>1, <6>2, <6>3 DEF Better
        <5> QED BY <5>1, <5>2
      <4>5. /\ Better(s, c, o, e) /\ Better(s, c, o, book.current)
        <5>1. BetterLost(s, book, o) => BetterLost(s, c, o)
          BY <2>4 DEF BetterLost
        <5>2. book.current \in Endpoints \union {None}
          BY <2>2 DEF Sound, Tracked
        <5>3. /\ At(c, o) = At(book, o) /\ At(c, e) = At(book, e)
              /\ book.current # None => At(c, book.current) = At(book, book.current)
          BY <2>3, <2>4, <5>2
        <5> QED BY <4>4, <5>1, <5>3 DEF Better
      <4>6. Better(s, c, o, c.current)
        BY <2>4, <4>5
      <4> QED BY <2>4, <2>15, <3>1, <4>5, <4>6 DEF Standing, Settled
    <3> QED BY <3>2, <3>3
  <2> QED BY <2>16, <2>17, <2>18, <2>19 DEF Standing
<1> QED BY <1>1, <1>2

LEMMA HeardIs ==
  ASSUME NEW s, Sound(s)
  PROVE  \A e \in Endpoints : At(Heard(s), e) \in Nat /\ At(s, e) <= At(Heard(s), e)
<1>1. /\ Heard(s) \in Tunnels
      /\ \A e \in Endpoints :
           \/ Heard(s).paths[e] = s.paths[e]
           \/ /\ e = s.wg.endpoint /\ s.wg.handshake_at > 0
              /\ Succeeded(s.paths[e], Heard(s).paths[e], s.wg.handshake_at)
  BY RecordIs DEF Heard, Sound
<1>2. ASSUME NEW e \in Endpoints
      PROVE  At(Heard(s), e) \in Nat /\ At(s, e) <= At(Heard(s), e)
  <2>1. Heard(s).paths[e] # None => e \in Tracked(Heard(s))
    BY DEF Tracked
  <2>2. At(Heard(s), e) \in Nat
    BY <1>1, <2>1, SuccessIs DEF At
  <2>3. At(s, e) \in Nat
    BY AtIs
  <2>4. CASE Heard(s).paths[e] = s.paths[e]
    BY <2>2, <2>4 DEF At, SuccessAt
  <2>5. CASE Succeeded(s.paths[e], Heard(s).paths[e], s.wg.handshake_at)
    <3>1. Heard(s).paths[e] # None
      BY <2>5, Constants DEF Succeeded
    <3>2. s.paths[e] # None => Heard(s).paths[e].success_at >= s.paths[e].success_at
      BY <2>5 DEF Succeeded
    <3>3. CASE s.paths[e] = None \/ (e = LocalEp /\ ~subnet)
      <4>1. At(s, e) = 0
        BY <3>3 DEF At, SuccessAt
      <4> QED BY <2>2, <4>1
    <3>4. CASE s.paths[e] # None /\ ~(e = LocalEp /\ ~subnet)
      <4>1. /\ At(s, e) = s.paths[e].success_at
            /\ At(Heard(s), e) = Heard(s).paths[e].success_at
        BY <3>1, <3>4 DEF At, SuccessAt
      <4> QED BY <2>2, <2>3, <3>2, <3>4, <4>1
    <3> QED BY <3>3, <3>4
  <2> QED BY <1>1, <2>2, <2>4, <2>5
<1> QED BY <1>2

LEMMA UpdateKeepsPath ==
  ASSUME TypeInv, NEW s, Sound(s), NEW b, NEW o \in Endpoints, Planned(s, b, o), Standing(s, b, o),
         NEW k \in Announcement \union {None}, NEW ls \in OwnRelays \union {None},
         NEW c \in ApplyUpdate(b, k, ls, now)
  PROVE  Planned(s, c, o) /\ Standing(s, c, o) /\ Settled(s, c, o)
<1>1. EffectiveAnn(k, ls, now) \in Plan \union {None}
  BY EffectiveIs, Constants DEF EffectiveAnn, TypeInv
<1> QED BY <1>1, ApplyKeepsPath DEF ApplyUpdate

LEMMA PunchKeepsPath ==
  ASSUME TypeInv, NEW s, Sound(s), NEW bs, NEW o \in Endpoints,
         \A b \in bs : Planned(s, b, o) /\ Standing(s, b, o),
         NEW ann \in Announcement \union {None}, NEW c \in NatPunch(bs, ann, now)
  PROVE  Planned(s, c, o) /\ Standing(s, c, o) /\ Settled(s, c, o)
<1>1. PICK b \in bs : c \in Apply(Stopped(b), ann, now)
  BY DEF NatPunch
<1>2. Planned(s, Stopped(b), o) /\ Standing(s, Stopped(b), o)
  BY StoppedKeepsPath
<1>3. ann \in Plan \union {None}
  BY Constants
<1> QED BY <1>1, <1>2, <1>3, ApplyKeepsPath

(* A path is as fresh as the latest of its times.                           *)
LEMMA FreshIsRecent ==
  ASSUME TypeInv, NEW p \in TrackedPath
  PROVE  FreshnessAt(p) > Cutoff(now, PathTimeout) <=> Recent(p)
<1>1. p.announced_at \in Int /\ p.selected_at \in Int /\ p.success_at \in Int
  BY TimesAreNumbers DEF TrackedPath
<1>2. /\ FreshnessAt(p) \in {p.announced_at, p.selected_at, p.success_at}
      /\ FreshnessAt(p) >= p.announced_at /\ FreshnessAt(p) >= p.selected_at
      /\ FreshnessAt(p) >= p.success_at
  BY <1>1, LargestOfThree DEF FreshnessAt
<1>3. Cutoff(now, PathTimeout) \in Int
  BY TimesAssumption DEF TypeInv, Cutoff
<1> QED BY <1>1, <1>2, <1>3 DEF Recent

LEMMA PruneKeepsPath ==
  ASSUME TypeInv, NEW s, Sound(s), NEW b, NEW o \in Endpoints, Planned(s, b, o), Standing(s, b, o)
  PROVE  LET c == PrunePaths(b, now, PathTimeout)
         IN /\ Planned(s, c, o) /\ Standing(s, c, o)
            /\ c.paths = b.paths /\ Settled(s, b, o) => Settled(s, c, o)
<1> DEFINE c == PrunePaths(b, now, PathTimeout)
           fresh == {e \in Tracked(b) : FreshnessAt(b.paths[e]) > Cutoff(now, PathTimeout)}
<1>1. Sound(b) /\ Sound(c) /\ b \in Tunnels
  BY PruneSound DEF Planned, Sound
<1>2. /\ c.paths = [e \in Endpoints |-> IF e \in fresh THEN b.paths[e] ELSE None]
      /\ c.current = IF b.current \in fresh THEN b.current ELSE None
      /\ c.installed = b.installed /\ c.wg = b.wg
  BY <1>1, PruneIs
<1>3. fresh \subseteq Endpoints /\ None \notin fresh
  BY Constants DEF Tracked
<1>4. b.paths[o] # None => o \in fresh
  <2>1. SUFFICES ASSUME b.paths[o] # None PROVE o \in fresh
    OBVIOUS
  <2>2. b.paths[o] \in TrackedPath /\ Recent(b.paths[o])
    BY <1>1, <2>1 DEF Planned, Tunnels, PathBook
  <2> QED BY <2>1, <2>2, FreshIsRecent DEF Tracked
<1> HIDE DEF c, fresh
<1>5. c.paths[o] = b.paths[o]
  BY <1>2, <1>4
<1>6. \A e \in Endpoints : /\ At(c, e) = IF e \in fresh THEN At(b, e) ELSE 0
                           /\ At(b, e) \in Nat /\ At(Heard(s), e) \in Nat
                           /\ At(b, e) <= At(Heard(s), e)
  BY <1>1, <1>2, AtIs, HeardIs DEF At, SuccessAt, Planned
<1>7. At(c, o) = At(b, o)
  BY <1>5 DEF At, SuccessAt
<1>8. Planned(s, c, o)
  BY <1>1, <1>2, <1>5, <1>6 DEF Planned
<1>9. BetterLost(s, b, o) => BetterLost(s, c, o)
  BY <1>6, <1>7 DEF BetterLost
<1>10. Standing(s, c, o)
  <2>1. CASE InUse(b, o)
    BY <1>2, <1>4, <1>5, <2>1 DEF Standing, InUse
  <2>2. CASE LostForGood(b, o)
    BY <1>2, <1>7, <2>2 DEF Standing, LostForGood
  <2>3. CASE Demoted(s, b, o)
    BY <1>5, <2>3 DEF Standing, Demoted
  <2>4. CASE b.wg.handshake_at = 0 /\ Better(s, b, o, b.current)
    <3>1. CASE b.current \in fresh
      <4>1. c.current = b.current /\ b.current \in Endpoints /\ At(c, b.current) = At(b, b.current)
        BY <1>2, <1>3, <1>6, <3>1
      <4>2. Better(s, c, o, c.current)
        BY <1>7, <1>9, <2>4, <4>1 DEF Better
      <4> QED BY <1>2, <2>4, <4>2 DEF Standing
    <3>2. CASE b.current \notin fresh
      <4>1. BetterLost(s, c, o)
        <5>1. CASE BetterLost(s, b, o)
          BY <1>9, <5>1
        <5>2. CASE b.current # None /\ At(b, b.current) > At(b, o)
          <6>1. b.current \in Endpoints
            BY <1>1, <5>2 DEF Tunnels
          <6>2. At(Heard(s), b.current) > At(c, o) /\ At(c, b.current) = 0
            BY <1>6, <1>7, <3>2, <5>2, <6>1
          <6> QED BY <6>1, <6>2 DEF BetterLost
        <5> QED BY <2>4, <5>1, <5>2 DEF Better
      <4>2. c.wg.handshake_at = 0 /\ Better(s, c, o, c.current)
        BY <1>2, <2>4, <3>2, <4>1 DEF Better
      <4> QED BY <4>2 DEF Standing
    <3> QED BY <3>1, <3>2
  <2> QED BY <2>1, <2>2, <2>3, <2>4 DEF Standing
<1>11. ASSUME c.paths = b.paths, Settled(s, b, o) PROVE Settled(s, c, o)
  <2>1. \A e : At(c, e) = At(b, e)
    BY <1>11 DEF At, SuccessAt
  <2>2. Better(s, b, o, b.installed) => Better(s, c, o, c.installed)
    BY <1>2, <2>1 DEF Better, BetterLost
  <2> QED BY <1>2, <1>5, <1>11, <2>1, <2>2 DEF Settled, LostForGood, Demoted
<1> QED BY <1>8, <1>10, <1>11 DEF c

LEMMA HousekeepingKeepsPath ==
  ASSUME TypeInv, NEW p, PresenceTyped(p), NEW s, Sound(s), NEW b, NEW o \in Endpoints,
         Planned(s, b, o), Standing(s, b, o), Settled(s, b, o),
         NEW ls \in OwnRelays \union {None}, Housekeeping(p, b, ls)
  PROVE  Settled(s, tunnel', o)
<1> DEFINE q == IF enabled' THEN PrunePresence(p) ELSE p
           c == IF enabled' THEN PrunePaths(b, now, PathTimeout) ELSE b
<1>1. q.known \in Announcement \union {None}
  BY DEF PrunePresence, PresenceTyped
<1>2. Planned(s, c, o) /\ Standing(s, c, o) /\ (c.paths = b.paths => Settled(s, c, o))
  BY PruneKeepsPath
<1>3. tunnel' \in IF q = p /\ c.paths = b.paths THEN {c} ELSE ApplyUpdate(c, q.known, ls, now)
  BY DEF Housekeeping
<1> HIDE DEF q, c
<1>4. CASE tunnel' = c /\ c.paths = b.paths
  BY <1>2, <1>4
<1>5. CASE tunnel' \in ApplyUpdate(c, q.known, ls, now)
  BY <1>1, <1>2, <1>5, UpdateKeepsPath
<1> QED BY <1>3, <1>4, <1>5

(* Where planning starts: the current endpoint is in use.                   *)
LEMMA StartsInUse ==
  ASSUME TypeInv, tunnel.current # None,
         FreshnessAt(tunnel.paths[tunnel.current]) > Cutoff(now, PathTimeout)
  PROVE  LET o == tunnel.current
         IN /\ o \in Endpoints /\ Planned(tunnel, tunnel, o) /\ Standing(tunnel, tunnel, o)
            /\ tunnel.installed \in {None, o}
<1>1. Sound(tunnel) /\ tunnel.current \in Endpoints /\ tunnel.paths[tunnel.current] # None
  BY DEF TypeInv, Sound, Tracked
<1>2. tunnel.paths[tunnel.current] \in TrackedPath
  BY <1>1 DEF Sound, Tunnels, PathBook
<1>3. Recent(tunnel.paths[tunnel.current])
  BY <1>2, FreshIsRecent
<1>4. tunnel.installed \in {None, tunnel.current}
  BY <1>1 DEF Sound
<1>5. Planned(tunnel, tunnel, tunnel.current)
  BY <1>1, <1>3, <1>4, HeardIs DEF Planned
<1> QED BY <1>1, <1>4, <1>5 DEF Standing, InUse

LEMMA KeptStep ==
  ASSUME TypeInv, KnownInv, [Next]_vars, ~\E punch \in BOOLEAN : Restart(punch), tunnel.current # None,
         FreshnessAt(tunnel.paths[tunnel.current]) > Cutoff(now, PathTimeout)
  PROVE  Settled(tunnel, tunnel', tunnel.current)
<1> DEFINE s == tunnel
           o == s.current
           Fine(b) == Planned(s, b, o) /\ Standing(s, b, o)
<1>0. /\ now \in Times /\ Sound(s) /\ PresenceTyped(presence) /\ lease \in OwnRelays \union {None}
      /\ presence.known \in Announcement \union {None} /\ presence.active \in Announcement \union {None}
  BY Constants DEF TypeInv, PresenceTyped
<1>i. o \in Endpoints /\ Fine(s) /\ s.installed \in {None, o} /\ Settled(s, s, o)
  BY StartsInUse DEF Settled
<1>n. tunnel'.installed \in {None, tunnel.installed} => Settled(s, tunnel', o)
  BY <1>i DEF Settled
<1> HIDE DEF s, o
<1>d. s = tunnel /\ o = tunnel.current
  BY DEF s, o
<1>u. ASSUME NEW b, Fine(b), NEW k \in Announcement \union {None}, NEW ls \in OwnRelays \union {None},
             NEW c \in ApplyUpdate(b, k, ls, now)
      PROVE  Fine(c) /\ Settled(s, c, o)
  BY <1>0, <1>i, <1>u, UpdateKeepsPath
<1>p. ASSUME NEW bs, \A b \in bs : Fine(b), NEW ann \in Announcement \union {None},
             NEW c \in NatPunch(bs, ann, now)
      PROVE  Fine(c) /\ Settled(s, c, o)
  BY <1>0, <1>i, <1>p, PunchKeepsPath
<1>h. ASSUME NEW p, PresenceTyped(p), NEW b, Fine(b), Settled(s, b, o),
             NEW ls \in OwnRelays \union {None}, Housekeeping(p, b, ls)
      PROVE  Settled(s, tunnel', o)
  BY <1>0, <1>i, <1>h, HousekeepingKeepsPath
<1> HIDE DEF Fine
<1>f. Fine(tunnel) /\ Settled(s, tunnel, o)
  BY <1>i, <1>d
<1> SUFFICES Settled(s, tunnel', o)
  BY <1>d
<1>1. CASE UNCHANGED tunnel
  BY <1>1, <1>n
<1>2. CASE Tick \/ Connect \/ LoseConnection \/ Move \/ ReceiveHello
  BY <1>1, <1>2 DEF Tick, Connect, LoseConnection, Move, ReceiveHello
<1>3. CASE ReceiveDisconnect
  <2>1. Stopped(tunnel).installed = None
    BY <1>0, <1>d DEF Stopped, Sound, Tunnels
  <2> QED BY <1>1, <1>3, <1>n, <2>1 DEF ReceiveDisconnect
<1>4. ASSUME NEW ann \in Announcements, NEW punch \in BOOLEAN, ReceiveAnnounce(ann, punch)
      PROVE  Settled(s, tunnel', o)
  <2> DEFINE applied == ApplyUpdate(tunnel, presence'.known, lease, now)
  <2>0. ann \in Announcement
    BY Constants
  <2>1. presence'.known \in Announcement \union {None}
    BY <1>0, <1>4, <2>0 DEF ReceiveAnnounce, Announced, PresenceTyped
  <2>2. \A b \in applied : Fine(b) /\ Settled(s, b, o)
    BY <1>0, <1>f, <1>u, <2>1
  <2>3. tunnel' \in NatPunch(applied, ann, now) \/ tunnel' \in applied \/ tunnel' = tunnel
    BY <1>4 DEF ReceiveAnnounce
  <2> HIDE DEF applied
  <2>4. CASE tunnel' \in NatPunch(applied, ann, now)
    BY <1>p, <2>0, <2>2, <2>4
  <2> QED BY <1>1, <2>2, <2>3, <2>4
<1>5. ASSUME NEW r \in OwnRelays, GrantLease(r) PROVE Settled(s, tunnel', o)
  <2>1. tunnel' \in ApplyUpdate(tunnel, presence.known, r, now)
    BY <1>5 DEF GrantLease
  <2> QED BY <1>0, <1>f, <1>u, <2>1
<1>6. ASSUME NEW punch \in BOOLEAN, AnnounceArm(punch) PROVE Settled(s, tunnel', o)
  <2> DEFINE applied == IF lease' = lease THEN {tunnel}
                        ELSE ApplyUpdate(tunnel, presence.known, lease', now)
  <2>1. lease' \in OwnRelays \union {None}
    BY <1>0, <1>6 DEF AnnounceArm
  <2>2. \A b \in applied : Fine(b) /\ Settled(s, b, o)
    BY <1>0, <1>f, <1>u, <2>1
  <2>3. tunnel' \in NatPunch(applied, presence.active, now) \/ tunnel' \in applied
    BY <1>6 DEF AnnounceArm
  <2> HIDE DEF applied
  <2>4. CASE tunnel' \in NatPunch(applied, presence.active, now)
    BY <1>0, <1>p, <2>2, <2>4
  <2> QED BY <2>2, <2>3, <2>4
<1>7. ASSUME NEW punch \in BOOLEAN, Heartbeat(punch) PROVE Settled(s, tunnel', o)
  <2>1. PICK b \in IF punch THEN NatPunch({tunnel}, presence.known, now) ELSE {tunnel} :
           tunnel' \in ApplyUpdate(b, presence.known, lease, now)
    BY <1>7 DEF Heartbeat
  <2>2. Fine(b)
    <3>1. \A x \in {tunnel} : Fine(x)
      BY <1>f
    <3>2. CASE b \in NatPunch({tunnel}, presence.known, now)
      BY <1>0, <1>p, <3>1, <3>2
    <3> QED BY <2>1, <3>1, <3>2
  <2> QED BY <1>0, <1>u, <2>1, <2>2
<1>8. ASSUME NEW changed \in BOOLEAN, NEW punch \in BOOLEAN, NetworkArm(changed, punch)
      PROVE  Settled(s, tunnel', o)
  <2> DEFINE applied == IF changed THEN ApplyUpdate(tunnel, presence.known, lease, now)
                        ELSE {tunnel}
  <2>1. \A b \in applied : Fine(b) /\ Settled(s, b, o)
    BY <1>0, <1>f, <1>u
  <2>2. tunnel' \in NatPunch(applied, DirectAnnouncement, now) \/ tunnel' \in applied
    BY <1>8 DEF NetworkArm
  <2>3. DirectAnnouncement \in Announcement \union {None}
    BY <1>0 DEF DirectAnnouncement
  <2> HIDE DEF applied
  <2>4. CASE tunnel' \in NatPunch(applied, DirectAnnouncement, now)
    BY <1>p, <2>1, <2>3, <2>4
  <2> QED BY <2>1, <2>2, <2>4
<1>9. ASSUME NEW ls \in OwnRelays \union {None}, StateArm(ls) PROVE Settled(s, tunnel', o)
  <2>1. PICK b \in IF ls = lease THEN {tunnel} ELSE ApplyUpdate(tunnel, presence.known, ls, now) :
           Housekeeping(presence, b, ls)
    BY <1>9 DEF StateArm
  <2>2. Fine(b) /\ Settled(s, b, o)
    BY <1>0, <1>f, <1>u, <2>1
  <2> QED BY <1>0, <1>h, <2>1, <2>2
<1>10. CASE Pause
  <2>1. tunnel'.installed = None
    BY <1>10 DEF Pause, EmptyTunnel
  <2> QED BY <1>n, <2>1
(* A paused session has no current endpoint. *)
<1>11. ~Resume
  BY DEF Resume, TypeInv
<1>12. ASSUME NEW e \in Endpoints, NEW handshake \in BOOLEAN, Hear(e, handshake)
       PROVE  Settled(s, tunnel', o)
  <2>1. tunnel'.installed = tunnel.installed
    BY <1>0, <1>d, <1>12 DEF Hear, Sound, Tunnels
  <2> QED BY <1>n, <2>1
<1>13. CASE UNCHANGED vars
  BY <1>1, <1>13 DEF vars
<1> QED
  BY <1>2, <1>3, <1>4, <1>5, <1>6, <1>7, <1>8, <1>9, <1>10, <1>11, <1>12, <1>13 DEF Next

(* What Settled says of an endpoint that still works.                       *)
LEMMA SettledIsKept ==
  ASSUME TypeInv, NEW b, NEW o \in Endpoints, Settled(tunnel, b, o), b.installed \notin {None, o},
         b.installed \in Endpoints, Proven(b, o), ~Demoted(tunnel, b, o),
         \A e \in Endpoints : At(b, e) \in Nat
  PROVE  LET at == SuccessAt(b, o)
         IN /\ Proven(b, b.installed)
            /\ \/ SuccessAt(b, b.installed) > at
               \/ /\ SuccessAt(b, b.installed) = at
                  /\ \E e \in Endpoints : Proven(Heard(tunnel), e) /\ SuccessAt(Heard(tunnel), e) > at
                                          /\ ~Proven(b, e)
<1>0. Sound(tunnel)
  BY DEF TypeInv
<1>1. At(b, o) = SuccessAt(b, o) /\ At(b, o) > 0
  BY DEF Proven, At
<1>2. Better(tunnel, b, o, b.installed)
  BY <1>1 DEF Settled, LostForGood
<1> DEFINE new == b.installed
<1>3. At(b, new) \in Nat /\ At(b, o) \in Nat /\ \A e \in Endpoints : At(Heard(tunnel), e) \in Nat
  BY <1>0, HeardIs
<1>4. At(b, new) >= At(b, o)
  BY <1>2, <1>3 DEF Better
<1>5. b.paths[new] # None /\ SuccessAt(b, new) = At(b, new)
  <2>1. At(b, new) # 0
    BY <1>1, <1>3, <1>4
  <2> QED BY <2>1 DEF At
<1>6. Proven(b, new)
  BY <1>1, <1>3, <1>4, <1>5 DEF Proven
<1>7. CASE At(b, new) > At(b, o)
  BY <1>1, <1>5, <1>6, <1>7
<1>8. CASE ~(At(b, new) > At(b, o))
  <2>1. At(b, new) = At(b, o)
    BY <1>3, <1>4, <1>8
  <2>2. PICK e \in Endpoints : At(Heard(tunnel), e) > At(b, o) /\ At(b, e) = 0
    BY <1>2, <1>8 DEF Better, BetterLost
  <2>3. At(Heard(tunnel), e) > 0
    BY <1>1, <1>3, <2>2
  <2>4. Heard(tunnel).paths[e] # None /\ SuccessAt(Heard(tunnel), e) = At(Heard(tunnel), e)
    BY <2>3 DEF At
  <2>5. Proven(Heard(tunnel), e)
    BY <2>3, <2>4 DEF Proven
  <2>6. ~Proven(b, e)
    BY <2>2 DEF Proven, At
  <2> QED BY <1>1, <1>5, <1>6, <2>1, <2>2, <2>4, <2>5, <2>6
<1> QED BY <1>7, <1>8

(* docs/protocol.md:128: an endpoint that worked, and neither left the book *)
(* nor is too old for it, gives way only to one that worked later, however  *)
(* announcements, leases, moves and hole punching interleave (PeerPathBook, *)
(* CliTunnelRuntime::apply, maybe_run_nat_punch).                           *)
THEOREM WorkingPathIsKept == Spec => WorkingPathKept
<1>1. TypeInv /\ KnownInv /\ [Next]_vars /\ TypeInv' =>
        [LET old == tunnel.current  new == tunnel'.installed
         IN /\ {old, new} \intersect {None} = {} /\ old # new
            /\ Proven(tunnel', old) /\ ~LeftTheBook(old)
            /\ FreshnessAt(tunnel.paths[old]) > Cutoff(now, PathTimeout)
            /\ ~\E punch \in BOOLEAN : Restart(punch)
            => LET at == SuccessAt(tunnel', old)
               IN /\ Proven(tunnel', new)
                  /\ \/ SuccessAt(tunnel', new) > at
                     \/ SuccessAt(tunnel', new) = at /\ LaterOneLost(at)]_vars
  <2> SUFFICES ASSUME TypeInv, KnownInv, [Next]_vars, TypeInv',
                      tunnel.current # None, tunnel'.installed # None,
                      tunnel.current # tunnel'.installed,
                      Proven(tunnel', tunnel.current), ~LeftTheBook(tunnel.current),
                      FreshnessAt(tunnel.paths[tunnel.current]) > Cutoff(now, PathTimeout),
                      ~\E punch \in BOOLEAN : Restart(punch)
               PROVE  LET at == SuccessAt(tunnel', tunnel.current)
                          new == tunnel'.installed
                      IN /\ Proven(tunnel', new)
                         /\ \/ SuccessAt(tunnel', new) > at
                            \/ SuccessAt(tunnel', new) = at /\ LaterOneLost(at)
    BY Zenon
  <2>1. Settled(tunnel, tunnel', tunnel.current)
    BY KeptStep
  <2>2. tunnel.current \in Endpoints
    BY StartsInUse
  <2>3. tunnel' \in Tunnels /\ tunnel'.installed \in Endpoints
    BY DEF TypeInv, Sound, Tunnels
  <2>4. \A e \in Endpoints : At(tunnel', e) \in Nat
    <3>1. \A e \in Endpoints : tunnel'.paths[e] \in TrackedPath \union {None}
      BY <2>3 DEF Tunnels, PathBook
    <3>2. \A e \in Endpoints : tunnel'.paths[e] # None => tunnel'.paths[e].success_at \in Nat
      BY <3>1, TimesAreNumbers DEF TrackedPath
    <3> QED BY <3>2 DEF At, SuccessAt
  <2>5. ~Demoted(tunnel, tunnel', tunnel.current)
    BY DEF Demoted, LeftTheBook
  <2> QED BY <2>1, <2>2, <2>3, <2>4, <2>5, SettledIsKept DEF LaterOneLost, Heard
<1>2. Spec => [](TypeInv /\ KnownInv)
  BY TypeInit, KnownInit, TypeStep, KnownStep, PTL DEF Spec
<1> QED BY <1>1, <1>2, PTL DEF Spec, WorkingPathKept

-----------------------------------------------------------------------------
(* A restart reuses the proven path.  A tunnel without a handshake, whose   *)
(* current endpoint worked and stays under announcement a; what planning    *)
(* by a makes of it is such a tunnel again.                                 *)
Stays(b, a) ==
  /\ Sound(b) /\ b.wg.handshake_at = 0 /\ b.current # None
  /\ At(b, b.current) > 0 /\ b.current \in Kept(b, a, now)

(* The endpoint of c is the one of b, or worked later. *)
Reused(b, c) ==
  /\ c.current = b.current \/ At(c, c.current) > At(b, b.current)
  /\ At(c, c.current) >= At(b, b.current)

LEMMA ApplyReuses ==
  ASSUME TypeInv, NEW ann \in Plan, NEW b, Stays(b, WithoutExpiredRelay(ann, now)),
         NEW c \in Apply(b, ann, now)
  PROVE  /\ Stays(c, WithoutExpiredRelay(ann, now)) /\ c.installed = c.current /\ Reused(b, c)
         /\ b.installed = None => c.paths[c.current].selected_at = now
<1> DEFINE a == WithoutExpiredRelay(ann, now)
           book == Booked(b, ann, now)
           kept == Kept(b, a, now)
           cur == b.current
<1>0. now \in Times /\ Sound(b) /\ ann # None /\ a \in Plan
  BY PlanIs, Constants DEF TypeInv, Stays
<1>1. RecordSuccess(b, b.wg) = b /\ Heard(b) = b
  BY DEF Stays, RecordSuccess, Heard
<1>2. PICK p \in Preferred(book, a) :
         LET e == Select(book, now, p)
         IN \/ c = Stopped(book) /\ RequiresPublicSignal(a, e)
            \/ c = book /\ book.installed = e
            \/ c = Done(book, e, now)
  BY <1>0, ApplyIs
<1> DEFINE e == Select(book, now, p)
<1>3. /\ Sound(book) /\ book.installed = b.installed /\ book.wg = b.wg
      /\ book.current = cur
      /\ kept \subseteq Tracked(book)
      /\ \A x \in kept : Renewed(x, b.paths[x], book.paths[x], a, now)
      /\ \A x \in Tracked(book) \ kept : book.paths[x] = NewPath(AnnouncedSource(a, x), now)
  BY <1>0, <1>1, BookedIs DEF Stays, CurrentAmong
<1>4. /\ e \in Tracked(book) /\ e \in Endpoints
      /\ book.current # None /\ At(book, book.current) > 0 =>
           e = book.current \/ At(book, e) > At(book, book.current)
  BY <1>3, ChoiceIs
<1>5. \A x \in kept : x \in Endpoints /\ b.paths[x] # None
  BY DEF Kept, Tracked
<1>6. \A x \in Tracked(book) : book.paths[x] # None
  BY DEF Tracked
<1>7. cur \in kept /\ cur # None /\ At(b, cur) > 0 /\ b.wg.handshake_at = 0
  BY DEF Stays
<1>b. ~RequiresPublicSignal(a, e) \/ (e = LocalEp /\ ~subnet)
  BY DEF RequiresPublicSignal
<1>s. \A x \in Tracked(book) : book.paths[x].source = "relay" => x = a.relay
  BY <1>0, BookedRelays
<1> HIDE DEF a, book, kept, e
<1>8. \A x \in kept : book.paths[x].success_at = b.paths[x].success_at
  BY <1>3 DEF Renewed
<1>9. \A x \in kept : At(book, x) = At(b, x)
  BY <1>3, <1>5, <1>6, <1>8 DEF At, SuccessAt
<1>10. At(book, e) >= At(b, cur) /\ (e = cur \/ At(book, e) > At(b, cur)) /\ At(book, e) > 0
  <2>1. At(book, e) \in Nat /\ At(b, cur) \in Nat
    BY <1>0, <1>3, <1>4, <1>5, <1>7, AtIs
  <2>2. e = cur \/ At(book, e) > At(b, cur)
    BY <1>3, <1>4, <1>7, <1>9
  <2> QED BY <1>7, <1>9, <2>1, <2>2
(* An endpoint that worked needs no public signal. *)
<1>11. ~(e = LocalEp /\ ~subnet)
  BY <1>10 DEF At, SuccessAt
<1>12. (c = book /\ book.installed = e) \/ c = Done(book, e, now)
  BY <1>2, <1>b, <1>11 DEF e, a, book
<1>13. /\ Sound(c) /\ c.wg.handshake_at = 0 /\ c.current = e /\ c.installed = e
       /\ b.installed = None => c.paths[e].selected_at = now
       /\ c.paths[e] # None /\ c.paths[e].source = book.paths[e].source
       /\ c.paths[e].success_at = book.paths[e].success_at
  <2>1. CASE c = book /\ book.installed = e
    <3>1. e # None /\ c.current = e
      BY <1>3, <1>4, <1>7, <2>1, Constants DEF Sound
    <3> QED BY <1>3, <1>4, <1>6, <1>7, <2>1, <3>1
  <2>2. CASE c = Done(book, e, now)
    <3> DEFINE new == [book.paths[e] EXCEPT !.selected_at = now]
    <3>1. /\ Sound(c) /\ c.current = e /\ c.installed = e
          /\ c.wg = [endpoint |-> e, handshake_at |-> 0]
          /\ c.paths = [book.paths EXCEPT ![e] = new]
      BY <1>0, <1>3, <1>4, <2>2, DoneIs
    <3>2. book.paths \in PathBook /\ book.paths[e] \in TrackedPath
      BY <1>3, <1>4, <1>6 DEF Sound, Tunnels, PathBook
    <3>3. /\ new \in TrackedPath /\ new # None /\ new.source = book.paths[e].source
          /\ new.success_at = book.paths[e].success_at /\ new.selected_at = now
      BY <1>0, <3>2, Constants DEF TrackedPath
    <3> HIDE DEF new
    <3>4. c.paths[e] = new
      BY <1>4, <3>1, <3>2 DEF PathBook
    <3> QED BY <3>1, <3>3, <3>4
  <2> QED BY <1>12, <2>1, <2>2
<1>14. At(c, e) = At(book, e)
  BY <1>4, <1>6, <1>13 DEF At, SuccessAt
(* What worked was in the book before: it was not superseded then. *)
<1>15. e \in kept
  <2>1. SUFFICES ASSUME e \notin kept PROVE FALSE
    OBVIOUS
  <2>2. book.paths[e].success_at = 0
    <3>1. book.paths[e] = NewPath(AnnouncedSource(a, e), now)
      BY <1>3, <1>4, <2>1
    <3> QED BY <3>1 DEF NewPath
  <2> QED BY <1>10, <2>2 DEF At, SuccessAt
<1>16. e \in Kept(c, a, now)
  <2>1. e \in Tracked(c)
    BY <1>4, <1>13 DEF Tracked
  <2>2. c.paths[e].source = "relay" => e = a.relay
    BY <1>4, <1>13, <1>s
  <2>3. c.paths[e].source = "observed" => b.paths[e].source = "observed"
    <3>1. Renewed(e, b.paths[e], book.paths[e], a, now)
      BY <1>3, <1>15
    <3>2. b.paths[e].source \in Source
      BY <1>0, <1>5, <1>15 DEF Sound, Tunnels, PathBook, TrackedPath
    <3>3. CASE book.paths[e].source = b.paths[e].source
      BY <1>13, <3>3
    <3>4. CASE /\ e \in AnnouncedEndpoints(a)
               /\ book.paths[e].source = Merge(b.paths[e].source, AnnouncedSource(a, e))
      <4>1. AnnouncedSource(a, e) \in Source \ {"observed"}
        BY <1>0, <3>4, AnnouncedAre
      <4> QED BY <1>13, <3>2, <3>4, <4>1, MergeIs
    <3> QED BY <3>1, <3>3, <3>4 DEF Renewed
  <2>4. ~Superseded(b, e, a, now)
    BY <1>15 DEF kept, Kept
  <2>5. ~Superseded(c, e, a, now)
    BY <1>8, <1>13, <1>15, <2>3, <2>4 DEF Superseded
  <2> QED BY <2>1, <2>2, <2>5 DEF Kept
<1>17. Stays(c, a)
  BY <1>4, <1>10, <1>13, <1>14, <1>16, Constants DEF Stays
<1>18. Reused(b, c)
  BY <1>10, <1>13, <1>14 DEF Reused
<1> QED BY <1>13, <1>17, <1>18 DEF a

LEMMA StoppedStays ==
  ASSUME NEW a, NEW b, Stays(b, a)
  PROVE  Stays(Stopped(b), a) /\ Reused(b, Stopped(b))
<1> DEFINE c == Stopped(b)
<1>1. /\ Sound(b) /\ Sound(c) /\ c.paths = b.paths /\ c.current = b.current /\ c.wg = NoPeer
  BY StoppedSound DEF Stays, Stopped, Sound, Tunnels
<1> HIDE DEF c
<1>2. \A x : At(c, x) = At(b, x)
  BY <1>1 DEF At, SuccessAt
<1>3. c.wg.handshake_at = 0
  BY <1>1 DEF NoPeer
<1>4. Kept(c, a, now) = Kept(b, a, now)
  BY <1>1 DEF Kept, Tracked, Superseded
<1>5. At(b, b.current) \in Nat
  BY <1>1, AtIs DEF Stays, Sound, Tracked
<1> QED BY <1>1, <1>2, <1>3, <1>4, <1>5 DEF Stays, Reused, c

LEMMA PruneStays ==
  ASSUME NEW a, NEW b, Stays(b, a), NEW timeout,
         FreshnessAt(b.paths[b.current]) > Cutoff(now, timeout)
  PROVE  LET c == PrunePaths(b, now, timeout)
         IN Stays(c, a) /\ Reused(b, c) /\ c.installed = b.installed /\ c.current = b.current
<1> DEFINE c == PrunePaths(b, now, timeout)
           fresh == {e \in Tracked(b) : FreshnessAt(b.paths[e]) > Cutoff(now, timeout)}
           o == b.current
<1>1. Sound(b) /\ Sound(c) /\ b \in Tunnels /\ o \in Endpoints /\ o \in Tracked(b)
  BY PruneSound DEF Stays, Sound, Tracked
<1>2. /\ c.paths = [e \in Endpoints |-> IF e \in fresh THEN b.paths[e] ELSE None]
      /\ c.current = IF b.current \in fresh THEN b.current ELSE None
      /\ c.installed = b.installed /\ c.wg = b.wg
  BY <1>1, PruneIs
<1>3. o \in fresh
  BY <1>1
<1> HIDE DEF c, fresh
<1>4. c.current = o /\ c.paths[o] = b.paths[o] /\ c.wg = b.wg
  BY <1>1, <1>2, <1>3
<1>5. At(c, o) = At(b, o) /\ At(b, o) \in Nat
  BY <1>1, <1>4, AtIs DEF At, SuccessAt
<1>6. o \in Kept(c, a, now)
  BY <1>4 DEF Stays, Kept, Tracked, Superseded
<1> QED BY <1>1, <1>2, <1>4, <1>5, <1>6 DEF Stays, Reused, c

(* Leaving an expired relay out twice is the same as once. *)
LEMMA WithoutOnce ==
  ASSUME NEW ann \in Announcement, now \in Times
  PROVE  /\ EffectiveAnn(ann, None, now) \in Plan
         /\ WithoutExpiredRelay(EffectiveAnn(ann, None, now), now) = WithoutExpiredRelay(ann, now)
<1>1. ann \in Plan /\ WithoutExpiredRelay(ann, now) \in Plan
  BY Constants, PlanIs
<1>2. EffectiveAnn(ann, None, now) = WithoutExpiredRelay(ann, now)
  BY EffectiveIs
<1>3. WithoutExpiredRelay(WithoutExpiredRelay(ann, now), now) = WithoutExpiredRelay(ann, now)
  BY <1>1 DEF WithoutExpiredRelay, Plan
<1> QED BY <1>1, <1>2, <1>3

(* The cached endpoint may be taken up again. *)
Proved ==
  /\ Restorable /\ cache.current \notin Relays \union {None}
  /\ Proven(cache, cache.current) /\ cache.paths[cache.current].source # "observed"
  /\ \A timeout \in {PathTimeout, PathCacheTimeout} :
       FreshnessAt(cache.paths[cache.current]) > Cutoff(now, timeout)

LEMMA RestoredStays ==
  ASSUME TypeInv, Proved, NEW b, Sound(b), b.installed = None
  PROVE  LET c == RestoredTunnel(b)
         IN /\ \A a : Stays(c, a)
            /\ c.installed = None /\ c.current = cache.current
            /\ At(c, c.current) = SuccessAt(cache, cache.current)
<1> DEFINE d == [b EXCEPT !.paths = cache.paths, !.current = cache.current]
           o == cache.current
<1>1. BookFits(cache.paths) /\ o \in Tracked(cache) \union {None}
  BY DEF Proved, TypeInv, CacheTyped, Restorable
<1>2. cache.paths \in PathBook /\ o \in Endpoints /\ o # None /\ cache.paths[o] # None
  BY <1>1 DEF Proved, BookFits, Tracked
<1>3. /\ d \in Tunnels /\ d.paths = cache.paths /\ d.current = o
      /\ d.installed = None /\ d.wg = NoPeer
  BY <1>2 DEF Sound, Tunnels
<1>4. RestoredTunnel(b) = PrunePaths(d, now, PathCacheTimeout)
  BY DEF Proved, RestoredTunnel
<1> HIDE DEF d
<1>5. Sound(d) /\ d.wg.handshake_at = 0
  BY <1>1, <1>2, <1>3 DEF Sound, Tracked, NoPeer
<1>6. At(d, o) = SuccessAt(cache, o) /\ At(d, o) > 0
  BY <1>2, <1>3 DEF At, SuccessAt, Proved, Proven
<1>7. ASSUME NEW a PROVE Stays(d, a)
  <2>1. d.paths[o].source \notin {"relay", "observed"}
    BY <1>1, <1>2, <1>3 DEF BookFits, PathFits, Proved
  <2>2. o \in Kept(d, a, now)
    BY <1>2, <1>3, <2>1 DEF Kept, Superseded, Tracked
  <2> QED BY <1>2, <1>3, <1>5, <1>6, <2>2 DEF Stays
<1>8. FreshnessAt(d.paths[d.current]) > Cutoff(now, PathCacheTimeout)
  BY <1>3 DEF Proved
<1> DEFINE c == PrunePaths(d, now, PathCacheTimeout)
<1>9. \A a : Stays(c, a) /\ Reused(d, c) /\ c.installed = d.installed /\ c.current = d.current
  BY <1>7, <1>8, PruneStays
<1>10. At(c, o) = At(d, o)
  <2>1. d \in Tunnels
    BY <1>3
  <2>2. c.paths = [e \in Endpoints |->
                     IF e \in {x \in Tracked(d) : FreshnessAt(d.paths[x]) > Cutoff(now, PathCacheTimeout)}
                     THEN d.paths[e] ELSE None]
    BY <2>1, PruneIs
  <2>3. c.paths[o] = d.paths[o]
    BY <1>2, <1>3, <1>8, <2>2 DEF Tracked
  <2> QED BY <2>3 DEF At, SuccessAt
<1> HIDE DEF c
<1>11. (\A a : Stays(c, a)) /\ c.installed = None /\ c.current = o /\ At(c, o) = SuccessAt(cache, o)
  BY <1>3, <1>6, <1>9, <1>10
<1> QED BY <1>4, <1>11 DEF c

(* Being reused twice is being reused. *)
LEMMA ReusedTwice ==
  ASSUME NEW a, NEW b, Stays(b, a), NEW c, Stays(c, a), NEW d, Stays(d, a), Reused(b, c), Reused(c, d)
  PROVE  Reused(b, d)
<1>1. /\ At(b, b.current) \in Nat /\ At(c, c.current) \in Nat /\ At(d, d.current) \in Nat
  BY AtIs DEF Stays, Sound, Tracked
<1> QED BY <1>1 DEF Reused

LEMMA ReuseStep ==
  ASSUME TypeInv, KnownInv, Proved, Resume \/ \E punch \in BOOLEAN : Restart(punch)
  PROVE  \/ tunnel'.installed = cache.current
         \/ SuccessAt(tunnel', tunnel'.installed) > SuccessAt(cache, cache.current)
<1> DEFINE k == cache.announcement
           a == WithoutExpiredRelay(k, now)
           o == cache.current
           Good(b) == Stays(b, a) /\ b.installed = b.current
<1>0. /\ now \in Times /\ Sound(tunnel) /\ k \in Announcement
      /\ RestoredPresence = [active |-> None, known |-> k, seen |-> cache.seen]
  BY Constants DEF Proved, TypeInv, CacheTyped, Restorable, RestoredPresence
<1>1. k \in Plan /\ EffectiveAnn(k, None, now) \in Plan
      /\ WithoutExpiredRelay(EffectiveAnn(k, None, now), now) = a
  BY <1>0, WithoutOnce, Constants
<1>2. ASSUME NEW b, Stays(b, a), NEW c \in ApplyUpdate(b, k, None, now)
      PROVE  Good(c) /\ Reused(b, c) /\ (b.installed = None => c.paths[c.current].selected_at = now)
  <2>1. c \in Apply(b, EffectiveAnn(k, None, now), now)
    BY <1>2 DEF ApplyUpdate
  <2> HIDE DEF k, a
  <2> QED BY <1>1, <1>2, <2>1, ApplyReuses
<1>3. ASSUME NEW bs, \A b \in bs : Stays(b, a), NEW c \in NatPunch(bs, k, now)
      PROVE  Good(c) /\ \E b \in bs : Reused(b, c)
  <2>1. PICK b \in bs : c \in Apply(Stopped(b), k, now)
    BY <1>3 DEF NatPunch
  <2>2. Stays(Stopped(b), a) /\ Reused(b, Stopped(b))
    BY <1>3, StoppedStays
  <2>3. Good(c) /\ Reused(Stopped(b), c)
    BY <1>1, <2>1, <2>2, ApplyReuses
  <2>4. Reused(b, c)
    BY <1>3, <2>2, <2>3, ReusedTwice
  <2> QED BY <2>3, <2>4
(* What is reused is what the property speaks of. *)
<1>4. ASSUME NEW b, Stays(b, a), b.current = o, At(b, o) = SuccessAt(cache, o),
             Good(tunnel'), Reused(b, tunnel')
      PROVE  \/ tunnel'.installed = o
             \/ SuccessAt(tunnel', tunnel'.installed) > SuccessAt(cache, o)
  <2>1. CASE tunnel'.current = b.current
    BY <1>4, <2>1
  <2>2. CASE At(tunnel', tunnel'.current) > At(b, b.current)
    <3>1. At(tunnel', tunnel'.current) = SuccessAt(tunnel', tunnel'.current)
      BY <1>4 DEF Stays, At
    <3> QED BY <1>4, <2>2, <3>1
  <2> QED BY <1>4, <2>1, <2>2 DEF Reused
<1>5. CASE Resume
  <2> DEFINE b0 == RestoredTunnel(tunnel)
  <2>1. tunnel.installed = None /\ lease = None /\ enabled' = TRUE
    BY <1>5 DEF Resume, TypeInv, KnownInv, Fits
  <2>2. Stays(b0, a) /\ b0.installed = None /\ b0.current = o /\ At(b0, o) = SuccessAt(cache, o)
    BY <1>0, <2>1, RestoredStays
  <2>3. PICK b \in ApplyUpdate(b0, k, None, now) : Housekeeping(RestoredPresence, b, None)
    BY <1>0, <1>5, <2>1 DEF Resume
  <2> HIDE DEF b0
  <2>4. Good(b) /\ Reused(b0, b) /\ b.paths[b.current].selected_at = now
    BY <1>2, <2>2, <2>3
  <2> DEFINE c == PrunePaths(b, now, PathTimeout)
  <2>5. FreshnessAt(b.paths[b.current]) > Cutoff(now, PathTimeout)
    <3>1. b.paths[b.current] \in TrackedPath
      BY <2>4 DEF Stays, Sound, Tunnels, PathBook, Tracked
    <3>2. now > Cutoff(now, PathTimeout)
      BY TimesAssumption DEF TypeInv, Cutoff
    <3> QED BY <2>4, <3>1, <3>2, FreshIsRecent DEF Recent
  <2>6. Good(c) /\ Reused(b, c)
    BY <2>4, <2>5, PruneStays
  <2>7. PrunePresence(RestoredPresence).known = k
    BY <1>0 DEF PrunePresence
  <2>8. tunnel' = c \/ tunnel' \in ApplyUpdate(c, k, None, now)
    BY <2>1, <2>3, <2>7 DEF Housekeeping
  <2> HIDE DEF c
  <2>9. Good(tunnel') /\ Reused(b0, tunnel')
    <3>1. Reused(b0, c)
      BY <2>2, <2>4, <2>6, ReusedTwice
    <3>2. CASE tunnel' = c
      BY <2>6, <3>1, <3>2
    <3>3. CASE tunnel' \in ApplyUpdate(c, k, None, now)
      <4>1. Good(tunnel') /\ Reused(c, tunnel')
        BY <1>2, <2>6, <3>3
      <4> QED BY <2>2, <2>6, <3>1, <4>1, ReusedTwice
    <3> QED BY <2>8, <3>2, <3>3
  <2> QED BY <1>4, <2>2, <2>9
<1>6. ASSUME NEW punch \in BOOLEAN, Restart(punch)
      PROVE  \/ tunnel'.installed = o
             \/ SuccessAt(tunnel', tunnel'.installed) > SuccessAt(cache, o)
  <2> DEFINE fresh == [EmptyTunnel EXCEPT !.contacted = tunnel.contacted]
             b0 == RestoredTunnel(fresh)
             applied == ApplyUpdate(b0, k, None, now)
  <2>1. Sound(fresh) /\ fresh.installed = None
    <3>1. tunnel.contacted \subseteq Relays
      BY <1>0 DEF Sound, Tunnels
    <3>2. fresh \in Tunnels
      BY <3>1, Constants DEF EmptyTunnel, NoPeer, Tunnels, PathBook
    <3> QED BY <3>2 DEF EmptyTunnel, NoPeer, Sound, BookFits, PathFits, Tunnels
  <2>2. tunnel' \in NatPunch(applied, k, now) \/ tunnel' \in applied
    BY <1>0, <1>6 DEF Restart
  <2> HIDE DEF fresh
  <2>3. Stays(b0, a) /\ b0.current = o /\ At(b0, o) = SuccessAt(cache, o)
    BY <2>1, RestoredStays
  <2> HIDE DEF b0
  <2>4. \A b \in applied : Good(b) /\ Reused(b0, b)
    BY <1>2, <2>3
  <2> HIDE DEF applied
  <2>5. Good(tunnel') /\ Reused(b0, tunnel')
    <3>1. CASE tunnel' \in NatPunch(applied, k, now)
      <4>1. Good(tunnel') /\ \E b \in applied : Reused(b, tunnel')
        BY <1>3, <2>4, <3>1
      <4> QED BY <2>3, <2>4, <4>1, ReusedTwice
    <3>2. CASE tunnel' \in applied
      BY <2>4, <3>2
    <3> QED BY <2>2, <3>1, <3>2
  <2> QED BY <1>4, <2>3, <2>5
<1> QED BY <1>5, <1>6

(* A daemon that starts, or resumes, from its cache takes up the endpoint   *)
(* it used last, if that worked and is not too old, unless another worked   *)
(* later (restore_daemon_peer_cache, apply_presence_runtime_update).        *)
THEOREM RestartReuses == Spec => RestartReusesProvenPath
<1>1. TypeInv /\ KnownInv =>
        [/\ Restorable /\ cache.current \notin Relays \union {None}
         /\ Proven(cache, cache.current) /\ cache.paths[cache.current].source # "observed"
         /\ \A timeout \in {PathTimeout, PathCacheTimeout} :
              FreshnessAt(cache.paths[cache.current]) > Cutoff(now, timeout)
         /\ Resume \/ \E punch \in BOOLEAN : Restart(punch)
         => \/ tunnel'.installed = cache.current
            \/ SuccessAt(tunnel', tunnel'.installed) > SuccessAt(cache, cache.current)]_vars
  BY ReuseStep DEF Proved
<1>2. Spec => [](TypeInv /\ KnownInv)
  BY TypeInit, KnownInit, TypeStep, KnownStep, PTL DEF Spec
<1> QED BY <1>1, <1>2, PTL DEF Spec, RestartReusesProvenPath

=============================================================================
