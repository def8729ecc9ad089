---------------------------- MODULE RelayClient ----------------------------
(***************************************************************************)
(* The relay fallback of a client daemon: the requests it sends to public  *)
(* relay operators for the participants it has no path to, the grants and  *)
(* rejections that come back (late, more than once, or never), the active  *)
(* and standby relay sessions, and the two cooldown books.  The books are  *)
(* one record, c, because the handlers of relay_runtime.rs all take them   *)
(* by &mut; each arm of the daemon's select! loop is one action.           *)
(*                                                                         *)
(* Of the provider verification book only what decides whether a provider  *)
(* may be asked is kept: its failure cooldown and the failures in a row.   *)
(* Which of the willing providers are probed first, and in which order     *)
(* they are asked, is left open.                                           *)
(***************************************************************************)
EXTENDS Integers, Sequences, FiniteSets

CONSTANTS
  Participants,          \* peers of the active network, this daemon excluded
  Relays,                \* relay operator pubkeys
  LeaseSecs,             \* [Relays -> lease length of that operator]
  RetryAfters,           \* retry_after_secs values an operator sends
  RequestRetryAfter,     \* RELAY_REQUEST_RETRY_AFTER_SECS
  RequestTimeout,        \* RELAY_REQUEST_TIMEOUT_SECS
  VerifyTimeout,         \* RELAY_SESSION_VERIFY_TIMEOUT_SECS
  FailedRetryAfter,      \* RELAY_FAILED_RETRY_AFTER_SECS
  MaxCooldown,           \* RELAY_PROVIDER_FAILURE_MAX_COOLDOWN_SECS
  ProbeRetryAfter,       \* RELAY_PROVIDER_PROBE_RETRY_AFTER_SECS
  OnlineGrace,           \* PEER_ONLINE_GRACE_SECS
  MaxProbes,             \* MAX_PARALLEL_RELAY_PROVIDER_PROBES
  MaxRequests,           \* MAX_PARALLEL_RELAY_REQUESTS_PER_PARTICIPANT
  MaxTime, MaxLeases     \* bounds of the model

ASSUME ClientAssumption ==
  /\ IsFiniteSet(Participants)
  /\ LeaseSecs \in [Relays -> Nat \ {0}]
  /\ RetryAfters \subseteq Nat
  /\ {RequestRetryAfter, RequestTimeout, VerifyTimeout, FailedRetryAfter,
      MaxCooldown, ProbeRetryAfter, OnlineGrace, MaxProbes, MaxRequests,
      MaxTime, MaxLeases} \subseteq Nat
  /\ MaxTime >= 1

VARIABLES
  now,        \* unix_timestamp(); starts at 1, so 0 stands for "never"
  enabled,    \* session_enabled
  handshake,  \* WireGuard status per participant: endpoint and time
  relayed,    \* history: the leases a handshake ever completed over
  paused_at,  \* history: when the session was last paused
  c,          \* the client's relay books
  grants      \* Granted messages received (and maybe received again)

history == <<relayed, paused_at>>
vars == <<now, enabled, handshake, history, c, grants>>

Time == 0 .. MaxTime
Direct == 0                                     \* an endpoint that is no relay

(* The backoff stops growing after this many failures in a row. *)
MaxFailures == 5

(* request_id = network:participant:relay:now *)
RequestId == [participant : Participants, relay : Relays, requested_at : Time]

(* ep identifies the pair of ingress endpoints of a lease. *)
Lease == [relay : Relays, ep : 1 .. MaxLeases, granted_at : Time,
          verified_at : Time, expires_at : Nat]
Verification == [cooldown_until : Nat, failures : 0 .. MaxFailures]
GrantMsg == [id : RequestId, ep : 1 .. MaxLeases, expires_at : Nat]

NoVerification == [cooldown_until |-> 0, failures |-> 0]

Larger(a, b) == IF a >= b THEN a ELSE b
Smaller(a, b) == IF a <= b THEN a ELSE b

(* The entries of a sequence at the positions I, in their order. *)
Increasing(I) ==
  CHOOSE f \in [1 .. Cardinality(I) -> I] : \A i, j \in DOMAIN f : i < j => f[i] < f[j]
Subsequence(seq, I) == [i \in 1 .. Cardinality(I) |-> seq[Increasing(I)[i]]]
First(I) == CHOOSE i \in I : \A j \in I : i <= j

-----------------------------------------------------------------------------
(* Sessions and cooldowns *)

IsActive(session) == session.expires_at > now
HasActive(cc, p) == p \in DOMAIN cc.sessions /\ IsActive(cc.sessions[p])
TimedOut(session) ==
  session.verified_at = 0 /\ now - session.granted_at >= VerifyTimeout

InCooldown(cc, p, r) == cc.failures[p][r] > now
ProviderInCooldown(cc, r) == cc.book[r].cooldown_until > now

NoteFailedRelay(cc, p, r) == [cc EXCEPT !.failures[p][r] = now + FailedRetryAfter]

(* The cooldown doubles with every failure in a row, at most four times,   *)
(* and never exceeds MaxCooldown.                                          *)
Backoff(base, failures) ==
  Smaller(MaxCooldown, Larger(base, 1) * <<1, 2, 4, 8, 16>>[failures])

(* An entry of the provider book after k failures at once. *)
AfterFailures(entry, k, retry) ==
  LET failures == Smaller(entry.failures + k, MaxFailures)
  IN IF k = 0 THEN entry
     ELSE [cooldown_until |-> now + Backoff(retry, failures), failures |-> failures]

NoteFailedProvider(cc, r, retry) ==
  [cc EXCEPT !.book[r] = AfterFailures(@, 1, retry)]

(* The books in which every relay has one of its possible entries. *)
BooksOf(entries) ==
  {book \in [Relays -> UNION {entries[r] : r \in Relays}] :
     \A r \in Relays : book[r] \in entries[r]}

-----------------------------------------------------------------------------
(* Pruning: the maps keep what is still running at now *)

PruneActive(cc) ==
  [cc EXCEPT !.sessions =
     [p \in {q \in DOMAIN cc.sessions : IsActive(cc.sessions[q])} |-> cc.sessions[p]]]

PruneStandby(cc) ==
  [cc EXCEPT !.standby = [p \in Participants |->
     Subsequence(cc.standby[p],
                 {i \in DOMAIN cc.standby[p] : IsActive(cc.standby[p][i])})]]

PruneFailures(cc) ==
  [cc EXCEPT !.failures = [p \in Participants |-> [r \in Relays |->
     IF cc.failures[p][r] > now THEN cc.failures[p][r] ELSE 0]]]

PruneBook(cc) ==
  [cc EXCEPT !.book = [r \in Relays |->
     IF ProviderInCooldown(cc, r) THEN cc.book[r]
     ELSE [cc.book[r] EXCEPT !.cooldown_until = 0]]]

PrunePending(cc) ==
  [cc EXCEPT !.pending = {q \in @ : now - q.requested_at < RequestTimeout}]

-----------------------------------------------------------------------------
(* Requests, probes, grants and rejections *)

RecentHandshake(p) ==
  handshake[p].at # 0 /\ now - handshake[p].at <= OnlineGrace

HasRecentRequest(cc, p) ==
  \E q \in cc.pending : q.participant = p /\ now - q.requested_at < RequestRetryAfter

(* participants_needing_relay, for a participant that has announced itself. *)
NeedsRelay(cc, p) ==
  /\ ~HasActive(cc, p)
  /\ ~HasRecentRequest(cc, p)
  /\ ~RecentHandshake(p)

(* A provider's entry after one probe attempt: it looped the probe's       *)
(* packets back, refused it, or did not answer.                            *)
Probed(entry) ==
  {NoVerification}
    \union {AfterFailures(entry, 1, retry) : retry \in RetryAfters \union {ProbeRetryAfter}}

(* proactively_probe_relay_providers: at most MaxProbes of the providers   *)
(* found, one after the other.                                             *)
ProbeResults(cc, found) ==
  UNION {{[cc EXCEPT !.book = book] :
            book \in BooksOf([r \in Relays |-> IF r \in T THEN Probed(cc.book[r])
                                              ELSE {cc.book[r]}])} :
           T \in {U \in SUBSET found : Cardinality(U) <= MaxProbes}}

Candidates(cc, p, found) ==
  {r \in found \ {p} : ~InCooldown(cc, p, r) /\ ~ProviderInCooldown(cc, r)}

AddPending(cc, requests) == [cc EXCEPT !.pending = @ \union requests]

Requests(p, T) == {[participant |-> p, relay |-> r, requested_at |-> now] : r \in T}

(* What truncating a list of S to MaxRequests entries can leave. *)
Truncated(S) == {T \in SUBSET S : Cardinality(T) = Smaller(MaxRequests, Cardinality(S))}

(* The requests one round can get published.  The first publish error ends *)
(* the round: the participants in done got all their requests out, p some  *)
(* of its own and the rest none.                                           *)
Rounds(cc, needing, found) ==
  LET Chosen == {f \in [needing -> SUBSET Relays] :
                   \A p \in needing : f[p] \in Truncated(Candidates(cc, p, found))}
  IN UNION {{(UNION {Requests(q, f[q]) : q \in done}) \union Requests(p, part) :
               done \in SUBSET (needing \ {p}), part \in SUBSET f[p]}
              : f \in Chosen, p \in needing}

(* queue_standby_relay_session compares with the other standby sessions.   *)
QueueStandby(cc, p, session) ==
  IF \E i \in DOMAIN cc.standby[p] :
       cc.standby[p][i].relay = session.relay /\ cc.standby[p][i].ep = session.ep
  THEN cc
  ELSE [cc EXCEPT !.standby[p] = Append(@, session)]

(* Fault: the session is filed under the relay's key. *)
WithSessionByRelay(cc, p, session) ==
  [cc EXCEPT !.sessions = [q \in DOMAIN @ \union {session.relay} |->
                             IF q = session.relay THEN session ELSE @[q]]]
WithSession(cc, p, session) ==
  [cc EXCEPT !.sessions = [q \in DOMAIN @ \union {p} |-> IF q = p THEN session ELSE @[q]]]
WithoutSession(cc, p) ==
  [cc EXCEPT !.sessions = [q \in DOMAIN @ \ {p} |-> @[q]]]
DropPending(cc, p) == [cc EXCEPT !.pending = {q \in @ : q.participant # p}]

(* Fault: an accepted grant leaves its request pending. *)
AcceptGrantKeepsPending(cc, g) ==
  LET p       == g.id.participant
      session == [relay |-> g.id.relay, ep |-> g.ep, granted_at |-> now,
                  verified_at |-> 0, expires_at |-> g.expires_at]
  IN IF g.expires_at <= now \/ g.id \notin cc.pending THEN cc
     ELSE IF InCooldown(cc, p, g.id.relay) THEN cc
     ELSE IF HasActive(cc, p) THEN QueueStandby(cc, p, session)
     ELSE WithSession(cc, p, session)

(* Fault: a grant is taken although its relay has failed meanwhile. *)
AcceptGrantFailedRelay(cc, g) ==
  LET p        == g.id.participant
      consumed == [cc EXCEPT !.pending = @ \ {g.id}]
      session  == [relay |-> g.id.relay, ep |-> g.ep, granted_at |-> now,
                   verified_at |-> 0, expires_at |-> g.expires_at]
  IN IF g.expires_at <= now \/ g.id \notin cc.pending THEN cc
     ELSE IF HasActive(cc, p) THEN QueueStandby(consumed, p, session)
     ELSE WithSession(consumed, p, session)

(* accept_relay_allocation_grant; an expired grant leaves its request      *)
(* pending.                                                                *)
AcceptGrant(cc, g) ==
  LET p        == g.id.participant
      consumed == [cc EXCEPT !.pending = @ \ {g.id}]
      session  == [relay |-> g.id.relay, ep |-> g.ep, granted_at |-> now,
                   verified_at |-> 0, expires_at |-> g.expires_at]
  IN IF g.expires_at <= now \/ g.id \notin cc.pending THEN cc
     ELSE IF InCooldown(cc, p, g.id.relay) THEN consumed
     ELSE IF HasActive(cc, p) THEN QueueStandby(consumed, p, session)
     ELSE WithSession(consumed, p, session)

(* accept_relay_allocation_rejection *)
AcceptRejection(cc, id, retry) ==
  IF id \notin cc.pending THEN cc
  ELSE NoteFailedProvider(
         NoteFailedRelay([cc EXCEPT !.pending = @ \ {id}], id.participant, id.relay),
         id.relay, retry)

-----------------------------------------------------------------------------
(* Reconciliation with the WireGuard runtime *)

(* pop_next_standby_relay_session: the first standby that is running and   *)
(* whose relay is not cooling down, with a fresh verification window.      *)
PromoteStandby(cc, p) ==
  LET queue == cc.standby[p]
      usable == {i \in DOMAIN queue :
                   IsActive(queue[i]) /\ ~InCooldown(cc, p, queue[i].relay)}
      others == DOMAIN queue \ {First(usable)}
  IN IF usable = {} THEN cc
     ELSE WithSession([cc EXCEPT !.standby[p] = Subsequence(queue, others)], p,
            [queue[First(usable)] EXCEPT !.granted_at = now, !.verified_at = 0])

(* Fault: any recent handshake verifies the session. *)
VerifiesAnyEndpoint(p, session, status) ==
  status[p].at # 0 /\ status[p].at >= session.granted_at

(* runtime_peer_verifies_relay_session, given what peer_status returned.   *)
Verifies(p, session, status) ==
  /\ status[p].ep = session.ep
  /\ status[p].at # 0 /\ status[p].at >= session.granted_at

(* What reconcile_active_relay_sessions finds of a participant's session.  *)
Lapses(cc, p) == p \in DOMAIN cc.sessions /\ ~IsActive(cc.sessions[p])
Confirmed(cc, p, status) == HasActive(cc, p) /\ Verifies(p, cc.sessions[p], status)
Failing(cc, p, status) ==
  HasActive(cc, p) /\ ~Verifies(p, cc.sessions[p], status) /\ TimedOut(cc.sessions[p])

(* One participant of its loop, the provider book apart. *)
ReconcileOne(cc, p, status) ==
  LET promoted == PromoteStandby(WithoutSession(cc, p), p)
      failed   == DropPending(
                    NoteFailedRelay(WithoutSession(cc, p), p, cc.sessions[p].relay), p)
  IN IF Lapses(cc, p)
     THEN IF p \in DOMAIN promoted.sessions THEN promoted ELSE DropPending(promoted, p)
     ELSE IF Confirmed(cc, p, status)
     THEN [cc EXCEPT !.sessions[p].verified_at = IF @ = 0 THEN status[p].at ELSE @]
     ELSE IF Failing(cc, p, status) THEN PromoteStandby(failed, p)
     ELSE cc

(* What becomes of a provider's entry: its sessions that failed count one   *)
(* by one, unless one of its sessions is verified after them.  Participants *)
(* come in hash order.                                                      *)
EntriesAfter(cc, r, status) ==
  LET of(S) == {p \in S : cc.sessions[p].relay = r}
      failing == of({p \in DOMAIN cc.sessions : Failing(cc, p, status)})
      confirmed == of({p \in DOMAIN cc.sessions : Confirmed(cc, p, status)})
  IN IF confirmed = {}
     THEN {AfterFailures(cc.book[r], Cardinality(failing), FailedRetryAfter)}
     ELSE {AfterFailures(NoVerification, k, FailedRetryAfter) : k \in 0 .. Cardinality(failing)}

(* The loop: no participant touches what belongs to another one, except for *)
(* the provider book.                                                       *)
Reconciled(cc, status) ==
  LET one == [p \in Participants |-> ReconcileOne(cc, p, status)]
  IN {[pending  |-> {q \in cc.pending : q \in one[q.participant].pending},
       sessions |-> [p \in {q \in Participants : q \in DOMAIN one[q].sessions} |->
                       one[p].sessions[p]],
       standby  |-> [p \in Participants |-> one[p].standby[p]],
       failures |-> [p \in Participants |-> one[p].failures[p]],
       book     |-> book] :
        book \in BooksOf([r \in Relays |-> EntriesAfter(cc, r, status)])}

NoHandshake == [ep |-> Direct, at |-> 0]

-----------------------------------------------------------------------------
(* The arms of the daemon's loop.  An arm that is guarded by the relay     *)
(* connection, or by a participant's announcement, may simply not happen.  *)

(* announce_interval: prune everything, then ask relays for the            *)
(* participants that need one.  Discovery finds any set of operators.      *)
AnnouncePrune(cc) == PrunePending(PruneBook(PruneFailures(PruneStandby(PruneActive(cc)))))

AnnounceTick ==
  /\ enabled
  /\ LET pruned == AnnouncePrune(c) IN
     \/ c' = pruned                       \* nobody needs one, or discovery fails
     \/ \E needing \in (SUBSET {p \in Participants : NeedsRelay(pruned, p)}) \ {{}},
           found \in (SUBSET {r \in Relays : ~ProviderInCooldown(pruned, r)}) \ {{}} :
        \E probed \in ProbeResults(pruned, found) :
        \E sent \in Rounds(probed, needing, found) : c' = AddPending(probed, sent)
  /\ UNCHANGED <<now, enabled, handshake, history, grants>>

(* state_interval, its reconcile part; peer_status may fail, and it says   *)
(* nothing of a participant that has not announced itself.                 *)
StateTick ==
  /\ \E seen \in SUBSET Participants :
       c' \in Reconciled(c, [p \in Participants |->
                IF p \in seen THEN handshake[p] ELSE NoHandshake])
  /\ UNCHANGED <<now, enabled, handshake, history, grants>>

(* A grant is received again.  One that is lost is never received. *)
RecvGrantAgain(g) ==
  /\ c' = AcceptGrant(c, g)
  /\ UNCHANGED <<now, enabled, handshake, history, grants>>

(* A grant is received, which an operator made at some time since the      *)
(* request, with endpoints no other lease has.  The request may be one     *)
(* this daemon has forgotten or never made.                                *)
RecvGrant(id, at) ==
  LET g == [id |-> id, ep |-> Cardinality(grants) + 1,
            expires_at |-> at + LeaseSecs[id.relay]]
  IN /\ Cardinality(grants) < MaxLeases
     /\ id.requested_at <= at /\ at <= now
     /\ c' = AcceptGrant(c, g)
     /\ grants' = IF c' = c THEN grants ELSE grants \union {g}
     /\ UNCHANGED <<now, enabled, handshake, history>>

RecvRejection(id, retry) ==
  /\ c' = AcceptRejection(c, id, retry)
  /\ UNCHANGED <<now, enabled, handshake, history, grants>>

NoBooks ==
  [pending |-> {}, sessions |-> [p \in {} |-> {}],
   standby |-> [p \in Participants |-> <<>>],
   failures |-> [p \in Participants |-> [r \in Relays |-> 0]],
   book |-> [r \in Relays |-> NoVerification]]

(* Fault: pausing keeps the pending requests. *)
PauseKeepsPending ==
  /\ enabled
  /\ enabled' = FALSE /\ c' = [NoBooks EXCEPT !.pending = c.pending]
  /\ handshake' = [p \in Participants |-> NoHandshake]
  /\ paused_at' = now
  /\ UNCHANGED <<now, relayed, grants>>

(* Pause forgets every book and stops the tunnel. *)
Pause ==
  /\ enabled
  /\ enabled' = FALSE /\ c' = NoBooks
  /\ handshake' = [p \in Participants |-> NoHandshake]
  /\ paused_at' = now
  /\ UNCHANGED <<now, relayed, grants>>

Resume ==
  /\ ~enabled
  /\ enabled' = TRUE
  /\ UNCHANGED <<now, handshake, history, c, grants>>

-----------------------------------------------------------------------------
(* The environment: the WireGuard runtime and time *)

(* A handshake completes on the direct path or over a lease granted for p; *)
(* WireGuard follows the endpoint the peer is heard from.                  *)
Handshake(p, ep) ==
  /\ enabled
  /\ ep \in {Direct} \union {g.ep : g \in {x \in grants : x.id.participant = p}}
  /\ handshake' = [handshake EXCEPT ![p] = [ep |-> ep, at |-> now]]
  /\ relayed' = relayed \union ({ep} \ {Direct})
  /\ UNCHANGED <<now, enabled, paused_at, c, grants>>

Tick ==
  /\ now < MaxTime
  /\ now' = now + 1
  /\ UNCHANGED <<enabled, handshake, history, c, grants>>

-----------------------------------------------------------------------------
Init ==
  /\ now = 1 /\ enabled = TRUE
  /\ handshake = [p \in Participants |-> NoHandshake]
  /\ relayed = {} /\ paused_at = 0
  /\ c = NoBooks
  /\ grants = {}

Next ==
  \/ AnnounceTick \/ StateTick \/ Pause \/ Resume \/ Tick
  \/ \E g \in grants : RecvGrantAgain(g)
  \/ \E id \in RequestId, at \in Time : RecvGrant(id, at)
  \/ \E id \in RequestId, retry \in RetryAfters : RecvRejection(id, retry)
  \/ \E p \in Participants, ep \in 0 .. MaxLeases : Handshake(p, ep)

Spec == Init /\ [][Next]_vars

-----------------------------------------------------------------------------
(* Type correctness of the books. *)
TypeOK ==
  /\ now \in Time /\ enabled \in BOOLEAN
  /\ handshake \in [Participants -> [ep : 0 .. MaxLeases, at : Time]]
  /\ relayed \subseteq 1 .. MaxLeases /\ paused_at \in Time
  /\ c.pending \subseteq RequestId
  /\ DOMAIN c.sessions \subseteq Participants
  /\ \A p \in DOMAIN c.sessions : c.sessions[p] \in Lease
  /\ \A p \in Participants : c.standby[p] \in Seq(Lease)
  /\ c.failures \in [Participants -> [Relays -> Nat]]
  /\ c.book \in [Relays -> Verification]
  /\ grants \subseteq GrantMsg

Sessions(p) ==
  (IF p \in DOMAIN c.sessions THEN {c.sessions[p]} ELSE {}) \union {c.standby[p][i] : i \in DOMAIN c.standby[p]}

(* A lease is used in one place: never active and standby at once, never    *)
(* queued twice, never for two participants, although the grant may be      *)
(* delivered any number of times and queue_standby_relay_session compares   *)
(* only with the queue.                                                     *)
LeaseUsedOnce ==
  /\ \A p \in Participants :
       /\ \A i, j \in DOMAIN c.standby[p] :
            i # j => c.standby[p][i].ep # c.standby[p][j].ep
       /\ p \in DOMAIN c.sessions =>
            \A i \in DOMAIN c.standby[p] : c.standby[p][i].ep # c.sessions[p].ep
  /\ \A p, q \in Participants : p # q =>
       \A s \in Sessions(p), t \in Sessions(q) : s.ep # t.ep

(* A session counts as verified only when a handshake completed over its    *)
(* own lease, no earlier than it became the active session: not over the    *)
(* direct path, not over the relay it replaced.                             *)
VerifiedOverOwnLease ==
  \A p \in DOMAIN c.sessions : LET s == c.sessions[p] IN
    s.verified_at # 0 => s.ep \in relayed /\ s.verified_at >= s.granted_at

(* Pausing forgets the requests in flight: a grant that answers a request   *)
(* sent before the last pause never becomes a session, however late it      *)
(* arrives.                                                                 *)
PauseForgetsRequests ==
  \A p \in Participants : \A s \in Sessions(p) :
    \E g \in grants : g.ep = s.ep /\ g.id.requested_at >= paused_at

(* A relay that is cooling down for a participant stays out: no session     *)
(* starts on it, be it from a grant or from the standby queue and also when *)
(* it failed in the same reconciliation, and it is not asked, neither for   *)
(* a participant whose session runs nor when its probe failed in this very  *)
(* round.                                                                   *)
CooldownRespected ==
  [][/\ \A p \in DOMAIN c'.sessions :
          (p \in DOMAIN c.sessions => c.sessions[p].ep # c'.sessions[p].ep)
            => c'.failures[p][c'.sessions[p].relay] <= now
     /\ \A q \in c'.pending \ c.pending :
          /\ ~HasActive(c, q.participant)
          /\ c'.failures[q.participant][q.relay] <= now
          /\ c'.book[q.relay].cooldown_until <= now]_vars
=============================================================================
