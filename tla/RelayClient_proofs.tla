------------------------- MODULE RelayClient_proofs -------------------------
(***************************************************************************)
(* Theorems about the relay fallback of a client, for any participants,    *)
(* operators, leases, timeouts and bounds.                                 *)
(***************************************************************************)
EXTENDS RelayClient, FiniteSetTheorems, WellFoundedInduction, TLAPS

(* Sets of numbers and subsequences. *)

Before == {pair \in Nat \X Nat : pair[1] < pair[2]}
LEMMA BeforeWellFounded == IsWellFoundedOn(Before, Nat)
BY NatLessThanWellFounded, Zenon DEF Before, OpToRel

LEMMA Least ==
  ASSUME NEW S \in SUBSET Nat, S # {}
  PROVE  \E m \in S : \A x \in S : m <= x
<1>1. PICK m \in S : \A x \in S : ~(<<x, m>> \in Before)
  BY BeforeWellFounded, WFMin
<1>2. \A x \in S : <<x, m>> \in Before <=> x < m
  BY DEF Before
<1>3. \A x \in S : ~(x < m)
  BY <1>1, <1>2
<1>4. \A x \in S : m <= x
  BY <1>3
<1> QED BY <1>4

LEMMA FirstIs ==
  ASSUME NEW I \in SUBSET Nat, I # {}
  PROVE  First(I) \in I
BY Least DEF First

(* Every set of positions can be enumerated in increasing order. *)
Enumerable(I) ==
  \E f \in [1 .. Cardinality(I) -> I] : \A i, j \in DOMAIN f : i < j => f[i] < f[j]

LEMMA Positions == ASSUME NEW n \in Nat, NEW I \in SUBSET (1 .. n)
                   PROVE  IsFiniteSet(I) /\ Cardinality(I) \in Nat
<1>1. IsFiniteSet(1 .. n)
  BY FS_Interval
<1>2. IsFiniteSet(I)
  BY <1>1, FS_Subset
<1> QED BY <1>2, FS_CardinalityType

LEMMA OneMore ==
  ASSUME NEW n \in Nat \ {0}, \A J \in SUBSET (1 .. n - 1) : Enumerable(J),
         NEW I \in SUBSET (1 .. n)
  PROVE  Enumerable(I)
<1>1. CASE n \notin I
  <2>1. I \in SUBSET (1 .. n - 1)
    BY <1>1
  <2> QED BY <2>1
<1>2. CASE n \in I
  <2> DEFINE J == I \ {n}
  <2>1. J \in SUBSET (1 .. n - 1)
    OBVIOUS
  <2>2. IsFiniteSet(J) /\ Cardinality(J) \in Nat
    BY <2>1, Positions
  <2>3. Cardinality(I) = Cardinality(J) + 1
    <3>1. I = J \union {n} /\ n \notin J
      BY <1>2
    <3> QED BY <2>2, <3>1, FS_AddElement
  <2>4. PICK k \in Nat : k = Cardinality(J)
    BY <2>2
  <2>5. PICK f \in [1 .. k -> J] : \A i, j \in DOMAIN f : i < j => f[i] < f[j]
    BY <2>1, <2>4 DEF Enumerable
  <2> DEFINE g == [i \in 1 .. k + 1 |-> IF i = k + 1 THEN n ELSE f[i]]
  <2>6. ASSUME NEW i \in 1 .. k + 1, i # k + 1
        PROVE  i \in 1 .. k /\ g[i] = f[i] /\ f[i] \in J
    <3>1. i \in 1 .. k
      BY <2>4, <2>6
    <3> QED BY <2>5, <2>6, <3>1
  <2>7. g[k + 1] = n
    BY <2>4
  <2>8. \A i \in 1 .. k + 1 : g[i] \in I
    BY <1>2, <2>6, <2>7
  <2>9. DOMAIN g = 1 .. k + 1 /\ DOMAIN f = 1 .. k
    BY <2>5
  <2>10. g \in [1 .. Cardinality(I) -> I]
    BY <2>3, <2>4, <2>8
  <2> HIDE DEF g
  <2>11. \A i, j \in 1 .. k + 1 : i < j => g[i] < g[j]
    <3> SUFFICES ASSUME NEW i \in 1 .. k + 1, NEW j \in 1 .. k + 1, i < j PROVE g[i] < g[j]
      OBVIOUS
    <3>1. i # k + 1
      BY <2>4
    <3>2. i \in 1 .. k /\ g[i] = f[i] /\ f[i] \in J
      BY <2>6, <3>1
    <3>3. CASE j = k + 1
      <4>1. \A x \in J : x < n
        <5>1. \A x \in 1 .. n - 1 : x < n
          OBVIOUS
        <5> HIDE DEF J
        <5> QED BY <2>1, <5>1
      <4>2. f[i] < n
        BY <3>2, <4>1
      <4> QED BY <2>7, <3>2, <3>3, <4>2
    <3>4. CASE j # k + 1
      <4>1. j \in 1 .. k /\ g[j] = f[j]
        BY <2>6, <3>4
      <4> QED BY <2>5, <2>9, <3>2, <4>1
    <3> QED BY <3>3, <3>4
  <2> QED BY <2>9, <2>10, <2>11 DEF Enumerable
<1> QED BY <1>1, <1>2

LEMMA AllEnumerable == ASSUME NEW n \in Nat PROVE \A I \in SUBSET (1 .. n) : Enumerable(I)
<1> DEFINE Bad == {k \in Nat : \E I \in SUBSET (1 .. k) : ~Enumerable(I)}
<1>1. SUFFICES Bad = {}
  OBVIOUS
<1>2. ASSUME Bad # {} PROVE FALSE
  <2>1. PICK k \in Bad : \A x \in Bad : k <= x
    BY <1>2, Least
  <2>2. CASE k = 0
    <3>1. \A I \in SUBSET (1 .. 0) : I = {}
      OBVIOUS
    <3>2. Enumerable({})
      <4>1. [i \in {} |-> i] \in [1 .. Cardinality({}) -> {}] /\ DOMAIN [i \in {} |-> i] = {}
        BY FS_EmptySet
      <4> QED BY <4>1 DEF Enumerable
    <3> QED BY <2>1, <2>2, <3>1, <3>2
  <2>3. CASE k # 0
    <3>1. k \in Nat \ {0} /\ k - 1 \in Nat /\ k - 1 \notin Bad
      BY <2>1, <2>3
    <3>2. \A J \in SUBSET (1 .. k - 1) : Enumerable(J)
      BY <3>1
    <3>3. \A I \in SUBSET (1 .. k) : Enumerable(I)
      BY <3>1, <3>2, OneMore
    <3> QED BY <2>1, <3>3
  <2> QED BY <2>2, <2>3
<1> QED BY <1>2

LEMMA IncreasingIs ==
  ASSUME NEW n \in Nat, NEW I \in SUBSET (1 .. n)
  PROVE  /\ Cardinality(I) \in Nat
         /\ Increasing(I) \in [1 .. Cardinality(I) -> I]
         /\ \A i, j \in 1 .. Cardinality(I) : i # j => Increasing(I)[i] # Increasing(I)[j]
<1>1. Cardinality(I) \in Nat
  BY Positions
<1>2. Enumerable(I)
  BY AllEnumerable
<1>3. /\ Increasing(I) \in [1 .. Cardinality(I) -> I]
      /\ \A i, j \in DOMAIN Increasing(I) : i < j => Increasing(I)[i] < Increasing(I)[j]
  BY <1>2 DEF Enumerable, Increasing
<1>4. \A i \in 1 .. Cardinality(I) : Increasing(I)[i] \in 1 .. n
  BY <1>3
<1>5. ASSUME NEW i \in 1 .. Cardinality(I), NEW j \in 1 .. Cardinality(I), i # j
      PROVE  Increasing(I)[i] # Increasing(I)[j]
  <2>1. (i < j \/ j < i) /\ DOMAIN Increasing(I) = 1 .. Cardinality(I)
    BY <1>1, <1>3, <1>5
  <2>2. Increasing(I)[i] \in Nat /\ Increasing(I)[j] \in Nat
    BY <1>4
  <2> QED BY <1>3, <2>1, <2>2
<1> QED BY <1>1, <1>3, <1>5

(* A subsequence has entries of the sequence, each position at most once. *)
LEMMA SubsequenceIs ==
  ASSUME NEW T, NEW seq \in Seq(T), NEW I \in SUBSET (DOMAIN seq)
  PROVE  /\ Subsequence(seq, I) \in Seq(T)
         /\ \A i \in DOMAIN Subsequence(seq, I) :
              Increasing(I)[i] \in I /\ Subsequence(seq, I)[i] = seq[Increasing(I)[i]]
         /\ \A i, j \in DOMAIN Subsequence(seq, I) : i # j => Increasing(I)[i] # Increasing(I)[j]
<1>1. Len(seq) \in Nat /\ DOMAIN seq = 1 .. Len(seq)
  OBVIOUS
<1>2. I \in SUBSET (1 .. Len(seq))
  BY <1>1
<1>3. /\ Cardinality(I) \in Nat /\ Increasing(I) \in [1 .. Cardinality(I) -> I]
      /\ \A i, j \in 1 .. Cardinality(I) : i # j => Increasing(I)[i] # Increasing(I)[j]
  BY <1>1, <1>2, IncreasingIs
<1>4. DOMAIN Subsequence(seq, I) = 1 .. Cardinality(I)
  BY DEF Subsequence
<1>5. \A i \in 1 .. Cardinality(I) :
        Increasing(I)[i] \in I /\ Subsequence(seq, I)[i] = seq[Increasing(I)[i]]
  BY <1>3 DEF Subsequence
<1>6. \A i \in DOMAIN seq : seq[i] \in T
  OBVIOUS
<1>7. Subsequence(seq, I) \in [1 .. Cardinality(I) -> T]
  BY <1>3, <1>5, <1>6 DEF Subsequence
<1>8. Subsequence(seq, I) \in Seq(T)
  BY <1>3, <1>7
<1> QED BY <1>3, <1>4, <1>5, <1>8

-----------------------------------------------------------------------------
(* The types of the books and what the operators change in them.            *)

Queues == [Participants -> Seq(Lease)]
Cooldowns == [Participants -> [Relays -> Nat]]
Held == UNION {[D -> Lease] : D \in SUBSET Participants}
Books == [pending : SUBSET RequestId, sessions : Held, standby : Queues,
          failures : Cooldowns, book : [Relays -> Verification]]

LEMMA HeldIs ==
  ASSUME NEW f
  PROVE  f \in Held <=> /\ f = [p \in DOMAIN f |-> f[p]] /\ DOMAIN f \subseteq Participants
                        /\ \A p \in DOMAIN f : f[p] \in Lease
BY DEF Held

LEMMA Constants ==
  /\ {RequestRetryAfter, RequestTimeout, VerifyTimeout, FailedRetryAfter, MaxCooldown,
      ProbeRetryAfter, OnlineGrace, MaxProbes, MaxRequests, MaxTime, MaxLeases} \subseteq Nat
  /\ FailedRetryAfter \in Nat /\ ProbeRetryAfter \in Nat /\ MaxCooldown \in Nat
  /\ MaxTime \in Nat \ {0} /\ MaxLeases \in Nat /\ RetryAfters \subseteq Nat
  /\ LeaseSecs \in [Relays -> Nat \ {0}] /\ IsFiniteSet(Participants)
BY ClientAssumption

LEMMA BackoffTyped ==
  ASSUME NEW base \in Nat, NEW failures \in 1 .. MaxFailures
  PROVE  Backoff(base, failures) \in Nat
<1>1. <<1, 2, 4, 8, 16>>[failures] \in Nat
  BY DEF MaxFailures
<1>2. Larger(base, 1) \in Nat
  BY DEF Larger
<1>3. Larger(base, 1) * <<1, 2, 4, 8, 16>>[failures] \in Nat
  BY <1>1, <1>2
<1> QED BY <1>3, Constants DEF Backoff, Smaller

LEMMA AfterFailuresTyped ==
  ASSUME now \in Nat, NEW entry \in Verification, NEW k \in Nat, NEW retry \in Nat
  PROVE  AfterFailures(entry, k, retry) \in Verification
<1> DEFINE failures == Smaller(entry.failures + k, MaxFailures)
<1>1. CASE k = 0
  BY <1>1 DEF AfterFailures
<1>2. CASE k # 0
  <2>1. failures \in 1 .. MaxFailures
    BY <1>2 DEF Verification, Smaller, MaxFailures
  <2>2. now + Backoff(retry, failures) \in Nat
    BY <2>1, BackoffTyped
  <2>3. AfterFailures(entry, k, retry)
          = [cooldown_until |-> now + Backoff(retry, failures), failures |-> failures]
    BY <1>2 DEF AfterFailures
  <2>4. failures \in 0 .. MaxFailures
    BY <2>1 DEF MaxFailures
  <2> HIDE DEF failures
  <2> QED BY <2>2, <2>3, <2>4 DEF Verification
<1> QED BY <1>1, <1>2

LEMMA NoVerificationTyped == NoVerification \in Verification
BY DEF NoVerification, Verification, MaxFailures

LEMMA BooksOfTyped ==
  ASSUME NEW entries, \A r \in Relays : entries[r] \subseteq Verification,
         NEW book \in BooksOf(entries)
  PROVE  book \in [Relays -> Verification] /\ \A r \in Relays : book[r] \in entries[r]
BY DEF BooksOf

LEMMA WithSessionIs ==
  ASSUME NEW cc \in Books, NEW p \in Participants, NEW s \in Lease
  PROVE  /\ WithSession(cc, p, s) \in Books
         /\ WithSession(cc, p, s).pending = cc.pending
         /\ WithSession(cc, p, s).standby = cc.standby
         /\ WithSession(cc, p, s).failures = cc.failures
         /\ WithSession(cc, p, s).book = cc.book
         /\ DOMAIN WithSession(cc, p, s).sessions = DOMAIN cc.sessions \union {p}
         /\ WithSession(cc, p, s).sessions[p] = s
         /\ \A q \in DOMAIN cc.sessions \ {p} : WithSession(cc, p, s).sessions[q] = cc.sessions[q]
<1> DEFINE f == [q \in DOMAIN cc.sessions \union {p} |-> IF q = p THEN s ELSE cc.sessions[q]]
<1>1. cc.sessions \in Held
  BY DEF Books
<1>2. DOMAIN f = DOMAIN cc.sessions \union {p} /\ \A q \in DOMAIN f : f[q] \in Lease
  BY <1>1, HeldIs
<1>3. f \in Held
  BY <1>1, <1>2, HeldIs
<1>4. WithSession(cc, p, s) = [cc EXCEPT !.sessions = f]
  BY DEF WithSession, Books
<1>5. f[p] = s /\ \A q \in DOMAIN cc.sessions \ {p} : f[q] = cc.sessions[q]
  OBVIOUS
<1> HIDE DEF f
<1> QED BY <1>2, <1>3, <1>4, <1>5 DEF Books

LEMMA WithoutSessionIs ==
  ASSUME NEW cc \in Books, NEW p \in Participants
  PROVE  /\ WithoutSession(cc, p) \in Books
         /\ WithoutSession(cc, p).pending = cc.pending
         /\ WithoutSession(cc, p).standby = cc.standby
         /\ WithoutSession(cc, p).failures = cc.failures
         /\ DOMAIN WithoutSession(cc, p).sessions = DOMAIN cc.sessions \ {p}
<1> DEFINE f == [q \in DOMAIN cc.sessions \ {p} |-> cc.sessions[q]]
<1>1. cc.sessions \in Held
  BY DEF Books
<1>2. DOMAIN f = DOMAIN cc.sessions \ {p} /\ \A q \in DOMAIN f : f[q] \in Lease
  BY <1>1, HeldIs
<1>3. f \in Held
  BY <1>1, <1>2, HeldIs
<1>4. WithoutSession(cc, p) = [cc EXCEPT !.sessions = f]
  BY DEF WithoutSession, Books
<1> HIDE DEF f
<1> QED BY <1>2, <1>3, <1>4 DEF Books

LEMMA DropPendingIs ==
  ASSUME NEW cc \in Books, NEW p \in Participants
  PROVE  /\ DropPending(cc, p) \in Books
         /\ DropPending(cc, p).pending \subseteq cc.pending
         /\ DropPending(cc, p).sessions = cc.sessions /\ DropPending(cc, p).standby = cc.standby
         /\ DropPending(cc, p).failures = cc.failures
BY DEF DropPending, Books

LEMMA NoteFailedRelayIs ==
  ASSUME now \in Nat, NEW cc \in Books, NEW p \in Participants, NEW r \in Relays
  PROVE  /\ NoteFailedRelay(cc, p, r) \in Books
         /\ NoteFailedRelay(cc, p, r).pending = cc.pending
         /\ NoteFailedRelay(cc, p, r).sessions = cc.sessions
         /\ NoteFailedRelay(cc, p, r).standby = cc.standby
         /\ \A q \in Participants, k \in Relays :
              NoteFailedRelay(cc, p, r).failures[q][k] =
                IF q = p /\ k = r THEN now + FailedRetryAfter ELSE cc.failures[q][k]
<1> DEFINE f == [cc.failures EXCEPT ![p][r] = now + FailedRetryAfter]
<1>1. cc.failures \in [Participants -> [Relays -> Nat]] /\ now + FailedRetryAfter \in Nat
  BY Constants DEF Books, Cooldowns
<1>2. f \in Cooldowns
  BY <1>1 DEF Cooldowns
<1>3. \A q \in Participants, k \in Relays :
        f[q][k] = IF q = p /\ k = r THEN now + FailedRetryAfter ELSE cc.failures[q][k]
  BY <1>1
<1>4. NoteFailedRelay(cc, p, r) = [cc EXCEPT !.failures = f]
  BY DEF NoteFailedRelay, Books
<1> HIDE DEF f
<1> QED BY <1>2, <1>3, <1>4 DEF Books

LEMMA NoteFailedProviderIs ==
  ASSUME now \in Nat, NEW cc \in Books, NEW r \in Relays, NEW retry \in Nat
  PROVE  /\ NoteFailedProvider(cc, r, retry) \in Books
         /\ NoteFailedProvider(cc, r, retry).pending = cc.pending
         /\ NoteFailedProvider(cc, r, retry).sessions = cc.sessions
         /\ NoteFailedProvider(cc, r, retry).standby = cc.standby
         /\ NoteFailedProvider(cc, r, retry).failures = cc.failures
<1> DEFINE f == [cc.book EXCEPT ![r] = AfterFailures(cc.book[r], 1, retry)]
<1>1. cc.book \in [Relays -> Verification]
  BY DEF Books
<1>2. AfterFailures(cc.book[r], 1, retry) \in Verification
  BY <1>1, AfterFailuresTyped
<1>3. f \in [Relays -> Verification]
  BY <1>1, <1>2
<1>4. NoteFailedProvider(cc, r, retry) = [cc EXCEPT !.book = f]
  BY DEF NoteFailedProvider, Books
<1> HIDE DEF f
<1> QED BY <1>3, <1>4 DEF Books
-----------------------------------------------------------------------------
(* The inductive invariant. *)

BooksInv ==
  /\ c \in Books
  /\ now \in Time /\ now >= 1 /\ enabled \in BOOLEAN
  /\ handshake \in [Participants -> [ep : 0 .. MaxLeases, at : Time]]
  /\ relayed \subseteq 1 .. MaxLeases

(* Every granted lease has endpoints of its own; they are numbered as they  *)
(* come.                                                                    *)
GrantsInv ==
  /\ grants \subseteq GrantMsg /\ IsFiniteSet(grants)
  /\ \A g \in grants : g.ep <= Cardinality(grants) /\ g.id.requested_at <= now
  /\ \A g, h \in grants : g.ep = h.ep => g = h

HandshakeInv ==
  /\ paused_at \in Time /\ paused_at <= now
  /\ \A p \in Participants : handshake[p].ep # Direct => handshake[p].ep \in relayed

(* The grant g is the one that p's session s came from; its request was made *)
(* since the last pause and has been consumed.                              *)
Backs(g, p, s, cc) ==
  /\ g.ep = s.ep /\ g.id.participant = p /\ g.id.relay = s.relay
  /\ g.id \notin cc.pending
  /\ paused_at <= g.id.requested_at /\ g.id.requested_at < s.expires_at

PendingFine(p, cc) ==
  \A q \in cc.pending : q.participant = p =>
    paused_at <= q.requested_at /\ q.requested_at <= now

SessionFine(p, cc, G) ==
  p \in DOMAIN cc.sessions =>
    /\ \E g \in G : Backs(g, p, cc.sessions[p], cc)
    /\ cc.sessions[p].verified_at # 0 =>
         /\ cc.sessions[p].ep \in relayed
         /\ cc.sessions[p].verified_at >= cc.sessions[p].granted_at

(* A request made just now behind a queued lease is not repeated.           *)
QueueFine(p, cc, G) ==
  \A i \in DOMAIN cc.standby[p] : \E g \in G :
    /\ Backs(g, p, cc.standby[p][i], cc)
    /\ g.id.requested_at = now => HasActive(cc, p) \/ InCooldown(cc, p, cc.standby[p][i].relay)

Apart(p, cc) ==
  /\ \A i, j \in DOMAIN cc.standby[p] : i # j => cc.standby[p][i].ep # cc.standby[p][j].ep
  /\ p \in DOMAIN cc.sessions =>
       \A i \in DOMAIN cc.standby[p] : cc.standby[p][i].ep # cc.sessions[p].ep

CooldownFine(p, cc) == \A r \in Relays : cc.failures[p][r] <= now + FailedRetryAfter

Fine(p, cc, G) ==
  /\ PendingFine(p, cc) /\ SessionFine(p, cc, G) /\ QueueFine(p, cc, G)
  /\ Apart(p, cc) /\ CooldownFine(p, cc)

ClientInv ==
  BooksInv /\ GrantsInv /\ HandshakeInv /\ \A p \in Participants : Fine(p, c, grants)

-----------------------------------------------------------------------------
(* What a participant's books depend on.                                    *)

(* The books stay fine when p's part of them shrinks: requests, a session   *)
(* that has run out, or queued leases are dropped and cooldowns are added.  *)
LEMMA SliceShrinks ==
  ASSUME NEW cc, NEW dd, NEW p, NEW G, NEW H, G \subseteq H, NEW pos,
         Fine(p, cc, G),
         \A q \in dd.pending : q.participant = p => q \in cc.pending,
         p \in DOMAIN dd.sessions => p \in DOMAIN cc.sessions /\ dd.sessions[p] = cc.sessions[p],
         HasActive(cc, p) => HasActive(dd, p),
         \A i \in DOMAIN dd.standby[p] :
           pos[i] \in DOMAIN cc.standby[p] /\ dd.standby[p][i] = cc.standby[p][pos[i]],
         \A i, j \in DOMAIN dd.standby[p] : i # j => pos[i] # pos[j],
         \A r \in Relays : InCooldown(cc, p, r) => InCooldown(dd, p, r),
         \A i \in DOMAIN cc.standby[p] : cc.standby[p][i].relay \in Relays,
         CooldownFine(p, dd)
  PROVE  Fine(p, dd, H)
<1>1. PendingFine(p, dd)
  BY DEF Fine, PendingFine
<1>2. ASSUME NEW g \in G, NEW s, Backs(g, p, s, cc) PROVE Backs(g, p, s, dd)
  BY <1>2 DEF Backs
<1>3. SessionFine(p, dd, H)
  <2>1. SUFFICES ASSUME p \in DOMAIN dd.sessions
                 PROVE  /\ \E g \in H : Backs(g, p, dd.sessions[p], dd)
                        /\ dd.sessions[p].verified_at # 0 =>
                             /\ dd.sessions[p].ep \in relayed
                             /\ dd.sessions[p].verified_at >= dd.sessions[p].granted_at
    BY DEF SessionFine
  <2>2. /\ \E g \in G : Backs(g, p, dd.sessions[p], cc)
        /\ dd.sessions[p].verified_at # 0 =>
             /\ dd.sessions[p].ep \in relayed
             /\ dd.sessions[p].verified_at >= dd.sessions[p].granted_at
    BY <2>1 DEF Fine, SessionFine
  <2> QED BY <1>2, <2>2
<1>4. QueueFine(p, dd, H)
  <2>1. SUFFICES ASSUME NEW i \in DOMAIN dd.standby[p]
                 PROVE  \E g \in H :
                          /\ Backs(g, p, dd.standby[p][i], dd)
                          /\ g.id.requested_at = now =>
                               HasActive(dd, p) \/ InCooldown(dd, p, dd.standby[p][i].relay)
    BY Zenon DEF QueueFine
  <2>2. pos[i] \in DOMAIN cc.standby[p] /\ dd.standby[p][i] = cc.standby[p][pos[i]]
    OBVIOUS
  <2>3. PICK g \in G :
          /\ Backs(g, p, cc.standby[p][pos[i]], cc)
          /\ g.id.requested_at = now =>
               HasActive(cc, p) \/ InCooldown(cc, p, cc.standby[p][pos[i]].relay)
    BY <2>2, Zenon DEF Fine, QueueFine
  <2>4. Backs(g, p, dd.standby[p][i], dd)
    BY <1>2, <2>2, <2>3
  <2>5. g.id.requested_at = now =>
          HasActive(dd, p) \/ InCooldown(dd, p, dd.standby[p][i].relay)
    BY <2>2, <2>3
  <2> QED BY <2>4, <2>5
<1>5. Apart(p, dd)
  <2>1. Apart(p, cc)
    BY DEF Fine
  <2> QED BY <2>1 DEF Apart
<1> QED BY <1>1, <1>3, <1>4, <1>5 DEF Fine

(* They stay fine when they are the same for p, save for requests dropped.  *)
LEMMA SameSlice ==
  ASSUME NEW cc, NEW dd, NEW p, NEW G, NEW H, G \subseteq H,
         Fine(p, cc, G),
         \A q \in dd.pending : q.participant = p => q \in cc.pending,
         p \in DOMAIN dd.sessions <=> p \in DOMAIN cc.sessions,
         p \in DOMAIN cc.sessions => dd.sessions[p] = cc.sessions[p],
         dd.standby[p] = cc.standby[p],
         \A i \in DOMAIN cc.standby[p] : cc.standby[p][i].relay \in Relays,
         \A r \in Relays : dd.failures[p][r] = cc.failures[p][r]
  PROVE  Fine(p, dd, H)
<1> DEFINE pos == [i \in DOMAIN dd.standby[p] |-> i]
<1>1. HasActive(cc, p) => HasActive(dd, p)
  BY DEF HasActive
<1>2. \A r \in Relays : InCooldown(cc, p, r) => InCooldown(dd, p, r)
  BY DEF InCooldown
<1>3. CooldownFine(p, dd)
  BY DEF Fine, CooldownFine
<1>4. \A i \in DOMAIN dd.standby[p] :
        pos[i] \in DOMAIN cc.standby[p] /\ dd.standby[p][i] = cc.standby[p][pos[i]]
  OBVIOUS
<1>5. \A i, j \in DOMAIN dd.standby[p] : i # j => pos[i] # pos[j]
  OBVIOUS
<1> HIDE DEF pos
<1> QED BY <1>1, <1>2, <1>3, <1>4, <1>5, SliceShrinks

(* A queue has leases, and they are of relays. *)
LEMMA QueueIs ==
  ASSUME NEW cc \in Books, NEW p \in Participants
  PROVE  /\ cc.standby[p] \in Seq(Lease)
         /\ \A i \in DOMAIN cc.standby[p] :
              /\ cc.standby[p][i] \in Lease /\ cc.standby[p][i].relay \in Relays
              /\ cc.standby[p][i].expires_at \in Nat
<1>1. cc.standby[p] \in Seq(Lease)
  BY DEF Books, Queues
<1>2. \A i \in DOMAIN cc.standby[p] : cc.standby[p][i] \in Lease
  BY <1>1
<1> QED BY <1>1, <1>2 DEF Lease

LEMMA HeldSession ==
  ASSUME NEW cc \in Books
  PROVE  /\ DOMAIN cc.sessions \subseteq Participants
         /\ \A p \in DOMAIN cc.sessions :
              /\ cc.sessions[p] \in Lease /\ cc.sessions[p].relay \in Relays
              /\ cc.sessions[p].ep \in 1 .. MaxLeases /\ cc.sessions[p].expires_at \in Nat
              /\ cc.sessions[p].granted_at \in Time
<1>1. cc.sessions \in Held
  BY DEF Books
<1>2. DOMAIN cc.sessions \subseteq Participants /\ \A p \in DOMAIN cc.sessions : cc.sessions[p] \in Lease
  BY <1>1, HeldIs
<1> QED BY <1>2 DEF Lease

LEMMA CooldownTyped ==
  ASSUME NEW cc \in Books, NEW p \in Participants, NEW r \in Relays
  PROVE  cc.failures[p][r] \in Nat
<1>1. cc.failures \in [Participants -> [Relays -> Nat]]
  BY DEF Books, Cooldowns
<1> QED BY <1>1

-----------------------------------------------------------------------------
(* Reconciliation.                                                          *)

(* Promotion restores what the loss of the session may have broken.         *)
LEMMA PromoteIs ==
  ASSUME now \in Time, NEW cc \in Books, NEW p \in Participants, NEW G,
         p \notin DOMAIN cc.sessions,
         PendingFine(p, cc), Apart(p, cc), CooldownFine(p, cc),
         \A i \in DOMAIN cc.standby[p] : \E g \in G : Backs(g, p, cc.standby[p][i], cc)
  PROVE  /\ PromoteStandby(cc, p) \in Books
         /\ PromoteStandby(cc, p).pending = cc.pending
         /\ Fine(p, PromoteStandby(cc, p), G)
         /\ p \in DOMAIN PromoteStandby(cc, p).sessions =>
              PromoteStandby(cc, p).failures[p][PromoteStandby(cc, p).sessions[p].relay] <= now
<1> DEFINE queue == cc.standby[p]
           usable == {i \in DOMAIN queue :
                        IsActive(queue[i]) /\ ~InCooldown(cc, p, queue[i].relay)}
           k == First(usable)
           others == DOMAIN queue \ {k}
           rest == Subsequence(queue, others)
           s == [queue[k] EXCEPT !.granted_at = now, !.verified_at = 0]
           bb == [cc EXCEPT !.standby[p] = rest]
           dd == PromoteStandby(cc, p)
<1>1. queue \in Seq(Lease) /\ \A i \in DOMAIN queue : queue[i] \in Lease /\ queue[i].relay \in Relays
                           /\ queue[i].expires_at \in Nat
  BY QueueIs
<1>2. now \in Nat
  BY Constants DEF Time
<1>3. CASE usable = {}
  <2>1. dd = cc
    BY <1>3 DEF PromoteStandby
  <2>2. SessionFine(p, cc, G)
    BY DEF SessionFine
  <2>3. QueueFine(p, cc, G)
    <3>1. SUFFICES ASSUME NEW i \in DOMAIN queue
                   PROVE  \E g \in G :
                            /\ Backs(g, p, queue[i], cc)
                            /\ g.id.requested_at = now =>
                                 HasActive(cc, p) \/ InCooldown(cc, p, queue[i].relay)
      BY Zenon DEF QueueFine
    <3>2. PICK g \in G : Backs(g, p, queue[i], cc)
      OBVIOUS
    <3>3. g.id.requested_at = now => IsActive(queue[i])
      BY <1>1, <1>2, <3>2 DEF Backs, IsActive
    <3>4. ~IsActive(queue[i]) \/ InCooldown(cc, p, queue[i].relay)
      BY <1>3
    <3> QED BY <3>2, <3>3, <3>4
  <2> QED BY <2>1, <2>2, <2>3, Zenon DEF Fine
<1>4. CASE usable # {}
  <2>1. k \in usable
    <3>1. usable \in SUBSET Nat
      BY <1>1
    <3> HIDE DEF usable
    <3> QED BY <1>4, <3>1, FirstIs
  <2>2. k \in DOMAIN queue /\ IsActive(queue[k]) /\ ~InCooldown(cc, p, queue[k].relay)
    BY <2>1
  <2>3. s \in Lease /\ s.ep = queue[k].ep /\ s.relay = queue[k].relay
        /\ s.expires_at = queue[k].expires_at /\ s.verified_at = 0
    <3>1. 0 \in Time
      BY Constants DEF Time
    <3>2. queue[k] \in Lease
      <4> HIDE DEF queue, k
      <4> QED BY <1>1, <2>2
    <3> HIDE DEF queue, k
    <3> QED BY <3>1, <3>2 DEF Lease
  <2>4. /\ rest \in Seq(Lease)
        /\ \A i \in DOMAIN rest : Increasing(others)[i] \in others /\ rest[i] = queue[Increasing(others)[i]]
        /\ \A i, j \in DOMAIN rest : i # j => Increasing(others)[i] # Increasing(others)[j]
    <3>1. others \in SUBSET (DOMAIN queue) /\ queue \in Seq(Lease)
      BY <1>1
    <3> HIDE DEF queue, k, others
    <3> QED BY <3>1, SubsequenceIs
  <2>5. dd = WithSession(bb, p, s)
    BY <1>4, Zenon DEF PromoteStandby
  <2> DEFINE pos == Increasing(others)
  <2> HIDE DEF rest, s, dd, k, pos
  <2>6. /\ bb \in Books /\ bb.pending = cc.pending /\ bb.sessions = cc.sessions
        /\ bb.failures = cc.failures /\ bb.standby[p] = rest
    <3>1. cc.standby \in [Participants -> Seq(Lease)]
      BY DEF Books, Queues
    <3>2. [cc.standby EXCEPT ![p] = rest] \in Queues /\ [cc.standby EXCEPT ![p] = rest][p] = rest
      BY <2>4, <3>1 DEF Queues
    <3>3. bb = [cc EXCEPT !.standby = [cc.standby EXCEPT ![p] = rest]]
      BY DEF Books
    <3> HIDE DEF bb
    <3> QED BY <3>2, <3>3 DEF Books
  <2> HIDE DEF bb
  <2>7. /\ dd \in Books /\ dd.pending = cc.pending /\ dd.failures = cc.failures
        /\ dd.standby[p] = rest /\ p \in DOMAIN dd.sessions /\ dd.sessions[p] = s
    BY <2>3, <2>5, <2>6, WithSessionIs
  <2>8. HasActive(dd, p)
    BY <2>2, <2>3, <2>7 DEF HasActive, IsActive
  <2>9. ASSUME NEW g, NEW t, Backs(g, p, t, cc) PROVE Backs(g, p, t, dd)
    BY <2>7, <2>9 DEF Backs
  <2>10. PendingFine(p, dd) /\ CooldownFine(p, dd)
    BY <2>7 DEF PendingFine, CooldownFine
  <2>11. SessionFine(p, dd, G)
    <3>1. PICK g \in G : Backs(g, p, queue[k], cc)
      BY <2>2
    <3>2. Backs(g, p, s, dd)
      BY <2>3, <2>9, <3>1 DEF Backs
    <3> QED BY <2>3, <2>7, <3>2 DEF SessionFine
  <2>12. QueueFine(p, dd, G)
    <3>1. SUFFICES ASSUME NEW i \in DOMAIN rest PROVE \E g \in G : Backs(g, p, rest[i], dd)
      BY <2>7, <2>8, Zenon DEF QueueFine
    <3>2. pos[i] \in DOMAIN queue /\ rest[i] = queue[pos[i]]
      BY <2>4 DEF pos
    <3> QED BY <2>9, <3>2
  <2>13. Apart(p, dd)
    <3>1. \A i, j \in DOMAIN queue : i # j => queue[i].ep # queue[j].ep
      BY DEF Apart
    <3>2. \A i \in DOMAIN rest : pos[i] \in DOMAIN queue \ {k} /\ rest[i] = queue[pos[i]]
      BY <2>4 DEF pos
    <3>3. \A i, j \in DOMAIN rest : i # j => pos[i] # pos[j]
      BY <2>4 DEF pos
    <3>4. \A i \in DOMAIN rest : rest[i].ep # s.ep
      BY <2>2, <2>3, <3>1, <3>2
    <3>5. \A i, j \in DOMAIN rest : i # j => rest[i].ep # rest[j].ep
      BY <3>1, <3>2, <3>3
    <3> QED BY <2>7, <3>4, <3>5 DEF Apart
  <2>14. dd.failures[p][s.relay] <= now
    <3>1. cc.failures[p][queue[k].relay] \in Nat
      BY <1>1, <2>2, CooldownTyped
    <3> QED BY <1>2, <2>2, <2>3, <2>7, <3>1 DEF InCooldown
  <2>15. Fine(p, dd, G)
    BY <2>10, <2>11, <2>12, <2>13, Zenon DEF Fine
  <2> QED BY <2>7, <2>14, <2>15 DEF dd
<1> QED BY <1>3, <1>4

(* What reconciliation is told of a participant: its handshake, or nothing. *)
Statuses == {st \in [Participants -> [ep : 0 .. MaxLeases, at : Time]] :
               \A p \in Participants : st[p] = handshake[p] \/ st[p] = NoHandshake}

LEMMA ConfirmedIs ==
  ASSUME now \in Time, NEW cc \in Books, NEW p \in Participants, NEW G, Fine(p, cc, G),
         HandshakeInv, NEW status \in Statuses, Confirmed(cc, p, status),
         NEW dd, dd = [cc EXCEPT !.sessions[p].verified_at = IF @ = 0 THEN status[p].at ELSE @]
  PROVE  /\ dd \in Books /\ dd.pending = cc.pending /\ Fine(p, dd, G)
         /\ p \in DOMAIN cc.sessions /\ p \in DOMAIN dd.sessions
         /\ dd.sessions[p].ep = cc.sessions[p].ep
<1> DEFINE s == cc.sessions[p]
           at == IF s.verified_at = 0 THEN status[p].at ELSE s.verified_at
           t == [s EXCEPT !.verified_at = at]
           f == [cc.sessions EXCEPT ![p] = t]
<1>1. /\ p \in DOMAIN cc.sessions /\ IsActive(s)
      /\ status[p].ep = s.ep /\ status[p].at # 0 /\ status[p].at >= s.granted_at
  BY DEF Confirmed, HasActive, Verifies
<1>2. /\ s \in Lease /\ s.relay \in Relays /\ s.ep \in 1 .. MaxLeases /\ s.granted_at \in Time
  BY <1>1, HeldSession
<1>3. status[p].at \in Time
  BY DEF Statuses
<1>4. at \in Time
  BY <1>2, <1>3 DEF Lease
<1> HIDE DEF at, s
<1>5. /\ t \in Lease /\ t.ep = s.ep /\ t.relay = s.relay /\ t.granted_at = s.granted_at
      /\ t.expires_at = s.expires_at /\ t.verified_at = at
  BY <1>2, <1>4 DEF Lease
<1> HIDE DEF t
<1>6. cc.sessions \in Held
  BY DEF Books
<1>7. /\ DOMAIN f = DOMAIN cc.sessions /\ f[p] = t
      /\ \A q \in DOMAIN f : f[q] \in Lease
  BY <1>1, <1>5, <1>6, HeldIs
<1>8. f = [q \in DOMAIN f |-> f[q]]
  OBVIOUS
<1>9. f \in Held
  BY <1>6, <1>7, <1>8, HeldIs
<1>10. dd = [cc EXCEPT !.sessions = f]
  BY <1>1 DEF t, at, s, Books
<1> HIDE DEF f
<1>11. /\ dd \in Books /\ dd.pending = cc.pending /\ dd.failures = cc.failures
       /\ dd.standby = cc.standby /\ dd.sessions = f
  BY <1>9, <1>10 DEF Books
<1>12. PendingFine(p, dd) /\ CooldownFine(p, dd)
  BY <1>11 DEF Fine, PendingFine, CooldownFine
<1>13. HasActive(dd, p)
  BY <1>1, <1>5, <1>7, <1>11 DEF HasActive, IsActive
<1>14. SessionFine(p, dd, G)
  <2>1. PICK g \in G : Backs(g, p, s, cc)
    BY <1>1 DEF Fine, SessionFine, s
  <2>2. Backs(g, p, t, dd)
    BY <1>5, <1>11, <2>1 DEF Backs
  <2>3. t.verified_at # 0 => t.ep \in relayed /\ t.verified_at >= t.granted_at
    <3>1. CASE s.verified_at # 0
      BY <1>1, <1>5, <3>1 DEF at, s, Fine, SessionFine
    <3>2. CASE s.verified_at = 0
      <4>1. status[p].ep # Direct
        BY <1>1, <1>2, Constants DEF Direct
      <4>2. status[p].ep \in relayed
        BY <4>1 DEF Statuses, HandshakeInv, NoHandshake
      <4>3. at = status[p].at
        BY <3>2 DEF at
      <4> QED BY <1>1, <1>5, <4>2, <4>3
    <3> QED BY <3>1, <3>2
  <2> QED BY <1>7, <1>11, <2>2, <2>3 DEF SessionFine
<1>15. QueueFine(p, dd, G)
  <2>1. \A i \in DOMAIN cc.standby[p] : \E g \in G : Backs(g, p, cc.standby[p][i], cc)
    BY DEF Fine, QueueFine
  <2>2. \A i \in DOMAIN dd.standby[p] : \E g \in G : Backs(g, p, dd.standby[p][i], dd)
    BY <1>11, <2>1 DEF Backs
  <2> QED BY <1>13, <2>2 DEF QueueFine
<1>16. Apart(p, dd)
  BY <1>1, <1>5, <1>7, <1>11 DEF Fine, Apart, s
<1>17. Fine(p, dd, G)
  BY <1>12, <1>14, <1>15, <1>16 DEF Fine
<1> QED BY <1>1, <1>5, <1>7, <1>11, <1>17 DEF s

LEMMA ReconcileOneIs ==
  ASSUME now \in Time, NEW cc \in Books, NEW p \in Participants, NEW G, Fine(p, cc, G),
         HandshakeInv, NEW status \in Statuses
  PROVE  LET dd == ReconcileOne(cc, p, status)
         IN /\ dd \in Books /\ dd.pending \subseteq cc.pending /\ Fine(p, dd, G)
            /\ p \in DOMAIN dd.sessions =>
                 \/ p \in DOMAIN cc.sessions /\ dd.sessions[p].ep = cc.sessions[p].ep
                 \/ dd.failures[p][dd.sessions[p].relay] <= now
<1> DEFINE bare == WithoutSession(cc, p)
           r == cc.sessions[p].relay
           noted == NoteFailedRelay(bare, p, r)
           failed == DropPending(noted, p)
           promoted == PromoteStandby(bare, p)
           dd == ReconcileOne(cc, p, status)
<1>1. now \in Nat /\ FailedRetryAfter \in Nat
  BY Constants DEF Time
<1>2. /\ bare \in Books /\ bare.pending = cc.pending /\ bare.standby = cc.standby
      /\ bare.failures = cc.failures /\ p \notin DOMAIN bare.sessions
  BY WithoutSessionIs
<1> HIDE DEF bare
<1>3. \A i \in DOMAIN cc.standby[p] : \E g \in G : Backs(g, p, cc.standby[p][i], cc)
  BY DEF Fine, QueueFine
<1>4. /\ PendingFine(p, bare) /\ Apart(p, bare) /\ CooldownFine(p, bare)
      /\ \A i \in DOMAIN bare.standby[p] : \E g \in G : Backs(g, p, bare.standby[p][i], bare)
  <2>1. PendingFine(p, bare) /\ CooldownFine(p, bare)
    BY <1>2 DEF Fine, PendingFine, CooldownFine
  <2>2. Apart(p, bare)
    BY <1>2 DEF Fine, Apart
  <2>3. \A i \in DOMAIN bare.standby[p] : \E g \in G : Backs(g, p, bare.standby[p][i], bare)
    BY <1>2, <1>3 DEF Backs
  <2> QED BY <2>1, <2>2, <2>3
<1>5. CASE Lapses(cc, p)
  <2>1. /\ promoted \in Books /\ promoted.pending = cc.pending /\ Fine(p, promoted, G)
        /\ p \in DOMAIN promoted.sessions =>
             promoted.failures[p][promoted.sessions[p].relay] <= now
    BY <1>2, <1>4, PromoteIs
  <2>2. CASE p \in DOMAIN promoted.sessions
    <3>1. dd = promoted
      BY <1>5, <2>2 DEF ReconcileOne, bare
    <3> HIDE DEF promoted, dd
    <3> QED BY <2>1, <2>2, <3>1 DEF dd
  <2>3. CASE p \notin DOMAIN promoted.sessions
    <3>1. dd = DropPending(promoted, p)
      BY <1>5, <2>3 DEF ReconcileOne, bare
    <3> HIDE DEF promoted, dd
    <3>2. /\ dd \in Books /\ dd.pending \subseteq promoted.pending
          /\ dd.sessions = promoted.sessions /\ dd.standby = promoted.standby
          /\ dd.failures = promoted.failures
      BY <2>1, <3>1, DropPendingIs
    <3>3. \A i \in DOMAIN promoted.standby[p] : promoted.standby[p][i].relay \in Relays
      BY <2>1, QueueIs
    <3>4. Fine(p, dd, G)
      BY <2>1, <3>2, <3>3, SameSlice
    <3> QED BY <2>1, <2>3, <3>2, <3>4 DEF dd
  <2> QED BY <2>2, <2>3
<1>6. CASE Confirmed(cc, p, status)
  <2>1. ~Lapses(cc, p)
    BY <1>6 DEF Confirmed, HasActive, Lapses
  <2>2. dd = [cc EXCEPT !.sessions[p].verified_at = IF @ = 0 THEN status[p].at ELSE @]
    BY <1>6, <2>1 DEF ReconcileOne
  <2> HIDE DEF dd
  <2>3. /\ dd \in Books /\ dd.pending = cc.pending /\ Fine(p, dd, G)
        /\ p \in DOMAIN cc.sessions /\ p \in DOMAIN dd.sessions
        /\ dd.sessions[p].ep = cc.sessions[p].ep
    BY <1>6, <2>2, ConfirmedIs
  <2> QED BY <2>3 DEF dd
<1>7. CASE Failing(cc, p, status)
  <2>1. ~Lapses(cc, p) /\ ~Confirmed(cc, p, status) /\ p \in DOMAIN cc.sessions
    BY <1>7 DEF Failing, Confirmed, HasActive, Lapses
  <2>2. dd = PromoteStandby(failed, p)
    BY <1>7, <2>1 DEF ReconcileOne, bare
  <2>3. r \in Relays
    BY <2>1, HeldSession
  <2> HIDE DEF dd, r
  <2>4. /\ noted \in Books /\ noted.pending = bare.pending /\ noted.sessions = bare.sessions
        /\ noted.standby = bare.standby
        /\ \A q \in Participants, k \in Relays :
             noted.failures[q][k] =
               IF q = p /\ k = r THEN now + FailedRetryAfter ELSE bare.failures[q][k]
    BY <1>1, <1>2, <2>3, NoteFailedRelayIs
  <2> HIDE DEF noted
  <2>5. /\ failed \in Books /\ failed.pending \subseteq noted.pending
        /\ failed.sessions = noted.sessions /\ failed.standby = noted.standby
        /\ failed.failures = noted.failures
    BY <2>4, DropPendingIs
  <2> HIDE DEF failed
  <2>6. PendingFine(p, failed)
    BY <1>2, <1>4, <2>4, <2>5 DEF PendingFine
  <2>7. Apart(p, failed)
    BY <1>2, <1>4, <2>4, <2>5 DEF Apart
  <2>8. CooldownFine(p, failed)
    BY <1>1, <1>4, <2>4, <2>5 DEF CooldownFine
  <2>9. \A i \in DOMAIN failed.standby[p] : \E g \in G : Backs(g, p, failed.standby[p][i], failed)
    BY <1>2, <1>4, <2>4, <2>5 DEF Backs
  <2>10. p \notin DOMAIN failed.sessions
    BY <1>2, <2>4, <2>5
  <2>11. /\ dd \in Books /\ dd.pending = failed.pending /\ Fine(p, dd, G)
         /\ p \in DOMAIN dd.sessions => dd.failures[p][dd.sessions[p].relay] <= now
    BY <2>2, <2>5, <2>6, <2>7, <2>8, <2>9, <2>10, PromoteIs
  <2> QED BY <1>2, <2>4, <2>5, <2>11 DEF dd
<1>8. CASE ~Lapses(cc, p) /\ ~Confirmed(cc, p, status) /\ ~Failing(cc, p, status)
  <2>1. dd = cc
    BY <1>8 DEF ReconcileOne
  <2> HIDE DEF dd
  <2> QED BY <2>1 DEF dd
<1> QED BY <1>5, <1>6, <1>7, <1>8

LEMMA EntriesAfterTyped ==
  ASSUME now \in Nat, NEW cc \in Books, NEW r \in Relays, NEW status
  PROVE  EntriesAfter(cc, r, status) \subseteq Verification
<1> DEFINE failing == {p \in {q \in DOMAIN cc.sessions : Failing(cc, q, status)} :
                         cc.sessions[p].relay = r}
<1>1. IsFiniteSet(failing)
  <2>1. failing \subseteq Participants
    BY HeldSession
  <2> QED BY <2>1, Constants, FS_Subset
<1>2. Cardinality(failing) \in Nat
  BY <1>1, FS_CardinalityType
<1>3. cc.book[r] \in Verification
  BY DEF Books
<1>4. AfterFailures(cc.book[r], Cardinality(failing), FailedRetryAfter) \in Verification
  BY <1>2, <1>3, Constants, AfterFailuresTyped
<1>5. \A k \in 0 .. Cardinality(failing) :
        AfterFailures(NoVerification, k, FailedRetryAfter) \in Verification
  <2>1. TAKE k \in 0 .. Cardinality(failing)
  <2>2. k \in Nat
    BY <1>2
  <2> QED BY <2>2, Constants, NoVerificationTyped, AfterFailuresTyped
<1>6. EntriesAfter(cc, r, status) \subseteq
        {AfterFailures(cc.book[r], Cardinality(failing), FailedRetryAfter)}
          \union {AfterFailures(NoVerification, k, FailedRetryAfter) : k \in 0 .. Cardinality(failing)}
  BY DEF EntriesAfter
<1> HIDE DEF failing
<1> QED BY <1>4, <1>5, <1>6

LEMMA ReconciledIs ==
  ASSUME now \in Time, NEW cc \in Books, NEW G, \A p \in Participants : Fine(p, cc, G),
         HandshakeInv, NEW status \in Statuses, NEW dd \in Reconciled(cc, status)
  PROVE  /\ dd \in Books /\ dd.pending \subseteq cc.pending
         /\ \A p \in Participants : Fine(p, dd, G)
         /\ \A p \in DOMAIN dd.sessions :
              \/ p \in DOMAIN cc.sessions /\ dd.sessions[p].ep = cc.sessions[p].ep
              \/ dd.failures[p][dd.sessions[p].relay] <= now
<1> DEFINE one == [p \in Participants |-> ReconcileOne(cc, p, status)]
<1>1. now \in Nat
  BY Constants DEF Time
<1>2. \A p \in Participants :
        /\ one[p] \in Books /\ one[p].pending \subseteq cc.pending /\ Fine(p, one[p], G)
        /\ p \in DOMAIN one[p].sessions =>
             \/ p \in DOMAIN cc.sessions /\ one[p].sessions[p].ep = cc.sessions[p].ep
             \/ one[p].failures[p][one[p].sessions[p].relay] <= now
  BY ReconcileOneIs
<1> DEFINE keep == {q \in cc.pending : q \in one[q.participant].pending}
           sess == [p \in {q \in Participants : q \in DOMAIN one[q].sessions} |->
                      one[p].sessions[p]]
           stand == [p \in Participants |-> one[p].standby[p]]
           fail == [p \in Participants |-> one[p].failures[p]]
<1>3. PICK book \in BooksOf([r \in Relays |-> EntriesAfter(cc, r, status)]) :
        dd = [pending |-> keep, sessions |-> sess, standby |-> stand, failures |-> fail,
              book |-> book]
  BY DEF Reconciled
<1>4. book \in [Relays -> Verification]
  <2> DEFINE entries == [r \in Relays |-> EntriesAfter(cc, r, status)]
  <2>1. \A r \in Relays : entries[r] \subseteq Verification
    BY <1>1, EntriesAfterTyped
  <2>2. book \in BooksOf(entries)
    OBVIOUS
  <2> HIDE DEF entries
  <2> QED BY <2>1, <2>2, BooksOfTyped
<1> HIDE DEF one
<1>5. \A p \in Participants : p \in DOMAIN one[p].sessions => one[p].sessions[p] \in Lease
  BY <1>2, HeldSession
<1>6. sess \in Held
  <2>1. DOMAIN sess \subseteq Participants /\ \A p \in DOMAIN sess : sess[p] \in Lease
    BY <1>5
  <2>2. sess = [p \in DOMAIN sess |-> sess[p]]
    OBVIOUS
  <2> HIDE DEF sess
  <2> QED BY <2>1, <2>2, HeldIs
<1>7. stand \in Queues
  BY <1>2 DEF Books, Queues
<1>8. fail \in Cooldowns
  BY <1>2 DEF Books, Cooldowns
<1>9. keep \subseteq cc.pending /\ keep \in SUBSET RequestId
  BY DEF Books
<1>10. \A p \in Participants :
         /\ \A q \in keep : q.participant = p => q \in one[p].pending
         /\ p \in DOMAIN sess <=> p \in DOMAIN one[p].sessions
         /\ p \in DOMAIN one[p].sessions => sess[p] = one[p].sessions[p]
         /\ stand[p] = one[p].standby[p]
         /\ fail[p] = one[p].failures[p]
  OBVIOUS
<1>11. DOMAIN sess \subseteq Participants
  OBVIOUS
<1> HIDE DEF keep, sess, stand, fail
<1>12. /\ dd \in Books /\ dd.pending = keep /\ dd.sessions = sess /\ dd.standby = stand
       /\ dd.failures = fail
  BY <1>3, <1>4, <1>6, <1>7, <1>8, <1>9 DEF Books
<1>13. ASSUME NEW p \in Participants PROVE Fine(p, dd, G)
  <2>1. \A i \in DOMAIN one[p].standby[p] : one[p].standby[p][i].relay \in Relays
    BY <1>2, QueueIs
  <2>2. \A q \in dd.pending : q.participant = p => q \in one[p].pending
    BY <1>10, <1>12
  <2>3. /\ p \in DOMAIN dd.sessions <=> p \in DOMAIN one[p].sessions
        /\ p \in DOMAIN one[p].sessions => dd.sessions[p] = one[p].sessions[p]
    BY <1>10, <1>12
  <2>4. /\ dd.standby[p] = one[p].standby[p]
        /\ \A r \in Relays : dd.failures[p][r] = one[p].failures[p][r]
    BY <1>10, <1>12
  <2>5. Fine(p, one[p], G)
    BY <1>2
  <2> QED BY <2>1, <2>2, <2>3, <2>4, <2>5, SameSlice
<1>14. ASSUME NEW p \in DOMAIN dd.sessions
       PROVE  \/ p \in DOMAIN cc.sessions /\ dd.sessions[p].ep = cc.sessions[p].ep
              \/ dd.failures[p][dd.sessions[p].relay] <= now
  <2>1. p \in Participants /\ p \in DOMAIN sess
    BY <1>11, <1>12
  <2> QED BY <1>2, <1>10, <1>12, <2>1
<1> QED BY <1>9, <1>12, <1>13, <1>14

-----------------------------------------------------------------------------
(* Grants and rejections.                                                   *)

LEMMA AcceptGrantIs ==
  ASSUME now \in Time, NEW cc \in Books, NEW G, \A p \in Participants : Fine(p, cc, G),
         NEW g \in GrantMsg, \A h \in G : h.ep = g.ep => h = g
  PROVE  LET dd == AcceptGrant(cc, g)
         IN /\ dd \in Books /\ dd.pending \subseteq cc.pending
            /\ \A p \in Participants : Fine(p, dd, G \union {g})
            /\ \A p \in DOMAIN dd.sessions :
                 \/ p \in DOMAIN cc.sessions /\ dd.sessions[p].ep = cc.sessions[p].ep
                 \/ dd.failures[p][dd.sessions[p].relay] <= now
            /\ dd # cc => g.id \in cc.pending
<1> DEFINE p == g.id.participant
           r == g.id.relay
           cons == [cc EXCEPT !.pending = @ \ {g.id}]
           s == [relay |-> r, ep |-> g.ep, granted_at |-> now, verified_at |-> 0,
                 expires_at |-> g.expires_at]
           dd == AcceptGrant(cc, g)
           H == G \union {g}
<1>1. now \in Nat /\ 0 \in Time
  BY Constants DEF Time
<1>2. /\ g.id \in RequestId /\ g.ep \in 1 .. MaxLeases /\ g.expires_at \in Nat
      /\ p \in Participants /\ r \in Relays /\ g.id.requested_at \in Nat
  BY Constants DEF GrantMsg, RequestId, Time
<1>3. /\ s \in Lease /\ s.relay = r /\ s.ep = g.ep /\ s.verified_at = 0
      /\ s.expires_at = g.expires_at
  BY <1>1, <1>2 DEF Lease
<1>4. /\ cons \in Books /\ cons.pending = cc.pending \ {g.id} /\ cons.sessions = cc.sessions
      /\ cons.standby = cc.standby /\ cons.failures = cc.failures
  BY DEF Books
<1>5. \A q \in Participants : \A i \in DOMAIN cc.standby[q] : cc.standby[q][i].relay \in Relays
  BY QueueIs
<1>6. g \in H /\ G \subseteq H
  OBVIOUS
<1> HIDE DEF cons, s, p, r, H
<1>7. CASE g.expires_at <= now \/ g.id \notin cc.pending
  <2>1. dd = cc
    BY <1>7 DEF AcceptGrant
  <2>2. \A q \in Participants : Fine(q, cc, H)
    BY <1>5, <1>6, SameSlice
  <2> HIDE DEF dd
  <2> QED BY <2>1, <2>2 DEF dd, H
<1>8. CASE g.expires_at > now /\ g.id \in cc.pending
  <2>1. PendingFine(p, cc) /\ SessionFine(p, cc, G) /\ QueueFine(p, cc, G) /\ Apart(p, cc)
        /\ CooldownFine(p, cc)
    BY <1>2 DEF Fine
  <2>2. paused_at <= g.id.requested_at /\ g.id.requested_at < g.expires_at
    BY <1>1, <1>2, <1>8, <2>1 DEF PendingFine, p
  <2>3. \A q \in Participants : Fine(q, cons, H)
    BY <1>4, <1>5, <1>6, SameSlice
  <2>4. ~(g.expires_at <= now \/ g.id \notin cc.pending)
    BY <1>1, <1>2, <1>8
  <2>5. CASE InCooldown(cc, p, r)
    <3>1. dd = cons
      BY <2>4, <2>5 DEF AcceptGrant, cons, p, r
    <3> HIDE DEF dd
    <3> QED BY <1>4, <1>8, <2>3, <3>1 DEF dd, H
  <2> DEFINE unused == /\ \A i \in DOMAIN cc.standby[p] : cc.standby[p][i].ep # g.ep
                       /\ p \in DOMAIN cc.sessions => cc.sessions[p].ep # g.ep
  <2>6. unused
    <3>1. \A h \in G : \A t : Backs(h, p, t, cc) => t.ep # g.ep
      BY <1>8 DEF Backs
    <3> QED BY <2>1, <3>1 DEF SessionFine, QueueFine
  <2>7. \A h \in H : \A t : Backs(h, p, t, cc) => Backs(h, p, t, cons)
    BY <1>4 DEF Backs
  <2>8. Backs(g, p, s, cons)
    BY <1>3, <1>4, <2>2 DEF Backs, p, r
  <2>9. CASE ~InCooldown(cc, p, r) /\ HasActive(cc, p)
    <3>1. dd = QueueStandby(cons, p, s)
      BY <2>4, <2>9 DEF AcceptGrant, cons, s, p, r
    <3> DEFINE queue == cc.standby[p]
               f == [cc.standby EXCEPT ![p] = Append(queue, s)]
    <3>2. ~\E i \in DOMAIN cons.standby[p] :
             cons.standby[p][i].relay = s.relay /\ cons.standby[p][i].ep = s.ep
      BY <1>3, <1>4, <2>6
    <3>3. dd = [cons EXCEPT !.standby = f]
      BY <1>4, <3>1, <3>2 DEF QueueStandby, Books
    <3>4. queue \in Seq(Lease) /\ cc.standby \in [Participants -> Seq(Lease)]
      BY <1>2 DEF Books, Queues
    <3>5. /\ Append(queue, s) \in Seq(Lease)
          /\ DOMAIN Append(queue, s) = 1 .. Len(queue) + 1 /\ DOMAIN queue = 1 .. Len(queue)
          /\ Len(queue) \in Nat /\ Append(queue, s)[Len(queue) + 1] = s
          /\ \A i \in DOMAIN queue : Append(queue, s)[i] = queue[i]
      BY <1>3, <3>4
    <3>6. f \in Queues /\ f[p] = Append(queue, s) /\ \A q \in Participants \ {p} : f[q] = cc.standby[q]
      BY <1>2, <3>4, <3>5 DEF Queues
    <3> HIDE DEF f, queue, dd
    <3>7. /\ dd \in Books /\ dd.pending = cons.pending /\ dd.sessions = cc.sessions
          /\ dd.failures = cc.failures /\ dd.standby = f
      BY <1>4, <3>3, <3>6 DEF Books
    <3>8. HasActive(dd, p)
      BY <2>9, <3>7 DEF HasActive
    <3>9. PendingFine(p, dd) /\ CooldownFine(p, dd)
      BY <1>4, <2>1, <3>7 DEF PendingFine, CooldownFine
    <3>10. \A h \in H : \A t : Backs(h, p, t, cons) => Backs(h, p, t, dd)
      BY <3>7 DEF Backs
    <3>11. SessionFine(p, dd, H)
      BY <1>6, <2>1, <2>7, <3>7, <3>10 DEF SessionFine
    <3>12. QueueFine(p, dd, H)
      <4>1. SUFFICES ASSUME NEW i \in 1 .. Len(queue) + 1
                     PROVE  \E h \in H : Backs(h, p, Append(queue, s)[i], dd)
        BY <3>5, <3>6, <3>7, <3>8, Zenon DEF QueueFine
      <4>2. CASE i \in DOMAIN queue
        <5>1. PICK h \in G : Backs(h, p, queue[i], cc)
          BY <2>1, <4>2 DEF QueueFine, queue
        <5> QED BY <1>6, <2>7, <3>5, <3>10, <4>2, <5>1
      <4>3. CASE i = Len(queue) + 1
        BY <1>6, <2>8, <3>5, <3>10, <4>3
      <4> QED BY <3>5, <4>2, <4>3
    <3>13. Apart(p, dd)
      <4>1. \A i \in DOMAIN queue : queue[i].ep # s.ep
        BY <1>3, <2>6 DEF queue
      <4>2. \A i, j \in DOMAIN queue : i # j => queue[i].ep # queue[j].ep
        BY <2>1 DEF Apart, queue
      <4>3. \A i \in 1 .. Len(queue) + 1 : i \in DOMAIN queue \/ i = Len(queue) + 1
        BY <3>5
      <4>4. \A i, j \in 1 .. Len(queue) + 1 :
              i # j => Append(queue, s)[i].ep # Append(queue, s)[j].ep
        BY <3>5, <4>1, <4>2, <4>3
      <4>5. p \in DOMAIN cc.sessions =>
              \A i \in 1 .. Len(queue) + 1 : Append(queue, s)[i].ep # cc.sessions[p].ep
        BY <1>3, <2>1, <2>6, <3>5, <4>3 DEF Apart, queue
      <4> QED BY <3>5, <3>6, <3>7, <4>4, <4>5 DEF Apart
    <3>14. ASSUME NEW q \in Participants, q # p PROVE Fine(q, dd, H)
      BY <1>4, <1>5, <1>6, <3>6, <3>7, <3>14, SameSlice
    <3>15. Fine(p, dd, H)
      BY <3>9, <3>11, <3>12, <3>13 DEF Fine
    <3> QED BY <1>4, <1>8, <3>7, <3>14, <3>15 DEF dd, H
  <2>10. CASE ~InCooldown(cc, p, r) /\ ~HasActive(cc, p)
    <3>1. dd = WithSession(cons, p, s)
      BY <2>4, <2>10 DEF AcceptGrant, cons, s, p, r
    <3> HIDE DEF dd
    <3>2. /\ dd \in Books /\ dd.pending = cons.pending /\ dd.standby = cc.standby
          /\ dd.failures = cc.failures /\ DOMAIN dd.sessions = DOMAIN cc.sessions \union {p}
          /\ dd.sessions[p] = s
          /\ \A q \in DOMAIN cc.sessions \ {p} : dd.sessions[q] = cc.sessions[q]
      BY <1>2, <1>3, <1>4, <3>1, WithSessionIs
    <3>3. HasActive(dd, p)
      BY <1>1, <1>2, <1>3, <1>8, <3>2 DEF HasActive, IsActive
    <3>4. PendingFine(p, dd) /\ CooldownFine(p, dd)
      BY <1>4, <2>1, <3>2 DEF PendingFine, CooldownFine
    <3>5. \A h \in H : \A t : Backs(h, p, t, cons) => Backs(h, p, t, dd)
      BY <3>2 DEF Backs
    <3>6. SessionFine(p, dd, H)
      BY <1>3, <1>6, <2>8, <3>2, <3>5 DEF SessionFine
    <3>7. QueueFine(p, dd, H)
      BY <1>6, <2>1, <2>7, <3>2, <3>3, <3>5 DEF QueueFine
    <3>8. Apart(p, dd)
      BY <1>3, <2>1, <2>6, <3>2 DEF Apart
    <3>9. ASSUME NEW q \in Participants, q # p PROVE Fine(q, dd, H)
      BY <1>4, <1>5, <1>6, <3>2, <3>9, SameSlice
    <3>10. Fine(p, dd, H)
      BY <3>4, <3>6, <3>7, <3>8 DEF Fine
    <3>11. dd.failures[p][r] <= now
      BY <1>1, <1>2, <2>10, <3>2, CooldownTyped DEF InCooldown
    <3> QED BY <1>3, <1>4, <1>8, <3>2, <3>9, <3>10, <3>11 DEF dd, H
  <2> QED BY <2>5, <2>9, <2>10
<1>9. (g.expires_at <= now \/ g.id \notin cc.pending) \/ (g.expires_at > now /\ g.id \in cc.pending)
  BY <1>1, <1>2
<1> HIDE DEF dd
<1> QED BY <1>7, <1>8, <1>9 DEF dd

LEMMA AcceptRejectionIs ==
  ASSUME now \in Time, NEW cc \in Books, NEW G, \A p \in Participants : Fine(p, cc, G),
         NEW id \in RequestId, NEW retry \in Nat
  PROVE  LET dd == AcceptRejection(cc, id, retry)
         IN /\ dd \in Books /\ dd.pending \subseteq cc.pending /\ dd.sessions = cc.sessions
            /\ \A p \in Participants : Fine(p, dd, G)
<1> DEFINE p == id.participant
           r == id.relay
           cons == [cc EXCEPT !.pending = @ \ {id}]
           noted == NoteFailedRelay(cons, p, r)
           dd == AcceptRejection(cc, id, retry)
<1>1. now \in Nat /\ p \in Participants /\ r \in Relays /\ FailedRetryAfter \in Nat
  BY Constants DEF Time, RequestId
<1>2. /\ cons \in Books /\ cons.pending = cc.pending \ {id} /\ cons.sessions = cc.sessions
      /\ cons.standby = cc.standby /\ cons.failures = cc.failures
  BY DEF Books
<1> HIDE DEF cons, p, r
<1>3. /\ noted \in Books /\ noted.pending = cons.pending /\ noted.sessions = cons.sessions
      /\ noted.standby = cons.standby
      /\ \A q \in Participants, k \in Relays :
           noted.failures[q][k] =
             IF q = p /\ k = r THEN now + FailedRetryAfter ELSE cons.failures[q][k]
  BY <1>1, <1>2, NoteFailedRelayIs
<1>4. CASE id \in cc.pending
  <2>1. dd = NoteFailedProvider(noted, r, retry)
    BY <1>4 DEF AcceptRejection, cons, p, r
  <2> HIDE DEF noted, dd
  <2>2. /\ dd \in Books /\ dd.pending = noted.pending /\ dd.sessions = noted.sessions
        /\ dd.standby = noted.standby /\ dd.failures = noted.failures
    BY <1>1, <1>3, <2>1, NoteFailedProviderIs
  <2>3. ASSUME NEW q \in Participants PROVE Fine(q, dd, G)
    <3> DEFINE pos == [i \in DOMAIN dd.standby[q] |-> i]
    <3>1. Fine(q, cc, G) /\ CooldownFine(q, cc)
      BY DEF Fine
    <3>2. \A k \in Relays : cc.failures[q][k] \in Nat
      BY CooldownTyped
    <3>3. \A k \in Relays : InCooldown(cc, q, k) => InCooldown(dd, q, k)
      BY <1>1, <1>2, <1>3, <2>2, <3>1, <3>2 DEF InCooldown, CooldownFine
    <3>4. CooldownFine(q, dd)
      BY <1>1, <1>2, <1>3, <2>2, <3>1 DEF CooldownFine
    <3>5. HasActive(cc, q) => HasActive(dd, q)
      BY <1>2, <1>3, <2>2 DEF HasActive
    <3>6. \A i \in DOMAIN cc.standby[q] : cc.standby[q][i].relay \in Relays
      BY QueueIs
    <3>7. \A i \in DOMAIN dd.standby[q] :
            pos[i] \in DOMAIN cc.standby[q] /\ dd.standby[q][i] = cc.standby[q][pos[i]]
      BY <1>2, <1>3, <2>2
    <3>8. \A i, j \in DOMAIN dd.standby[q] : i # j => pos[i] # pos[j]
      OBVIOUS
    <3> HIDE DEF pos
    <3> QED BY <1>2, <1>3, <2>2, <3>1, <3>3, <3>4, <3>5, <3>6, <3>7, <3>8, SliceShrinks
  <2> QED BY <1>2, <1>3, <2>2, <2>3 DEF dd
<1>5. CASE id \notin cc.pending
  <2>1. dd = cc
    BY <1>5 DEF AcceptRejection
  <2> HIDE DEF dd
  <2> QED BY <2>1 DEF dd
<1> QED BY <1>4, <1>5

-----------------------------------------------------------------------------
(* The announce arm.                                                        *)

LEMMA PruneActiveIs ==
  ASSUME NEW cc \in Books
  PROVE  LET dd == PruneActive(cc)
         IN /\ dd \in Books /\ dd.pending = cc.pending /\ dd.standby = cc.standby
            /\ dd.failures = cc.failures /\ dd.book = cc.book
            /\ \A p : p \in DOMAIN dd.sessions <=> HasActive(cc, p)
            /\ \A p \in DOMAIN dd.sessions :
                 p \in DOMAIN cc.sessions /\ dd.sessions[p] = cc.sessions[p]
<1> DEFINE f == [p \in {q \in DOMAIN cc.sessions : IsActive(cc.sessions[q])} |-> cc.sessions[p]]
<1>1. \A p : p \in DOMAIN f <=> HasActive(cc, p)
  BY DEF HasActive
<1>2. \A p \in DOMAIN f : p \in DOMAIN cc.sessions /\ f[p] = cc.sessions[p]
  OBVIOUS
<1>3. f \in Held
  <2>1. DOMAIN f \subseteq Participants /\ \A p \in DOMAIN f : f[p] \in Lease
    BY HeldSession
  <2>2. f = [p \in DOMAIN f |-> f[p]]
    OBVIOUS
  <2> HIDE DEF f
  <2> QED BY <2>1, <2>2, HeldIs
<1>4. PruneActive(cc) = [cc EXCEPT !.sessions = f]
  BY DEF PruneActive, Books
<1> HIDE DEF f
<1> QED BY <1>1, <1>2, <1>3, <1>4 DEF Books

LEMMA PruneStandbyIs ==
  ASSUME NEW cc \in Books
  PROVE  LET dd == PruneStandby(cc)
         IN /\ dd \in Books /\ dd.pending = cc.pending /\ dd.sessions = cc.sessions
            /\ dd.failures = cc.failures /\ dd.book = cc.book
            /\ \A p \in Participants : \E pos :
                 /\ \A i \in DOMAIN dd.standby[p] :
                      pos[i] \in DOMAIN cc.standby[p] /\ dd.standby[p][i] = cc.standby[p][pos[i]]
                 /\ \A i, j \in DOMAIN dd.standby[p] : i # j => pos[i] # pos[j]
<1> DEFINE I(p) == {i \in DOMAIN cc.standby[p] : IsActive(cc.standby[p][i])}
           f == [p \in Participants |-> Subsequence(cc.standby[p], I(p))]
<1>1. ASSUME NEW p \in Participants
      PROVE  /\ f[p] \in Seq(Lease)
             /\ \A i \in DOMAIN f[p] :
                  Increasing(I(p))[i] \in I(p) /\ f[p][i] = cc.standby[p][Increasing(I(p))[i]]
             /\ \A i, j \in DOMAIN f[p] : i # j => Increasing(I(p))[i] # Increasing(I(p))[j]
  <2>1. cc.standby[p] \in Seq(Lease)
    BY QueueIs
  <2>2. I(p) \in SUBSET (DOMAIN cc.standby[p]) /\ f[p] = Subsequence(cc.standby[p], I(p))
    OBVIOUS
  <2> HIDE DEF I, f
  <2> QED BY <2>1, <2>2, SubsequenceIs
<1>2. f \in Queues
  <2>1. f = [p \in Participants |-> f[p]]
    OBVIOUS
  <2> HIDE DEF f
  <2> QED BY <1>1, <2>1 DEF Queues
<1>3. PruneStandby(cc) = [cc EXCEPT !.standby = f]
  BY DEF PruneStandby
<1>4. \A p \in Participants : I(p) \subseteq DOMAIN cc.standby[p]
  OBVIOUS
<1> HIDE DEF f, I
<1> DEFINE dd == [cc EXCEPT !.standby = f]
<1>5. /\ dd \in Books /\ dd.pending = cc.pending /\ dd.sessions = cc.sessions
      /\ dd.failures = cc.failures /\ dd.book = cc.book /\ dd.standby = f
  BY <1>2 DEF Books
<1>6. ASSUME NEW p \in Participants
      PROVE  \E pos : /\ \A i \in DOMAIN f[p] :
                           pos[i] \in DOMAIN cc.standby[p] /\ f[p][i] = cc.standby[p][pos[i]]
                      /\ \A i, j \in DOMAIN f[p] : i # j => pos[i] # pos[j]
  <2> WITNESS Increasing(I(p))
  <2> QED BY <1>1, <1>4
<1> HIDE DEF dd
<1> QED BY <1>3, <1>5, <1>6 DEF dd

LEMMA PruneFailuresIs ==
  ASSUME now \in Nat, NEW cc \in Books
  PROVE  LET dd == PruneFailures(cc)
         IN /\ dd \in Books /\ dd.pending = cc.pending /\ dd.sessions = cc.sessions
            /\ dd.standby = cc.standby /\ dd.book = cc.book
            /\ \A p \in Participants, r \in Relays :
                 /\ InCooldown(dd, p, r) <=> InCooldown(cc, p, r)
                 /\ dd.failures[p][r] <= cc.failures[p][r]
<1> DEFINE f == [p \in Participants |-> [r \in Relays |->
                   IF cc.failures[p][r] > now THEN cc.failures[p][r] ELSE 0]]
<1>1. \A p \in Participants, r \in Relays : cc.failures[p][r] \in Nat
  BY CooldownTyped
<1>2. f \in Cooldowns
  BY <1>1 DEF Cooldowns
<1>3. \A p \in Participants, r \in Relays :
        (f[p][r] > now <=> cc.failures[p][r] > now) /\ f[p][r] <= cc.failures[p][r]
  BY <1>1
<1>4. PruneFailures(cc) = [cc EXCEPT !.failures = f]
  BY DEF PruneFailures
<1> HIDE DEF f
<1> DEFINE dd == [cc EXCEPT !.failures = f]
<1>5. /\ dd \in Books /\ dd.pending = cc.pending /\ dd.sessions = cc.sessions
      /\ dd.standby = cc.standby /\ dd.book = cc.book /\ dd.failures = f
  BY <1>2 DEF Books
<1> HIDE DEF dd
<1> QED BY <1>3, <1>4, <1>5 DEF dd, InCooldown

LEMMA PruneBookIs ==
  ASSUME NEW cc \in Books
  PROVE  LET dd == PruneBook(cc)
         IN /\ dd \in Books /\ dd.pending = cc.pending /\ dd.sessions = cc.sessions
            /\ dd.standby = cc.standby /\ dd.failures = cc.failures
<1> DEFINE f == [r \in Relays |-> IF ProviderInCooldown(cc, r) THEN cc.book[r]
                                  ELSE [cc.book[r] EXCEPT !.cooldown_until = 0]]
<1>1. cc.book \in [Relays -> Verification]
  BY DEF Books
<1>2. ASSUME NEW v \in Verification PROVE [v EXCEPT !.cooldown_until = 0] \in Verification
  BY DEF Verification
<1>3. f \in [Relays -> Verification]
  BY <1>1, <1>2
<1>4. PruneBook(cc) = [cc EXCEPT !.book = f]
  BY DEF PruneBook
<1> HIDE DEF f
<1> QED BY <1>3, <1>4 DEF Books

LEMMA PrunePendingIs ==
  ASSUME NEW cc \in Books
  PROVE  LET dd == PrunePending(cc)
         IN /\ dd \in Books /\ dd.pending \subseteq cc.pending /\ dd.sessions = cc.sessions
            /\ dd.standby = cc.standby /\ dd.failures = cc.failures
BY DEF PrunePending, Books

LEMMA AnnouncePruneIs ==
  ASSUME now \in Time, NEW cc \in Books, NEW G, \A p \in Participants : Fine(p, cc, G)
  PROVE  LET dd == AnnouncePrune(cc)
         IN /\ dd \in Books /\ dd.pending \subseteq cc.pending
            /\ \A p \in Participants : Fine(p, dd, G) /\ (HasActive(cc, p) => HasActive(dd, p))
            /\ \A p \in DOMAIN dd.sessions :
                 p \in DOMAIN cc.sessions /\ dd.sessions[p] = cc.sessions[p]
<1> DEFINE a == PruneActive(cc)
           b == PruneStandby(a)
           d == PruneFailures(b)
           e == PruneBook(d)
           dd == PrunePending(e)
<1>0. now \in Nat /\ FailedRetryAfter \in Nat
  BY Constants DEF Time
<1>1. /\ a \in Books /\ a.pending = cc.pending /\ a.standby = cc.standby
      /\ a.failures = cc.failures
      /\ \A p : p \in DOMAIN a.sessions <=> HasActive(cc, p)
      /\ \A p \in DOMAIN a.sessions :
           p \in DOMAIN cc.sessions /\ a.sessions[p] = cc.sessions[p]
  BY PruneActiveIs
<1> HIDE DEF a
<1>2. /\ b \in Books /\ b.pending = a.pending /\ b.sessions = a.sessions
      /\ b.failures = a.failures
      /\ \A p \in Participants : \E pos :
           /\ \A i \in DOMAIN b.standby[p] :
                pos[i] \in DOMAIN a.standby[p] /\ b.standby[p][i] = a.standby[p][pos[i]]
           /\ \A i, j \in DOMAIN b.standby[p] : i # j => pos[i] # pos[j]
  BY <1>1, PruneStandbyIs
<1> HIDE DEF b
<1>3. /\ d \in Books /\ d.pending = b.pending /\ d.sessions = b.sessions
      /\ d.standby = b.standby
      /\ \A p \in Participants, r \in Relays :
           /\ InCooldown(d, p, r) <=> InCooldown(b, p, r)
           /\ d.failures[p][r] <= b.failures[p][r]
  BY <1>0, <1>2, PruneFailuresIs
<1> HIDE DEF d
<1>4. /\ e \in Books /\ e.pending = d.pending /\ e.sessions = d.sessions
      /\ e.standby = d.standby /\ e.failures = d.failures
  BY <1>3, PruneBookIs
<1> HIDE DEF e
<1>5. /\ dd \in Books /\ dd.pending \subseteq e.pending /\ dd.sessions = e.sessions
      /\ dd.standby = e.standby /\ dd.failures = e.failures
  BY <1>4, PrunePendingIs
<1>6. AnnouncePrune(cc) = dd
  BY DEF AnnouncePrune, a, b, d, e
<1> HIDE DEF dd
<1>7. dd.pending \subseteq cc.pending /\ dd.sessions = a.sessions /\ dd.standby = b.standby
      /\ dd.failures = d.failures
  BY <1>1, <1>2, <1>3, <1>4, <1>5
<1>8. ASSUME NEW p \in Participants
      PROVE  Fine(p, dd, G) /\ (HasActive(cc, p) => HasActive(dd, p))
  <2>1. HasActive(cc, p) => HasActive(dd, p)
    BY <1>1, <1>7 DEF HasActive
  <2>2. PICK pos : /\ \A i \in DOMAIN b.standby[p] :
                        pos[i] \in DOMAIN a.standby[p] /\ b.standby[p][i] = a.standby[p][pos[i]]
                   /\ \A i, j \in DOMAIN b.standby[p] : i # j => pos[i] # pos[j]
    BY <1>2
  <2>3. \A r \in Relays : InCooldown(cc, p, r) => InCooldown(dd, p, r)
    BY <1>1, <1>2, <1>3, <1>7 DEF InCooldown
  <2>4. CooldownFine(p, dd)
    <3>1. CooldownFine(p, cc)
      BY DEF Fine
    <3>2. \A r \in Relays : cc.failures[p][r] \in Nat /\ dd.failures[p][r] \in Nat
      BY <1>5, CooldownTyped
    <3>3. \A r \in Relays : dd.failures[p][r] <= cc.failures[p][r]
      BY <1>1, <1>2, <1>3, <1>7
    <3> QED BY <1>0, <3>1, <3>2, <3>3 DEF CooldownFine
  <2>5. \A i \in DOMAIN cc.standby[p] : cc.standby[p][i].relay \in Relays
    BY QueueIs
  <2>6. \A i \in DOMAIN dd.standby[p] :
          pos[i] \in DOMAIN cc.standby[p] /\ dd.standby[p][i] = cc.standby[p][pos[i]]
    BY <1>1, <1>7, <2>2
  <2>7. \A i, j \in DOMAIN dd.standby[p] : i # j => pos[i] # pos[j]
    BY <1>7, <2>2
  <2>8. p \in DOMAIN dd.sessions => p \in DOMAIN cc.sessions /\ dd.sessions[p] = cc.sessions[p]
    BY <1>1, <1>7
  <2>9. \A q \in dd.pending : q.participant = p => q \in cc.pending
    BY <1>7
  <2> QED BY <2>1, <2>3, <2>4, <2>5, <2>6, <2>7, <2>8, <2>9, SliceShrinks
<1>9. \A p \in DOMAIN dd.sessions : p \in DOMAIN cc.sessions /\ dd.sessions[p] = cc.sessions[p]
  BY <1>1, <1>7
<1> QED BY <1>5, <1>6, <1>7, <1>8, <1>9

LEMMA ProbedTyped ==
  ASSUME now \in Nat, NEW entry \in Verification
  PROVE  Probed(entry) \subseteq Verification
<1>1. \A retry \in RetryAfters \union {ProbeRetryAfter} :
        AfterFailures(entry, 1, retry) \in Verification
  BY Constants, AfterFailuresTyped
<1> QED BY <1>1, NoVerificationTyped DEF Probed

LEMMA ProbeResultsIs ==
  ASSUME now \in Nat, NEW cc \in Books, NEW found, NEW dd \in ProbeResults(cc, found)
  PROVE  /\ dd \in Books /\ dd.pending = cc.pending /\ dd.sessions = cc.sessions
         /\ dd.standby = cc.standby /\ dd.failures = cc.failures
<1>1. PICK T \in SUBSET found :
        \E book \in BooksOf([r \in Relays |-> IF r \in T THEN Probed(cc.book[r]) ELSE {cc.book[r]}]) :
          dd = [cc EXCEPT !.book = book]
  BY DEF ProbeResults
<1> DEFINE entries == [r \in Relays |-> IF r \in T THEN Probed(cc.book[r]) ELSE {cc.book[r]}]
<1>2. PICK book \in BooksOf(entries) : dd = [cc EXCEPT !.book = book]
  BY <1>1
<1>3. \A r \in Relays : cc.book[r] \in Verification
  BY DEF Books
<1>4. \A r \in Relays : entries[r] \subseteq Verification
  BY <1>3, ProbedTyped
<1> HIDE DEF entries
<1>5. book \in [Relays -> Verification]
  BY <1>2, <1>4, BooksOfTyped
<1> QED BY <1>2, <1>5 DEF Books

(* A round asks only candidates, only for those that need a relay, only now. *)
LEMMA RoundsIs ==
  ASSUME NEW cc, NEW needing, NEW found, NEW sent \in Rounds(cc, needing, found), NEW q \in sent
  PROVE  \E p \in needing : \E r \in Candidates(cc, p, found) :
           q = [participant |-> p, relay |-> r, requested_at |-> now]
<1> DEFINE Chosen == {f \in [needing -> SUBSET Relays] :
                        \A p \in needing : f[p] \in Truncated(Candidates(cc, p, found))}
           Sent(f, p) == {(UNION {Requests(x, f[x]) : x \in done}) \union Requests(p, part) :
                            done \in SUBSET (needing \ {p}), part \in SUBSET f[p]}
<1>1. Rounds(cc, needing, found) = UNION {Sent(f, p) : f \in Chosen, p \in needing}
  BY DEF Rounds
<1>2. PICK f \in Chosen, p \in needing : sent \in Sent(f, p)
  <2> HIDE DEF Chosen, Sent
  <2> QED BY <1>1
<1>3. \A x \in needing : f[x] \subseteq Candidates(cc, x, found)
  BY DEF Truncated
<1> HIDE DEF Chosen
<1> DEFINE All(done) == UNION {Requests(x, f[x]) : x \in done}
<1>4. \E done \in SUBSET (needing \ {p}), part \in SUBSET f[p] : q \in All(done) \union Requests(p, part)
  <2>1. sent \in {All(done) \union Requests(p, part) :
                  done \in SUBSET (needing \ {p}), part \in SUBSET f[p]}
    BY <1>2
  <2> HIDE DEF All
  <2> QED BY <2>1
<1>5. PICK x \in needing : \E T \in SUBSET f[x] : q \in Requests(x, T)
  <2>1. PICK done \in SUBSET (needing \ {p}) :
          \E part \in SUBSET f[p] : q \in All(done) \union Requests(p, part)
    <3> HIDE DEF All
    <3> QED BY <1>4
  <2>2. CASE q \in All(done)
    <3>1. PICK x \in done : q \in Requests(x, f[x])
      BY <2>2
    <3> QED BY <3>1
  <2>3. CASE q \notin All(done)
    <3> HIDE DEF All
    <3> QED BY <2>1, <2>3
  <2> QED BY <2>2, <2>3
<1>6. PICK r \in f[x] : q = [participant |-> x, relay |-> r, requested_at |-> now]
  BY <1>5 DEF Requests
<1> QED BY <1>3, <1>6

(* New requests leave the leases that are held alone: a request made just   *)
(* now behind one of them is not made a second time.                        *)
LEMMA AddPendingIs ==
  ASSUME now \in Time, paused_at \in Time, paused_at <= now,
         NEW cc \in Books, NEW G, \A p \in Participants : Fine(p, cc, G),
         \A g \in G : g.id.requested_at \in Time /\ g.id = [participant |-> g.id.participant,
                        relay |-> g.id.relay, requested_at |-> g.id.requested_at],
         NEW sent,
         \A q \in sent : \E p \in Participants, r \in Relays :
           /\ q = [participant |-> p, relay |-> r, requested_at |-> now]
           /\ ~HasActive(cc, p) /\ ~InCooldown(cc, p, r)
  PROVE  LET dd == AddPending(cc, sent)
         IN /\ dd \in Books /\ dd.pending = cc.pending \union sent /\ dd.sessions = cc.sessions
            /\ dd.standby = cc.standby /\ dd.failures = cc.failures /\ dd.book = cc.book
            /\ \A p \in Participants : Fine(p, dd, G)
<1> DEFINE dd == AddPending(cc, sent)
<1>1. now \in Nat /\ paused_at \in Nat
  BY Constants DEF Time
<1>2. \A q \in sent : q \in RequestId /\ q.requested_at = now
  BY DEF RequestId
<1>3. /\ dd \in Books /\ dd.pending = cc.pending \union sent /\ dd.sessions = cc.sessions
      /\ dd.standby = cc.standby /\ dd.failures = cc.failures /\ dd.book = cc.book
  BY <1>2 DEF AddPending, Books
<1> HIDE DEF dd
<1>4. ASSUME NEW p \in Participants PROVE Fine(p, dd, G)
  <2>1. PendingFine(p, cc) /\ SessionFine(p, cc, G) /\ QueueFine(p, cc, G) /\ Apart(p, cc)
        /\ CooldownFine(p, cc)
    BY DEF Fine
  <2>2. PendingFine(p, dd)
    BY <1>1, <1>2, <1>3, <2>1 DEF PendingFine
  <2>3. Apart(p, dd) /\ CooldownFine(p, dd) /\ (HasActive(dd, p) <=> HasActive(cc, p))
        /\ \A r : InCooldown(dd, p, r) <=> InCooldown(cc, p, r)
    BY <1>3, <2>1 DEF Apart, CooldownFine, HasActive, InCooldown
  <2>4. ASSUME NEW g \in G, NEW s, Backs(g, p, s, cc),
               g.id.requested_at = now => HasActive(cc, p) \/ InCooldown(cc, p, s.relay)
        PROVE  Backs(g, p, s, dd)
    <3>1. g.id \notin sent
      <4>1. ASSUME g.id \in sent PROVE FALSE
        <5>1. PICK x \in Participants, r \in Relays :
                /\ g.id = [participant |-> x, relay |-> r, requested_at |-> now]
                /\ ~HasActive(cc, x) /\ ~InCooldown(cc, x, r)
          BY <4>1
        <5>2. g.id.participant = x /\ g.id.relay = r /\ g.id.requested_at = now
          BY <5>1
        <5> QED BY <2>4, <5>1, <5>2 DEF Backs
      <4> QED BY <4>1
    <3> QED BY <1>3, <2>4, <3>1 DEF Backs
  <2>5. SessionFine(p, dd, G)
    <3>1. SUFFICES ASSUME p \in DOMAIN cc.sessions
                   PROVE  \E g \in G : Backs(g, p, cc.sessions[p], dd)
      BY <1>3, <2>1 DEF SessionFine
    <3>2. PICK g \in G : Backs(g, p, cc.sessions[p], cc)
      BY <2>1, <3>1 DEF SessionFine
    <3>3. g.id.requested_at = now => HasActive(cc, p)
      BY <3>1, <3>2, HeldSession, <1>1 DEF Backs, HasActive, IsActive
    <3> QED BY <2>4, <3>2, <3>3
  <2>6. QueueFine(p, dd, G)
    <3>1. SUFFICES ASSUME NEW i \in DOMAIN cc.standby[p]
                   PROVE  \E g \in G :
                            /\ Backs(g, p, cc.standby[p][i], dd)
                            /\ g.id.requested_at = now =>
                                 HasActive(dd, p) \/ InCooldown(dd, p, cc.standby[p][i].relay)
      BY <1>3, Zenon DEF QueueFine
    <3>2. PICK g \in G : /\ Backs(g, p, cc.standby[p][i], cc)
                         /\ g.id.requested_at = now =>
                              HasActive(cc, p) \/ InCooldown(cc, p, cc.standby[p][i].relay)
      BY <2>1, Zenon DEF QueueFine
    <3> QED BY <2>3, <2>4, <3>2
  <2> QED BY <2>2, <2>3, <2>5, <2>6 DEF Fine
<1> QED BY <1>3, <1>4 DEF dd

LEMMA AnnounceIs ==
  ASSUME BooksInv, GrantsInv, HandshakeInv, \A p \in Participants : Fine(p, c, grants),
         AnnounceTick
  PROVE  /\ c' \in Books /\ \A p \in Participants : Fine(p, c', grants)
         /\ \A p \in DOMAIN c'.sessions :
              p \in DOMAIN c.sessions /\ c'.sessions[p] = c.sessions[p]
         /\ \A q \in c'.pending \ c.pending :
              /\ ~HasActive(c, q.participant)
              /\ c'.failures[q.participant][q.relay] <= now
              /\ c'.book[q.relay].cooldown_until <= now
<1> DEFINE pruned == AnnouncePrune(c)
<1>1. now \in Time /\ now \in Nat /\ paused_at \in Time /\ paused_at <= now /\ c \in Books
  BY Constants DEF BooksInv, HandshakeInv, Time
<1>2. /\ pruned \in Books /\ pruned.pending \subseteq c.pending
      /\ \A p \in Participants : Fine(p, pruned, grants) /\ (HasActive(c, p) => HasActive(pruned, p))
      /\ \A p \in DOMAIN pruned.sessions : p \in DOMAIN c.sessions /\ pruned.sessions[p] = c.sessions[p]
  BY <1>1, AnnouncePruneIs
<1>3. CASE c' = pruned
  <2> HIDE DEF pruned
  <2> QED BY <1>2, <1>3
<1>4. CASE \E needing \in (SUBSET {p \in Participants : NeedsRelay(pruned, p)}) \ {{}},
              found \in (SUBSET {r \in Relays : ~ProviderInCooldown(pruned, r)}) \ {{}} :
             \E probed \in ProbeResults(pruned, found) :
             \E sent \in Rounds(probed, needing, found) : c' = AddPending(probed, sent)
  <2>1. PICK needing \in SUBSET {p \in Participants : NeedsRelay(pruned, p)},
             found \in SUBSET {r \in Relays : ~ProviderInCooldown(pruned, r)} :
          \E probed \in ProbeResults(pruned, found) :
          \E sent \in Rounds(probed, needing, found) : c' = AddPending(probed, sent)
    BY <1>4
  <2>2. PICK probed \in ProbeResults(pruned, found) :
          \E sent \in Rounds(probed, needing, found) : c' = AddPending(probed, sent)
    BY <2>1
  <2>3. PICK sent \in Rounds(probed, needing, found) : c' = AddPending(probed, sent)
    BY <2>2
  <2> HIDE DEF pruned
  <2>4. /\ probed \in Books /\ probed.pending = pruned.pending
        /\ probed.sessions = pruned.sessions /\ probed.standby = pruned.standby
        /\ probed.failures = pruned.failures
    BY <1>1, <1>2, <2>2, ProbeResultsIs
  <2>5. ASSUME NEW p \in Participants PROVE Fine(p, probed, grants)
    <3>1. \A i \in DOMAIN pruned.standby[p] : pruned.standby[p][i].relay \in Relays
      BY <1>2, QueueIs
    <3> QED BY <1>2, <2>4, <3>1, SameSlice
  <2>6. ASSUME NEW q \in sent
        PROVE  \E p \in Participants, r \in Relays :
                 /\ q = [participant |-> p, relay |-> r, requested_at |-> now]
                 /\ ~HasActive(probed, p) /\ ~InCooldown(probed, p, r)
                 /\ ~ProviderInCooldown(probed, r) /\ ~HasActive(c, p)
    <3>1. PICK p \in needing : \E r \in Candidates(probed, p, found) :
                 q = [participant |-> p, relay |-> r, requested_at |-> now]
      BY <2>3, RoundsIs
    <3>2. PICK r \in Candidates(probed, p, found) :
                 q = [participant |-> p, relay |-> r, requested_at |-> now]
      BY <3>1
    <3>3. p \in Participants /\ ~HasActive(pruned, p)
      BY DEF NeedsRelay
    <3>4. r \in Relays /\ ~InCooldown(probed, p, r) /\ ~ProviderInCooldown(probed, r)
      BY DEF Candidates
    <3>5. ~HasActive(probed, p) /\ ~HasActive(c, p)
      BY <1>2, <2>4, <3>3 DEF HasActive
    <3> QED BY <3>2, <3>3, <3>4, <3>5
  <2>7. \A g \in grants : g.id.requested_at \in Time /\ g.id = [participant |-> g.id.participant,
                             relay |-> g.id.relay, requested_at |-> g.id.requested_at]
    BY DEF GrantsInv, GrantMsg, RequestId
  <2>8. /\ c' \in Books /\ c'.pending = probed.pending \union sent /\ c'.sessions = probed.sessions
        /\ c'.standby = probed.standby /\ c'.failures = probed.failures /\ c'.book = probed.book
        /\ \A p \in Participants : Fine(p, c', grants)
    <3> DEFINE dd == AddPending(probed, sent)
    <3>1. /\ dd \in Books /\ dd.pending = probed.pending \union sent /\ dd.sessions = probed.sessions
          /\ dd.standby = probed.standby /\ dd.failures = probed.failures /\ dd.book = probed.book
          /\ \A p \in Participants : Fine(p, dd, grants)
      BY <1>1, <2>4, <2>5, <2>6, <2>7, AddPendingIs
    <3> HIDE DEF dd
    <3>2. c' = dd
      BY <2>3 DEF dd
    <3> QED BY <3>1, <3>2
  <2>9. ASSUME NEW q \in c'.pending \ c.pending
        PROVE  /\ ~HasActive(c, q.participant)
               /\ c'.failures[q.participant][q.relay] <= now
               /\ c'.book[q.relay].cooldown_until <= now
    <3>1. q \in sent
      BY <1>2, <2>4, <2>8
    <3>2. PICK p \in Participants, r \in Relays :
                 /\ q = [participant |-> p, relay |-> r, requested_at |-> now]
                 /\ ~HasActive(probed, p) /\ ~InCooldown(probed, p, r)
                 /\ ~ProviderInCooldown(probed, r) /\ ~HasActive(c, p)
      BY <2>6, <3>1
    <3>3. probed.failures[p][r] \in Nat /\ probed.book[r].cooldown_until \in Nat
      <4>1. probed.book[r] \in Verification
        BY <2>4 DEF Books
      <4> QED BY <2>4, <4>1, CooldownTyped DEF Verification
    <3>4. q.participant = p /\ q.relay = r
      BY <3>2
    <3> QED BY <1>1, <2>8, <3>2, <3>3, <3>4 DEF InCooldown, ProviderInCooldown
  <2> QED BY <1>2, <2>4, <2>8, <2>9
<1> QED BY <1>3, <1>4 DEF AnnounceTick

-----------------------------------------------------------------------------
(* Every step keeps the invariant.                                          *)

(* What is fine of the new books in this instant is fine after the step.    *)
LEMMA FineKept ==
  ASSUME UNCHANGED <<now, history>>, NEW p, Fine(p, c', grants')
  PROVE  Fine(p, c, grants)'
<1>1. now' = now /\ relayed' = relayed /\ paused_at' = paused_at
  BY DEF history
<1>2. PendingFine(p, c)'
  BY <1>1 DEF Fine, PendingFine
<1>3. SessionFine(p, c, grants)'
  BY <1>1 DEF Fine, SessionFine, Backs
<1>4. QueueFine(p, c, grants)'
  <2>1. QueueFine(p, c', grants')
    BY DEF Fine
  <2> QED BY <1>1, <2>1 DEF QueueFine, Backs, HasActive, IsActive, InCooldown
<1>5. Apart(p, c)'
  BY DEF Fine, Apart
<1>6. CooldownFine(p, c)'
  BY <1>1 DEF Fine, CooldownFine
<1> QED BY <1>2, <1>3, <1>4, <1>5, <1>6 DEF Fine

(* No session starts on a relay that is cooling down, and none is asked.    *)
Respected ==
  /\ \A p \in DOMAIN c'.sessions :
       (p \in DOMAIN c.sessions => c.sessions[p].ep # c'.sessions[p].ep)
         => c'.failures[p][c'.sessions[p].relay] <= now
  /\ \A q \in c'.pending \ c.pending :
       /\ ~HasActive(c, q.participant)
       /\ c'.failures[q.participant][q.relay] <= now
       /\ c'.book[q.relay].cooldown_until <= now

(* A step that changes the books alone.                                     *)
LEMMA BooksStep ==
  ASSUME ClientInv, UNCHANGED <<now, enabled, handshake, history, grants>>,
         c' \in Books, \A p \in Participants : Fine(p, c', grants)
  PROVE  ClientInv'
<1>1. BooksInv' /\ GrantsInv' /\ HandshakeInv'
  BY DEF ClientInv, BooksInv, GrantsInv, HandshakeInv, history
<1>2. \A p \in Participants : Fine(p, c, grants)'
  BY FineKept
<1> QED BY <1>1, <1>2 DEF ClientInv

LEMMA NoBooksIs ==
  /\ NoBooks \in Books /\ DOMAIN NoBooks.sessions = {} /\ NoBooks.pending = {}
  /\ \A p \in Participants : DOMAIN NoBooks.standby[p] = {}
  /\ \A p \in Participants, r \in Relays : NoBooks.failures[p][r] = 0
<1> DEFINE none == [p \in {} |-> {}]
<1>1. none \in Held
  BY HeldIs
<1>2. [p \in Participants |-> <<>>] \in Queues
  BY DEF Queues
<1>3. [p \in Participants |-> [r \in Relays |-> 0]] \in Cooldowns
  BY DEF Cooldowns
<1>4. [r \in Relays |-> NoVerification] \in [Relays -> Verification]
  BY NoVerificationTyped
<1>5. DOMAIN none = {}
  OBVIOUS
<1> HIDE DEF none
<1>6. NoBooks = [pending |-> {}, sessions |-> none,
                 standby |-> [p \in Participants |-> <<>>],
                 failures |-> [p \in Participants |-> [r \in Relays |-> 0]],
                 book |-> [r \in Relays |-> NoVerification]]
  BY DEF NoBooks, none
<1>7. NoBooks \in Books
  BY <1>1, <1>2, <1>3, <1>4, <1>6 DEF Books
<1> QED BY <1>5, <1>6, <1>7

LEMMA FineWhenEmpty ==
  ASSUME now \in Nat, NEW G, NEW p \in Participants
  PROVE  Fine(p, NoBooks, G)
<1>1. FailedRetryAfter \in Nat
  BY Constants
<1> QED BY <1>1, NoBooksIs
        DEF Fine, PendingFine, SessionFine, QueueFine, Apart, CooldownFine

LEMMA InitFine == Init => ClientInv
<1> SUFFICES ASSUME Init PROVE ClientInv
  OBVIOUS
<1>1. now = 1 /\ 1 \in Time /\ 0 \in Time
  <2>1. MaxTime \in Nat \ {0}
    BY Constants
  <2> QED BY <2>1 DEF Init, Time
<1>2. BooksInv
  <2>1. NoHandshake \in [ep : 0 .. MaxLeases, at : Time]
    BY <1>1, Constants DEF NoHandshake, Direct
  <2> QED BY <1>1, <2>1, NoBooksIs DEF Init, BooksInv
<1>3. GrantsInv
  BY FS_EmptySet DEF Init, GrantsInv
<1>4. HandshakeInv
  BY <1>1 DEF Init, HandshakeInv, NoHandshake
<1>5. \A p \in Participants : Fine(p, c, grants)
  BY <1>1, FineWhenEmpty DEF Init
<1> QED BY <1>2, <1>3, <1>4, <1>5 DEF ClientInv

LEMMA Now == BooksInv => now \in Time /\ now \in Nat
BY Constants DEF BooksInv, Time

LEMMA AnnounceStep ==
  ASSUME ClientInv, AnnounceTick
  PROVE  ClientInv' /\ Respected
<1>1. BooksInv /\ GrantsInv /\ HandshakeInv /\ \A p \in Participants : Fine(p, c, grants)
  BY DEF ClientInv
<1>2. /\ c' \in Books /\ \A p \in Participants : Fine(p, c', grants)
      /\ \A p \in DOMAIN c'.sessions :
           p \in DOMAIN c.sessions /\ c'.sessions[p] = c.sessions[p]
      /\ \A q \in c'.pending \ c.pending :
           /\ ~HasActive(c, q.participant)
           /\ c'.failures[q.participant][q.relay] <= now
           /\ c'.book[q.relay].cooldown_until <= now
  BY <1>1, AnnounceIs
<1>3. UNCHANGED <<now, enabled, handshake, history, grants>>
  BY DEF AnnounceTick
<1>4. ClientInv'
  BY <1>2, <1>3, BooksStep
<1> QED BY <1>2, <1>4 DEF Respected

LEMMA StateStep ==
  ASSUME ClientInv, StateTick
  PROVE  ClientInv' /\ Respected
<1>1. BooksInv /\ HandshakeInv /\ \A p \in Participants : Fine(p, c, grants)
  BY DEF ClientInv
<1>2. now \in Time /\ now \in Nat /\ c \in Books
  BY <1>1, Now DEF BooksInv
<1>3. PICK seen \in SUBSET Participants :
        c' \in Reconciled(c, [p \in Participants |->
                 IF p \in seen THEN handshake[p] ELSE NoHandshake])
  BY DEF StateTick
<1> DEFINE status == [p \in Participants |-> IF p \in seen THEN handshake[p] ELSE NoHandshake]
<1>4. status \in Statuses
  <2>1. NoHandshake \in [ep : 0 .. MaxLeases, at : Time]
    BY Constants DEF NoHandshake, Direct, Time
  <2> QED BY <1>1, <2>1 DEF Statuses, BooksInv
<1>5. c' \in Reconciled(c, status)
  BY <1>3
<1> HIDE DEF status
<1>6. /\ c' \in Books /\ c'.pending \subseteq c.pending
      /\ \A p \in Participants : Fine(p, c', grants)
      /\ \A p \in DOMAIN c'.sessions :
           \/ p \in DOMAIN c.sessions /\ c'.sessions[p].ep = c.sessions[p].ep
           \/ c'.failures[p][c'.sessions[p].relay] <= now
  BY <1>1, <1>2, <1>4, <1>5, ReconciledIs
<1>7. UNCHANGED <<now, enabled, handshake, history, grants>>
  BY DEF StateTick
<1>8. ClientInv'
  BY <1>6, <1>7, BooksStep
<1> QED BY <1>6, <1>8 DEF Respected

(* What AcceptGrant does to the books of a daemon in a state that is fine.  *)
LEMMA Accepted ==
  ASSUME ClientInv, NEW g \in GrantMsg, \A h \in grants : h.ep = g.ep => h = g,
         c' = AcceptGrant(c, g)
  PROVE  /\ c' \in Books /\ \A p \in Participants : Fine(p, c', grants \union {g})
         /\ c' # c => g.id \in c.pending
         /\ Respected
<1>1. BooksInv /\ \A p \in Participants : Fine(p, c, grants)
  BY DEF ClientInv
<1>2. now \in Time /\ c \in Books
  BY <1>1, Now DEF BooksInv
<1> DEFINE dd == AcceptGrant(c, g)
<1>3. /\ dd \in Books /\ dd.pending \subseteq c.pending
      /\ \A p \in Participants : Fine(p, dd, grants \union {g})
      /\ \A p \in DOMAIN dd.sessions :
           \/ p \in DOMAIN c.sessions /\ dd.sessions[p].ep = c.sessions[p].ep
           \/ dd.failures[p][dd.sessions[p].relay] <= now
      /\ dd # c => g.id \in c.pending
  BY <1>1, <1>2, AcceptGrantIs
<1>4. c' = dd
  OBVIOUS
<1> HIDE DEF dd
<1>5. Respected
  BY <1>3, <1>4 DEF Respected
<1> QED BY <1>3, <1>4, <1>5

LEMMA GrantAgainStep ==
  ASSUME ClientInv, NEW g \in grants, RecvGrantAgain(g)
  PROVE  ClientInv' /\ Respected
<1>1. g \in GrantMsg /\ \A h \in grants : h.ep = g.ep => h = g
  BY DEF ClientInv, GrantsInv
<1>2. c' = AcceptGrant(c, g) /\ UNCHANGED <<now, enabled, handshake, history, grants>>
  BY DEF RecvGrantAgain
<1>3. grants \union {g} = grants
  OBVIOUS
<1>4. /\ c' \in Books /\ \A p \in Participants : Fine(p, c', grants \union {g})
      /\ Respected
  BY <1>1, <1>2, Accepted
<1>5. ClientInv'
  BY <1>2, <1>3, <1>4, BooksStep
<1> QED BY <1>4, <1>5

LEMMA GrantStep ==
  ASSUME ClientInv, NEW id \in RequestId, NEW at \in Time, RecvGrant(id, at)
  PROVE  ClientInv' /\ Respected
<1> DEFINE g == [id |-> id, ep |-> Cardinality(grants) + 1, expires_at |-> at + LeaseSecs[id.relay]]
<1>1. BooksInv /\ GrantsInv /\ HandshakeInv /\ \A p \in Participants : Fine(p, c, grants)
  BY DEF ClientInv
<1>2. /\ Cardinality(grants) < MaxLeases /\ id.requested_at <= at /\ at <= now
      /\ c' = AcceptGrant(c, g) /\ grants' = (IF c' = c THEN grants ELSE grants \union {g})
      /\ UNCHANGED <<now, enabled, handshake, history>>
  BY DEF RecvGrant
<1>3. now \in Nat /\ at \in Nat /\ id.requested_at \in Nat /\ id.relay \in Relays
  BY <1>1, Constants, Now DEF RequestId, Time
<1>4. PICK n \in Nat : n = Cardinality(grants)
  BY <1>1, FS_CardinalityType DEF GrantsInv
<1>5. LeaseSecs[id.relay] \in Nat /\ MaxLeases \in Nat
  BY <1>3, Constants
<1>6. at + LeaseSecs[id.relay] \in Nat /\ n + 1 \in 1 .. MaxLeases
  BY <1>2, <1>3, <1>4, <1>5
<1>7. g \in GrantMsg /\ g.ep = n + 1 /\ g.id = id
  BY <1>4, <1>6 DEF GrantMsg
<1> HIDE DEF g
<1>8. \A h \in grants : h.ep \in Nat /\ h.ep <= n
  BY <1>1, <1>4, Constants DEF GrantsInv, GrantMsg
<1>9. \A h \in grants : h.ep = g.ep => h = g
  BY <1>4, <1>7, <1>8
<1>10. /\ c' \in Books /\ \A p \in Participants : Fine(p, c', grants \union {g})
       /\ Respected
  BY <1>2, <1>7, <1>9, Accepted
<1>11. CASE c' = c
  <2>1. ClientInv'
    BY <1>1, <1>2, <1>10, <1>11, BooksStep
  <2> QED BY <1>10, <2>1
<1>12. CASE c' # c
  <2>1. grants' = grants \union {g} /\ g \notin grants
    BY <1>2, <1>7, <1>8, <1>12
  <2>2. IsFiniteSet(grants') /\ Cardinality(grants') = n + 1
    BY <1>1, <1>4, <2>1, FS_AddElement DEF GrantsInv
  <2>3. GrantsInv'
    <3>1. \A h \in grants' : h.ep <= n + 1
      BY <1>4, <1>7, <1>8, <2>1
    <3>2. \A h \in grants' : h.id.requested_at <= now
      BY <1>1, <1>2, <1>3, <1>7, <2>1 DEF GrantsInv
    <3>3. \A h, k \in grants' : h.ep = k.ep => h = k
      BY <1>1, <1>9, <2>1 DEF GrantsInv
    <3>4. now' = now /\ grants' \subseteq GrantMsg
      BY <1>1, <1>2, <1>7, <2>1 DEF GrantsInv
    <3> QED BY <2>2, <3>1, <3>2, <3>3, <3>4 DEF GrantsInv
  <2>4. BooksInv' /\ HandshakeInv'
    BY <1>1, <1>2, <1>10 DEF BooksInv, HandshakeInv, history
  <2>5. \A p \in Participants : Fine(p, c, grants)'
    BY <1>2, <1>10, <2>1, FineKept
  <2>6. ClientInv'
    BY <2>3, <2>4, <2>5 DEF ClientInv
  <2> QED BY <1>10, <2>6
<1> QED BY <1>11, <1>12

LEMMA RejectionStep ==
  ASSUME ClientInv, NEW id \in RequestId, NEW retry \in RetryAfters, RecvRejection(id, retry)
  PROVE  ClientInv' /\ Respected
<1>1. BooksInv /\ \A p \in Participants : Fine(p, c, grants)
  BY DEF ClientInv
<1>2. now \in Time /\ c \in Books /\ retry \in Nat
  BY <1>1, Now, Constants DEF BooksInv
<1>3. c' = AcceptRejection(c, id, retry) /\ UNCHANGED <<now, enabled, handshake, history, grants>>
  BY DEF RecvRejection
<1> DEFINE dd == AcceptRejection(c, id, retry)
<1>4. /\ dd \in Books /\ dd.pending \subseteq c.pending /\ dd.sessions = c.sessions
      /\ \A p \in Participants : Fine(p, dd, grants)
  BY <1>1, <1>2, AcceptRejectionIs
<1>5. c' = dd
  BY <1>3
<1> HIDE DEF dd
<1>6. ClientInv'
  BY <1>3, <1>4, <1>5, BooksStep
<1> QED BY <1>4, <1>5, <1>6 DEF Respected

LEMMA PauseStep ==
  ASSUME ClientInv, Pause
  PROVE  ClientInv' /\ Respected
<1>1. BooksInv /\ GrantsInv /\ HandshakeInv /\ now \in Time /\ now \in Nat
  BY Now DEF ClientInv
<1>2. /\ enabled' = FALSE /\ c' = NoBooks /\ handshake' = [p \in Participants |-> NoHandshake]
      /\ paused_at' = now /\ now' = now /\ relayed' = relayed /\ grants' = grants
  BY DEF Pause
<1>3. BooksInv'
  <2>1. NoHandshake \in [ep : 0 .. MaxLeases, at : Time]
    BY Constants DEF NoHandshake, Direct, Time
  <2> QED BY <1>1, <1>2, <2>1, NoBooksIs DEF BooksInv
<1>4. GrantsInv' /\ HandshakeInv'
  BY <1>1, <1>2 DEF GrantsInv, HandshakeInv, NoHandshake
<1>5. ASSUME NEW p \in Participants PROVE Fine(p, c, grants)'
  BY <1>1, <1>2, Constants, NoBooksIs
     DEF Fine, PendingFine, SessionFine, QueueFine, Apart, CooldownFine
<1>6. ClientInv'
  BY <1>3, <1>4, <1>5 DEF ClientInv
<1> QED BY <1>2, <1>6, NoBooksIs DEF Respected

LEMMA SameBooks == c' = c => Respected
BY DEF Respected

LEMMA ResumeStep ==
  ASSUME ClientInv, Resume
  PROVE  ClientInv' /\ Respected
<1>1. /\ enabled' = TRUE /\ UNCHANGED <<now, handshake, history, c, grants>>
  BY DEF Resume
<1>2. BooksInv' /\ GrantsInv' /\ HandshakeInv'
  BY <1>1 DEF ClientInv, BooksInv, GrantsInv, HandshakeInv, history
<1>3. \A p \in Participants : Fine(p, c, grants)'
  BY <1>1, FineKept DEF ClientInv
<1> QED BY <1>1, <1>2, <1>3, SameBooks DEF ClientInv

LEMMA TickStep ==
  ASSUME ClientInv, Tick
  PROVE  ClientInv' /\ Respected
<1>1. BooksInv /\ GrantsInv /\ HandshakeInv /\ \A p \in Participants : Fine(p, c, grants)
  BY DEF ClientInv
<1>2. /\ now < MaxTime /\ now' = now + 1 /\ c' = c /\ grants' = grants /\ relayed' = relayed
      /\ paused_at' = paused_at /\ enabled' = enabled /\ handshake' = handshake
  BY DEF Tick, history
<1>3. now \in Nat /\ now \in Time /\ MaxTime \in Nat /\ FailedRetryAfter \in Nat /\ paused_at \in Nat
  BY <1>1, Now, Constants DEF HandshakeInv, Time
<1>4. BooksInv'
  BY <1>1, <1>2, <1>3 DEF BooksInv, Time
<1>5. \A g \in grants : g.id.requested_at \in Nat
  BY <1>1, Constants DEF GrantsInv, GrantMsg, RequestId, Time
<1>6. GrantsInv'
  BY <1>1, <1>2, <1>3, <1>5 DEF GrantsInv
<1>7. HandshakeInv'
  BY <1>1, <1>2, <1>3 DEF HandshakeInv
<1>8. ASSUME NEW p \in Participants PROVE Fine(p, c, grants)'
  <2>1. PendingFine(p, c) /\ SessionFine(p, c, grants) /\ QueueFine(p, c, grants) /\ Apart(p, c)
        /\ CooldownFine(p, c)
    BY <1>1 DEF Fine
  <2>2. PendingFine(p, c)'
    <3>1. \A q \in c.pending : q.requested_at \in Nat
      BY <1>1, Constants DEF BooksInv, Books, RequestId, Time
    <3> QED BY <1>2, <1>3, <2>1, <3>1 DEF PendingFine
  <2>3. SessionFine(p, c, grants)'
    BY <1>2, <2>1 DEF SessionFine, Backs
  <2>4. QueueFine(p, c, grants)'
    <3>1. \A g \in grants : g.id.requested_at # now + 1
      BY <1>1, <1>3, <1>5 DEF GrantsInv
    <3>2. \A i \in DOMAIN c.standby[p] : \E g \in grants : Backs(g, p, c.standby[p][i], c)
      BY <2>1 DEF QueueFine
    <3>3. \A i \in DOMAIN c.standby[p] : \E g \in grants : Backs(g, p, c.standby[p][i], c)'
      BY <1>2, <3>2 DEF Backs
    <3> QED BY <1>2, <3>1, <3>3 DEF QueueFine
  <2>5. Apart(p, c)'
    BY <1>2, <2>1 DEF Apart
  <2>6. CooldownFine(p, c)'
    <3>1. \A r \in Relays : c.failures[p][r] \in Nat
      BY <1>1, CooldownTyped DEF BooksInv
    <3> QED BY <1>2, <1>3, <2>1, <3>1 DEF CooldownFine
  <2> QED BY <2>2, <2>3, <2>4, <2>5, <2>6 DEF Fine
<1> QED BY <1>2, <1>4, <1>6, <1>7, <1>8, SameBooks DEF ClientInv

LEMMA HandshakeStep ==
  ASSUME ClientInv, NEW p \in Participants, NEW ep \in 0 .. MaxLeases, Handshake(p, ep)
  PROVE  ClientInv' /\ Respected
<1>1. BooksInv /\ GrantsInv /\ HandshakeInv /\ \A q \in Participants : Fine(q, c, grants)
  BY DEF ClientInv
<1>2. /\ handshake' = [handshake EXCEPT ![p] = [ep |-> ep, at |-> now]]
      /\ relayed' = relayed \union ({ep} \ {Direct})
      /\ UNCHANGED <<now, enabled, paused_at, c, grants>>
  BY DEF Handshake
<1>3. now \in Time /\ MaxLeases \in Nat
  BY <1>1, Now, Constants
<1>4. relayed' \subseteq 1 .. MaxLeases /\ relayed \subseteq relayed'
  BY <1>1, <1>2, <1>3 DEF BooksInv, Direct
<1>5. BooksInv'
  <2>1. [ep |-> ep, at |-> now] \in [ep : 0 .. MaxLeases, at : Time]
    BY <1>3
  <2> QED BY <1>1, <1>2, <1>4, <2>1 DEF BooksInv
<1>6. HandshakeInv'
  <2>1. handshake \in [Participants -> [ep : 0 .. MaxLeases, at : Time]]
    BY <1>1 DEF BooksInv
  <2>2. \A q \in Participants : handshake'[q].ep = (IF q = p THEN ep ELSE handshake[q].ep)
    BY <1>2, <2>1
  <2> QED BY <1>1, <1>2, <2>2 DEF HandshakeInv
<1>7. GrantsInv'
  BY <1>1, <1>2 DEF GrantsInv
<1>8. ASSUME NEW q \in Participants PROVE Fine(q, c, grants)'
  <2>1. PendingFine(q, c) /\ SessionFine(q, c, grants) /\ QueueFine(q, c, grants) /\ Apart(q, c)
        /\ CooldownFine(q, c)
    BY <1>1 DEF Fine
  <2>2. PendingFine(q, c)' /\ Apart(q, c)' /\ CooldownFine(q, c)'
    BY <1>2, <2>1 DEF PendingFine, Apart, CooldownFine
  <2>3. SessionFine(q, c, grants)'
    BY <1>2, <1>4, <2>1 DEF SessionFine, Backs
  <2>4. QueueFine(q, c, grants)'
    BY <1>2, <2>1 DEF QueueFine, Backs, HasActive, IsActive, InCooldown
  <2> QED BY <2>2, <2>3, <2>4 DEF Fine
<1> QED BY <1>2, <1>5, <1>6, <1>7, <1>8, SameBooks DEF ClientInv

LEMMA ClientStep ==
  ASSUME ClientInv, [Next]_vars
  PROVE  ClientInv' /\ Respected
<1>1. CASE AnnounceTick
  BY <1>1, AnnounceStep
<1>2. CASE StateTick
  BY <1>2, StateStep
<1>3. CASE Pause
  BY <1>3, PauseStep
<1>4. CASE Resume
  BY <1>4, ResumeStep
<1>5. CASE Tick
  BY <1>5, TickStep
<1>6. CASE \E g \in grants : RecvGrantAgain(g)
  BY <1>6, GrantAgainStep
<1>7. CASE \E id \in RequestId, at \in Time : RecvGrant(id, at)
  BY <1>7, GrantStep
<1>8. CASE \E id \in RequestId, retry \in RetryAfters : RecvRejection(id, retry)
  BY <1>8, RejectionStep
<1>9. CASE \E p \in Participants, ep \in 0 .. MaxLeases : Handshake(p, ep)
  BY <1>9, HandshakeStep
<1>10. CASE UNCHANGED vars
  <2>1. UNCHANGED <<now, enabled, handshake, history, grants>> /\ c' = c
    BY <1>10 DEF vars
  <2>2. c' \in Books /\ \A p \in Participants : Fine(p, c', grants)
    BY <2>1 DEF ClientInv, BooksInv
  <2> QED BY <2>1, <2>2, BooksStep, SameBooks
<1> QED BY <1>1, <1>2, <1>3, <1>4, <1>5, <1>6, <1>7, <1>8, <1>9, <1>10 DEF Next

THEOREM ClientInvariant == Spec => []ClientInv
<1>1. Init => ClientInv
  BY InitFine
<1>2. ClientInv /\ [Next]_vars => ClientInv'
  BY ClientStep
<1> QED BY <1>1, <1>2, PTL DEF Spec

-----------------------------------------------------------------------------
(* The books keep their types: requests, sessions, queued leases, cooldowns *)
(* and provider entries (relay_runtime.rs), however often grants are        *)
(* delivered and whatever reconciliation makes of the sessions.             *)
THEOREM ClientTypeCorrect == Spec => []TypeOK
<1>1. ClientInv => TypeOK
  <2> SUFFICES ASSUME ClientInv PROVE TypeOK
    OBVIOUS
  <2>1. BooksInv /\ GrantsInv /\ HandshakeInv
    BY DEF ClientInv
  <2>2. c \in Books
    BY <2>1 DEF BooksInv
  <2>3. /\ DOMAIN c.sessions \subseteq Participants
        /\ \A p \in DOMAIN c.sessions : c.sessions[p] \in Lease
    BY <2>2, HeldSession
  <2>4. \A p \in Participants : c.standby[p] \in Seq(Lease)
    BY <2>2, QueueIs
  <2>5. /\ c.pending \subseteq RequestId /\ c.failures \in [Participants -> [Relays -> Nat]]
        /\ c.book \in [Relays -> Verification]
    BY <2>2 DEF Books, Cooldowns
  <2> QED BY <2>1, <2>3, <2>4, <2>5 DEF TypeOK, BooksInv, GrantsInv, HandshakeInv
<1> QED BY <1>1, ClientInvariant, PTL

LEMMA SessionsBacked ==
  ASSUME ClientInv, NEW p \in Participants, NEW s \in Sessions(p)
  PROVE  \E g \in grants : Backs(g, p, s, c)
<1>1. SessionFine(p, c, grants) /\ QueueFine(p, c, grants)
  BY DEF ClientInv, Fine
<1>2. (p \in DOMAIN c.sessions /\ s = c.sessions[p]) \/ \E i \in DOMAIN c.standby[p] : s = c.standby[p][i]
  BY DEF Sessions
<1> QED BY <1>1, <1>2 DEF SessionFine, QueueFine

(* verified_at is set by reconcile_active_relay_sessions only for a         *)
(* handshake over the session's own endpoint (relay_runtime.rs), and        *)
(* promotion resets it: whatever handshakes complete meanwhile, over the    *)
(* direct path or another lease, a verified session was heard from.         *)
THEOREM VerifiedSessionsWereHeard == Spec => []VerifiedOverOwnLease
<1>1. ClientInv => VerifiedOverOwnLease
  <2> SUFFICES ASSUME ClientInv, NEW p \in DOMAIN c.sessions
               PROVE  c.sessions[p].verified_at # 0 =>
                        /\ c.sessions[p].ep \in relayed
                        /\ c.sessions[p].verified_at >= c.sessions[p].granted_at
    BY DEF VerifiedOverOwnLease
  <2>1. p \in Participants
    BY HeldSession DEF ClientInv, BooksInv
  <2> QED BY <2>1 DEF ClientInv, Fine, SessionFine
<1> QED BY <1>1, ClientInvariant, PTL

(* Pausing empties the pending requests with the other books, so a grant    *)
(* that answers a request of before the pause finds no request to consume   *)
(* (accept_relay_allocation_grant), however late or often it arrives.       *)
THEOREM PausedRequestsStayForgotten == Spec => []PauseForgetsRequests
<1>1. ClientInv => PauseForgetsRequests
  <2> SUFFICES ASSUME ClientInv, NEW p \in Participants, NEW s \in Sessions(p)
               PROVE  \E g \in grants : g.ep = s.ep /\ g.id.requested_at >= paused_at
    BY DEF PauseForgetsRequests
  <2>1. PICK g \in grants : Backs(g, p, s, c)
    BY SessionsBacked
  <2>2. paused_at \in Nat /\ g.id.requested_at \in Nat
    BY Constants DEF ClientInv, HandshakeInv, GrantsInv, GrantMsg, RequestId, Time
  <2> QED BY <2>1, <2>2 DEF Backs
<1> QED BY <1>1, ClientInvariant, PTL

(* A grant consumes its request, so the second delivery of the same grant   *)
(* changes nothing, although queue_standby_relay_session compares only with *)
(* the queue and a request made in the same second has the same id.         *)
THEOREM NoLeaseTwice == Spec => []LeaseUsedOnce
<1>1. ClientInv => LeaseUsedOnce
  <2> SUFFICES ASSUME ClientInv PROVE LeaseUsedOnce
    OBVIOUS
  <2>1. \A p \in Participants : Apart(p, c)
    BY DEF ClientInv, Fine
  <2>2. ASSUME NEW p \in Participants, NEW q \in Participants, p # q,
               NEW s \in Sessions(p), NEW t \in Sessions(q)
        PROVE  s.ep # t.ep
    <3>1. PICK g \in grants : Backs(g, p, s, c)
      BY SessionsBacked
    <3>2. PICK h \in grants : Backs(h, q, t, c)
      BY SessionsBacked
    <3>3. g.ep = h.ep => g = h
      BY DEF ClientInv, GrantsInv
    <3> QED BY <2>2, <3>1, <3>2, <3>3 DEF Backs
  <2> QED BY <2>1, <2>2 DEF LeaseUsedOnce, Apart
<1> QED BY <1>1, ClientInvariant, PTL

(* Every place that starts a session or asks a relay looks at the cooldowns *)
(* first (accept_relay_allocation_grant, pop_next_standby_relay_session,    *)
(* candidate selection in the announce arm), and a relay that fails in the  *)
(* step itself is already in the books by then.                             *)
THEOREM CooldownsHold == Spec => CooldownRespected
<1>1. ClientInv /\ [Next]_vars => [Respected]_vars
  BY ClientStep
<1>2. Spec => [][Respected]_vars
  BY <1>1, ClientInvariant, PTL DEF Spec
<1>3. CooldownRespected <=> [][Respected]_vars
  BY PTL DEF CooldownRespected, Respected
<1> QED BY <1>2, <1>3, PTL
=============================================================================
