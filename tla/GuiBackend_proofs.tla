------------------------- MODULE GuiBackend_proofs -------------------------
(***************************************************************************)
(* Theorems about the desktop app's backend, for any people, platforms,    *)
(* failing steps and numbers of commands and troubles.                     *)
(***************************************************************************)
EXTENDS GuiBackend, SequenceTheorems, WellFoundedInduction, TLAPS

(* Rows of steps. *)

Words == {"sync", "clear", "launch", "persist", "look", "connect", "connect_again", "connected",
          "disconnected", "edited", "listening", "quiet", "caught", "try_connect", "request",
          "reload", "reload_always", "resume", "pause", "start", "install", "uninstall", "enable",
          "disable"}
Row(t) == t \in Seq(Words)
(* u is what is left of t when d steps are gone. *)
Behind(u, t, d) ==
    /\ Row(u) /\ d \in 0 .. Len(t) /\ Len(u) = Len(t) - d
    /\ \A i \in 1 .. Len(u) : u[i] = t[i + d]

LEMMA RowLength ==
    ASSUME NEW t, Row(t)
    PROVE  Len(t) \in Nat /\ DOMAIN t = 1 .. Len(t) /\ (t # <<>> <=> Len(t) > 0)
BY LenProperties, EmptySeq DEF Row

LEMMA Rested ==
    ASSUME NEW t, Row(t), t # <<>>
    PROVE  Behind(Tail(t), t, 1) /\ Head(t) = t[1]
<1>1. /\ Row(Tail(t)) /\ Len(Tail(t)) = Len(t) - 1
      /\ \A i \in 1 .. Len(Tail(t)) : Tail(t)[i] = t[i + 1]
  BY HeadTailProperties DEF Row
<1>2. Len(t) \in Nat /\ Len(t) > 0
  BY RowLength
<1> QED BY <1>1, <1>2 DEF Behind, Row

LEMMA Joined ==
    ASSUME NEW s, Row(s), NEW r, Row(r)
    PROVE  /\ Row(s \o r) /\ Behind(r, s \o r, Len(s)) /\ Len(s \o r) = Len(s) + Len(r)
           /\ \A i \in 1 .. Len(s) : (s \o r)[i] = s[i]
<1>1. /\ s \o r \in Seq(Words) /\ Len(s \o r) = Len(s) + Len(r)
      /\ \A i \in 1 .. Len(s) + Len(r) : (s \o r)[i] = IF i <= Len(s) THEN s[i] ELSE r[i - Len(s)]
  BY ConcatProperties DEF Row
<1>2. Len(s) \in Nat /\ Len(r) \in Nat
  BY RowLength
<1>3. \A i \in 1 .. Len(s) : (s \o r)[i] = s[i]
  BY <1>1, <1>2
<1>4. \A i \in 1 .. Len(r) : r[i] = (s \o r)[i + Len(s)]
  <2> TAKE i \in 1 .. Len(r)
  <2>1. i + Len(s) \in 1 .. Len(s) + Len(r) /\ ~(i + Len(s) <= Len(s)) /\ (i + Len(s)) - Len(s) = i
    BY <1>2
  <2> QED BY <1>1, <2>1
<1> QED BY <1>1, <1>2, <1>3, <1>4 DEF Behind, Row

(* A step caught is found, and it is the first of what is left. *)
Before == {pair \in Nat \X Nat : pair[1] < pair[2]}
LEMMA Least ==
    ASSUME NEW S \in SUBSET Nat, S # {}
    PROVE  \E m \in S : \A x \in S : m <= x
<1>1. IsWellFoundedOn(Before, Nat)
  BY NatLessThanWellFounded, Zenon DEF Before, OpToRel
<1>2. PICK m \in S : \A x \in S : ~(<<x, m>> \in Before)
  BY <1>1, WFMin
<1>3. \A x \in S : <<x, m>> \in Before <=> x < m
  BY DEF Before
<1>4. \A x \in S : ~(x < m)
  BY <1>2, <1>3
<1>5. \A x \in S : m <= x
  BY <1>4
<1> QED BY <1>5

LEMMA CutOff ==
    ASSUME NEW t, Row(t)
    PROVE  \/ AfterFailure(t) = <<>>
           \/ \E i \in DOMAIN t : t[i] = "caught" /\ Behind(AfterFailure(t), t, i - 1)
<1>1. SUFFICES ASSUME \E i \in DOMAIN t : t[i] = "caught"
               PROVE  \E i \in DOMAIN t : t[i] = "caught" /\ Behind(AfterFailure(t), t, i - 1)
  BY DEF AfterFailure
<1> DEFINE C == {i \in DOMAIN t : t[i] = "caught"}
<1>2. DOMAIN t = 1 .. Len(t) /\ Len(t) \in Nat
  BY RowLength
<1>3. C \in SUBSET Nat /\ C # {}
  BY <1>1, <1>2
<1>4. PICK m \in C : \A x \in C : m <= x
  BY <1>3, Least
<1>5. \A j \in 1 .. m - 1 : t[j] # "caught"
  <2> TAKE j \in 1 .. m - 1
  <2>1. j \in DOMAIN t /\ ~(m <= j)
    BY <1>2, <1>3
  <2> QED BY <1>4, <2>1
<1>6. FirstCaught(t) \in DOMAIN t /\ t[FirstCaught(t)] = "caught"
  BY <1>5 DEF FirstCaught
<1> DEFINE i == FirstCaught(t)
<1>7. i \in 1 .. Len(t) /\ i \in Int
  BY <1>2, <1>6
<1>8. AfterFailure(t) = SubSeq(t, i, Len(t))
  BY <1>1 DEF AfterFailure
<1> HIDE DEF i, C
<1>9. \A j \in i .. Len(t) : t[j] \in Words
  <2> TAKE j \in i .. Len(t)
  <2>1. j \in 1 .. Len(t)
    BY <1>2, <1>7
  <2> QED BY <2>1, ElementOfSeq DEF Row
<1>10. /\ SubSeq(t, i, Len(t)) \in Seq(Words)
       /\ Len(SubSeq(t, i, Len(t))) = IF i <= Len(t) THEN Len(t) - i + 1 ELSE 0
       /\ \A j \in 1 .. Len(t) - i + 1 : SubSeq(t, i, Len(t))[j] = t[i + j - 1]
  BY <1>2, <1>7, <1>9, SubSeqProperties
<1>11. Behind(AfterFailure(t), t, i - 1)
  <2>1. Len(AfterFailure(t)) = Len(t) - i + 1
    BY <1>7, <1>8, <1>10
  <2>2. \A j \in 1 .. Len(t) - i + 1 : i + j - 1 = j + (i - 1)
    BY <1>2, <1>7
  <2>3. i - 1 \in 0 .. Len(t) /\ Len(t) - i + 1 = Len(t) - (i - 1)
    BY <1>2, <1>7
  <2> QED BY <1>8, <1>10, <2>1, <2>2, <2>3 DEF Behind, Row
<1> QED BY <1>6, <1>11 DEF i

-----------------------------------------------------------------------------
(* What the rows of steps promise.                                          *)

(* What the steps work on: v is the state before or after a step. *)
Here == [tainted |-> tainted, gui |-> gui, daemon |-> daemon, disk |-> disk]

First(t, a) == t[1] = a
First2(t, a, b) == t[1] = a /\ t[2] = b
First3(t, a, b, d) == t[1] = a /\ t[2] = b /\ t[3] = d
First4(t, a, b, d, e) == t[1] = a /\ t[2] = b /\ t[3] = d /\ t[4] = e

(* The marks of a row, each with the steps that lead to it and with what    *)
(* holds at each of them unless others acted: the backend sees the daemon   *)
(* as it is, or daemon, file or copy are already as the mark will say.      *)
Sees(v) == v.tainted \/ v.gui.running = v.daemon.up

ConnectAt(t, k, v) ==
    \/ k = 1 /\ Sees(v)
    \/ k = 2 /\ First(t, "look")
    \/ k = 3 /\ First2(t, "persist", "look")
ConnectAgainAt(t, k, v) ==
    \/ k = 1 /\ Sees(v)
    \/ k = 2 /\ First(t, "sync")
    \/ k = 3 /\ (First2(t, "install", "sync") \/ First2(t, "enable", "sync"))

Serving(v) == v.daemon.up /\ v.daemon.on
ConnectedAt(t, k, v) ==
    \/ k = 1 /\ (v.tainted \/ Serving(v))
    \/ k = 2 /\ First(t, "sync") /\ (v.tainted \/ Serving(v))
    \/ k = 3 /\ First2(t, "start", "sync") /\ (v.tainted \/ (v.daemon.up => v.daemon.on))
    \/ k = 3 /\ First2(t, "resume", "sync") /\ (v.tainted \/ v.daemon.up)
    \/ k = 4 /\ First3(t, "resume", "start", "sync") /\ (v.tainted \/ v.daemon.up)
DisconnectedAt(t, k, v) ==
    \/ k = 1 /\ (v.tainted \/ ~Serving(v))
    \/ k = 2 /\ First(t, "sync") /\ (v.tainted \/ ~Serving(v))
    \/ k = 3 /\ First2(t, "pause", "sync")

UpToDate(v) == v.tainted \/ (v.daemon.up => v.daemon.loaded = v.disk)
EditedAt(t, k, v) ==
    \/ k = 1 /\ UpToDate(v)
    \/ k = 2 /\ First(t, "sync") /\ UpToDate(v)
    \/ k = 3 /\ First2(t, "reload", "sync") /\ Sees(v)
    \/ k = 4 /\ First3(t, "persist", "reload", "sync") /\ Sees(v)

Listens(v) == v.tainted \/ (v.daemon.up /\ v.daemon.loaded.listen)
ListeningAt(t, k, v) ==
    \/ k = 1 /\ Listens(v)
    \/ k = 2 /\ First(t, "sync") /\ Listens(v)
    \/ k = 3 /\ First2(t, "resume", "sync") /\ Listens(v)
    \/ /\ \/ k = 3 /\ First2(t, "reload_always", "sync")
          \/ k = 4 /\ First3(t, "reload_always", "resume", "sync")
       /\ v.tainted \/ (v.daemon.up /\ v.disk.listen)
    \/ /\ \/ k = 4 /\ First3(t, "persist", "reload_always", "sync")
          \/ k = 5 /\ First4(t, "persist", "reload_always", "resume", "sync")
       /\ v.tainted \/ (v.daemon.up /\ v.gui.mem.listen)
    \/ k = 3 /\ First2(t, "start", "sync") /\ (v.tainted \/ (~v.daemon.up /\ v.disk.listen))
    \/ k = 4 /\ First3(t, "persist", "start", "sync")
             /\ (v.tainted \/ (~v.daemon.up /\ v.gui.mem.listen))

Ignores(v) == v.tainted \/ (v.daemon.up => ~v.daemon.loaded.listen)
QuietAt(t, k, v) ==
    \/ k = 1 /\ Ignores(v)
    \/ k = 2 /\ First(t, "sync") /\ Ignores(v)
    \/ k = 3 /\ First2(t, "pause", "sync") /\ Ignores(v)
    \/ /\ \/ k = 3 /\ First2(t, "reload_always", "sync")
          \/ k = 4 /\ First3(t, "reload_always", "pause", "sync")
       /\ v.tainted \/ ~v.disk.listen
    \/ /\ \/ k = 4 /\ First3(t, "persist", "reload_always", "sync")
          \/ k = 5 /\ First4(t, "persist", "reload_always", "pause", "sync")
       /\ v.tainted \/ ~v.gui.mem.listen
    \/ k = 3 /\ First2(t, "persist", "sync") /\ (v.tainted \/ ~v.daemon.up)

Marks == {"connect", "connect_again", "connected", "disconnected", "edited", "listening", "quiet"}
MarkAt(t, k, v) ==
    /\ t[k] = "connect" => ConnectAt(t, k, v)
    /\ t[k] = "connect_again" => ConnectAgainAt(t, k, v)
    /\ t[k] = "connected" => ConnectedAt(t, k, v)
    /\ t[k] = "disconnected" => DisconnectedAt(t, k, v)
    /\ t[k] = "edited" => EditedAt(t, k, v)
    /\ t[k] = "listening" => ListeningAt(t, k, v)
    /\ t[k] = "quiet" => QuietAt(t, k, v)

(* A look at the daemon is next, with nothing before it that may fail; so   *)
(* it is after every step that starts or ends a daemon.                     *)
SyncAt(t, i) ==
    \/ i \in DOMAIN t /\ t[i] = "sync"
    \/ i \in DOMAIN t /\ i + 1 \in DOMAIN t /\ t[i] \in {"clear", "caught"} /\ t[i + 1] = "sync"
Starters == {"start", "install", "enable", "uninstall", "disable"}
Looks(t) == \A k \in DOMAIN t : t[k] \in Starters => SyncAt(t, k + 1)

(* A row as commands make them, and one without marks. *)
Goes(t, v) == Row(t) /\ Looks(t) /\ \A k \in DOMAIN t : MarkAt(t, k, v)
Plain(t) == Row(t) /\ Looks(t) /\ \A k \in DOMAIN t : t[k] \notin Marks

ProgramInv ==
    /\ foreign \in BOOLEAN /\ tainted \in BOOLEAN
    /\ Goes(todo, Here)
    /\ foreign \/ gui.running = daemon.up \/ SyncAt(todo, 1)

LEMMA PlainGoes == ASSUME NEW t, Plain(t), NEW v PROVE Goes(t, v)
BY DEF Plain, Goes, Marks, MarkAt

LEMMA NothingPlain == Plain(<<>>)
BY EmptySeq DEF Plain, Row, Looks

(* What is left of a row looks at the daemon as the row did. *)
LEMMA BehindLooks ==
    ASSUME NEW t, Row(t), Looks(t), NEW d, NEW u, Behind(u, t, d)
    PROVE  Looks(u)
<1> SUFFICES ASSUME NEW k \in DOMAIN u, u[k] \in Starters PROVE SyncAt(u, k + 1)
  BY DEF Looks
<1>1. /\ Len(t) \in Nat /\ DOMAIN t = 1 .. Len(t) /\ Len(u) \in Nat /\ DOMAIN u = 1 .. Len(u)
      /\ d \in Nat /\ Len(u) = Len(t) - d /\ \A i \in 1 .. Len(u) : u[i] = t[i + d]
  BY RowLength DEF Behind
<1>2. k \in Nat /\ k + d \in DOMAIN t /\ t[k + d] \in Starters
  BY <1>1
<1>3. SyncAt(t, (k + d) + 1)
  BY <1>2 DEF Looks
<1>4. ASSUME NEW j \in Nat, j >= 1, j + d \in DOMAIN t PROVE j \in DOMAIN u /\ u[j] = t[j + d]
  BY <1>1, <1>4
<1>5. (k + d) + 1 = (k + 1) + d /\ ((k + d) + 1) + 1 = ((k + 1) + 1) + d
  BY <1>1, <1>2
<1> QED BY <1>2, <1>3, <1>4, <1>5 DEF SyncAt

LEMMA BehindPlain ==
    ASSUME NEW t, Plain(t), NEW d, NEW u, Behind(u, t, d)
    PROVE  Plain(u)
<1>1. Looks(u) /\ Row(u)
  BY BehindLooks DEF Plain, Behind
<1>2. \A k \in DOMAIN u : u[k] \notin Marks
  <2> TAKE k \in DOMAIN u
  <2>1. /\ Len(t) \in Nat /\ DOMAIN t = 1 .. Len(t) /\ Len(u) \in Nat /\ DOMAIN u = 1 .. Len(u)
        /\ d \in Nat /\ Len(u) = Len(t) - d /\ u[k] = t[k + d]
    BY RowLength DEF Behind, Plain
  <2>2. k + d \in DOMAIN t
    BY <2>1
  <2> QED BY <2>1, <2>2 DEF Plain
<1> QED BY <1>1, <1>2 DEF Plain

(* Nothing fails before a mark is reached, and a step that no mark needs    *)
(* has no marks behind it.                                                  *)
Leading == {"persist", "look", "sync", "install", "enable", "start", "resume", "pause", "reload",
            "reload_always"}
LEMMA LeadsOn ==
    ASSUME NEW t, Row(t), NEW v, NEW k \in DOMAIN t, MarkAt(t, k, v), t[k] \in Marks, NEW i \in 1 .. k - 1
    PROVE  t[i] \in Leading
<1>1. k \in Nat /\ i \in Nat /\ i < k
  BY RowLength
<1>2. CASE t[k] = "connect"
  BY <1>1, <1>2 DEF MarkAt, ConnectAt, First, First2, Leading
<1>3. CASE t[k] = "connect_again"
  BY <1>1, <1>3 DEF MarkAt, ConnectAgainAt, First, First2, Leading
<1>4. CASE t[k] = "connected"
  BY <1>1, <1>4 DEF MarkAt, ConnectedAt, First, First2, First3, Leading
<1>5. CASE t[k] = "disconnected"
  BY <1>1, <1>5 DEF MarkAt, DisconnectedAt, First, First2, Leading
<1>6. CASE t[k] = "edited"
  BY <1>1, <1>6 DEF MarkAt, EditedAt, First, First2, First3, Leading
<1>7. CASE t[k] = "listening"
  BY <1>1, <1>7 DEF MarkAt, ListeningAt, First, First2, First3, First4, Leading
<1>8. CASE t[k] = "quiet"
  BY <1>1, <1>8 DEF MarkAt, QuietAt, First, First2, First3, First4, Leading
<1> QED BY <1>2, <1>3, <1>4, <1>5, <1>6, <1>7, <1>8 DEF Marks

LEMMA PlainBehind ==
    ASSUME NEW t, NEW v, Goes(t, v), NEW i \in DOMAIN t, t[i] \notin Leading,
           NEW d \in Nat, d >= i \/ (d = i - 1 /\ t[i] \notin Marks), NEW u, Behind(u, t, d)
    PROVE  Plain(u)
<1>1. /\ Len(t) \in Nat /\ DOMAIN t = 1 .. Len(t) /\ Len(u) \in Nat /\ DOMAIN u = 1 .. Len(u)
      /\ Len(u) = Len(t) - d /\ \A j \in 1 .. Len(u) : u[j] = t[j + d]
      /\ Row(u) /\ Row(t) /\ Looks(t)
  BY RowLength DEF Behind, Goes
<1>2. ASSUME NEW k \in DOMAIN u, u[k] \in Marks PROVE FALSE
  <2>1. k + d \in DOMAIN t /\ u[k] = t[k + d]
    BY <1>1
  <2>3. i \in 1 .. (k + d) - 1
    <3>1. CASE d >= i
      BY <1>1, <3>1
    <3>2. CASE d = i - 1 /\ t[i] \notin Marks
      <4>1. k # 1
        BY <1>1, <1>2, <2>1, <3>2
      <4> QED BY <1>1, <3>2, <4>1
    <3> QED BY <3>1, <3>2
  <2>2. MarkAt(t, k + d, v)
    BY <2>1 DEF Goes
  <2> QED BY <1>1, <1>2, <2>1, <2>2, <2>3, LeadsOn
<1>3. Looks(u)
  BY <1>1, BehindLooks
<1> QED BY <1>1, <1>2, <1>3 DEF Plain

LEMMA CutPlain ==
    ASSUME NEW t, NEW v, Goes(t, v), t # <<>>
    PROVE  Plain(AfterFailure(Tail(t)))
<1> DEFINE r == Tail(t)
<1>0. Row(t) /\ Behind(r, t, 1) /\ Row(r)
  BY Rested DEF Goes, Behind
<1>1. CASE AfterFailure(r) = <<>>
  BY <1>1, NothingPlain
<1>2. ASSUME NEW i \in DOMAIN r, r[i] = "caught", Behind(AfterFailure(r), r, i - 1)
      PROVE  Plain(AfterFailure(r))
  <2>1. /\ Len(t) \in Nat /\ DOMAIN t = 1 .. Len(t) /\ Len(r) = Len(t) - 1 /\ DOMAIN r = 1 .. Len(r)
        /\ \A j \in 1 .. Len(r) : r[j] = t[j + 1]
    BY <1>0, RowLength DEF Behind
  <2>2. i + 1 \in DOMAIN t /\ t[i + 1] = "caught" /\ i \in Nat /\ "caught" \notin Leading
    BY <1>2, <2>1 DEF Leading
  <2> DEFINE u == AfterFailure(r)
  <2>3. Behind(u, t, i)
    <3>1. /\ Len(u) = Len(r) - (i - 1) /\ i - 1 \in 0 .. Len(r) /\ Row(u) /\ Len(u) \in Nat
          /\ \A j \in 1 .. Len(u) : u[j] = r[j + (i - 1)]
      BY <1>2, RowLength DEF Behind
    <3> HIDE DEF u, r
    <3>2. \A j \in 1 .. Len(u) : j + (i - 1) \in 1 .. Len(r) /\ (j + (i - 1)) + 1 = j + i
      BY <2>1, <2>2, <3>1
    <3>3. \A j \in 1 .. Len(u) : u[j] = t[j + i]
      BY <2>1, <3>1, <3>2
    <3>4. i \in 0 .. Len(t) /\ Len(u) = Len(t) - i
      BY <2>1, <2>2, <3>1
    <3> QED BY <3>1, <3>3, <3>4 DEF Behind
  <2>4. t[i + 1] \notin Marks /\ i = (i + 1) - 1 /\ i \in Nat
    BY <2>2 DEF Marks
  <2> HIDE DEF u, r
  <2> QED BY <2>2, <2>3, <2>4, PlainBehind DEF u
<1> QED BY <1>0, <1>1, <1>2, CutOff

(* A mark depends on the steps before it and on nothing behind it. *)
LEMMA MarkLocal ==
    ASSUME NEW t, NEW u, NEW v, NEW k \in Nat \ {0}, \A i \in 1 .. k : u[i] = t[i], MarkAt(t, k, v)
    PROVE  MarkAt(u, k, v)
<1>0. /\ u[k] = t[k] /\ u[1] = t[1]
      /\ k > 1 => u[2] = t[2]
      /\ k > 2 => u[3] = t[3]
      /\ k > 3 => u[4] = t[4]
  <2>1. 1 \in 1 .. k /\ k \in 1 .. k /\ (k > 1 => 2 \in 1 .. k) /\ (k > 2 => 3 \in 1 .. k)
        /\ (k > 3 => 4 \in 1 .. k)
    OBVIOUS
  <2> QED BY <2>1
<1>1. t[k] = "connect" => ConnectAt(u, k, v)
  BY <1>0 DEF MarkAt, ConnectAt, First, First2
<1>2. t[k] = "connect_again" => ConnectAgainAt(u, k, v)
  BY <1>0 DEF MarkAt, ConnectAgainAt, First, First2
<1>3. t[k] = "connected" => ConnectedAt(u, k, v)
  BY <1>0 DEF MarkAt, ConnectedAt, First, First2, First3
<1>4. t[k] = "disconnected" => DisconnectedAt(u, k, v)
  BY <1>0 DEF MarkAt, DisconnectedAt, First, First2
<1>5. t[k] = "edited" => EditedAt(u, k, v)
  BY <1>0 DEF MarkAt, EditedAt, First, First2, First3
<1>6. t[k] = "listening" => ListeningAt(u, k, v)
  BY <1>0 DEF MarkAt, ListeningAt, First, First2, First3, First4
<1>7. t[k] = "quiet" => QuietAt(u, k, v)
  BY <1>0 DEF MarkAt, QuietAt, First, First2, First3, First4
<1> QED BY <1>0, <1>1, <1>2, <1>3, <1>4, <1>5, <1>6, <1>7 DEF MarkAt

(* New steps before a row without marks. *)
LEMMA JoinedLooks ==
    ASSUME NEW s, Row(s), Looks(s), NEW r, Row(r), Looks(r)
    PROVE  Looks(s \o r)
<1> DEFINE t == s \o r
<1>1. /\ Row(t) /\ Len(t) = Len(s) + Len(r)
      /\ \A i \in 1 .. Len(s) : t[i] = s[i]
      /\ \A i \in 1 .. Len(r) : t[i + Len(s)] = r[i]
  <2>1. Row(t) /\ Behind(r, t, Len(s)) /\ Len(t) = Len(s) + Len(r) /\ \A i \in 1 .. Len(s) : t[i] = s[i]
    BY Joined
  <2> QED BY <2>1 DEF Behind
<1>2. /\ Len(s) \in Nat /\ DOMAIN s = 1 .. Len(s) /\ Len(r) \in Nat /\ DOMAIN r = 1 .. Len(r)
      /\ Len(t) \in Nat /\ DOMAIN t = 1 .. Len(t)
  BY <1>1, RowLength
<1> HIDE DEF t
<1> SUFFICES ASSUME NEW k \in DOMAIN t, t[k] \in Starters PROVE SyncAt(t, k + 1)
  BY DEF Looks, t
<1>3. CASE k \in DOMAIN s
  <2>1. SyncAt(s, k + 1)
    BY <1>1, <1>2, <1>3 DEF Looks
  <2>2. \A i \in DOMAIN s : i \in DOMAIN t /\ t[i] = s[i]
    BY <1>1, <1>2
  <2> QED BY <2>1, <2>2 DEF SyncAt
<1>4. CASE k \notin DOMAIN s
  <2> DEFINE j == k - Len(s)
  <2>1. j \in 1 .. Len(r) /\ j + Len(s) = k /\ j \in Nat
    BY <1>1, <1>2, <1>4
  <2>2. SyncAt(r, j + 1)
    BY <1>1, <1>2, <2>1 DEF Looks
  <2>3. \A i \in DOMAIN r : i + Len(s) \in DOMAIN t /\ t[i + Len(s)] = r[i]
    BY <1>1, <1>2
  <2>4. (j + 1) + Len(s) = k + 1 /\ ((j + 1) + 1) + Len(s) = (k + 1) + 1
    BY <1>2, <2>1
  <2> QED BY <2>2, <2>3, <2>4 DEF SyncAt
<1> QED BY <1>3, <1>4

LEMMA JoinedGoes ==
    ASSUME NEW v, NEW s, Goes(s, v), NEW r, Plain(r)
    PROVE  Goes(s \o r, v)
<1> DEFINE t == s \o r
<1>1. /\ Row(t) /\ Len(t) = Len(s) + Len(r)
      /\ \A i \in 1 .. Len(s) : t[i] = s[i]
      /\ \A i \in 1 .. Len(r) : t[i + Len(s)] = r[i]
  BY Joined DEF Behind, Goes, Plain
<1>2. /\ Len(s) \in Nat /\ DOMAIN s = 1 .. Len(s) /\ Len(r) \in Nat /\ DOMAIN r = 1 .. Len(r)
      /\ Len(t) \in Nat /\ DOMAIN t = 1 .. Len(t)
  BY <1>1, RowLength DEF Goes, Plain
<1>3. Looks(t)
  BY JoinedLooks DEF Goes, Plain
<1> HIDE DEF t
<1>4. ASSUME NEW k \in DOMAIN t PROVE MarkAt(t, k, v)
  <2>1. CASE k \in DOMAIN s
    <3>1. MarkAt(s, k, v)
      BY <2>1 DEF Goes
    <3>2. k \in Nat \ {0} /\ \A i \in 1 .. k : t[i] = s[i]
      BY <1>1, <1>2, <2>1
    <3> QED BY <3>1, <3>2, MarkLocal
  <2>2. CASE k \notin DOMAIN s
    <3>1. k - Len(s) \in DOMAIN r /\ (k - Len(s)) + Len(s) = k
      BY <1>1, <1>2, <2>2
    <3>2. t[k] \notin Marks
      BY <1>1, <1>2, <3>1 DEF Plain
    <3> QED BY <3>2 DEF MarkAt, Marks
  <2> QED BY <2>1, <2>2
<1> QED BY <1>1, <1>3, <1>4 DEF Goes, t

LEMMA JoinedPlain ==
    ASSUME NEW s, Plain(s), NEW r, Plain(r)
    PROVE  Plain(s \o r)
<1> DEFINE t == s \o r
<1>1. /\ Row(t) /\ Len(t) = Len(s) + Len(r)
      /\ \A i \in 1 .. Len(s) : t[i] = s[i]
      /\ \A i \in 1 .. Len(r) : t[i + Len(s)] = r[i]
  BY Joined DEF Behind, Plain
<1>2. /\ Len(s) \in Nat /\ DOMAIN s = 1 .. Len(s) /\ Len(r) \in Nat /\ DOMAIN r = 1 .. Len(r)
      /\ Len(t) \in Nat /\ DOMAIN t = 1 .. Len(t)
  BY <1>1, RowLength DEF Plain
<1>3. Looks(t)
  BY JoinedLooks DEF Plain
<1> HIDE DEF t
<1>4. ASSUME NEW k \in DOMAIN t PROVE t[k] \notin Marks
  <2>1. CASE k \in DOMAIN s
    BY <1>1, <1>2, <2>1 DEF Plain
  <2>2. CASE k \notin DOMAIN s
    <3>1. k - Len(s) \in DOMAIN r /\ (k - Len(s)) + Len(s) = k
      BY <1>1, <1>2, <2>2
    <3> QED BY <1>1, <1>2, <3>1 DEF Plain
  <2> QED BY <2>1, <2>2
<1> QED BY <1>1, <1>3, <1>4 DEF Plain, t

(* Short rows. *)
LEMMA Tuples ==
    ASSUME NEW S, NEW a \in S, NEW b \in S, NEW d \in S, NEW e \in S, NEW f \in S
    PROVE  /\ <<a>> \in Seq(S) /\ <<a, b>> \in Seq(S) /\ <<a, b, d>> \in Seq(S)
           /\ <<a, b, d, e>> \in Seq(S) /\ <<a, b, d, e, f>> \in Seq(S)
OBVIOUS
LEMMA RowOfOne ==
    ASSUME NEW a \in Words
    PROVE  Row(<<a>>) /\ DOMAIN <<a>> = {1}
<1>1. <<a>> \in Seq(Words)
  BY Tuples
<1>2. DOMAIN <<a>> = 1 .. 1 /\ 1 .. 1 = {1}
  OBVIOUS
<1> QED BY <1>1, <1>2 DEF Row
LEMMA RowOfTwo ==
    ASSUME NEW a \in Words, NEW b \in Words
    PROVE  Row(<<a, b>>) /\ DOMAIN <<a, b>> = {1, 2}
<1>1. <<a, b>> \in Seq(Words)
  BY Tuples
<1>2. DOMAIN <<a, b>> = 1 .. 2 /\ 1 .. 2 = {1, 2}
  OBVIOUS
<1> QED BY <1>1, <1>2 DEF Row
LEMMA RowOfThree ==
    ASSUME NEW a \in Words, NEW b \in Words, NEW d \in Words
    PROVE  Row(<<a, b, d>>) /\ DOMAIN <<a, b, d>> = {1, 2, 3}
<1>1. <<a, b, d>> \in Seq(Words)
  BY Tuples
<1>2. DOMAIN <<a, b, d>> = 1 .. 3 /\ 1 .. 3 = {1, 2, 3}
  OBVIOUS
<1> QED BY <1>1, <1>2 DEF Row
LEMMA RowOfFour ==
    ASSUME NEW a \in Words, NEW b \in Words, NEW d \in Words, NEW e \in Words
    PROVE  Row(<<a, b, d, e>>) /\ DOMAIN <<a, b, d, e>> = {1, 2, 3, 4}
<1>1. <<a, b, d, e>> \in Seq(Words)
  BY Tuples
<1>2. DOMAIN <<a, b, d, e>> = 1 .. 4 /\ 1 .. 4 = {1, 2, 3, 4}
  OBVIOUS
<1> QED BY <1>1, <1>2 DEF Row
LEMMA RowOfFive ==
    ASSUME NEW a \in Words, NEW b \in Words, NEW d \in Words, NEW e \in Words, NEW f \in Words
    PROVE  Row(<<a, b, d, e, f>>) /\ DOMAIN <<a, b, d, e, f>> = {1, 2, 3, 4, 5}
<1>1. <<a, b, d, e, f>> \in Seq(Words)
  BY Tuples
<1>2. DOMAIN <<a, b, d, e, f>> = 1 .. 5 /\ 1 .. 5 = {1, 2, 3, 4, 5}
  OBVIOUS
<1> QED BY <1>1, <1>2 DEF Row

(* The rows that have no marks. *)
LEMMA PlainOne ==
    ASSUME NEW a \in Words \ (Marks \union Starters)
    PROVE  Plain(<<a>>)
BY RowOfOne DEF Plain, Looks
LEMMA PlainTwo ==
    ASSUME NEW a \in Words \ (Marks \union Starters), NEW b \in Words \ (Marks \union Starters)
    PROVE  Plain(<<a, b>>)
BY RowOfTwo DEF Plain, Looks
LEMMA PlainRows ==
    /\ Plain(TickSteps)
    /\ Plain(<<"caught">>) /\ Plain(<<"try_connect">>) /\ Plain(<<"persist">>)
    /\ Plain(<<"request", "caught">>) /\ Plain(<<"request">>) /\ Plain(<<"persist", "sync">>)
    /\ Plain(<<"sync", "launch">>) /\ Plain(<<"start", "caught", "sync">>)
<1>0. /\ {"clear", "sync", "caught", "try_connect", "persist", "request", "launch"}
           \subseteq Words \ (Marks \union Starters)
      /\ "start" \in Words \ Marks
  BY DEF Words, Marks, Starters
<1>1. Plain(TickSteps)
  BY <1>0, RowOfThree DEF TickSteps, Plain, Looks
<1>2. Plain(<<"start", "caught", "sync">>)
  <2> DEFINE t == <<"start", "caught", "sync">>
  <2>1. Row(t) /\ DOMAIN t = {1, 2, 3}
    BY <1>0, RowOfThree
  <2>2. t[1] = "start" /\ t[2] = "caught" /\ t[3] = "sync"
    OBVIOUS
  <2> HIDE DEF t
  <2>3. SyncAt(t, 1 + 1)
    BY <2>1, <2>2 DEF SyncAt
  <2>4. Looks(t) /\ \A k \in DOMAIN t : t[k] \notin Marks
    BY <1>0, <2>1, <2>2, <2>3 DEF Looks
  <2> QED BY <2>1, <2>4 DEF Plain, t
<1> QED BY <1>0, <1>1, <1>2, PlainOne, PlainTwo
-----------------------------------------------------------------------------
(* Types. *)

Apart(m) == m \in Config /\ m.inbound \cap m.members = {}
GuiType == [mem : Config, running : BOOLEAN, active : BOOLEAN, installed : BOOLEAN,
            disabled : BOOLEAN, fresh : BOOLEAN, online : BOOLEAN, at : Time]
DaemonType == [up : BOOLEAN, on : BOOLEAN, serviced : BOOLEAN, loaded : Config]
ServiceType == [installed : BOOLEAN, disabled : BOOLEAN, current : BOOLEAN]
GuiOK(g) == g \in GuiType /\ Apart(g.mem) /\ (g.online => g.active) /\ (g.active => g.running)
ProcessesOK(d, s) ==
    /\ d \in DaemonType /\ s \in ServiceType /\ Apart(d.loaded)
    /\ d.serviced => d.up /\ s.installed

TypeInv ==
    /\ now \in 1 .. MaxTime /\ os \in Platforms
    /\ Apart(disk) /\ ProcessesOK(daemon, service) /\ GuiOK(gui)
    /\ peer \in [reachable : BOOLEAN, at : Time]
    /\ sent \subseteq 1 .. MaxTime

LEMMA TypeImplies == TypeInv <=> TypeOK /\ now \in 1 .. MaxTime
BY DEF TypeInv, TypeOK, Apart, ProcessesOK, GuiOK, GuiType, DaemonType, ServiceType

LEMMA Times == 0 \in Time /\ 1 \in 1 .. MaxTime /\ 1 .. MaxTime \subseteq Time
BY GuiBackendAssumption DEF Time

LEMMA ConfigIs ==
    ASSUME NEW m \in Config
    PROVE  /\ m.members \subseteq People /\ m.inbound \subseteq People /\ m.listen \in BOOLEAN
           /\ m.invited \in BOOLEAN /\ m.outbound \in Time /\ m.other \in 0 .. 1
BY DEF Config

LEMMA FirstApart == ASSUME NEW listen \in BOOLEAN PROVE Apart(FirstConfig(listen))
BY Times DEF Apart, FirstConfig, Config

(* What commands make of the copy. *)
LEMMA MembersApart ==
    ASSUME NEW m, Apart(m), NEW p \in People
    PROVE  /\ Apart([m EXCEPT !.members = @ \cup {p}, !.inbound = @ \ {p}])
           /\ Apart([m EXCEPT !.members = @ \ {p}])
<1>1. m \in Config /\ m.members \subseteq People /\ m.inbound \subseteq People
  BY ConfigIs DEF Apart
<1> DEFINE a == [m EXCEPT !.members = @ \cup {p}, !.inbound = @ \ {p}]
           b == [m EXCEPT !.members = @ \ {p}]
<1>2. a \in Config /\ a.members = m.members \cup {p} /\ a.inbound = m.inbound \ {p}
  BY <1>1 DEF Config
<1>3. b \in Config /\ b.members = m.members \ {p} /\ b.inbound = m.inbound
  BY <1>1 DEF Config
<1> HIDE DEF a, b
<1>4. Apart(a)
  BY <1>2 DEF Apart
<1>5. Apart(b)
  BY <1>3 DEF Apart
<1> QED BY <1>4, <1>5 DEF a, b

LEMMA OthersApart ==
    ASSUME NEW m, Apart(m)
    PROVE  /\ Apart(WithInvite(m)) /\ Apart([m EXCEPT !.other = Flipped(@)])
           /\ \A b \in BOOLEAN : Apart([m EXCEPT !.listen = b])
           /\ \A t \in Time : Apart([m EXCEPT !.outbound = t])
<1>1. m \in Config /\ Flipped(m.other) \in 0 .. 1
  BY ConfigIs DEF Apart, Flipped
<1>2. Apart(WithInvite(m))
  BY <1>1 DEF Apart, WithInvite, Config
<1>3. Apart([m EXCEPT !.other = Flipped(@)])
  BY <1>1 DEF Apart, Config
<1>4. \A b \in BOOLEAN : Apart([m EXCEPT !.listen = b])
  BY <1>1 DEF Apart, Config
<1>5. \A t \in Time : Apart([m EXCEPT !.outbound = t])
  BY <1>1 DEF Apart, Config
<1> QED BY <1>2, <1>3, <1>4, <1>5

LEMMA GuiCopy ==
    ASSUME NEW g, GuiOK(g), NEW m, Apart(m)
    PROVE  GuiOK([g EXCEPT !.mem = m]) /\ [g EXCEPT !.mem = m].mem = m
BY DEF GuiOK, GuiType, Apart

LEMMA GuiFresh ==
    ASSUME NEW g, GuiOK(g), NEW b \in BOOLEAN
    PROVE  GuiOK([g EXCEPT !.fresh = b]) /\ [g EXCEPT !.fresh = b].mem = g.mem
BY DEF GuiOK, GuiType

LEMMA SyncedOK ==
    ASSUME TypeInv, NEW fault
    PROVE  /\ GuiOK(Synced(fault)) /\ Synced(fault).mem \in {disk, gui.mem}
           /\ fault = "none" => Synced(fault).running = daemon.up
<1> DEFINE a == [gui EXCEPT !.mem = IF fault = "load" THEN @ ELSE disk]
           b == ServiceSeen(a, fault = "service")
           c == StatusSeen(b, fault = "status")
<1>1. GuiOK(a) /\ a.mem \in {disk, gui.mem}
  BY GuiCopy DEF TypeInv, GuiOK
<1>2. GuiOK(b) /\ b.mem = a.mem
  <2>1. service.installed \in BOOLEAN /\ service.disabled \in BOOLEAN
    BY DEF TypeInv, ProcessesOK, ServiceType
  <2> HIDE DEF a
  <2> QED BY <1>1, <2>1 DEF ServiceSeen, GuiOK, GuiType
<1>3. /\ daemon.up \in BOOLEAN /\ Active \in BOOLEAN /\ (Active => daemon.up)
      /\ peer.reachable \in BOOLEAN /\ peer.at \in Time
  BY DEF TypeInv, ProcessesOK, DaemonType, Active, HasPeers
<1>4. GuiOK(c) /\ c.mem = b.mem /\ (fault # "status" => c.running = daemon.up)
  <2>1. CASE fault = "status"
    <3>1. c = [b EXCEPT !.running = FALSE, !.active = FALSE, !.online = FALSE]
      BY <2>1 DEF StatusSeen
    <3> HIDE DEF a, b, c
    <3> QED BY <1>2, <2>1, <3>1 DEF GuiOK, GuiType
  <2>2. CASE fault # "status"
    <3> DEFINE d == [b EXCEPT !.running = daemon.up, !.active = Active]
    <3>1. c = PeerSeen(d)
      BY <2>2 DEF StatusSeen
    <3>2. d \in GuiType /\ d.mem = b.mem /\ d.running = daemon.up /\ d.active = Active /\ Apart(d.mem)
      <4> HIDE DEF a, b
      <4> QED BY <1>2, <1>3 DEF GuiOK, GuiType
    <3> HIDE DEF a, b, c, d
    <3>3. CASE ~d.active
      <4>1. c = [d EXCEPT !.online = FALSE, !.at = 0]
        BY <3>1, <3>3 DEF PeerSeen
      <4> QED BY <1>3, <3>2, <3>3, <4>1, Times DEF GuiOK, GuiType
    <3>4. CASE d.active
      <4> DEFINE sticky == d.online /\ d.at = now
                 online == peer.reachable \/ sticky
                 at == IF peer.at > 0 THEN peer.at
                       ELSE IF peer.reachable \/ sticky THEN d.at ELSE 0
      <4>1. c = [d EXCEPT !.online = online, !.at = at]
        BY <3>1, <3>4 DEF PeerSeen
      <4>2. online \in BOOLEAN /\ at \in Time /\ d.at \in Time
        BY <1>3, <3>2, Times DEF GuiType
      <4> HIDE DEF online, at
      <4> QED BY <1>3, <3>2, <3>4, <4>1, <4>2 DEF GuiOK, GuiType
    <3> QED BY <3>3, <3>4
  <2> QED BY <2>1, <2>2
<1>5. Synced(fault) = c
  BY DEF Synced
<1> HIDE DEF a, b, c
<1> QED BY <1>1, <1>2, <1>4, <1>5

LEMMA StartedOK ==
    ASSUME TypeInv, NEW b \in BOOLEAN
    PROVE  /\ Started(b) \in DaemonType /\ Started(b).loaded = disk /\ Started(b).up /\ Started(b).on
           /\ Started(b).serviced = b /\ Apart(Started(b).loaded)
BY DEF Started, DaemonType, TypeInv, Apart

LEMMA StoppedOK ==
    /\ Stopped \in DaemonType /\ ~Stopped.up /\ ~Stopped.on /\ ~Stopped.serviced
    /\ Stopped.loaded = FirstConfig(FALSE) /\ Apart(Stopped.loaded)
    /\ Unseen \in [reachable : BOOLEAN, at : Time]
<1>1. Apart(FirstConfig(FALSE))
  BY FirstApart
<1> QED BY <1>1, Times DEF Stopped, DaemonType, Unseen, Apart

LEMMA DaemonEdits ==
    ASSUME NEW d, NEW s, ProcessesOK(d, s)
    PROVE  /\ \A b \in BOOLEAN : ProcessesOK([d EXCEPT !.on = b], s)
           /\ \A m : Apart(m) => ProcessesOK([d EXCEPT !.loaded = m], s)
           /\ \A m, b : Apart(m) /\ b \in BOOLEAN => ProcessesOK([d EXCEPT !.loaded = m, !.on = b], s)
<1>1. \A b \in BOOLEAN : ProcessesOK([d EXCEPT !.on = b], s)
  BY DEF ProcessesOK, DaemonType
<1>2. \A m : Apart(m) => ProcessesOK([d EXCEPT !.loaded = m], s)
  BY DEF ProcessesOK, DaemonType, Apart
<1>3. \A m, b : Apart(m) /\ b \in BOOLEAN => ProcessesOK([d EXCEPT !.loaded = m, !.on = b], s)
  BY DEF ProcessesOK, DaemonType, Apart
<1> QED BY <1>1, <1>2, <1>3

(* A service that stays installed, or that no daemon runs as. *)
LEMMA ServiceEdits ==
    ASSUME NEW d, NEW s, ProcessesOK(d, s), NEW n \in ServiceType, d.serviced => n.installed
    PROVE  ProcessesOK(d, n)
BY DEF ProcessesOK

LEMMA TypeInit == Init => TypeInv
<1> SUFFICES ASSUME Init PROVE TypeInv
  OBVIOUS
<1>1. Apart(disk)
  BY FirstApart, GuiBackendAssumption DEF Init
<1>2. ProcessesOK(daemon, service)
  BY StoppedOK DEF Init, ProcessesOK, ServiceType
<1>3. GuiOK(gui)
  BY <1>1, Times DEF Init, GuiOK, GuiType, Apart
<1>4. peer \in [reachable : BOOLEAN, at : Time] /\ now \in 1 .. MaxTime
  BY StoppedOK, Times DEF Init
<1> QED BY <1>1, <1>2, <1>3, <1>4 DEF Init, TypeInv

LEMMA Restarted ==
    ASSUME TypeInv
    PROVE  GuiOK([mem |-> disk, running |-> FALSE, active |-> FALSE, installed |-> FALSE,
                  disabled |-> FALSE, fresh |-> FALSE, online |-> FALSE, at |-> 0])
BY Times DEF TypeInv, GuiOK, GuiType, Apart

(* A command, by the copy it starts with. *)
LEMMA TypeBegin ==
    ASSUME TypeInv, NEW mem, Apart(mem), NEW steps, Begin(mem, steps)
    PROVE  TypeInv'
<1>1. GuiOK(gui')
  BY GuiCopy DEF TypeInv, Begin
<1> QED BY <1>1 DEF TypeInv, Begin, world

LEMMA TypeCommands ==
    ASSUME TypeInv, Commands \/ TickCommand
    PROVE  TypeInv'
<1>0. Apart(gui.mem) /\ GuiOK(gui)
  BY DEF TypeInv, GuiOK
<1>1. ASSUME NEW p \in People, AddParticipant(p) \/ RemoveParticipant(p) \/ AcceptJoinRequest(p)
      PROVE  TypeInv'
  BY <1>0, <1>1, MembersApart, TypeBegin DEF AddParticipant, RemoveParticipant, AcceptJoinRequest
<1>2. CASE ImportInvite \/ RequestJoin \/ Connect \/ Disconnect \/ ServiceCommand
  BY <1>0, <1>2, OthersApart, TypeBegin
     DEF ImportInvite, RequestJoin, Connect, Disconnect, ServiceCommand
<1>3. CASE ChangeNetworks \/ ChangeRelays \/ RenameNetwork \/ UpdateSettings
  BY <1>0, <1>3, OthersApart, TypeBegin
     DEF ChangeNetworks, ChangeRelays, RenameNetwork, UpdateSettings
<1>4. CASE UpdateSettingsRejected
  <2> DEFINE m == [gui.mem EXCEPT !.other = Flipped(@)]
  <2>1. gui' = [gui EXCEPT !.mem = m]
    BY <1>4 DEF UpdateSettingsRejected
  <2>2. Apart(m)
    BY <1>0, OthersApart
  <2> HIDE DEF m
  <2>3. GuiOK(gui')
    BY <1>0, <2>1, <2>2, GuiCopy
  <2> QED BY <1>4, <2>3 DEF TypeInv, UpdateSettingsRejected, world
<1>5. ASSUME NEW enabled \in BOOLEAN, SetJoinRequests(enabled) PROVE TypeInv'
  BY <1>0, <1>5, OthersApart, TypeBegin DEF SetJoinRequests
<1>6. CASE TickCommand
  BY <1>6 DEF TickCommand, TypeInv, world
<1> QED BY <1>1, <1>2, <1>3, <1>4, <1>5, <1>6 DEF Commands

LEMMA TypeSteps ==
    ASSUME TypeInv, Steps
    PROVE  TypeInv'
<1>0. /\ Apart(gui.mem) /\ GuiOK(gui) /\ Apart(disk) /\ ProcessesOK(daemon, service)
      /\ gui.fresh \in BOOLEAN /\ gui.installed \in BOOLEAN /\ gui.disabled \in BOOLEAN
      /\ gui.mem.outbound \in Time
  BY DEF TypeInv, GuiOK, GuiType, Apart, Config
<1>1. /\ service \in ServiceType /\ daemon \in DaemonType
      /\ service.installed \in BOOLEAN /\ service.disabled \in BOOLEAN /\ service.current \in BOOLEAN
      /\ daemon.up \in BOOLEAN /\ daemon.on \in BOOLEAN /\ daemon.serviced \in BOOLEAN
  BY <1>0 DEF ProcessesOK, ServiceType, DaemonType
<1>2. CASE FailStep \/ TryConnect \/ RequestNothing \/ Launch \/ Pass \/ ChooseConnect
  BY <1>2 DEF FailStep, TryConnect, RequestNothing, Launch, Pass, ChooseConnect, TypeInv, world
<1>3. CASE SaveLocally
  BY <1>0, <1>3 DEF SaveLocally, TypeInv
<1>4. CASE SaveViaDaemon
  <2>1. PICK b \in BOOLEAN : daemon' = [daemon EXCEPT !.loaded = gui.mem, !.on = b]
    <3>1. (daemon.on \/ ~service.current) \in BOOLEAN
      BY <1>1
    <3>2. daemon' = [daemon EXCEPT !.loaded = gui.mem, !.on = daemon.on \/ ~service.current]
      BY <1>4 DEF SaveViaDaemon
    <3> QED BY <3>1, <3>2
  <2>2. ProcessesOK(daemon', service)
    <3>1. \A m, a : Apart(m) /\ a \in BOOLEAN => ProcessesOK([daemon EXCEPT !.loaded = m, !.on = a], service)
      BY <1>0, DaemonEdits
    <3>2. ProcessesOK([daemon EXCEPT !.loaded = gui.mem, !.on = b], service)
      BY <1>0, <3>1
    <3> QED BY <2>1, <3>2
  <2>3. service' \in ServiceType /\ service'.installed = service.installed
    BY <1>1, <1>4 DEF SaveViaDaemon, ServiceType
  <2>4. ProcessesOK(daemon', service')
    BY <2>2, <2>3, ServiceEdits DEF ProcessesOK
  <2>5. GuiOK(gui')
    <3>1. (gui.fresh /\ service.current) \in BOOLEAN
      BY <1>0, <1>1
    <3> QED BY <1>0, <1>4, <3>1, GuiFresh DEF SaveViaDaemon
  <2> QED BY <1>0, <1>4, <2>4, <2>5 DEF SaveViaDaemon, TypeInv
<1>5. CASE Reload
  <2>1. daemon' \in {daemon, [daemon EXCEPT !.loaded = disk]}
    BY <1>5 DEF Reload
  <2>2. ProcessesOK(daemon', service)
    <3>1. ProcessesOK([daemon EXCEPT !.loaded = disk], service)
      BY <1>0, DaemonEdits
    <3> QED BY <1>0, <2>1, <3>1
  <2> QED BY <1>5, <2>2 DEF Reload, TypeInv
<1>6. CASE Sync
  <2>1. \E fault : gui' = Synced(fault)
    BY <1>6 DEF Sync
  <2>2. GuiOK(gui')
    BY <2>1, SyncedOK
  <2> QED BY <1>6, <2>2 DEF Sync, TypeInv, world
<1>7. CASE Clear
  <2>1. gui' \in {gui, [gui EXCEPT !.mem = [gui.mem EXCEPT !.outbound = 0]]}
    BY <1>7 DEF Clear
  <2>2. Apart([gui.mem EXCEPT !.outbound = 0])
    BY <1>0, OthersApart, Times
  <2>3. GuiOK(gui') /\ Apart(gui'.mem)
    BY <1>0, <2>1, <2>2, GuiCopy
  <2>4. disk' \in {disk, gui'.mem}
    BY <1>7 DEF Clear
  <2> QED BY <1>0, <1>7, <2>3, <2>4 DEF Clear, TypeInv
<1>8. CASE Resume \/ Pause
  <2>1. (daemon.on \/ daemon.up) \in BOOLEAN
    BY <1>1
  <2>2. PICK b \in BOOLEAN : daemon' = [daemon EXCEPT !.on = b]
    BY <1>8, <2>1 DEF Resume, Pause
  <2>3. ProcessesOK(daemon', service)
    <3>1. ProcessesOK([daemon EXCEPT !.on = b], service)
      BY <1>0, DaemonEdits
    <3> QED BY <2>2, <3>1
  <2> QED BY <1>8, <2>3, StoppedOK DEF Resume, Pause, TypeInv
<1>9. CASE Start
  <2>1. StartEnables \in BOOLEAN
    BY <1>0 DEF StartEnables
  <2>2. service' \in ServiceType /\ service'.installed = service.installed
    BY <1>1, <1>9, <2>1 DEF Start, ServiceType
  <2>3. daemon' = daemon \/ daemon' = Started(StartEnables /\ service.installed)
    BY <1>9 DEF Start
  <2>4. (StartEnables /\ service.installed) \in BOOLEAN
    BY <1>1, <2>1
  <2>5. ProcessesOK(daemon', service')
    <3>1. CASE daemon' = daemon
      BY <1>0, <2>2, <3>1, ServiceEdits DEF ProcessesOK
    <3>2. CASE daemon' = Started(StartEnables /\ service.installed)
      BY <2>2, <2>4, <3>2, StartedOK DEF ProcessesOK
    <3> QED BY <2>3, <3>1, <3>2
  <2>6. GuiOK(gui')
    <3>1. (gui.fresh /\ ~StartEnables) \in BOOLEAN
      BY <1>0, <2>1
    <3> QED BY <1>0, <1>9, <3>1, GuiFresh DEF Start
  <2> QED BY <1>9, <2>5, <2>6 DEF Start, TypeInv
<1>10. CASE Install \/ Enable
  <2>1. service' \in ServiceType /\ (service'.installed = (Install \/ service.installed))
    <3>1. CASE Install
      BY <3>1 DEF Install, ServiceType
    <3>2. CASE Enable /\ ~Install
      BY <1>1, <3>2 DEF Enable, ServiceType
    <3> QED BY <1>10, <3>1, <3>2
  <2>2. \/ daemon' = Started(TRUE) /\ service'.installed
        \/ daemon' = daemon
    BY <1>10, <2>1 DEF Install, Enable, ServiceUp
  <2>3. ProcessesOK(daemon', service')
    <3>1. CASE daemon' = daemon
      BY <1>0, <2>1, <3>1, ServiceEdits DEF ProcessesOK
    <3>2. CASE daemon' = Started(TRUE) /\ service'.installed
      BY <2>1, <3>2, StartedOK DEF ProcessesOK
    <3> QED BY <2>2, <3>1, <3>2
  <2>4. GuiOK(gui')
    BY <1>0, <1>10, GuiFresh DEF Install, Enable
  <2> QED BY <1>10, <2>3, <2>4 DEF Install, Enable, TypeInv
<1>11. CASE Uninstall \/ Disable
  <2>1. service' \in ServiceType
    <3>1. [service EXCEPT !.installed = FALSE, !.disabled = FALSE] \in ServiceType
      BY <1>1 DEF ServiceType
    <3>2. [service EXCEPT !.disabled = @ \/ service.installed] \in ServiceType
      BY <1>1 DEF ServiceType
    <3> QED BY <1>11, <3>1, <3>2 DEF Uninstall, Disable, EndService
  <2>2. daemon' = Stopped \/ (daemon' = daemon /\ ~daemon.serviced)
    BY <1>11 DEF Uninstall, Disable, EndService
  <2>3. ProcessesOK(daemon', service')
    BY <1>0, <2>1, <2>2, StoppedOK DEF ProcessesOK
  <2>4. GuiOK(gui')
    BY <1>0, <1>11, GuiFresh DEF Uninstall, Disable, EndService
  <2>5. peer' \in {peer, Unseen} /\ UNCHANGED <<os, disk, now, sent>>
    BY <1>11 DEF Uninstall, Disable, EndService
  <2> QED BY <2>3, <2>4, <2>5, StoppedOK DEF TypeInv
<1>12. CASE Request
  <2>1. now \in Time /\ now \in 1 .. MaxTime
    BY Times DEF TypeInv
  <2>2. gui' = [gui EXCEPT !.mem = [gui.mem EXCEPT !.outbound = now]]
    BY <1>12 DEF Request
  <2>3. GuiOK(gui')
    BY <1>0, <2>1, <2>2, OthersApart, GuiCopy
  <2> QED BY <1>12, <2>1, <2>3 DEF Request, TypeInv, world
<1> QED BY <1>2, <1>3, <1>4, <1>5, <1>6, <1>7, <1>8, <1>9, <1>10, <1>11, <1>12 DEF Steps

LEMMA TypeOthers ==
    ASSUME TypeInv,
           \/ Reopen \/ DaemonExits \/ ServiceStarts \/ OtherClient
           \/ \E p \in People : ReceiveJoinRequest(p)
           \/ Handshake \/ PeerSilent \/ Tick \/ ServiceStatusAges
    PROVE  TypeInv'
<1>0. /\ Apart(disk) /\ ProcessesOK(daemon, service) /\ GuiOK(gui) /\ now \in Time
      /\ service \in ServiceType /\ daemon \in DaemonType /\ Apart(daemon.loaded)
      /\ service.installed \in BOOLEAN /\ daemon.on \in BOOLEAN
  BY Times DEF TypeInv, ProcessesOK, ServiceType, DaemonType
<1>1. CASE Reopen
  BY <1>0, <1>1, Restarted DEF Reopen, TypeInv, world
<1>2. CASE DaemonExits
  BY <1>0, <1>2, StoppedOK DEF DaemonExits, TypeInv, ProcessesOK
<1>3. CASE ServiceStarts
  BY <1>0, <1>3, StartedOK DEF ServiceStarts, TypeInv, ProcessesOK
<1>4. CASE OtherClient
  <2>1. ProcessesOK(daemon', service')
    <3>1. CASE daemon' = (IF daemon.up THEN [daemon EXCEPT !.on = ~@] ELSE Started(FALSE)) /\ service' = service
      <4>1. ProcessesOK([daemon EXCEPT !.on = ~@], service)
        BY <1>0, DaemonEdits
      <4>2. ProcessesOK(Started(FALSE), service)
        BY <1>0, StartedOK DEF ProcessesOK
      <4> QED BY <3>1, <4>1, <4>2
    <3>2. CASE /\ service' = [service EXCEPT !.installed = ~@, !.disabled = FALSE]
               /\ daemon' = IF service.installed THEN IF daemon.serviced THEN Stopped ELSE daemon
                            ELSE ServiceUp
      <4>1. service' \in ServiceType /\ service'.installed = ~service.installed
        BY <1>0, <3>2 DEF ServiceType
      <4>2. \/ daemon' = Stopped
            \/ daemon' = daemon /\ (~daemon.serviced \/ service'.installed)
            \/ daemon' = Started(TRUE) /\ service'.installed
        BY <1>0, <3>2, <4>1 DEF ServiceUp
      <4> QED BY <1>0, <4>1, <4>2, StoppedOK, StartedOK DEF ProcessesOK
    <3> QED BY <1>4, <3>1, <3>2 DEF OtherClient
  <2>2. peer' \in {peer, Unseen}
    BY <1>4 DEF OtherClient
  <2> QED BY <1>4, <2>1, <2>2, StoppedOK DEF OtherClient, TypeInv
<1>5. ASSUME NEW p \in People, ReceiveJoinRequest(p) PROVE TypeInv'
  <2>1. disk' = [daemon.loaded EXCEPT !.inbound = daemon.loaded.inbound \cup {p}]
    BY <1>5 DEF ReceiveJoinRequest
  <2>2. disk' \in Config /\ disk'.inbound = daemon.loaded.inbound \cup {p}
        /\ disk'.members = daemon.loaded.members
    BY <1>0, <2>1 DEF Apart, Config
  <2>3. Apart(disk')
    BY <1>0, <1>5, <2>2 DEF Apart, ReceiveJoinRequest
  <2>4. ProcessesOK(daemon', service)
    BY <1>0, <1>5, <2>3, DaemonEdits DEF ReceiveJoinRequest
  <2> QED BY <1>5, <2>3, <2>4 DEF ReceiveJoinRequest, TypeInv
<1>6. CASE Handshake \/ PeerSilent
  <2>1. peer' \in [reachable : BOOLEAN, at : Time]
    <3>1. CASE Handshake
      BY <1>0, <3>1 DEF Handshake
    <3>2. CASE PeerSilent
      BY <3>2 DEF PeerSilent, TypeInv
    <3> QED BY <1>6, <3>1, <3>2
  <2> QED BY <1>6, <2>1 DEF Handshake, PeerSilent, TypeInv
<1>7. CASE Tick
  <2>1. now' \in 1 .. MaxTime
    BY <1>7, GuiBackendAssumption DEF Tick, TypeInv
  <2> QED BY <1>7, <2>1 DEF Tick, TypeInv
<1>8. CASE ServiceStatusAges
  BY <1>0, <1>8, GuiFresh DEF ServiceStatusAges, TypeInv, world
<1> QED BY <1>1, <1>2, <1>3, <1>4, <1>5, <1>6, <1>7, <1>8

LEMMA TypeStep == TypeInv /\ [Next]_vars => TypeInv'
<1> SUFFICES ASSUME TypeInv, [Next]_vars PROVE TypeInv'
  OBVIOUS
<1>1. CASE UNCHANGED vars
  BY <1>1 DEF vars, TypeInv
<1> QED BY <1>1, TypeCommands, TypeSteps, TypeOthers DEF Next

(* Configurations, daemon, service, copy and peer keep their types, and no  *)
(* row of calls a command makes, failing or interrupted anywhere, leaves a  *)
(* service's daemon without its service, or a peer online in a session that *)
(* is not active (sync_daemon_state, refresh_peer_runtime_status).          *)
THEOREM GuiTypeCorrect == Spec => []TypeOK
<1>1. Spec => []TypeInv
  BY TypeInit, TypeStep, PTL DEF Spec
<1> QED BY <1>1, TypeImplies, PTL
-----------------------------------------------------------------------------
(* What one step of a row does to the marks behind it: v is the state       *)
(* before the step, w the one after it, u what is left of the row t.        *)

View == [tainted : BOOLEAN, gui : GuiType, daemon : DaemonType, disk : Config]
Follows(t, u, k) ==
    /\ k \in Nat \ {0} /\ u[k] = t[k + 1] /\ u[1] = t[2]
    /\ k >= 2 => u[2] = t[3]
    /\ k >= 3 => u[3] = t[4]
    /\ k >= 4 => u[4] = t[5]

LEMMA TailFollows ==
    ASSUME NEW t, Row(t), t # <<>>, NEW k \in DOMAIN Tail(t)
    PROVE  Follows(t, Tail(t), k) /\ k + 1 \in DOMAIN t
<1> DEFINE u == Tail(t)
<1>1. /\ Row(u) /\ Len(u) = Len(t) - 1 /\ \A i \in 1 .. Len(u) : u[i] = t[i + 1]
  BY Rested DEF Behind
<1>2. Len(t) \in Nat /\ DOMAIN t = 1 .. Len(t) /\ Len(u) \in Nat /\ DOMAIN u = 1 .. Len(u)
  BY <1>1, RowLength
<1> HIDE DEF u
<1>3. k \in 1 .. Len(u)
  BY <1>2 DEF u
<1>4. /\ u[k] = t[k + 1] /\ u[1] = t[2]
      /\ k >= 2 => u[2] = t[3]
      /\ k >= 3 => u[3] = t[4]
      /\ k >= 4 => u[4] = t[5]
  <2>1. /\ 1 \in 1 .. Len(u) /\ (k >= 2 => 2 \in 1 .. Len(u)) /\ (k >= 3 => 3 \in 1 .. Len(u))
        /\ (k >= 4 => 4 \in 1 .. Len(u))
    BY <1>2, <1>3
  <2>2. 1 + 1 = 2 /\ 2 + 1 = 3 /\ 3 + 1 = 4 /\ 4 + 1 = 5
    OBVIOUS
  <2> QED BY <1>1, <1>3, <2>1, <2>2
<1>5. k \in Nat \ {0} /\ k + 1 \in DOMAIN t
  BY <1>1, <1>2, <1>3
<1> QED BY <1>4, <1>5 DEF Follows, u

(* persist *)
LEMMA SavedMarks ==
    ASSUME NEW v \in View, NEW w \in View, NEW t, NEW u, NEW k, Follows(t, u, k),
           MarkAt(t, k + 1, v), t[1] = "persist",
           w.tainted = v.tainted, w.gui = v.gui, w.daemon = v.daemon, w.disk = v.gui.mem
    PROVE  MarkAt(u, k, w)
<1>1. ~(u[k] \in {"connect_again", "connected", "disconnected"})
  BY DEF MarkAt, Follows, ConnectAgainAt, ConnectedAt, DisconnectedAt, First, First2, First3
<1>2. u[k] = "connect" => ConnectAt(u, k, w)
  BY DEF MarkAt, Follows, ConnectAt, First, First2
<1>3. u[k] = "edited" => EditedAt(u, k, w)
  BY DEF MarkAt, Follows, EditedAt, First, First2, First3, Sees
<1>4. u[k] = "listening" => ListeningAt(u, k, w)
  BY DEF MarkAt, Follows, ListeningAt, First, First2, First3, First4
<1>5. u[k] = "quiet" => QuietAt(u, k, w)
  BY DEF MarkAt, Follows, QuietAt, First, First2, First3, First4, Ignores
<1> QED BY <1>1, <1>2, <1>3, <1>4, <1>5 DEF MarkAt

(* persist through the daemon, which takes the file up, with no reload after it *)
LEMMA AppliedMarks ==
    ASSUME NEW v \in View, NEW w \in View, NEW t, NEW u, NEW k, Follows(t, u, k),
           MarkAt(t, k + 1, v), t[1] = "persist", t[2] # "reload",
           w.tainted = v.tainted, w.gui.mem = v.gui.mem, v.daemon.up, w.daemon.up, w.disk = v.gui.mem
    PROVE  MarkAt(u, k, w)
<1>1. ~(u[k] \in {"connect_again", "connected", "disconnected", "edited"})
  BY DEF MarkAt, Follows, ConnectAgainAt, ConnectedAt, DisconnectedAt, EditedAt, First, First2, First3
<1>2. u[k] = "connect" => ConnectAt(u, k, w)
  BY DEF MarkAt, Follows, ConnectAt, First, First2
<1>3. u[k] = "listening" => ListeningAt(u, k, w)
  BY DEF MarkAt, Follows, ListeningAt, First, First2, First3, First4
<1>4. u[k] = "quiet" => QuietAt(u, k, w)
  BY DEF MarkAt, Follows, QuietAt, First, First2, First3, First4, Ignores
<1> QED BY <1>1, <1>2, <1>3, <1>4 DEF MarkAt

LEMMA AppliedEdit ==
    ASSUME NEW v \in View, NEW w \in View, NEW t, NEW s, NEW u, NEW k,
           Follows(t, s, k + 1), Follows(s, u, k),
           MarkAt(t, k + 2, v), t[1] = "persist", t[2] = "reload",
           w.daemon.loaded = v.gui.mem, w.disk = v.gui.mem
    PROVE  MarkAt(u, k, w)
<1>1. k \in Nat \ {0} /\ u[k] = t[k + 2] /\ u[1] = t[3]
  BY DEF Follows
<1>2. ~(u[k] \in {"connect", "connect_again", "connected", "disconnected", "listening", "quiet"})
  BY <1>1 DEF MarkAt, ConnectAt, ConnectAgainAt, ConnectedAt, DisconnectedAt, ListeningAt, QuietAt,
              First, First2, First3, First4
<1>3. u[k] = "edited" => EditedAt(u, k, w)
  BY <1>1 DEF MarkAt, EditedAt, First, First2, First3, UpToDate
<1> QED BY <1>2, <1>3 DEF MarkAt

(* reload *)
LEMMA ReloadedMarks ==
    ASSUME NEW v \in View, NEW w \in View, NEW t, NEW u, NEW k, Follows(t, u, k),
           MarkAt(t, k + 1, v), t[1] \in {"reload", "reload_always"},
           w.tainted = v.tainted, w.gui = v.gui, w.disk = v.disk, w.daemon.up = v.daemon.up,
           v.daemon.up => \/ w.daemon.loaded = v.disk
                          \/ t[1] = "reload" /\ ~v.gui.running
    PROVE  MarkAt(u, k, w)
<1>1. ~(u[k] \in {"connect", "connect_again", "connected", "disconnected"})
  BY DEF MarkAt, Follows, ConnectAt, ConnectAgainAt, ConnectedAt, DisconnectedAt, First, First2, First3
<1>2. u[k] = "edited" => EditedAt(u, k, w)
  BY DEF MarkAt, Follows, EditedAt, First, First2, First3, Sees, UpToDate, View, GuiType, DaemonType
<1>3. u[k] = "listening" => ListeningAt(u, k, w)
  BY DEF MarkAt, Follows, ListeningAt, First, First2, First3, First4, Listens
<1>4. u[k] = "quiet" => QuietAt(u, k, w)
  BY DEF MarkAt, Follows, QuietAt, First, First2, First3, First4, Ignores
<1> QED BY <1>1, <1>2, <1>3, <1>4 DEF MarkAt

(* sync, look *)
LEMMA SyncedMarks ==
    ASSUME NEW v \in View, NEW w \in View, NEW t, NEW u, NEW k, Follows(t, u, k),
           MarkAt(t, k + 1, v), t[1] \in {"sync", "look"},
           v.tainted => w.tainted \/ t[1] = "look", w.tainted \/ w.gui.running = w.daemon.up,
           w.daemon = v.daemon, w.disk = v.disk
    PROVE  MarkAt(u, k, w)
<1>1. u[k] = "connect" => ConnectAt(u, k, w)
  BY DEF MarkAt, Follows, ConnectAt, First, First2, Sees
<1>2. u[k] = "connect_again" => ConnectAgainAt(u, k, w)
  BY DEF MarkAt, Follows, ConnectAgainAt, First, First2, Sees
<1>3. u[k] = "connected" => ConnectedAt(u, k, w)
  BY DEF MarkAt, Follows, ConnectedAt, First, First2, First3, Serving
<1>4. u[k] = "disconnected" => DisconnectedAt(u, k, w)
  BY DEF MarkAt, Follows, DisconnectedAt, First, First2, Serving
<1>5. u[k] = "edited" => EditedAt(u, k, w)
  BY DEF MarkAt, Follows, EditedAt, First, First2, First3, UpToDate
<1>6. u[k] = "listening" => ListeningAt(u, k, w)
  BY DEF MarkAt, Follows, ListeningAt, First, First2, First3, First4, Listens
<1>7. u[k] = "quiet" => QuietAt(u, k, w)
  BY DEF MarkAt, Follows, QuietAt, First, First2, First3, First4, Ignores
<1> QED BY <1>1, <1>2, <1>3, <1>4, <1>5, <1>6, <1>7 DEF MarkAt

(* resume *)
LEMMA ResumedMarks ==
    ASSUME NEW v \in View, NEW w \in View, NEW t, NEW u, NEW k, Follows(t, u, k),
           MarkAt(t, k + 1, v), t[1] = "resume",
           w.tainted = v.tainted, w.daemon.up = v.daemon.up, w.daemon.loaded = v.daemon.loaded,
           v.daemon.up => w.daemon.on
    PROVE  MarkAt(u, k, w)
<1>1. ~(u[k] \in {"connect", "connect_again", "disconnected", "edited", "quiet"})
  BY DEF MarkAt, Follows, ConnectAt, ConnectAgainAt, DisconnectedAt, EditedAt, QuietAt,
         First, First2, First3, First4
<1>2. u[k] = "connected" => ConnectedAt(u, k, w)
  BY DEF MarkAt, Follows, ConnectedAt, First, First2, First3, Serving
<1>3. u[k] = "listening" => ListeningAt(u, k, w)
  BY DEF MarkAt, Follows, ListeningAt, First, First2, First3, First4, Listens
<1> QED BY <1>1, <1>2, <1>3 DEF MarkAt

(* pause *)
LEMMA PausedMarks ==
    ASSUME NEW v \in View, NEW w \in View, NEW t, NEW u, NEW k, Follows(t, u, k),
           MarkAt(t, k + 1, v), t[1] = "pause",
           w.tainted = v.tainted, w.daemon.up = v.daemon.up, w.daemon.loaded = v.daemon.loaded,
           ~w.daemon.on
    PROVE  MarkAt(u, k, w)
<1>1. ~(u[k] \in {"connect", "connect_again", "connected", "edited", "listening"})
  BY DEF MarkAt, Follows, ConnectAt, ConnectAgainAt, ConnectedAt, EditedAt, ListeningAt,
         First, First2, First3, First4
<1>2. u[k] = "disconnected" => DisconnectedAt(u, k, w)
  BY DEF MarkAt, Follows, DisconnectedAt, First, First2, Serving
<1>3. u[k] = "quiet" => QuietAt(u, k, w)
  BY DEF MarkAt, Follows, QuietAt, First, First2, First3, First4, Ignores
<1> QED BY <1>1, <1>2, <1>3 DEF MarkAt

(* start *)
LEMMA StartedMarks ==
    ASSUME NEW v \in View, NEW w \in View, NEW t, NEW u, NEW k, Follows(t, u, k),
           MarkAt(t, k + 1, v), t[1] = "start",
           w.tainted = v.tainted, w.disk = v.disk,
           v.daemon.up => w.daemon = v.daemon,
           ~v.daemon.up => w.daemon.up /\ w.daemon.on /\ w.daemon.loaded = v.disk
    PROVE  MarkAt(u, k, w)
<1>1. ~(u[k] \in {"connect", "connect_again", "disconnected", "edited", "quiet"})
  BY DEF MarkAt, Follows, ConnectAt, ConnectAgainAt, DisconnectedAt, EditedAt, QuietAt,
         First, First2, First3, First4
<1>2. u[k] = "connected" => ConnectedAt(u, k, w)
  BY DEF MarkAt, Follows, ConnectedAt, First, First2, First3, Serving
<1>3. u[k] = "listening" => ListeningAt(u, k, w)
  BY DEF MarkAt, Follows, ListeningAt, First, First2, First3, First4, Listens
<1> QED BY <1>1, <1>2, <1>3 DEF MarkAt

(* install, enable *)
LEMMA InstalledMarks ==
    ASSUME NEW v, NEW w, NEW t, NEW u, NEW k, Follows(t, u, k),
           MarkAt(t, k + 1, v), t[1] \in {"install", "enable"}
    PROVE  MarkAt(u, k, w)
<1>1. ~(u[k] \in {"connect", "connected", "disconnected", "edited", "listening", "quiet"})
  BY DEF MarkAt, Follows, ConnectAt, ConnectedAt, DisconnectedAt, EditedAt, ListeningAt, QuietAt,
         First, First2, First3, First4
<1>2. u[k] = "connect_again" => ConnectAgainAt(u, k, w)
  BY DEF MarkAt, Follows, ConnectAgainAt, First, First2
<1> QED BY <1>1, <1>2 DEF MarkAt
-----------------------------------------------------------------------------
(* The rows with a mark, and what each needs when it begins. *)

(* The first steps of a command and the others it is joined from. *)
LEMMA JoinIs ==
    ASSUME NEW s, Row(s), NEW r, Row(r), NEW t, Row(t), Len(t) = Len(s) + Len(r),
           \A i \in 1 .. Len(s) : t[i] = s[i],
           \A i \in 1 .. Len(r) : t[i + Len(s)] = r[i]
    PROVE  s \o r = t
<1>1. /\ s \o r \in Seq(Words) /\ Len(s \o r) = Len(s) + Len(r)
      /\ \A i \in 1 .. Len(s) + Len(r) : (s \o r)[i] = IF i <= Len(s) THEN s[i] ELSE r[i - Len(s)]
  BY ConcatProperties DEF Row
<1>2. Len(s) \in Nat /\ Len(r) \in Nat
  BY RowLength
<1>3. ASSUME NEW i \in 1 .. Len(t) PROVE (s \o r)[i] = t[i]
  <2>1. CASE i <= Len(s)
    <3>1. i \in 1 .. Len(s) /\ i \in 1 .. Len(s) + Len(r)
      BY <1>2, <2>1
    <3> QED BY <1>1, <2>1, <3>1
  <2>2. CASE ~(i <= Len(s))
    <3>1. i - Len(s) \in 1 .. Len(r) /\ (i - Len(s)) + Len(s) = i /\ i \in 1 .. Len(s) + Len(r)
      BY <1>2, <2>2
    <3> QED BY <1>1, <2>2, <3>1
  <2> QED BY <2>1, <2>2
<1> QED BY <1>1, <1>3, SeqEqual DEF Row

LEMMA OneAndOne ==
    ASSUME NEW a \in Words, NEW b \in Words
    PROVE  <<a>> \o <<b>> = <<a, b>>
<1> DEFINE s == <<a>>
           r == <<b>>
           t == <<a, b>>
<1>1. Row(s) /\ Row(r) /\ Row(t)
  BY RowOfOne, RowOfTwo
<1>2. Len(s) = 1 /\ Len(r) = 1 /\ Len(t) = 2
  OBVIOUS
<1>3. t[1] = s[1] /\ t[2] = r[1]
  OBVIOUS
<1> HIDE DEF s, r, t
<1>4. (\A i \in 1 .. Len(s) : t[i] = s[i]) /\ \A i \in 1 .. Len(r) : t[i + Len(s)] = r[i]
  <2>1. 1 .. 1 = {1} /\ 1 .. 1 = {1}
    OBVIOUS
  <2> QED BY <1>2, <1>3, <2>1
<1>0. Len(t) = Len(s) + Len(r)
  BY <1>2
<1>5. s \o r = t
  BY <1>0, <1>1, <1>4, JoinIs
<1> QED BY <1>5 DEF s, r, t

LEMMA OneAndTwo ==
    ASSUME NEW a \in Words, NEW b \in Words, NEW d \in Words
    PROVE  <<a>> \o <<b, d>> = <<a, b, d>>
<1> DEFINE s == <<a>>
           r == <<b, d>>
           t == <<a, b, d>>
<1>1. Row(s) /\ Row(r) /\ Row(t)
  BY RowOfOne, RowOfTwo, RowOfThree
<1>2. Len(s) = 1 /\ Len(r) = 2 /\ Len(t) = 3
  OBVIOUS
<1>3. t[1] = s[1] /\ t[2] = r[1] /\ t[3] = r[2]
  OBVIOUS
<1> HIDE DEF s, r, t
<1>4. (\A i \in 1 .. Len(s) : t[i] = s[i]) /\ \A i \in 1 .. Len(r) : t[i + Len(s)] = r[i]
  <2>1. 1 .. 1 = {1} /\ 1 .. 2 = {1, 2}
    OBVIOUS
  <2> QED BY <1>2, <1>3, <2>1
<1>0. Len(t) = Len(s) + Len(r)
  BY <1>2
<1>5. s \o r = t
  BY <1>0, <1>1, <1>4, JoinIs
<1> QED BY <1>5 DEF s, r, t

LEMMA OneAndThree ==
    ASSUME NEW a \in Words, NEW b \in Words, NEW d \in Words, NEW e \in Words
    PROVE  <<a>> \o <<b, d, e>> = <<a, b, d, e>>
<1> DEFINE s == <<a>>
           r == <<b, d, e>>
           t == <<a, b, d, e>>
<1>1. Row(s) /\ Row(r) /\ Row(t)
  BY RowOfOne, RowOfThree, RowOfFour
<1>2. Len(s) = 1 /\ Len(r) = 3 /\ Len(t) = 4
  OBVIOUS
<1>3. t[1] = s[1] /\ t[2] = r[1] /\ t[3] = r[2] /\ t[4] = r[3]
  OBVIOUS
<1> HIDE DEF s, r, t
<1>4. (\A i \in 1 .. Len(s) : t[i] = s[i]) /\ \A i \in 1 .. Len(r) : t[i + Len(s)] = r[i]
  <2>1. 1 .. 1 = {1} /\ 1 .. 3 = {1, 2, 3}
    OBVIOUS
  <2> QED BY <1>2, <1>3, <2>1
<1>0. Len(t) = Len(s) + Len(r)
  BY <1>2
<1>5. s \o r = t
  BY <1>0, <1>1, <1>4, JoinIs
<1> QED BY <1>5 DEF s, r, t

LEMMA TwoAndTwo ==
    ASSUME NEW a \in Words, NEW b \in Words, NEW d \in Words, NEW e \in Words
    PROVE  <<a, b>> \o <<d, e>> = <<a, b, d, e>>
<1> DEFINE s == <<a, b>>
           r == <<d, e>>
           t == <<a, b, d, e>>
<1>1. Row(s) /\ Row(r) /\ Row(t)
  BY RowOfTwo, RowOfFour
<1>2. Len(s) = 2 /\ Len(r) = 2 /\ Len(t) = 4
  OBVIOUS
<1>3. t[1] = s[1] /\ t[2] = s[2] /\ t[3] = r[1] /\ t[4] = r[2]
  OBVIOUS
<1> HIDE DEF s, r, t
<1>4. (\A i \in 1 .. Len(s) : t[i] = s[i]) /\ \A i \in 1 .. Len(r) : t[i + Len(s)] = r[i]
  <2>1. 1 .. 2 = {1, 2} /\ 1 .. 2 = {1, 2}
    OBVIOUS
  <2> QED BY <1>2, <1>3, <2>1
<1>0. Len(t) = Len(s) + Len(r)
  BY <1>2
<1>5. s \o r = t
  BY <1>0, <1>1, <1>4, JoinIs
<1> QED BY <1>5 DEF s, r, t

LEMMA ThreeAndTwo ==
    ASSUME NEW a \in Words, NEW b \in Words, NEW d \in Words, NEW e \in Words, NEW f \in Words
    PROVE  <<a, b, d>> \o <<e, f>> = <<a, b, d, e, f>>
<1> DEFINE s == <<a, b, d>>
           r == <<e, f>>
           t == <<a, b, d, e, f>>
<1>1. Row(s) /\ Row(r) /\ Row(t)
  BY RowOfTwo, RowOfThree, RowOfFive
<1>2. Len(s) = 3 /\ Len(r) = 2 /\ Len(t) = 5
  OBVIOUS
<1>3. t[1] = s[1] /\ t[2] = s[2] /\ t[3] = s[3] /\ t[4] = r[1] /\ t[5] = r[2]
  OBVIOUS
<1> HIDE DEF s, r, t
<1>4. (\A i \in 1 .. Len(s) : t[i] = s[i]) /\ \A i \in 1 .. Len(r) : t[i + Len(s)] = r[i]
  <2>1. 1 .. 3 = {1, 2, 3} /\ 1 .. 2 = {1, 2}
    OBVIOUS
  <2> QED BY <1>2, <1>3, <2>1
<1>0. Len(t) = Len(s) + Len(r)
  BY <1>2
<1>5. s \o r = t
  BY <1>0, <1>1, <1>4, JoinIs
<1> QED BY <1>5 DEF s, r, t

LEMMA NoneBefore == ASSUME NEW r, Row(r) PROVE <<>> \o r = r /\ r \o <<>> = r
BY ConcatEmptySeq DEF Row

LEMMA AllWords == Marks \subseteq Words /\ Starters \subseteq Words /\ Leading \subseteq Words
                  /\ {"clear", "caught"} \subseteq Words
BY DEF Marks, Starters, Leading, Words

LEMMA EditRow == ASSUME NEW v, Sees(v) PROVE Goes(Applied, v)
<1>1. Row(Applied) /\ DOMAIN Applied = {1, 2, 3, 4}
  BY AllWords, RowOfFour DEF Applied, Leading, Marks
<1>2. Applied[1] = "persist" /\ Applied[2] = "reload" /\ Applied[3] = "sync" /\ Applied[4] = "edited"
  BY DEF Applied
<1>3. Looks(Applied)
  BY <1>1, <1>2 DEF Looks, Starters
<1>4. \A k \in DOMAIN Applied : MarkAt(Applied, k, v)
  BY <1>1, <1>2 DEF MarkAt, EditedAt, First3
<1> QED BY <1>1, <1>3, <1>4 DEF Goes

LEMMA ConnectRow == ASSUME NEW v PROVE Goes(ConnectSteps, v)
<1>1. Row(ConnectSteps) /\ DOMAIN ConnectSteps = {1, 2, 3}
  BY AllWords, RowOfThree DEF ConnectSteps, Leading, Marks
<1>2. ConnectSteps[1] = "persist" /\ ConnectSteps[2] = "look" /\ ConnectSteps[3] = "connect"
  BY DEF ConnectSteps
<1>3. Looks(ConnectSteps)
  BY <1>1, <1>2 DEF Looks, Starters
<1>4. \A k \in DOMAIN ConnectSteps : MarkAt(ConnectSteps, k, v)
  BY <1>1, <1>2 DEF MarkAt, ConnectAt, First2
<1> QED BY <1>1, <1>3, <1>4 DEF Goes

LEMMA DisconnectRows ==
    ASSUME NEW v
    PROVE  /\ Goes(<<"pause", "sync", "disconnected">>, v)
           /\ v.tainted \/ ~Serving(v) => Goes(<<"sync", "disconnected">>, v)
<1>1. Goes(<<"pause", "sync", "disconnected">>, v)
  <2> DEFINE t == <<"pause", "sync", "disconnected">>
  <2>1. Row(t) /\ DOMAIN t = {1, 2, 3}
    BY AllWords, RowOfThree DEF Leading, Marks
  <2>2. t[1] = "pause" /\ t[2] = "sync" /\ t[3] = "disconnected"
    OBVIOUS
  <2> HIDE DEF t
  <2>3. Looks(t) /\ \A k \in DOMAIN t : MarkAt(t, k, v)
    BY <2>1, <2>2 DEF Looks, Starters, MarkAt, DisconnectedAt, First2
  <2> QED BY <2>1, <2>3 DEF Goes, t
<1>2. ASSUME v.tainted \/ ~Serving(v) PROVE Goes(<<"sync", "disconnected">>, v)
  <2> DEFINE t == <<"sync", "disconnected">>
  <2>1. Row(t) /\ DOMAIN t = {1, 2}
    BY AllWords, RowOfTwo DEF Leading, Marks
  <2>2. t[1] = "sync" /\ t[2] = "disconnected"
    OBVIOUS
  <2> HIDE DEF t
  <2>3. Looks(t) /\ \A k \in DOMAIN t : MarkAt(t, k, v)
    BY <1>2, <2>1, <2>2 DEF Looks, Starters, MarkAt, DisconnectedAt, First
  <2> QED BY <2>1, <2>3 DEF Goes, t
<1> QED BY <1>1, <1>2

LEMMA ListenRows ==
    ASSUME NEW v, v.gui.mem.listen
    PROVE  /\ v.tainted \/ v.daemon.up =>
                /\ Goes(<<"persist", "reload_always", "resume", "sync", "listening">>, v)
                /\ Goes(<<"persist", "reload_always", "sync", "listening">>, v)
           /\ v.tainted \/ ~v.daemon.up => Goes(<<"persist", "start", "sync", "listening">>, v)
<1>1. ASSUME v.tainted \/ v.daemon.up
      PROVE  Goes(<<"persist", "reload_always", "resume", "sync", "listening">>, v)
  <2> DEFINE t == <<"persist", "reload_always", "resume", "sync", "listening">>
  <2>1. Row(t) /\ DOMAIN t = {1, 2, 3, 4, 5}
    BY AllWords, RowOfFive DEF Leading, Marks
  <2>2. t[1] = "persist" /\ t[2] = "reload_always" /\ t[3] = "resume" /\ t[4] = "sync"
        /\ t[5] = "listening"
    OBVIOUS
  <2> HIDE DEF t
  <2>3. Looks(t) /\ \A k \in DOMAIN t : MarkAt(t, k, v)
    BY <1>1, <2>1, <2>2 DEF Looks, Starters, MarkAt, ListeningAt, First4
  <2> QED BY <2>1, <2>3 DEF Goes, t
<1>2. ASSUME v.tainted \/ v.daemon.up
      PROVE  Goes(<<"persist", "reload_always", "sync", "listening">>, v)
  <2> DEFINE t == <<"persist", "reload_always", "sync", "listening">>
  <2>1. Row(t) /\ DOMAIN t = {1, 2, 3, 4}
    BY AllWords, RowOfFour DEF Leading, Marks
  <2>2. t[1] = "persist" /\ t[2] = "reload_always" /\ t[3] = "sync" /\ t[4] = "listening"
    OBVIOUS
  <2> HIDE DEF t
  <2>3. Looks(t) /\ \A k \in DOMAIN t : MarkAt(t, k, v)
    BY <1>2, <2>1, <2>2 DEF Looks, Starters, MarkAt, ListeningAt, First3
  <2> QED BY <2>1, <2>3 DEF Goes, t
<1>3. ASSUME v.tainted \/ ~v.daemon.up
      PROVE  Goes(<<"persist", "start", "sync", "listening">>, v)
  <2> DEFINE t == <<"persist", "start", "sync", "listening">>
  <2>1. Row(t) /\ DOMAIN t = {1, 2, 3, 4}
    BY AllWords, RowOfFour DEF Leading, Marks
  <2>2. t[1] = "persist" /\ t[2] = "start" /\ t[3] = "sync" /\ t[4] = "listening"
    OBVIOUS
  <2> HIDE DEF t
  <2>3. Looks(t) /\ \A k \in DOMAIN t : MarkAt(t, k, v)
    BY <1>3, <2>1, <2>2 DEF Looks, Starters, SyncAt, MarkAt, ListeningAt, First3
  <2> QED BY <2>1, <2>3 DEF Goes, t
<1> QED BY <1>1, <1>2, <1>3

LEMMA QuietRows ==
    ASSUME NEW v, ~v.gui.mem.listen
    PROVE  /\ Goes(<<"persist", "reload_always", "pause", "sync", "quiet">>, v)
           /\ Goes(<<"persist", "reload_always", "sync", "quiet">>, v)
           /\ v.tainted \/ ~v.daemon.up => Goes(<<"persist", "sync", "quiet">>, v)
<1>1. Goes(<<"persist", "reload_always", "pause", "sync", "quiet">>, v)
  <2> DEFINE t == <<"persist", "reload_always", "pause", "sync", "quiet">>
  <2>1. Row(t) /\ DOMAIN t = {1, 2, 3, 4, 5}
    BY AllWords, RowOfFive DEF Leading, Marks
  <2>2. t[1] = "persist" /\ t[2] = "reload_always" /\ t[3] = "pause" /\ t[4] = "sync"
        /\ t[5] = "quiet"
    OBVIOUS
  <2> HIDE DEF t
  <2>3. Looks(t) /\ \A k \in DOMAIN t : MarkAt(t, k, v)
    BY <2>1, <2>2 DEF Looks, Starters, MarkAt, QuietAt, First4
  <2> QED BY <2>1, <2>3 DEF Goes, t
<1>2. Goes(<<"persist", "reload_always", "sync", "quiet">>, v)
  <2> DEFINE t == <<"persist", "reload_always", "sync", "quiet">>
  <2>1. Row(t) /\ DOMAIN t = {1, 2, 3, 4}
    BY AllWords, RowOfFour DEF Leading, Marks
  <2>2. t[1] = "persist" /\ t[2] = "reload_always" /\ t[3] = "sync" /\ t[4] = "quiet"
    OBVIOUS
  <2> HIDE DEF t
  <2>3. Looks(t) /\ \A k \in DOMAIN t : MarkAt(t, k, v)
    BY <2>1, <2>2 DEF Looks, Starters, MarkAt, QuietAt, First3
  <2> QED BY <2>1, <2>3 DEF Goes, t
<1>3. ASSUME v.tainted \/ ~v.daemon.up
      PROVE  Goes(<<"persist", "sync", "quiet">>, v)
  <2> DEFINE t == <<"persist", "sync", "quiet">>
  <2>1. Row(t) /\ DOMAIN t = {1, 2, 3}
    BY AllWords, RowOfThree DEF Leading, Marks
  <2>2. t[1] = "persist" /\ t[2] = "sync" /\ t[3] = "quiet"
    OBVIOUS
  <2> HIDE DEF t
  <2>3. Looks(t) /\ \A k \in DOMAIN t : MarkAt(t, k, v)
    BY <1>3, <2>1, <2>2 DEF Looks, Starters, MarkAt, QuietAt, First2
  <2> QED BY <2>1, <2>3 DEF Goes, t
<1> QED BY <1>1, <1>2, <1>3

LEMMA ServiceRow == ASSUME NEW s \in Starters PROVE Plain(<<s>> \o TickSteps)
<1> DEFINE t == <<s, "clear", "sync", "clear">>
<1>1. Row(t) /\ DOMAIN t = {1, 2, 3, 4}
  BY AllWords, RowOfFour DEF Leading, Marks
<1>2. t[1] = s /\ t[2] = "clear" /\ t[3] = "sync" /\ t[4] = "clear"
  OBVIOUS
<1>3. <<s>> \o TickSteps = t
  BY AllWords, OneAndThree DEF TickSteps, Leading
<1> HIDE DEF t
<1>4. SyncAt(t, 1 + 1)
  BY <1>1, <1>2 DEF SyncAt
<1>5. Looks(t) /\ \A k \in DOMAIN t : t[k] \notin Marks
  BY <1>1, <1>2, <1>4 DEF Looks, Starters, Marks
<1> QED BY <1>1, <1>3, <1>5 DEF Plain

LEMMA ChoiceRow ==
    ASSUME NEW again \in BOOLEAN, NEW v, v.gui = gui, v.daemon = daemon, Sees(v)
    PROVE  ConnectChoice(again) = <<"fail">> \/ Goes(ConnectChoice(again), v)
<1>1. ASSUME v.tainted \/ v.daemon.up
      PROVE  Goes(<<"resume", "start", "sync", "connected">>, v)
  <2> DEFINE t == <<"resume", "start", "sync", "connected">>
  <2>1. Row(t) /\ DOMAIN t = {1, 2, 3, 4}
    BY AllWords, RowOfFour DEF Leading, Marks
  <2>2. t[1] = "resume" /\ t[2] = "start" /\ t[3] = "sync" /\ t[4] = "connected"
    OBVIOUS
  <2> HIDE DEF t
  <2>3. Looks(t) /\ \A k \in DOMAIN t : MarkAt(t, k, v)
    BY <1>1, <2>1, <2>2 DEF Looks, Starters, SyncAt, MarkAt, ConnectedAt, First3
  <2> QED BY <2>1, <2>3 DEF Goes, t
<1>2. ASSUME v.tainted \/ v.daemon.up
      PROVE  Goes(<<"resume", "sync", "connected">>, v)
  <2> DEFINE t == <<"resume", "sync", "connected">>
  <2>1. Row(t) /\ DOMAIN t = {1, 2, 3}
    BY AllWords, RowOfThree DEF Leading, Marks
  <2>2. t[1] = "resume" /\ t[2] = "sync" /\ t[3] = "connected"
    OBVIOUS
  <2> HIDE DEF t
  <2>3. Looks(t) /\ \A k \in DOMAIN t : MarkAt(t, k, v)
    BY <1>2, <2>1, <2>2 DEF Looks, Starters, MarkAt, ConnectedAt, First2
  <2> QED BY <2>1, <2>3 DEF Goes, t
<1>3. ASSUME NEW s \in {"install", "enable"} PROVE Goes(<<s, "sync", "connect_again">>, v)
  <2> DEFINE t == <<s, "sync", "connect_again">>
  <2>1. Row(t) /\ DOMAIN t = {1, 2, 3}
    BY <1>3, AllWords, RowOfThree DEF Leading, Marks
  <2>2. t[1] = s /\ t[2] = "sync" /\ t[3] = "connect_again"
    OBVIOUS
  <2> HIDE DEF t
  <2>3. Looks(t) /\ \A k \in DOMAIN t : MarkAt(t, k, v)
    BY <1>3, <2>1, <2>2 DEF Looks, Starters, SyncAt, MarkAt, ConnectAgainAt, First2
  <2> QED BY <2>1, <2>3 DEF Goes, t
<1>4. ASSUME v.tainted \/ ~v.daemon.up PROVE Goes(<<"start", "sync", "connected">>, v)
  <2> DEFINE t == <<"start", "sync", "connected">>
  <2>1. Row(t) /\ DOMAIN t = {1, 2, 3}
    BY AllWords, RowOfThree DEF Leading, Marks
  <2>2. t[1] = "start" /\ t[2] = "sync" /\ t[3] = "connected"
    OBVIOUS
  <2> HIDE DEF t
  <2>3. Looks(t) /\ \A k \in DOMAIN t : MarkAt(t, k, v)
    BY <1>4, <2>1, <2>2 DEF Looks, Starters, SyncAt, MarkAt, ConnectedAt, First2
  <2> QED BY <2>1, <2>3 DEF Goes, t
<1>5. CASE gui.running
  <2>1. v.tainted \/ v.daemon.up
    BY <1>5 DEF Sees
  <2>2. ConnectChoice(again) = IF again THEN <<"resume", "start", "sync", "connected">>
                               ELSE <<"resume", "sync", "connected">>
    <3>1. {"resume", "start", "sync", "connected"} \subseteq Words
      BY DEF Words
    <3>2. /\ <<"resume", "start">> \o <<"sync", "connected">> = <<"resume", "start", "sync", "connected">>
          /\ <<"resume">> \o <<"sync", "connected">> = <<"resume", "sync", "connected">>
      BY <3>1, OneAndTwo, TwoAndTwo
    <3> QED BY <1>5, <3>2 DEF ConnectChoice
  <2> QED BY <1>1, <1>2, <2>1, <2>2
<1>6. CASE ~gui.running
  <2>1. ConnectChoice(again) \in {<<"fail">>, <<"install", "sync", "connect_again">>,
                                  <<"enable", "sync", "connect_again">>, <<"start", "sync", "connected">>}
    BY <1>6 DEF ConnectChoice
  <2>2. ConnectChoice(again) = <<"start", "sync", "connected">> => v.tainted \/ ~v.daemon.up
    BY <1>6 DEF Sees
  <2> QED BY <1>3, <1>4, <2>1, <2>2
<1> QED BY <1>5, <1>6
-----------------------------------------------------------------------------
(* The rows go through every step. *)

LEMMA MarkBlind ==
    ASSUME NEW t, NEW k, NEW v, NEW w, MarkAt(t, k, v), w.tainted
    PROVE  MarkAt(t, k, w)
<1>1. t[k] = "connect" => ConnectAt(t, k, w)
  BY DEF MarkAt, ConnectAt, Sees
<1>2. t[k] = "connect_again" => ConnectAgainAt(t, k, w)
  BY DEF MarkAt, ConnectAgainAt, Sees
<1>3. t[k] = "connected" => ConnectedAt(t, k, w)
  BY DEF MarkAt, ConnectedAt
<1>4. t[k] = "disconnected" => DisconnectedAt(t, k, w)
  BY DEF MarkAt, DisconnectedAt
<1>5. t[k] = "edited" => EditedAt(t, k, w)
  BY DEF MarkAt, EditedAt, Sees, UpToDate
<1>6. t[k] = "listening" => ListeningAt(t, k, w)
  BY DEF MarkAt, ListeningAt, Listens
<1>7. t[k] = "quiet" => QuietAt(t, k, w)
  BY DEF MarkAt, QuietAt, Ignores
<1> QED BY <1>1, <1>2, <1>3, <1>4, <1>5, <1>6, <1>7 DEF MarkAt

LEMMA Blind == ASSUME NEW t, NEW v, Goes(t, v), NEW w, w.tainted PROVE Goes(t, w)
BY MarkBlind DEF Goes

LEMMA GoesOn ==
    ASSUME NEW t, Row(t), Looks(t), t # <<>>, NEW w,
           \A k \in DOMAIN Tail(t) : Follows(t, Tail(t), k) => MarkAt(Tail(t), k, w)
    PROVE  Goes(Tail(t), w)
<1>1. Behind(Tail(t), t, 1)
  BY Rested
<1>2. Row(Tail(t)) /\ Looks(Tail(t))
  BY <1>1, BehindLooks DEF Behind
<1>3. \A k \in DOMAIN Tail(t) : MarkAt(Tail(t), k, w)
  BY TailFollows
<1> QED BY <1>2, <1>3 DEF Goes

LEMMA ViewHere ==
    /\ TypeInv /\ tainted \in BOOLEAN => Here \in View
    /\ TypeInv' /\ tainted' \in BOOLEAN => Here' \in View
<1>1. TypeInv /\ tainted \in BOOLEAN => Here \in View
  BY DEF TypeInv, Here, View, GuiOK, ProcessesOK, Apart
<1>2. TypeInv' /\ tainted' \in BOOLEAN => Here' \in View
  BY DEF TypeInv, Here, View, GuiOK, ProcessesOK, Apart
<1> QED BY <1>1, <1>2

LEMMA HereIs ==
    /\ Here.tainted = tainted /\ Here.gui = gui /\ Here.daemon = daemon /\ Here.disk = disk
    /\ Here'.tainted = tainted' /\ Here'.gui = gui' /\ Here'.daemon = daemon' /\ Here'.disk = disk'
BY DEF Here

(* The step at the head of the row. *)
LEMMA AtHead ==
    ASSUME ProgramInv, todo # <<>>
    PROVE  /\ Row(todo) /\ Looks(todo) /\ Goes(todo, Here) /\ Behind(Rest, todo, 1)
           /\ Head(todo) = todo[1] /\ 1 \in DOMAIN todo
           /\ \A k \in DOMAIN Rest : Follows(todo, Rest, k) /\ MarkAt(todo, k + 1, Here)
           /\ todo[1] \in {"clear", "caught"} /\ SyncAt(todo, 1) => SyncAt(Rest, 1)
           /\ todo[1] \in Starters => SyncAt(Rest, 1)
           /\ todo[1] \notin {"sync", "clear", "caught"} => foreign \/ gui.running = daemon.up
<1>1. Row(todo) /\ Looks(todo) /\ Goes(todo, Here)
  BY DEF ProgramInv, Goes
<1>2. Behind(Tail(todo), todo, 1) /\ Head(todo) = todo[1]
  BY <1>1, Rested
<1>3. DOMAIN todo = 1 .. Len(todo) /\ Len(todo) \in Nat /\ Len(todo) > 0
  BY <1>1, RowLength
<1>4. 1 \in DOMAIN todo
  BY <1>3
<1>5. \A k \in DOMAIN Tail(todo) : Follows(todo, Tail(todo), k) /\ k + 1 \in DOMAIN todo
  BY <1>1, TailFollows
<1>6. \A k \in DOMAIN Tail(todo) : MarkAt(todo, k + 1, Here)
  BY <1>1, <1>5 DEF Goes
<1>7. ASSUME SyncAt(todo, 2) PROVE SyncAt(Tail(todo), 1)
  <2> DEFINE r == Tail(todo)
  <2>1. /\ Len(r) = Len(todo) - 1 /\ Len(r) \in Nat /\ DOMAIN r = 1 .. Len(r)
        /\ \A i \in 1 .. Len(r) : r[i] = todo[i + 1]
    BY <1>2, RowLength DEF Behind
  <2> HIDE DEF r
  <2>2. 2 \in DOMAIN todo => 1 \in DOMAIN r /\ r[1] = todo[2]
    BY <1>3, <2>1
  <2>3. 2 + 1 \in DOMAIN todo => 2 \in DOMAIN r /\ r[2] = todo[3]
    BY <1>3, <2>1
  <2>4. SyncAt(r, 1)
    BY <1>7, <2>2, <2>3 DEF SyncAt
  <2> QED BY <2>4 DEF r
<1>8. ASSUME todo[1] \in {"clear", "caught"}, SyncAt(todo, 1) PROVE SyncAt(todo, 2)
  BY <1>8 DEF SyncAt
<1>9. ASSUME todo[1] \in Starters PROVE SyncAt(todo, 2)
  BY <1>1, <1>4, <1>9 DEF Looks
<1>10. todo[1] \notin {"sync", "clear", "caught"} => foreign \/ gui.running = daemon.up
  BY DEF ProgramInv, SyncAt
<1> QED BY <1>1, <1>2, <1>4, <1>5, <1>6, <1>7, <1>8, <1>9, <1>10 DEF Rest

LEMMA RestPlain ==
    ASSUME ProgramInv, todo # <<>>, todo[1] \notin Leading
    PROVE  Plain(Rest)
<1>1. Goes(todo, Here) /\ Behind(Rest, todo, 1) /\ 1 \in DOMAIN todo
  BY AtHead
<1> QED BY <1>1, PlainBehind

LEMMA RestCut == ASSUME ProgramInv, todo # <<>> PROVE Plain(AfterFailure(Rest))
BY CutPlain DEF ProgramInv, Rest

(* What every step but a look leaves of the second part of the invariant. *)
LEMMA ProgramThen ==
    ASSUME ProgramInv, foreign' = foreign, tainted' = tainted, Goes(todo', Here'),
           \/ SyncAt(todo', 1)
           \/ (foreign \/ gui.running = daemon.up) /\ gui'.running = gui.running /\ daemon'.up = daemon.up
    PROVE  ProgramInv'
BY DEF ProgramInv

LEMMA SaveKeeps ==
    ASSUME TypeInv, TypeInv', ProgramInv, SaveLocally \/ SaveViaDaemon
    PROVE  ProgramInv'
<1>0. todo # <<>> /\ Head(todo) = "persist" /\ tainted' = tainted /\ foreign' = foreign /\ disk' = gui.mem
  BY DEF SaveLocally, SaveViaDaemon, Step
<1>1. /\ Row(todo) /\ Looks(todo) /\ todo[1] = "persist" /\ Behind(Rest, todo, 1)
      /\ \A k \in DOMAIN Rest : Follows(todo, Rest, k) /\ MarkAt(todo, k + 1, Here)
      /\ foreign \/ gui.running = daemon.up
  BY <1>0, AtHead
<1>2. Here \in View /\ Here' \in View
  BY <1>0, ViewHere DEF ProgramInv
<1>3. CASE SaveLocally
  <2>1. todo' = Rest /\ gui' = gui /\ daemon' = daemon
    BY <1>3 DEF SaveLocally, Proceed
  <2>2. \A k \in DOMAIN Rest : MarkAt(Rest, k, Here')
    BY <1>0, <1>1, <1>2, <2>1, HereIs, SavedMarks
  <2>3. Goes(Rest, Here')
    BY <1>0, <1>1, <2>2, GoesOn DEF Rest
  <2> QED BY <1>0, <1>1, <2>1, <2>3, ProgramThen
<1>4. CASE SaveViaDaemon
  <2>1. /\ daemon' = [daemon EXCEPT !.loaded = gui.mem, !.on = @ \/ ~service.current]
        /\ gui' = [gui EXCEPT !.fresh = @ /\ service.current]
        /\ todo' = (IF Rest # <<>> /\ Head(Rest) = "reload" THEN Tail(Rest) ELSE Rest)
        /\ daemon.up
    BY <1>4 DEF SaveViaDaemon, ViaDaemon
  <2>2. /\ gui'.mem = gui.mem /\ gui'.running = gui.running
        /\ daemon'.up = daemon.up /\ daemon'.loaded = gui.mem
    BY <2>1 DEF TypeInv, GuiOK, GuiType, ProcessesOK, DaemonType
  <2>3. CASE Rest # <<>> /\ Head(Rest) = "reload"
    <3>1. Row(Rest) /\ Looks(Rest)
      BY <1>1, BehindLooks DEF Behind
    <3>2. Rest[1] = "reload" /\ 1 \in DOMAIN Rest
      BY <2>3, <3>1, Rested, RowLength
    <3>3. todo[2] = "reload"
      BY <1>1, <3>2 DEF Follows
    <3>4. ASSUME NEW k \in DOMAIN Tail(Rest) PROVE MarkAt(Tail(Rest), k, Here')
      <4>1. Follows(Rest, Tail(Rest), k) /\ k + 1 \in DOMAIN Rest
        BY <2>3, <3>1, TailFollows
      <4>2. Follows(todo, Rest, k + 1) /\ MarkAt(todo, (k + 1) + 1, Here)
        BY <1>1, <4>1
      <4>3. (k + 1) + 1 = k + 2
        BY <4>1 DEF Follows
      <4> QED BY <1>0, <1>1, <1>2, <2>2, <3>3, <4>1, <4>2, <4>3, HereIs, AppliedEdit
    <3>5. Goes(Tail(Rest), Here')
      BY <2>3, <3>1, <3>4, GoesOn
    <3> QED BY <1>0, <1>1, <2>1, <2>2, <2>3, <3>5, ProgramThen
  <2>4. CASE ~(Rest # <<>> /\ Head(Rest) = "reload")
    <3>1. ASSUME NEW k \in DOMAIN Rest PROVE MarkAt(Rest, k, Here')
      <4>1. Row(Rest)
        BY <1>1 DEF Behind
      <4>2. Rest # <<>> /\ Head(Rest) = Rest[1]
        BY <3>1, <4>1, Rested, RowLength
      <4>3. todo[2] # "reload"
        BY <1>1, <2>4, <3>1, <4>2 DEF Follows
      <4> QED BY <1>0, <1>1, <1>2, <2>1, <2>2, <3>1, <4>3, HereIs, AppliedMarks
    <3>2. Goes(Rest, Here')
      BY <1>0, <1>1, <3>1, GoesOn DEF Rest
    <3> QED BY <1>0, <1>1, <2>1, <2>2, <2>4, <3>2, ProgramThen
  <2> QED BY <2>3, <2>4
<1> QED BY <1>3, <1>4

LEMMA ReloadKeeps ==
    ASSUME TypeInv, TypeInv', ProgramInv, Reload
    PROVE  ProgramInv'
<1>0. /\ todo # <<>> /\ Head(todo) \in {"reload", "reload_always"} /\ tainted' = tainted
      /\ foreign' = foreign /\ disk' = disk /\ gui' = gui
      /\ todo' \in {Rest, AfterFailure(Rest)}
      /\ daemon' = daemon \/ daemon' = [daemon EXCEPT !.loaded = disk]
      /\ \/ Head(todo) = "reload" /\ ~gui.running
         \/ daemon' = IF daemon.up THEN [daemon EXCEPT !.loaded = disk] ELSE daemon
  BY DEF Reload, Step, Proceed, ReloadNeeded
<1>1. /\ Row(todo) /\ Looks(todo) /\ todo[1] = Head(todo)
      /\ \A k \in DOMAIN Rest : Follows(todo, Rest, k) /\ MarkAt(todo, k + 1, Here)
      /\ foreign \/ gui.running = daemon.up
  BY <1>0, AtHead
<1>2. Here \in View /\ Here' \in View
  BY <1>0, ViewHere DEF ProgramInv
<1>3. daemon'.up = daemon.up
  BY <1>0 DEF TypeInv, ProcessesOK, DaemonType
<1>4. daemon.up => daemon'.loaded = disk \/ (todo[1] = "reload" /\ ~gui.running)
  BY <1>0, <1>1 DEF TypeInv, ProcessesOK, DaemonType
<1>5. \A k \in DOMAIN Rest : MarkAt(Rest, k, Here')
  BY <1>0, <1>1, <1>2, <1>3, <1>4, HereIs, ReloadedMarks
<1>6. Goes(Rest, Here')
  BY <1>0, <1>1, <1>5, GoesOn DEF Rest
<1>7. Goes(AfterFailure(Rest), Here')
  BY <1>0, RestCut, PlainGoes
<1> QED BY <1>0, <1>1, <1>3, <1>6, <1>7, ProgramThen

LEMMA SyncKeeps ==
    ASSUME TypeInv, TypeInv', ProgramInv, Sync
    PROVE  ProgramInv'
<1>0. /\ todo # <<>> /\ Head(todo) \in {"sync", "look"} /\ todo' = Rest
      /\ daemon' = daemon /\ disk' = disk
      /\ \/ gui' = Synced("none") /\ foreign' = FALSE /\ tainted' = (tainted /\ Head(todo) = "sync")
         \/ tainted' = TRUE /\ foreign' = TRUE
  BY DEF Sync, Step, Proceed, world
<1>1. /\ Row(todo) /\ Looks(todo) /\ todo[1] = Head(todo)
      /\ \A k \in DOMAIN Rest : Follows(todo, Rest, k) /\ MarkAt(todo, k + 1, Here)
  BY <1>0, AtHead
<1>2. /\ tainted \in BOOLEAN /\ tainted' \in BOOLEAN /\ foreign' \in BOOLEAN
      /\ tainted => tainted' \/ todo[1] = "look"
  BY <1>0, <1>1 DEF ProgramInv
<1>3. Here \in View /\ Here' \in View
  BY <1>2, ViewHere
<1>4. foreign' \/ gui'.running = daemon'.up
  BY <1>0, SyncedOK
<1>5. tainted' \/ gui'.running = daemon'.up
  BY <1>0, SyncedOK
<1>6. \A k \in DOMAIN Rest : MarkAt(Rest, k, Here')
  BY <1>0, <1>1, <1>2, <1>3, <1>5, HereIs, SyncedMarks
<1>7. Goes(Rest, Here')
  BY <1>0, <1>1, <1>6, GoesOn DEF Rest
<1> QED BY <1>0, <1>2, <1>4, <1>7 DEF ProgramInv

LEMMA SwitchKeeps ==
    ASSUME TypeInv, TypeInv', ProgramInv, Resume \/ Pause
    PROVE  ProgramInv'
<1>0. /\ todo # <<>> /\ Head(todo) \in {"resume", "pause"} /\ tainted' = tainted
      /\ foreign' = foreign /\ gui' = gui /\ todo' = Rest /\ disk' = disk
  BY DEF Resume, Pause, Step, Proceed
<1>1. /\ Row(todo) /\ Looks(todo) /\ todo[1] = Head(todo)
      /\ \A k \in DOMAIN Rest : Follows(todo, Rest, k) /\ MarkAt(todo, k + 1, Here)
      /\ foreign \/ gui.running = daemon.up
  BY <1>0, AtHead
<1>2. Here \in View /\ Here' \in View
  BY <1>0, ViewHere DEF ProgramInv
<1>3. /\ daemon'.up = daemon.up /\ daemon'.loaded = daemon.loaded
      /\ todo[1] = "resume" => (daemon.up => daemon'.on)
      /\ todo[1] = "pause" => ~daemon'.on
  BY <1>1 DEF TypeInv, ProcessesOK, DaemonType, Resume, Pause, Step
<1>4. CASE todo[1] = "resume"
  <2>1. \A k \in DOMAIN Rest : MarkAt(Rest, k, Here')
    BY <1>0, <1>1, <1>2, <1>3, <1>4, HereIs, ResumedMarks
  <2> QED BY <1>0, <1>1, <1>3, <2>1, GoesOn, ProgramThen DEF Rest
<1>5. CASE todo[1] = "pause"
  <2>1. \A k \in DOMAIN Rest : MarkAt(Rest, k, Here')
    BY <1>0, <1>1, <1>2, <1>3, <1>5, HereIs, PausedMarks
  <2> QED BY <1>0, <1>1, <1>3, <2>1, GoesOn, ProgramThen DEF Rest
<1> QED BY <1>0, <1>1, <1>4, <1>5

LEMMA StartKeeps ==
    ASSUME TypeInv, TypeInv', ProgramInv, Start \/ Install \/ Enable \/ Uninstall \/ Disable
    PROVE  ProgramInv'
<1>0. /\ todo # <<>> /\ Head(todo) \in Starters /\ tainted' = tainted
      /\ foreign' = foreign /\ todo' = Rest /\ disk' = disk
      /\ Head(todo) = "start" => Start
  BY DEF Start, Install, Enable, Uninstall, Disable, EndService, Step, Proceed, Starters
<1>1. /\ Row(todo) /\ Looks(todo) /\ todo[1] = Head(todo)
      /\ \A k \in DOMAIN Rest : Follows(todo, Rest, k) /\ MarkAt(todo, k + 1, Here)
      /\ SyncAt(Rest, 1)
  BY <1>0, AtHead
<1>2. Here \in View /\ Here' \in View
  BY <1>0, ViewHere DEF ProgramInv
<1>3. CASE todo[1] = "start"
  <2>1. daemon' = IF daemon.up THEN daemon ELSE Started(StartEnables /\ service.installed)
    BY <1>0, <1>1, <1>3 DEF Start
  <2>2. /\ daemon.up => daemon' = daemon
        /\ ~daemon.up => daemon'.up /\ daemon'.on /\ daemon'.loaded = disk
    BY <2>1 DEF Started
  <2>3. \A k \in DOMAIN Rest : MarkAt(Rest, k, Here')
    BY <1>0, <1>1, <1>2, <1>3, <2>2, HereIs, StartedMarks
  <2>4. Goes(Rest, Here')
    BY <1>0, <1>1, <2>3, GoesOn DEF Rest
  <2> QED BY <1>0, <1>1, <2>4, ProgramThen
<1>4. CASE todo[1] \in {"install", "enable"}
  <2>1. \A k \in DOMAIN Rest : MarkAt(Rest, k, Here')
    BY <1>0, <1>1, <1>4, InstalledMarks
  <2>2. Goes(Rest, Here')
    BY <1>0, <1>1, <2>1, GoesOn DEF Rest
  <2> QED BY <1>0, <1>1, <2>2, ProgramThen
<1>5. CASE todo[1] \in {"uninstall", "disable"}
  <2>1. Plain(Rest)
    BY <1>0, <1>5, RestPlain DEF Leading
  <2>2. Goes(Rest, Here')
    BY <2>1, PlainGoes
  <2> QED BY <1>0, <1>1, <2>2, ProgramThen
<1> QED BY <1>0, <1>1, <1>3, <1>4, <1>5 DEF Starters

(* Steps that touch neither daemon nor what the backend believes of it. *)
LEMMA PassKeeps ==
    ASSUME TypeInv, TypeInv', ProgramInv, FailStep \/ Clear \/ Pass
    PROVE  ProgramInv'
<1>0. todo # <<>> /\ tainted' = tainted /\ foreign' = foreign /\ daemon' = daemon
  BY DEF FailStep, Clear, Pass, Step, world
<1>1. /\ todo[1] = Head(todo)
      /\ todo[1] \in {"clear", "caught"} /\ SyncAt(todo, 1) => SyncAt(Rest, 1)
      /\ todo[1] \notin {"sync", "clear", "caught"} => foreign \/ gui.running = daemon.up
  BY <1>0, AtHead
<1>2. gui'.running = gui.running
  <2>1. gui' = gui \/ gui' = [gui EXCEPT !.mem.outbound = 0]
    BY DEF FailStep, Clear, Pass
  <2> QED BY <2>1 DEF TypeInv, GuiOK, GuiType
<1>3. CASE FailStep
  <2>1. todo[1] \notin {"sync", "clear", "caught"} /\ todo' = AfterFailure(Rest)
    BY <1>1, <1>3 DEF FailStep
  <2> QED BY <1>0, <1>1, <1>2, <2>1, RestCut, PlainGoes, ProgramThen
<1>4. CASE Clear \/ Pass
  <2>1. todo[1] \in {"clear"} \union Markers /\ todo' = Rest
    BY <1>1, <1>4 DEF Clear, Pass, Step, Proceed
  <2>2. todo[1] \notin Leading /\ todo[1] # "sync"
    BY <2>1 DEF Markers, Leading
  <2>3. Goes(Rest, Here')
    BY <1>0, <2>2, RestPlain, PlainGoes
  <2>4. SyncAt(Rest, 1) \/ foreign \/ gui.running = daemon.up
    BY <1>1, <2>2 DEF ProgramInv
  <2> QED BY <1>0, <1>2, <2>1, <2>3, <2>4, ProgramThen
<1> QED BY <1>3, <1>4

(* Steps that put others in their place. *)
LEMMA ChoiceKeeps ==
    ASSUME TypeInv, TypeInv', ProgramInv,
           ChooseConnect \/ TryConnect \/ Request \/ RequestNothing \/ Launch
    PROVE  ProgramInv'
<1>0. /\ todo # <<>> /\ tainted' = tainted /\ foreign' = foreign /\ daemon' = daemon
      /\ Head(todo) \in {"connect", "connect_again", "try_connect", "request", "launch"}
  BY DEF ChooseConnect, TryConnect, Request, RequestNothing, Launch, Step, world
<1>1. /\ todo[1] = Head(todo) /\ 1 \in DOMAIN todo /\ Goes(todo, Here)
      /\ foreign \/ gui.running = daemon.up
  BY <1>0, AtHead
<1>2. gui'.running = gui.running
  <2>1. gui' = gui \/ gui' = [gui EXCEPT !.mem.outbound = now]
    BY DEF ChooseConnect, TryConnect, Request, RequestNothing, Launch
  <2> QED BY <2>1 DEF TypeInv, GuiOK, GuiType
<1>3. Plain(Rest) /\ Plain(AfterFailure(Rest))
  BY <1>0, <1>1, RestPlain, RestCut DEF Leading
<1>4. SUFFICES Goes(todo', Here')
  BY <1>0, <1>1, <1>2, ProgramThen
<1>5. CASE ChooseConnect
  <2>1. PICK again \in BOOLEAN :
          /\ todo[1] = IF again THEN "connect_again" ELSE "connect"
          /\ todo' = IF ConnectChoice(again) = <<"fail">> THEN AfterFailure(Rest)
                     ELSE ConnectChoice(again) \o Rest
    BY <1>1, <1>5 DEF ChooseConnect, Step
  <2>2. MarkAt(todo, 1, Here)
    BY <1>1 DEF Goes
  <2>3. Sees(Here)
    BY <2>1, <2>2 DEF MarkAt, ConnectAt, ConnectAgainAt
  <2>4. Here' = Here
    BY <1>5 DEF ChooseConnect, world, Here
  <2>5. ConnectChoice(again) = <<"fail">> \/ Goes(ConnectChoice(again), Here)
    BY <2>3, HereIs, ChoiceRow
  <2>6. CASE ConnectChoice(again) = <<"fail">>
    BY <1>3, <2>1, <2>6, PlainGoes
  <2>7. CASE ConnectChoice(again) # <<"fail">>
    <3>1. Goes(ConnectChoice(again) \o Rest, Here)
      BY <1>3, <2>5, <2>7, JoinedGoes
    <3> QED BY <2>1, <2>4, <2>7, <3>1
  <2> QED BY <2>6, <2>7
<1>6. CASE TryConnect
  <2>1. todo' = (ConnectSteps \o <<"caught">>) \o Rest
    BY <1>6 DEF TryConnect
  <2>2. Goes(ConnectSteps \o <<"caught">>, Here')
    BY ConnectRow, PlainRows, JoinedGoes
  <2>3. Goes((ConnectSteps \o <<"caught">>) \o Rest, Here')
    BY <1>3, <2>2, JoinedGoes
  <2> QED BY <2>1, <2>3
<1>7. CASE Request
  <2>1. todo' = (<<"persist">> \o ConnectIfIdle) \o Rest
    BY <1>7 DEF Request
  <2>2. Plain(ConnectIfIdle)
    BY PlainRows, NothingPlain DEF ConnectIfIdle
  <2>3. Plain(<<"persist">> \o ConnectIfIdle)
    BY <2>2, PlainRows, JoinedPlain
  <2>4. Plain((<<"persist">> \o ConnectIfIdle) \o Rest)
    BY <1>3, <2>3, JoinedPlain
  <2> QED BY <2>1, <2>4, PlainGoes
<1>8. CASE RequestNothing
  <2>1. todo' \in {Rest, AfterFailure(Rest)}
    BY <1>8 DEF RequestNothing
  <2> QED BY <1>3, <2>1, PlainGoes
<1>9. CASE Launch
  <2>1. todo' \in {<<"start", "caught", "sync">> \o Rest, Rest}
    BY <1>9 DEF Launch
  <2>2. Plain(<<"start", "caught", "sync">> \o Rest)
    BY <1>3, PlainRows, JoinedPlain
  <2> QED BY <1>3, <2>1, <2>2, PlainGoes
<1> QED BY <1>5, <1>6, <1>7, <1>8, <1>9

(* A command begins: the backend sees the daemon as it is, unless others    *)
(* acted since its last look.                                               *)
LEMMA BeginKeeps ==
    ASSUME TypeInv, ProgramInv, NEW mem, NEW steps, Begin(mem, steps),
           Sees(Here') /\ Here'.gui.mem = mem /\ Here'.gui.running = gui.running /\ Here'.daemon = daemon
             => Goes(steps, Here')
    PROVE  ProgramInv'
<1>1. /\ gui' = [gui EXCEPT !.mem = mem] /\ todo' = steps \o TickSteps /\ todo = <<>>
      /\ tainted' = foreign /\ foreign' = foreign /\ daemon' = daemon
  BY DEF Begin, world
<1>2. gui'.mem = mem /\ gui'.running = gui.running
  BY <1>1 DEF TypeInv, GuiOK, GuiType
<1>3. foreign \/ gui.running = daemon.up
  <2>1. DOMAIN todo = {}
    BY <1>1
  <2> QED BY <2>1 DEF ProgramInv, SyncAt
<1>4. Sees(Here')
  BY <1>1, <1>2, <1>3, HereIs DEF Sees
<1>5. Goes(steps \o TickSteps, Here')
  BY <1>1, <1>2, <1>4, HereIs, PlainRows, JoinedGoes
<1> QED BY <1>1, <1>2, <1>3, <1>5 DEF ProgramInv

LEMMA SetJoinKeeps ==
    ASSUME TypeInv, ProgramInv, NEW enabled \in BOOLEAN, SetJoinRequests(enabled)
    PROVE  ProgramInv'
<1> DEFINE mem == [gui.mem EXCEPT !.listen = enabled]
           switch == IF gui.active \/ ~(enabled \/ gui.mem.listen) THEN <<>>
                     ELSE IF enabled THEN <<"resume">> ELSE <<"pause">>
           apply == IF gui.running THEN <<"reload_always">> \o switch
                    ELSE IF enabled THEN <<"start">> ELSE <<>>
           mark == IF enabled THEN "listening" ELSE "quiet"
           steps == <<"persist">> \o apply \o <<"sync", mark>>
<1>1. Begin(mem, steps)
  BY DEF SetJoinRequests
<1>2. mem.listen = enabled
  BY DEF TypeInv, GuiOK, Apart, Config
<1>3. /\ {"persist", "reload_always", "resume", "pause", "start", "sync", "listening", "quiet"} \subseteq Words
      /\ mark \in Words
  BY DEF Words
<1>4. CASE gui.running
  <2>1. \/ switch = <<>> /\ steps = <<"persist", "reload_always", "sync", mark>>
        \/ switch = <<"resume">> /\ enabled /\ steps = <<"persist", "reload_always", "resume", "sync", mark>>
        \/ switch = <<"pause">> /\ ~enabled /\ steps = <<"persist", "reload_always", "pause", "sync", mark>>
    <3> HIDE DEF mark
    <3>1. /\ <<"reload_always">> \o <<>> = <<"reload_always">>
          /\ <<"reload_always">> \o <<"resume">> = <<"reload_always", "resume">>
          /\ <<"reload_always">> \o <<"pause">> = <<"reload_always", "pause">>
      BY <1>3, RowOfOne, NoneBefore, OneAndOne
    <3>2. /\ <<"persist">> \o <<"reload_always">> = <<"persist", "reload_always">>
          /\ <<"persist">> \o <<"reload_always", "resume">> = <<"persist", "reload_always", "resume">>
          /\ <<"persist">> \o <<"reload_always", "pause">> = <<"persist", "reload_always", "pause">>
      BY <1>3, OneAndOne, OneAndTwo
    <3>3. <<"persist", "reload_always">> \o <<"sync", mark>> = <<"persist", "reload_always", "sync", mark>>
      BY <1>3, TwoAndTwo
    <3>4. /\ <<"persist", "reload_always", "resume">> \o <<"sync", mark>>
               = <<"persist", "reload_always", "resume", "sync", mark>>
          /\ <<"persist", "reload_always", "pause">> \o <<"sync", mark>>
               = <<"persist", "reload_always", "pause", "sync", mark>>
      BY <1>3, ThreeAndTwo
    <3> QED BY <1>4, <3>1, <3>2, <3>3, <3>4
  <2> HIDE DEF mem, steps, switch
  <2>2. ASSUME Sees(Here'), Here'.gui.mem = mem, Here'.gui.running = gui.running, Here'.daemon = daemon
        PROVE  Goes(steps, Here')
    <3>1. Here'.tainted \/ Here'.daemon.up
      BY <1>4, <2>2 DEF Sees
    <3>2. CASE enabled
      BY <1>2, <2>1, <2>2, <3>1, <3>2, ListenRows
    <3>3. CASE ~enabled
      BY <1>2, <2>1, <2>2, <3>3, QuietRows
    <3> QED BY <3>2, <3>3
  <2> QED BY <1>1, <2>2, BeginKeeps
<1>5. CASE ~gui.running
  <2>1. \/ enabled /\ steps = <<"persist", "start", "sync", mark>>
        \/ ~enabled /\ steps = <<"persist", "sync", mark>>
    <3> HIDE DEF mark, switch
    <3>1. <<"persist">> \o <<"start">> = <<"persist", "start">> /\ <<"persist">> \o <<>> = <<"persist">>
      BY <1>3, RowOfOne, NoneBefore, OneAndOne
    <3>2. /\ <<"persist", "start">> \o <<"sync", mark>> = <<"persist", "start", "sync", mark>>
          /\ <<"persist">> \o <<"sync", mark>> = <<"persist", "sync", mark>>
      BY <1>3, OneAndTwo, TwoAndTwo
    <3> QED BY <1>5, <3>1, <3>2
  <2> HIDE DEF mem, steps
  <2>2. ASSUME Sees(Here'), Here'.gui.mem = mem, Here'.gui.running = gui.running, Here'.daemon = daemon
        PROVE  Goes(steps, Here')
    <3>1. Here'.tainted \/ ~Here'.daemon.up
      BY <1>5, <2>2 DEF Sees
    <3>2. CASE enabled
      BY <1>2, <2>1, <2>2, <3>1, <3>2, ListenRows
    <3>3. CASE ~enabled
      BY <1>2, <2>1, <2>2, <3>1, <3>3, QuietRows
    <3> QED BY <3>2, <3>3
  <2> QED BY <1>1, <2>2, BeginKeeps
<1> QED BY <1>4, <1>5

LEMMA DisconnectKeeps ==
    ASSUME TypeInv, ProgramInv, Disconnect
    PROVE  ProgramInv'
<1> DEFINE steps == (IF gui.running THEN <<"pause">> ELSE <<>>) \o <<"sync", "disconnected">>
<1>1. Begin(gui.mem, steps)
  BY DEF Disconnect
<1>2. steps = IF gui.running THEN <<"pause", "sync", "disconnected">> ELSE <<"sync", "disconnected">>
  <2>1. {"pause", "sync", "disconnected"} \subseteq Words
    BY DEF Words
  <2>2. /\ <<"pause">> \o <<"sync", "disconnected">> = <<"pause", "sync", "disconnected">>
        /\ <<>> \o <<"sync", "disconnected">> = <<"sync", "disconnected">>
    BY <2>1, OneAndTwo, RowOfTwo, NoneBefore
  <2> QED BY <2>2
<1> HIDE DEF steps
<1>3. ASSUME Sees(Here'), Here'.gui.running = gui.running, Here'.daemon = daemon
      PROVE  Goes(steps, Here')
  <2>1. CASE gui.running
    BY <1>2, <2>1, DisconnectRows
  <2>2. CASE ~gui.running
    <3>1. Here'.tainted \/ ~Serving(Here')
      BY <1>3, <2>2 DEF Sees, Serving
    <3> QED BY <1>2, <2>2, <3>1, DisconnectRows
  <2> QED BY <2>1, <2>2
<1> QED BY <1>1, <1>3, BeginKeeps

LEMMA CommandsKeep ==
    ASSUME TypeInv, TypeInv', ProgramInv, Commands \/ TickCommand
    PROVE  ProgramInv'
<1>1. ASSUME NEW mem, Begin(mem, Applied) PROVE ProgramInv'
  BY <1>1, EditRow, BeginKeeps
<1>2. ASSUME NEW mem, NEW steps, Plain(steps), Begin(mem, Applied \o steps) PROVE ProgramInv'
  BY <1>2, EditRow, JoinedGoes, BeginKeeps
<1>3. ASSUME NEW mem, NEW steps, Goes(steps, Here'), Begin(mem, steps) PROVE ProgramInv'
  BY <1>3, BeginKeeps
<1>4. ASSUME NEW p \in People, AddParticipant(p) \/ RemoveParticipant(p) \/ AcceptJoinRequest(p)
      PROVE  ProgramInv'
  <2>1. Plain(ConnectIfIdle)
    BY PlainRows, NothingPlain DEF ConnectIfIdle
  <2> QED BY <1>1, <1>2, <1>4, <2>1 DEF AddParticipant, RemoveParticipant, AcceptJoinRequest
<1>5. CASE ImportInvite
  BY <1>2, <1>5, PlainRows DEF ImportInvite
<1>6. CASE RequestJoin \/ RenameNetwork
  BY <1>3, <1>6, PlainRows, PlainGoes DEF RequestJoin, RenameNetwork
<1>7. CASE ChangeNetworks \/ ChangeRelays \/ UpdateSettings
  BY <1>1, <1>7 DEF ChangeNetworks, ChangeRelays, UpdateSettings
<1>8. CASE Connect
  BY <1>3, <1>8, ConnectRow DEF Connect
<1>9. CASE ServiceCommand
  <2>1. PICK s \in {"install", "uninstall", "enable", "disable"} : Begin(gui.mem, <<s>>)
    BY <1>9 DEF ServiceCommand
  <2>2. s \in Starters
    BY <2>1 DEF Starters
  <2>3. gui' = [gui EXCEPT !.mem = gui.mem] /\ todo' = <<s>> \o TickSteps /\ todo = <<>>
        /\ tainted' = foreign /\ foreign' = foreign /\ daemon' = daemon
    BY <2>1 DEF Begin, world
  <2>4. Goes(<<s>> \o TickSteps, Here')
    BY <2>2, ServiceRow, PlainGoes
  <2>5. gui'.running = gui.running
    BY <2>3 DEF TypeInv, GuiOK, GuiType
  <2>6. DOMAIN todo = {}
    BY <2>3
  <2>7. foreign \/ gui.running = daemon.up
    BY <2>6 DEF ProgramInv, SyncAt
  <2> QED BY <2>3, <2>4, <2>5, <2>7 DEF ProgramInv
<1>10. CASE UpdateSettingsRejected \/ TickCommand
  <2>1. /\ todo = <<>> /\ todo' \in {<<>>, TickSteps} /\ tainted' = foreign /\ foreign' = foreign
        /\ daemon' = daemon /\ (gui' = gui \/ gui' = [gui EXCEPT !.mem.other = Flipped(@)])
    BY <1>10 DEF UpdateSettingsRejected, TickCommand, world
  <2>2. Goes(todo', Here')
    BY <2>1, NothingPlain, PlainRows, PlainGoes
  <2>3. gui'.running = gui.running
    BY <2>1 DEF TypeInv, GuiOK, GuiType
  <2>4. DOMAIN todo = {}
    BY <2>1
  <2>5. foreign \/ gui.running = daemon.up
    BY <2>4 DEF ProgramInv, SyncAt
  <2> QED BY <2>1, <2>2, <2>3, <2>5 DEF ProgramInv
<1>11. CASE \E enabled \in BOOLEAN : SetJoinRequests(enabled)
  BY <1>11, SetJoinKeeps
<1>12. CASE Disconnect
  BY <1>12, DisconnectKeeps
<1> QED BY <1>4, <1>5, <1>6, <1>7, <1>8, <1>9, <1>10, <1>11, <1>12 DEF Commands

LEMMA OthersKeep ==
    ASSUME TypeInv, TypeInv', ProgramInv,
           \/ Reopen \/ DaemonExits \/ ServiceStarts \/ OtherClient
           \/ \E p \in People : ReceiveJoinRequest(p)
           \/ Handshake \/ PeerSilent \/ Tick \/ ServiceStatusAges
    PROVE  ProgramInv'
<1>1. CASE Reopen
  <2>1. todo' = <<"sync", "launch">> /\ foreign' = foreign /\ tainted' = tainted
    BY <1>1 DEF Reopen
  <2>2. Goes(todo', Here')
    BY <2>1, PlainRows, PlainGoes
  <2>3. DOMAIN todo' = 1 .. 2 /\ todo'[1] = "sync"
    BY <2>1
  <2>4. SyncAt(todo', 1)
    BY <2>3 DEF SyncAt
  <2> QED BY <2>1, <2>2, <2>4, ProgramThen
<1>2. CASE DaemonExits \/ ServiceStarts \/ OtherClient \/ \E p \in People : ReceiveJoinRequest(p)
  <2>1. todo' = todo /\ foreign' = TRUE /\ tainted' = TRUE
    BY <1>2 DEF DaemonExits, ServiceStarts, OtherClient, ReceiveJoinRequest, Others
  <2>2. Goes(todo, Here')
    BY <2>1, HereIs, Blind DEF ProgramInv
  <2> QED BY <2>1, <2>2 DEF ProgramInv
<1>3. CASE Handshake \/ PeerSilent \/ Tick
  <2>1. /\ todo' = todo /\ foreign' = foreign /\ tainted' = tainted /\ gui' = gui /\ daemon' = daemon
        /\ disk' = disk
    BY <1>3 DEF Handshake, PeerSilent, Tick
  <2>2. Here' = Here
    BY <2>1 DEF Here
  <2> QED BY <2>1, <2>2 DEF ProgramInv
<1>4. CASE ServiceStatusAges
  <2>1. /\ todo = <<>> /\ todo' = todo /\ foreign' = foreign /\ tainted' = tainted /\ daemon' = daemon
        /\ gui' = [gui EXCEPT !.fresh = FALSE]
    BY <1>4 DEF ServiceStatusAges, world
  <2>2. gui'.running = gui.running
    BY <2>1 DEF TypeInv, GuiOK, GuiType
  <2>3. Goes(todo', Here')
    BY <2>1, NothingPlain, PlainGoes
  <2>4. DOMAIN todo = {}
    BY <2>1
  <2>5. foreign \/ gui.running = daemon.up
    BY <2>4 DEF ProgramInv, SyncAt
  <2> QED BY <2>1, <2>2, <2>3, <2>5, ProgramThen
<1> QED BY <1>1, <1>2, <1>3, <1>4

LEMMA ProgramInit == Init => ProgramInv
<1> SUFFICES ASSUME Init PROVE ProgramInv
  OBVIOUS
<1>1. todo = <<"sync", "launch">> /\ foreign = FALSE /\ tainted = FALSE /\ gui.running = FALSE /\ daemon = Stopped
  BY DEF Init
<1>2. Goes(todo, Here)
  BY <1>1, PlainRows, PlainGoes
<1>3. gui.running = daemon.up
  BY <1>1 DEF Stopped
<1> QED BY <1>1, <1>2, <1>3 DEF ProgramInv

LEMMA ProgramStep == TypeInv /\ TypeInv' /\ ProgramInv /\ [Next]_vars => ProgramInv'
<1> SUFFICES ASSUME TypeInv, TypeInv', ProgramInv, [Next]_vars PROVE ProgramInv'
  OBVIOUS
<1>1. CASE Steps
  BY <1>1, SaveKeeps, ReloadKeeps, SyncKeeps, SwitchKeeps, StartKeeps, PassKeeps, ChoiceKeeps DEF Steps
<1>2. CASE UNCHANGED vars
  <2>1. Here' = Here
    BY <1>2 DEF vars, Here
  <2> QED BY <1>2, <2>1 DEF vars, ProgramInv
<1> QED BY <1>1, <1>2, CommandsKeep, OthersKeep DEF Next

LEMMA ProgramAlways == Spec => [](TypeInv /\ ProgramInv)
<1>1. Init => TypeInv /\ ProgramInv
  BY TypeInit, ProgramInit
<1>2. (TypeInv /\ ProgramInv) /\ [Next]_vars => (TypeInv /\ ProgramInv)'
  BY TypeStep, ProgramStep
<1> QED BY <1>1, <1>2, PTL DEF Spec

(* The mark that a command has reached. *)
LEMMA Reached ==
    ASSUME ProgramInv, NEW s, Step(s), s \in Marks
    PROVE  MarkAt(todo, 1, Here) /\ todo[1] = s
<1>1. /\ todo[1] = s /\ 1 \in DOMAIN todo /\ Goes(todo, Here)
  BY AtHead DEF Step
<1> QED BY <1>1 DEF Goes

(* A connect that reports success has been through a start of the daemon or *)
(* a resume of the one that runs, and a disconnect through a pause or a     *)
(* look that found no daemon, on every path connect_session takes past      *)
(* service installation, failed calls and the status the backend had kept.  *)
THEOREM SessionIsAsAsked == Spec => []SessionAsAsked
<1>1. TypeInv /\ ProgramInv => SessionAsAsked
  <2> SUFFICES ASSUME TypeInv, ProgramInv PROVE SessionAsAsked
    OBVIOUS
  <2>1. ASSUME Step("connected"), ~tainted PROVE daemon.up /\ daemon.on
    <3>1. ConnectedAt(todo, 1, Here)
      BY <2>1, Reached DEF Marks, MarkAt
    <3> QED BY <2>1, <3>1, HereIs DEF ConnectedAt, Serving
  <2>2. ASSUME Step("disconnected"), ~tainted PROVE ~Active
    <3>1. DisconnectedAt(todo, 1, Here)
      BY <2>2, Reached DEF Marks, MarkAt
    <3> QED BY <2>2, <3>1, HereIs DEF DisconnectedAt, Serving, Active
  <2> QED BY <2>1, <2>2 DEF SessionAsAsked
<1> QED BY <1>1, ProgramAlways, PTL

(* An edit that reports success (finish_config_mutation,                    *)
(* set_network_join_requests_enabled) has reached a daemon that runs,       *)
(* whether it was told to reload, applied the file itself, or was started   *)
(* with it.                                                                 *)
THEOREM EditsReach == Spec => []EditsReachDaemon
<1>1. TypeInv /\ ProgramInv => EditsReachDaemon
  <2> SUFFICES ASSUME TypeInv, ProgramInv, ~tainted PROVE
        /\ Step("edited") /\ daemon.up => daemon.loaded = disk
        /\ Step("listening") => daemon.up /\ daemon.loaded.listen
        /\ Step("quiet") /\ daemon.up => ~daemon.loaded.listen
    BY DEF EditsReachDaemon
  <2>1. ASSUME Step("edited"), daemon.up PROVE daemon.loaded = disk
    <3>1. EditedAt(todo, 1, Here)
      BY <2>1, Reached DEF Marks, MarkAt
    <3> QED BY <2>1, <3>1, HereIs DEF EditedAt, UpToDate
  <2>2. ASSUME Step("listening") PROVE daemon.up /\ daemon.loaded.listen
    <3>1. ListeningAt(todo, 1, Here)
      BY <2>2, Reached DEF Marks, MarkAt
    <3> QED BY <2>2, <3>1, HereIs DEF ListeningAt, Listens
  <2>3. ASSUME Step("quiet"), daemon.up PROVE ~daemon.loaded.listen
    <3>1. QuietAt(todo, 1, Here)
      BY <2>3, Reached DEF Marks, MarkAt
    <3> QED BY <2>3, <3>1, HereIs DEF QuietAt, Ignores
  <2> QED BY <2>1, <2>2, <2>3
<1> QED BY <1>1, ProgramAlways, PTL

-----------------------------------------------------------------------------
(* Join requests on record. *)

OnRecord == {disk.outbound, gui.mem.outbound, daemon.loaded.outbound, 0}

LEMMA RecordStep ==
    ASSUME TypeInv, TypeInv', [Next]_vars
    PROVE  /\ sent \subseteq sent'
           /\ OnRecord' \subseteq OnRecord \/ (OnRecord' \subseteq OnRecord \cup {now} /\ now \in sent')
<1>0. /\ gui \in GuiType /\ daemon \in DaemonType /\ disk \in Config /\ gui.mem \in Config
      /\ daemon.loaded \in Config
  BY DEF TypeInv, GuiOK, ProcessesOK, Apart
<1>1. \A b : Started(b).loaded = disk
  BY DEF Started
<1>2. Stopped.loaded.outbound = 0
  BY DEF Stopped, FirstConfig
<1>3. ASSUME NEW mem, mem.outbound = gui.mem.outbound, NEW steps, Begin(mem, steps)
      PROVE  sent' = sent /\ OnRecord' \subseteq OnRecord
  <2>1. gui'.mem = mem /\ disk' = disk /\ daemon' = daemon /\ sent' = sent
    BY <1>0, <1>3 DEF Begin, world, GuiType
  <2> QED BY <1>3, <2>1 DEF OnRecord
<1>4. CASE Commands \/ TickCommand
  <2>1. \A m \in Config : \A p :
         /\ [m EXCEPT !.members = @ \cup {p}, !.inbound = @ \ {p}].outbound = m.outbound
         /\ [m EXCEPT !.members = @ \ {p}].outbound = m.outbound
         /\ [m EXCEPT !.listen = p].outbound = m.outbound
         /\ [m EXCEPT !.other = p].outbound = m.outbound
         /\ WithInvite(m).outbound = m.outbound
    BY DEF Config, WithInvite
  <2>2. ASSUME NEW p \in People, AddParticipant(p) \/ RemoveParticipant(p) \/ AcceptJoinRequest(p)
        PROVE  sent' = sent /\ OnRecord' \subseteq OnRecord
    BY <1>0, <1>3, <2>1, <2>2 DEF AddParticipant, RemoveParticipant, AcceptJoinRequest
  <2>3. CASE ImportInvite \/ RequestJoin \/ Connect \/ Disconnect \/ ServiceCommand
    BY <1>0, <1>3, <2>1, <2>3 DEF ImportInvite, RequestJoin, Connect, Disconnect, ServiceCommand
  <2>4. CASE ChangeNetworks \/ ChangeRelays \/ RenameNetwork \/ UpdateSettings
    BY <1>0, <1>3, <2>1, <2>4 DEF ChangeNetworks, ChangeRelays, RenameNetwork, UpdateSettings
  <2>5. ASSUME NEW enabled \in BOOLEAN, SetJoinRequests(enabled)
        PROVE  sent' = sent /\ OnRecord' \subseteq OnRecord
    BY <1>0, <1>3, <2>1, <2>5 DEF SetJoinRequests
  <2>6. CASE UpdateSettingsRejected \/ TickCommand
    <3>1. /\ disk' = disk /\ daemon' = daemon /\ sent' = sent
          /\ gui' = gui \/ gui' = [gui EXCEPT !.mem.other = Flipped(@)]
      BY <2>6 DEF UpdateSettingsRejected, TickCommand, world
    <3>2. gui'.mem.outbound = gui.mem.outbound
      BY <1>0, <3>1 DEF GuiType, Config
    <3> QED BY <3>1, <3>2 DEF OnRecord
  <2> QED BY <1>4, <2>2, <2>3, <2>4, <2>5, <2>6 DEF Commands
<1>5. CASE Request
  <2>1. disk' = disk /\ daemon' = daemon /\ sent' = sent \cup {now} /\ gui' = [gui EXCEPT !.mem.outbound = now]
    BY <1>5 DEF Request, world
  <2>2. gui'.mem.outbound = now
    BY <1>0, <2>1 DEF GuiType, Config
  <2> QED BY <2>1, <2>2 DEF OnRecord
<1>6. CASE Sync
  <2>1. disk' = disk /\ daemon' = daemon /\ sent' = sent /\ \E fault : gui' = Synced(fault)
    BY <1>6 DEF Sync, world
  <2>2. gui'.mem \in {disk, gui.mem}
    BY <2>1, SyncedOK
  <2> QED BY <2>1, <2>2 DEF OnRecord
<1>7. CASE Clear
  <2>1. /\ daemon' = daemon /\ sent' = sent /\ disk' \in {gui'.mem, disk}
        /\ gui' = gui \/ gui' = [gui EXCEPT !.mem.outbound = 0]
    BY <1>7 DEF Clear
  <2>2. gui'.mem.outbound \in {gui.mem.outbound, 0}
    BY <1>0, <2>1 DEF GuiType, Config
  <2> QED BY <2>1, <2>2 DEF OnRecord
<1>8. CASE SaveLocally \/ SaveViaDaemon \/ Reload \/ Resume \/ Pause \/ Start \/ Install \/ Enable
           \/ Uninstall \/ Disable
  <2>1. /\ sent' = sent /\ disk' \in {disk, gui.mem}
        /\ \/ gui' = gui \/ \E b : gui' = [gui EXCEPT !.fresh = b]
        /\ \/ \E b : daemon' = [daemon EXCEPT !.on = b]
           \/ \E b : daemon' = [daemon EXCEPT !.loaded = gui.mem, !.on = b]
           \/ daemon' = [daemon EXCEPT !.loaded = disk]
           \/ daemon' \in {daemon, Stopped} \/ \E b : daemon' = Started(b)
    BY <1>8 DEF SaveLocally, SaveViaDaemon, Reload, Resume, Pause, Start, Install, Enable, Uninstall,
                Disable, EndService, ServiceUp
  <2>2. gui'.mem = gui.mem
    BY <1>0, <2>1 DEF GuiType
  <2>3. daemon'.loaded.outbound \in {daemon.loaded.outbound, gui.mem.outbound, disk.outbound, 0}
    BY <1>0, <1>1, <1>2, <2>1 DEF DaemonType
  <2> QED BY <2>1, <2>2, <2>3 DEF OnRecord
<1>9. CASE FailStep \/ ChooseConnect \/ TryConnect \/ RequestNothing \/ Launch \/ Pass
           \/ Handshake \/ PeerSilent \/ Tick \/ UNCHANGED vars
  <2>1. gui' = gui /\ disk' = disk /\ daemon' = daemon /\ sent' = sent
    BY <1>9 DEF FailStep, ChooseConnect, TryConnect, RequestNothing, Launch, Pass, Handshake, PeerSilent,
                Tick, vars, world
  <2> QED BY <2>1 DEF OnRecord
<1>10. CASE Reopen \/ ServiceStatusAges
  <2>1. disk' = disk /\ daemon' = daemon /\ sent' = sent /\ gui'.mem \in {disk, gui.mem}
    BY <1>0, <1>10 DEF Reopen, ServiceStatusAges, world, GuiType
  <2> QED BY <2>1 DEF OnRecord
<1>11. CASE DaemonExits \/ ServiceStarts \/ OtherClient
  <2>1. /\ gui' = gui /\ disk' = disk /\ sent' = sent
        /\ \/ daemon' = [daemon EXCEPT !.on = ~@]
           \/ daemon' \in {daemon, Stopped} \/ \E b : daemon' = Started(b)
    BY <1>11 DEF DaemonExits, ServiceStarts, OtherClient, ServiceUp
  <2>2. daemon'.loaded.outbound \in {daemon.loaded.outbound, disk.outbound, 0}
    BY <1>0, <1>1, <1>2, <2>1 DEF DaemonType
  <2> QED BY <2>1, <2>2 DEF OnRecord
<1>12. ASSUME NEW p \in People, ReceiveJoinRequest(p)
       PROVE  sent' = sent /\ OnRecord' \subseteq OnRecord
  <2>1. /\ gui' = gui /\ sent' = sent
        /\ disk' = [daemon.loaded EXCEPT !.inbound = @ \cup {p}]
        /\ daemon' = [daemon EXCEPT !.loaded = disk']
    BY <1>12 DEF ReceiveJoinRequest
  <2>2. disk'.outbound = daemon.loaded.outbound /\ daemon'.loaded = disk'
    BY <1>0, <2>1 DEF Config, DaemonType
  <2> QED BY <2>1, <2>2 DEF OnRecord
<1> QED BY <1>4, <1>5, <1>6, <1>7, <1>8, <1>9, <1>10, <1>11, <1>12 DEF Next, Steps

(* Whatever is on record in the file, the copy or the daemon, each of which *)
(* is written over the others in turn (persist_config, reload,              *)
(* sync_daemon_state, a daemon that saves an older configuration), is a     *)
(* join request that was published (request_network_join).                  *)
THEOREM RequestsWereSent == Spec => []RequestWasSent
<1> DEFINE Inv == TypeInv /\ OnRecord \subseteq sent \cup {0}
<1>1. Init => Inv
  <2> SUFFICES ASSUME Init PROVE OnRecord \subseteq sent \cup {0}
    BY TypeInit
  <2>1. \E listen : disk = FirstConfig(listen) /\ gui.mem = disk /\ daemon = Stopped
    BY DEF Init
  <2> QED BY <2>1 DEF FirstConfig, Stopped, OnRecord
<1>2. Inv /\ [Next]_vars => Inv'
  <2> SUFFICES ASSUME Inv, [Next]_vars PROVE Inv'
    OBVIOUS
  <2>1. TypeInv'
    BY TypeStep
  <2> QED BY <2>1, RecordStep
<1>3. Inv => RequestWasSent
  BY DEF RequestWasSent, OnRecord
<1> HIDE DEF Inv
<1> QED BY <1>1, <1>2, <1>3, PTL DEF Spec
====
