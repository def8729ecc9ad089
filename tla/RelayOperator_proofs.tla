------------------------ MODULE RelayOperator_proofs ------------------------
(***************************************************************************)
(* Theorems about the relay operator, for every choice of the constants.   *)
(***************************************************************************)
EXTENDS RelayOperator, FiniteSetTheorems, TLAPS

USE DEF Now, memory

(* Division: the monotonic clock is turned into whole seconds, and a lease  *)
(* counted in ticks ends in the second that expires_at names.               *)
LEMMA DivDef ==
  ASSUME NEW a \in Nat, NEW n \in Nat \ {0}
  PROVE  /\ a \div n \in Nat
         /\ n * (a \div n) <= a
         /\ a < n * (a \div n) + n
OBVIOUS

LEMMA DivUnique ==
  ASSUME NEW a \in Nat, NEW n \in Nat \ {0}, NEW q \in Nat,
         n * q <= a, a < n * q + n
  PROVE  a \div n = q
<1> DEFINE d == a \div n
<1>1. d \in Nat /\ n * d <= a /\ a < n * d + n
  BY DivDef
<1> HIDE DEF d
<1>2. ASSUME d < q PROVE FALSE
  <2>1. n * (d + 1) <= n * q
    BY <1>1, <1>2
  <2>2. n * (d + 1) = n * d + n
    BY <1>1
  <2> QED BY <1>1, <2>1, <2>2
<1>3. ASSUME q < d PROVE FALSE
  <2>1. n * (q + 1) <= n * d
    BY <1>1, <1>3
  <2>2. n * (q + 1) = n * q + n
    BY <1>1
  <2> QED BY <1>1, <2>1, <2>2
<1>4. d = q
  BY <1>1, <1>2, <1>3
<1> QED BY <1>4 DEF d

LEMMA DivAdd ==
  ASSUME NEW a \in Nat, NEW k \in Nat, NEW n \in Nat \ {0}
  PROVE  (a + k * n) \div n = a \div n + k
<1> DEFINE d == a \div n
<1>1. d \in Nat /\ n * d <= a /\ a < n * d + n
  BY DivDef
<1> HIDE DEF d
<1>2. n * (d + k) = n * d + k * n
  BY <1>1
<1>3. a + k * n \in Nat /\ d + k \in Nat /\ k * n \in Nat /\ n * d \in Nat
  BY <1>1
<1>4. n * (d + k) <= a + k * n /\ a + k * n < n * (d + k) + n
  BY <1>1, <1>2, <1>3
<1>5. (a + k * n) \div n = d + k
  BY <1>3, <1>4, DivUnique
<1> QED BY <1>5 DEF d

LEMMA DivMono ==
  ASSUME NEW a \in Nat, NEW b \in Nat, NEW n \in Nat \ {0}, a \div n > b \div n
  PROVE  a > b
OBVIOUS
(* The port arithmetic of RelayPortRange::next_after stays in the range. *)
LEMMA NextAfterInRange ==
  ASSUME NEW port \in Ports, NEW k \in Nat
  PROVE  NextAfter(port, k) \in Ports
BY PortAssumption DEF NextAfter, Ports, RangeLen

LEMMA LeaseIsPositive ==
  ASSUME NEW kind \in Kinds
  PROVE  LeaseOf(kind) \in Nat \ {0}
BY TimeAssumption DEF LeaseOf, Kinds

LEMMA NowIsNat == ASSUME clock \in Nat PROVE Now \in Nat
BY TimeAssumption

LEMMA NoPairType == NoPair \in Pair
<1>1. (CHOOSE i \in RequestIds : TRUE) \in RequestIds
  BY NameAssumption
<1>2. (CHOOSE r \in Requesters : TRUE) \in Requesters
  BY NameAssumption
<1>3. PortStart \in Ports
  BY PortAssumption DEF Ports
<1> QED
  BY <1>1, <1>2, <1>3 DEF NoPair, Pair, NoWindow, Legs

LEMMA NoPairFields ==
  /\ NoPair.owners = {} /\ NoPair.window = NoWindow /\ NoPair.window.at = 0
  /\ \A leg \in Legs : NoPair.addr[leg] = NoAddr
BY DEF NoPair, NoWindow

LEMMA NoSessionsType ==
  DOMAIN NoSessions = {} /\ NoSessions \in [{} -> Session]
BY DEF NoSessions

LEMMA PruneType ==
  ASSUME NEW f, DOMAIN f \subseteq RequestIds, f \in [DOMAIN f -> Session], NEW t
  PROVE  /\ DOMAIN PruneExpired(f, t) \subseteq DOMAIN f
         /\ PruneExpired(f, t) \in [DOMAIN PruneExpired(f, t) -> Session]
BY DEF PruneExpired

LEMMA WithSessionType ==
  ASSUME NEW f, DOMAIN f \subseteq RequestIds, f \in [DOMAIN f -> Session],
         NEW id \in RequestIds, NEW s \in Session
  PROVE  /\ DOMAIN WithSession(f, id, s) = DOMAIN f \union {id}
         /\ WithSession(f, id, s) \in [DOMAIN WithSession(f, id, s) -> Session]
BY DEF WithSession

LEMMA ReleasedType ==
  ASSUME NEW pair \in Pair, NEW task
  PROVE  Released(pair, task) \in Pair
BY NoPairType DEF Released, Pair

LEMMA NewPairType ==
  ASSUME clock \in Nat, NEW q \in Ports, NEW kind \in Kinds,
         NEW id \in RequestIds, NEW r \in Requesters
  PROVE  NewPair(q, kind, id, r) \in Pair
<1>1. Now + LeaseOf(kind) \in Nat
  BY NowIsNat, LeaseIsPositive
<1>2. clock + LeaseOf(kind) * TicksPerSec \in Nat
  BY LeaseIsPositive, TimeAssumption
<1> QED
  BY <1>1, <1>2 DEF NewPair, Pair, NoWindow, Legs

(* The token bucket never holds a negative number of bytes, because the    *)
(* last refill is never in the future.                                     *)
Window == [open : BOOLEAN, at : Nat, available : Nat]

LEMMA RefilledType ==
  ASSUME clock \in Nat, NEW w \in Window, w.at <= clock, NEW len \in Nat
  PROVE  /\ Refilled(w, len) \in Window
         /\ Refilled(w, len).at <= clock
<1> DEFINE burst   == Larger(MaxForwardBps, len)
           opened  == IF w.open THEN w ELSE [open |-> TRUE, at |-> clock, available |-> burst]
           elapsed == clock - opened.at
<1>1. burst \in Nat
  BY LimitAssumption DEF Larger
<1>2. opened \in Window /\ opened.at <= clock
  BY <1>1 DEF Window
<1>3. elapsed \in Nat
  BY <1>2 DEF Window
<1> HIDE DEF burst, opened, elapsed
<1>4. (elapsed * MaxForwardBps) \div TicksPerSec \in Nat
  <2>1. elapsed * MaxForwardBps \in Nat
    BY <1>3, LimitAssumption
  <2> QED BY <2>1, TimeAssumption
<1>5. Smaller(burst, opened.available + ((elapsed * MaxForwardBps) \div TicksPerSec)) \in Nat
  BY <1>1, <1>2, <1>4 DEF Smaller, Window
<1>6. Refilled(w, len) =
        IF elapsed = 0 THEN opened
        ELSE [open |-> TRUE, at |-> clock,
              available |-> Smaller(burst,
                opened.available + ((elapsed * MaxForwardBps) \div TicksPerSec))]
  BY DEF Refilled, burst, opened, elapsed
<1> QED
  BY <1>2, <1>5, <1>6 DEF Window

-----------------------------------------------------------------------------
(* Type correctness needs to know that no bucket was refilled in the       *)
(* future: otherwise a refill could take bytes away.                       *)
WindowsInPast == \A p \in Ports : pairs[p].window.at <= clock

TypeInv == TypeOK /\ WindowsInPast

LEMMA TypeInit == Init => TypeInv
<1> SUFFICES ASSUME Init PROVE TypeInv
  OBVIOUS
<1>1. PortStart \in Ports
  BY PortAssumption DEF Ports
<1> QED
  BY <1>1, NoPairType, NoPairFields, NoSessionsType
     DEF Init, TypeInv, TypeOK, WindowsInPast, Idle

(* What the end of the process leaves has its type. *)
LEMMA TypeExit ==
  ASSUME TypeInv, Exit, requests' \in Nat, grants' \subseteq GrantMsg
  PROVE  TypeInv'
<1>1. main' \in [pc : {"recv", "publish", "note"}, port : Ports]
  BY PortAssumption DEF Ports, Exit, Idle
<1>2. DOMAIN active' \subseteq RequestIds /\ active' \in [DOMAIN active' -> Session]
  BY NoSessionsType DEF Exit
<1>3. pairs' = [p \in Ports |-> NoPair]
  BY DEF Exit
<1>4. pairs' \in [Ports -> Pair] /\ WindowsInPast'
  BY <1>3, NoPairType, NoPairFields DEF Exit, TypeInv, TypeOK, WindowsInPast
<1>5. up' \in BOOLEAN
  BY DEF Exit
<1>6. /\ clock' = clock /\ boots' = boots /\ served' = served
      /\ forwarded' = forwarded /\ next_port' = next_port /\ disk' = disk
  BY DEF Exit
<1> QED
  BY <1>1, <1>2, <1>4, <1>5, <1>6 DEF TypeInv, TypeOK

LEMMA TypeRequest ==
  ASSUME TypeInv, NEW kind \in Kinds, NEW r \in Requesters,
         \/ RejectRequest(kind, r) \/ RejectPublishFails(kind, r)
         \/ BindFails(kind, r)
         \/ \E id \in RequestIds : BindLegs(kind, id, r)
  PROVE  TypeInv'
<1>1. ASSUME RejectRequest(kind, r) \/ BindFails(kind, r) PROVE TypeInv'
  BY <1>1, PruneType
     DEF TypeInv, TypeOK, WindowsInPast, RejectRequest, BindFails, Receive
<1>2. ASSUME RejectPublishFails(kind, r) PROVE TypeInv'
  BY <1>2, TypeExit DEF TypeInv, TypeOK, RejectPublishFails, Receive
<1>3. ASSUME NEW id \in RequestIds, BindLegs(kind, id, r) PROVE TypeInv'
  <2>1. PICK p \in Ports, q \in Ports :
          /\ pairs' = [pairs EXCEPT ![p] = NewPair(q, kind, id, r)]
          /\ next_port' = IF UsePortRange THEN NextAfter(q, 1) ELSE next_port
          /\ main' = [pc |-> "publish", port |-> p]
    BY <1>3 DEF BindLegs
  <2>2. pairs' \in [Ports -> Pair]
    BY <2>1, NewPairType DEF TypeInv, TypeOK
  <2>3. next_port' \in Ports
    BY <2>1, NextAfterInRange DEF TypeInv, TypeOK
  <2>4. WindowsInPast'
    BY <1>3, <2>1 DEF WindowsInPast, BindLegs, NewPair, NoWindow, TypeInv, TypeOK
  <2>5. active' \in [DOMAIN active' -> Session] /\ DOMAIN active' \subseteq RequestIds
    BY <1>3, PruneType DEF TypeInv, TypeOK, BindLegs
  <2> QED
    BY <1>3, <2>1, <2>2, <2>3, <2>4, <2>5 DEF TypeInv, TypeOK, BindLegs, Receive
<1> QED
  BY <1>1, <1>2, <1>3

(* A published grant has its type. *)
LEMMA GrantType ==
  ASSUME TypeInv
  PROVE  Grant(main.port) \in GrantMsg
BY DEF TypeInv, TypeOK, Grant, GrantMsg, Pair

LEMMA TypePublish ==
  ASSUME TypeInv, PublishGrant \/ GrantPublishFails \/ NoteSession
  PROVE  TypeInv'
<1>1. ASSUME PublishGrant PROVE TypeInv'
  BY <1>1, GrantType DEF TypeInv, TypeOK, PublishGrant, WindowsInPast
<1>2. ASSUME GrantPublishFails PROVE TypeInv'
  <2>1. Exit /\ requests' = requests /\ grants' \subseteq GrantMsg
    BY <1>2, GrantType DEF GrantPublishFails, TypeInv, TypeOK
  <2> QED BY <2>1, TypeExit DEF TypeInv, TypeOK
<1>3. ASSUME NoteSession PROVE TypeInv'
  <2> DEFINE pair == pairs[main.port]
             s == [requester |-> pair.requester, expires_at |-> pair.expires_at,
                   from_requester |-> 0, from_target |-> 0]
  <2>1. pair \in Pair /\ main.port \in Ports
    BY DEF TypeInv, TypeOK
  <2>2. s \in Session /\ pair.request_id \in RequestIds
    BY <2>1 DEF Session, Pair
  <2>3. active' = WithSession(PruneExpired(active, Now), pair.request_id, s)
    BY <1>3 DEF NoteSession
  <2> HIDE DEF pair, s
  <2>4. DOMAIN active' \subseteq RequestIds /\ active' \in [DOMAIN active' -> Session]
    <3> DEFINE f == PruneExpired(active, Now)
    <3>1. DOMAIN f \subseteq RequestIds /\ f \in [DOMAIN f -> Session]
      BY PruneType DEF TypeInv, TypeOK
    <3> HIDE DEF f
    <3> DEFINE g == WithSession(f, pair.request_id, s)
    <3>2. DOMAIN g = DOMAIN f \union {pair.request_id} /\ g \in [DOMAIN g -> Session]
      BY ONLY <2>2, <3>1, WithSessionType
    <3>3. active' = g
      BY <2>3 DEF f
    <3> HIDE DEF g
    <3> QED BY <2>2, <3>1, <3>2, <3>3
  <2>5. pairs' = [pairs EXCEPT ![main.port].owners = Legs]
    BY <1>3 DEF NoteSession
  <2>6. pairs' \in [Ports -> Pair]
    BY <2>1, <2>5 DEF TypeInv, TypeOK, Pair
  <2>7. WindowsInPast'
    BY <1>3, <2>1, <2>5 DEF NoteSession, TypeInv, TypeOK, WindowsInPast, Pair
  <2>8. main' \in [pc : {"recv", "publish", "note"}, port : Ports]
    BY <1>3, PortAssumption DEF NoteSession, Idle, Ports
  <2> QED
    BY <1>3, <2>4, <2>6, <2>7, <2>8 DEF NoteSession, TypeInv, TypeOK
<1> QED
  BY <1>1, <1>2, <1>3

(* A step that only changes the pair of one port keeps the types when the   *)
(* new pair has its type and its bucket was refilled in the past.           *)
LEMMA TypePair ==
  ASSUME TypeInv, NEW p \in Ports, NEW pair \in Pair, pair.window.at <= clock,
         pairs' = [pairs EXCEPT ![p] = pair], clock' = clock
  PROVE  pairs' \in [Ports -> Pair] /\ WindowsInPast'
BY DEF TypeInv, TypeOK, WindowsInPast

LEMMA TypeLeg ==
  ASSUME TypeInv, NEW p \in Ports, NEW leg \in Legs, LegStep(p, leg)
  PROVE  TypeInv'
<1>0. pairs[p] \in Pair /\ pairs[p].window \in Window /\ pairs[p].window.at <= clock
  BY DEF TypeInv, TypeOK, WindowsInPast, Pair, Window
<1>1. ASSUME EndLeg(p, leg) PROVE TypeInv'
  <2>1. pairs' = [pairs EXCEPT ![p] = Released(pairs[p], leg)]
    BY <1>1 DEF EndLeg, TypeInv, TypeOK
  <2>2. Released(pairs[p], leg).window.at <= clock
    BY <1>0, NoPairFields DEF Released, TypeInv, TypeOK, Pair
  <2>3. pairs' \in [Ports -> Pair] /\ WindowsInPast'
    BY <1>0, <1>1, <2>1, <2>2, ReleasedType, TypePair DEF EndLeg
  <2> QED BY <1>1, <2>3 DEF EndLeg, TypeInv, TypeOK
<1>2. ASSUME NEW len \in PacketSizes, DropOverBytes(p, leg, len) PROVE TypeInv'
  <2> DEFINE pair == [pairs[p] EXCEPT !.closed = TRUE]
  <2>1. pair \in Pair /\ pair.window.at <= clock
    BY <1>0 DEF Pair
  <2>2. pairs' = [pairs EXCEPT ![p] = pair]
    BY <1>2 DEF DropOverBytes, TypeInv, TypeOK
  <2> HIDE DEF pair
  <2>3. pairs' \in [Ports -> Pair] /\ WindowsInPast'
    BY <1>2, <2>1, <2>2, TypePair DEF DropOverBytes
  <2> QED BY <1>2, <2>3 DEF DropOverBytes, TypeInv, TypeOK
<1>3. ASSUME NEW len \in PacketSizes, DropRateLimited(p, leg, len) PROVE TypeInv'
  <2>1. /\ Refilled(pairs[p].window, len) \in Window
        /\ Refilled(pairs[p].window, len).at <= clock
    BY <1>0, RefilledType, LimitAssumption DEF TypeInv, TypeOK
  <2>2. pairs' \in [Ports -> Pair]
    BY <1>3, <2>1 DEF DropRateLimited, TypeInv, TypeOK, Pair, Window
  <2>3. WindowsInPast'
    BY <1>3, <1>0, <2>1 DEF DropRateLimited, TypeInv, TypeOK, WindowsInPast, Pair
  <2> QED BY <1>3, <2>2, <2>3 DEF DropRateLimited, TypeInv, TypeOK
<1>4. ASSUME NEW len \in PacketSizes, NEW src \in Addrs, ForwardPacket(p, leg, src, len)
      PROVE  TypeInv'
  <2> DEFINE pair == [Charged(pairs[p], len) EXCEPT !.addr = Binding(pairs[p], leg, src)]
             w == Refilled(pairs[p].window, len)
  <2>0. len \in Nat
    BY LimitAssumption
  <2>1. w \in Window /\ w.at <= clock
    BY <1>0, <2>0, RefilledType DEF TypeInv, TypeOK
  <2>2. MaxForwardBps # 0 => w.available >= len
    BY <1>4, <2>0, <2>1 DEF ForwardPacket, RateLimited, Window
  <2>3. Binding(pairs[p], leg, src) \in [Legs -> Addrs \union {NoAddr}]
    BY <1>0 DEF Binding, Pair
  <2> HIDE DEF w
  <2>4. [w EXCEPT !.available = @ - len].at = w.at
    BY <2>1 DEF Window
  <2>5. MaxForwardBps # 0 => [w EXCEPT !.available = @ - len] \in Window
    BY <2>0, <2>1, <2>2 DEF Window
  <2> DEFINE window == IF MaxForwardBps = 0 THEN pairs[p].window
                       ELSE [w EXCEPT !.available = @ - len]
             since == IF MaxForwardBps # 0 /\ ~pairs[p].window.open THEN clock
                      ELSE pairs[p].since
  <2>6. /\ window \in Window /\ window.at <= clock
        /\ since \in Nat /\ pairs[p].bytes + len \in Nat
    BY <1>0, <2>0, <2>1, <2>4, <2>5 DEF Pair, TypeInv, TypeOK
  <2>16. Charged(pairs[p], len) =
          [pairs[p] EXCEPT !.bytes = pairs[p].bytes + len, !.window = window, !.since = since]
    BY DEF Charged, w
  <2> HIDE DEF window, since
  <2>7. Charged(pairs[p], len) \in Pair /\ Charged(pairs[p], len).window.at <= clock
    BY <1>0, <2>6, <2>16 DEF Pair, Window
  <2>8. pair \in Pair /\ pair.window.at <= clock
    BY <2>3, <2>7 DEF Pair
  <2>9. pairs' = [pairs EXCEPT ![p] = pair]
    BY <1>4 DEF ForwardPacket, TypeInv, TypeOK
  <2> HIDE DEF pair
  <2>10. pairs' \in [Ports -> Pair] /\ WindowsInPast'
    BY <1>4, <2>8, <2>9, TypePair DEF ForwardPacket
  <2>11. /\ forwarded' \in Nat
         /\ DOMAIN active' \subseteq RequestIds /\ active' \in [DOMAIN active' -> Session]
    BY <1>4, <2>0 DEF ForwardPacket, NoteForwarded, TypeInv, TypeOK, Session
  <2> QED BY <1>4, <2>10, <2>11 DEF ForwardPacket, TypeInv, TypeOK
<1> QED
  BY <1>1, <1>2, <1>3, <1>4 DEF LegStep, LegExpires, LegFails

(* What the step of a leg task can do: its pair is released, at the end of  *)
(* the lease or on an error, or keeps its ports, its lease and its owners;  *)
(* the sessions keep their ids and requesters.                              *)
KeepsLease(old, new) ==
  /\ new.owners = old.owners /\ new.target_port = old.target_port
  /\ new.request_id = old.request_id /\ new.requester = old.requester
  /\ new.expires_at = old.expires_at /\ new.deadline = old.deadline

LEMMA LegEffect ==
  ASSUME TypeInv, NEW p \in Ports, NEW leg \in Legs, LegStep(p, leg)
  PROVE  /\ leg \in pairs[p].owners
         /\ clock' = clock /\ up' = up /\ boots' = boots /\ main' = main
         /\ grants' = grants
         /\ \A o \in Ports \ {p} : pairs'[o] = pairs[o]
         /\ \/ /\ pairs'[p] = Released(pairs[p], leg)
               /\ LegErrors \/ clock >= pairs[p].deadline
            \/ KeepsLease(pairs[p], pairs'[p])
         /\ DOMAIN active' = DOMAIN active
         /\ \A i \in DOMAIN active : active'[i].requester = active[i].requester
<1> USE DEF TypeInv, TypeOK
<1> DEFINE Effect ==
      /\ leg \in pairs[p].owners
      /\ clock' = clock /\ up' = up /\ boots' = boots /\ main' = main
      /\ grants' = grants
      /\ \A o \in Ports \ {p} : pairs'[o] = pairs[o]
      /\ \/ /\ pairs'[p] = Released(pairs[p], leg)
            /\ LegErrors \/ clock >= pairs[p].deadline
         \/ KeepsLease(pairs[p], pairs'[p])
      /\ DOMAIN active' = DOMAIN active
      /\ \A i \in DOMAIN active : active'[i].requester = active[i].requester
<1>1. ASSUME LegExpires(p, leg) \/ LegFails(p, leg) PROVE Effect
  BY <1>1 DEF LegExpires, LegFails, EndLeg
<1>2. ASSUME NEW len \in PacketSizes, DropOverBytes(p, leg, len) PROVE Effect
  BY <1>2 DEF DropOverBytes, KeepsLease, Pair
<1>3. ASSUME NEW len \in PacketSizes, DropRateLimited(p, leg, len) PROVE Effect
  BY <1>3 DEF DropRateLimited, KeepsLease, Pair
<1>4. ASSUME NEW len \in PacketSizes, NEW src \in Addrs, ForwardPacket(p, leg, src, len)
      PROVE  Effect
  <2>1. KeepsLease(pairs[p], pairs'[p]) /\ \A o \in Ports \ {p} : pairs'[o] = pairs[o]
    BY <1>4 DEF ForwardPacket, Charged, KeepsLease, Pair
  <2>2. /\ DOMAIN active' = DOMAIN active
        /\ \A i \in DOMAIN active : active'[i].requester = active[i].requester
    BY <1>4 DEF ForwardPacket, NoteForwarded, Session
  <2> QED BY <1>4, <2>1, <2>2 DEF ForwardPacket
<1> QED
  BY <1>1, <1>2, <1>3, <1>4 DEF LegStep

LEMMA TypeRest ==
  ASSUME TypeInv,
         Crash \/ Restart \/ WriteState \/ WriteStateFails \/ Tick \/ UNCHANGED vars
  PROVE  TypeInv'
<1>1. ASSUME Crash PROVE TypeInv'
  BY <1>1, TypeExit DEF Crash, TypeInv, TypeOK
<1>2. ASSUME Restart PROVE TypeInv'
  BY <1>2, NoSessionsType, PortAssumption
     DEF Restart, TypeInv, TypeOK, WindowsInPast, Ports
<1>3. ASSUME WriteState \/ WriteStateFails PROVE TypeInv'
  BY <1>3, PruneType DEF WriteState, WriteStateFails, Snapshot, TypeInv, TypeOK, WindowsInPast
<1>4. ASSUME Tick PROVE TypeInv'
  BY <1>4 DEF Tick, TypeInv, TypeOK, WindowsInPast, Pair
<1>5. ASSUME UNCHANGED vars PROVE TypeInv'
  BY <1>5 DEF vars, TypeInv, TypeOK, WindowsInPast
<1> QED
  BY <1>1, <1>2, <1>3, <1>4, <1>5

LEMMA TypeStep == TypeInv /\ [Next]_vars => TypeInv'
BY TypeRequest, TypePublish, TypeLeg, TypeRest DEF Next, HandleRequest

(* The operator's state is type-correct in every reachable state. *)
THEOREM TypeCorrect == Spec => []TypeOK
BY TypeInit, TypeStep, PTL DEF Spec, TypeInv

-----------------------------------------------------------------------------
(* The file never runs ahead of the memory, so a restart from the file      *)
(* never undercuts what a later write compares with.                        *)
FileBehindMemory == disk.served <= served /\ disk.forwarded <= forwarded

LEMMA FileBehindStep == TypeInv /\ FileBehindMemory /\ [Next]_vars => FileBehindMemory'
<1> SUFFICES ASSUME TypeInv, FileBehindMemory, [Next]_vars PROVE FileBehindMemory'
  OBVIOUS
<1> USE DEF FileBehindMemory, TypeInv, TypeOK
<1>1. ASSUME HandleRequest PROVE FileBehindMemory'
  BY <1>1 DEF HandleRequest, RejectRequest, RejectPublishFails, BindFails, BindLegs, Exit
<1>2. ASSUME PublishGrant \/ GrantPublishFails \/ NoteSession \/ Crash PROVE FileBehindMemory'
  BY <1>2 DEF PublishGrant, GrantPublishFails, NoteSession, Crash, Exit
<1>3. ASSUME Restart \/ WriteState \/ WriteStateFails \/ Tick \/ UNCHANGED vars
      PROVE FileBehindMemory'
  BY <1>3 DEF Restart, WriteState, WriteStateFails, Snapshot, Tick, vars
<1>4. ASSUME NEW p \in Ports, NEW leg \in Legs, LegStep(p, leg) PROVE FileBehindMemory'
  <2>1. disk' = disk /\ served' = served
    BY <1>4 DEF LegStep, LegExpires, LegFails, EndLeg, DropOverBytes, DropRateLimited,
         ForwardPacket
  <2>2. forwarded' = forwarded \/ \E len \in PacketSizes : forwarded' = forwarded + len
    BY <1>4 DEF LegStep, LegExpires, LegFails, EndLeg, DropOverBytes, DropRateLimited,
         ForwardPacket, NoteForwarded
  <2> QED BY <2>1, <2>2, LimitAssumption
<1> QED
  BY <1>1, <1>2, <1>3, <1>4 DEF Next

LEMMA FileNeverGoesBack ==
  TypeInv /\ FileBehindMemory /\ [Next]_vars
    => disk.served <= disk'.served /\ disk.forwarded <= disk'.forwarded
<1> SUFFICES ASSUME TypeInv, FileBehindMemory, [Next]_vars
             PROVE disk.served <= disk'.served /\ disk.forwarded <= disk'.forwarded
  OBVIOUS
<1>1. CASE WriteState
  BY <1>1 DEF WriteState, FileBehindMemory, TypeInv, TypeOK
<1>2. CASE ~WriteState
  <2>1. disk' = disk
    BY <1>2 DEF Next, vars, HandleRequest, RejectRequest, RejectPublishFails, BindFails,
           BindLegs, Exit, PublishGrant, GrantPublishFails, NoteSession, Crash, Restart,
           WriteStateFails, Tick, LegStep, LegExpires, LegFails, EndLeg,
           DropOverBytes, DropRateLimited, ForwardPacket
  <2> QED BY <2>1 DEF TypeInv, TypeOK
<1> QED BY <1>1, <1>2

(* Whatever crashes and restarts, the persisted totals are monotonic. *)
THEOREM PersistedTotalsMonotonic == Spec => CountersNeverGoBack
<1>1. Init => FileBehindMemory
  BY DEF Init, FileBehindMemory
<1> QED
  BY <1>1, TypeInit, TypeStep, FileBehindStep, FileNeverGoesBack, PTL
     DEF Spec, CountersNeverGoBack

-----------------------------------------------------------------------------
(* Ports.  Between bind and spawn the main task itself holds the sockets.   *)
MainOwns == main.pc # "recv" => "main" \in pairs[main.port].owners

PortInv == MainOwns /\ PortsExclusive

(* Fewer than RangeLen steps of next_after never come back to the start. *)
LEMMA NextAfterMoves ==
  ASSUME NEW p \in Ports, NEW i \in 1 .. (1 + (RangeLen - 1) - 1)
  PROVE  NextAfter(p, i) # p
<1> DEFINE a == p - PortStart
           n == RangeLen
<1>1. a \in 0 .. (n - 1) /\ n \in Nat \ {0} /\ i \in 1 .. (n - 1)
  BY PortAssumption DEF Ports, RangeLen
<1>2. (a + i) % n # a
  <2> HIDE DEF a, n
  <2>1. CASE a + i < n
    <3>1. (a + i) % n = a + i
      BY <1>1, <2>1
    <3> QED BY <1>1, <3>1
  <2>2. CASE a + i >= n
    <3>1. (a + i) % n = a + i - n
      BY <1>1, <2>2
    <3> QED BY <1>1, <3>1
  <2> QED BY <1>1, <2>1, <2>2
<1> QED
  BY <1>1, <1>2, PortAssumption DEF NextAfter, Ports, RangeLen

(* bind_pair yields two different ports that no task holds. *)
LEMMA BindPairFree ==
  ASSUME NEW p \in Ports, NEW q \in Ports, BindPair(p, q)
  PROVE  p # q /\ p \notin BusyPorts /\ q \notin BusyPorts
<1>1. p \in FreePorts /\ q \in FreePorts
  BY DEF BindPair, FirstFree
<1>2. p # q
  <2>1. CASE UsePortRange
    <3>1. FirstFree(FreePorts, p, 1, RangeLen - 1, q)
      BY <2>1 DEF BindPair
    <3>2. PICK i \in 1 .. (1 + (RangeLen - 1) - 1) : q = NextAfter(p, i)
      BY <3>1 DEF FirstFree
    <3> QED BY <3>2, NextAfterMoves
  <2>2. CASE ~UsePortRange
    BY <2>2 DEF BindPair
  <2> QED BY <2>1, <2>2
<1> QED
  BY <1>1, <1>2 DEF FreePorts

(* A step that neither binds ports nor moves a bound pair keeps PortInv: it *)
(* may release pairs, or change what a lease holds besides its ports.       *)
Shrinks ==
  \A p \in Ports : pairs'[p].owners # {} =>
    Bound(p) /\ pairs'[p].target_port = pairs[p].target_port

LEMMA ShrinkKeepsPorts ==
  ASSUME PortsExclusive, Shrinks
  PROVE  PortsExclusive'
BY DEF PortsExclusive, Shrinks, Bound, PortsOf

LEMMA PortsRequest ==
  ASSUME TypeInv, PortInv, HandleRequest
  PROVE  PortInv'
<1> PICK kind \in Kinds, r \in Requesters :
      \/ RejectRequest(kind, r) \/ RejectPublishFails(kind, r)
      \/ BindFails(kind, r)
      \/ \E id \in RequestIds : BindLegs(kind, id, r)
  BY DEF HandleRequest
<1>1. ASSUME RejectRequest(kind, r) \/ BindFails(kind, r) PROVE PortInv'
  BY <1>1 DEF RejectRequest, BindFails, PortInv, MainOwns, PortsExclusive, Bound, PortsOf
<1>2. ASSUME RejectPublishFails(kind, r) PROVE PortInv'
  BY <1>2, NoPairFields
     DEF RejectPublishFails, Exit, Idle, PortInv, MainOwns, PortsExclusive, Bound
<1>3. ASSUME NEW id \in RequestIds, BindLegs(kind, id, r) PROVE PortInv'
  <2>1. PICK p \in Ports, q \in Ports :
          /\ BindPair(p, q)
          /\ pairs' = [pairs EXCEPT ![p] = NewPair(q, kind, id, r)]
          /\ main' = [pc |-> "publish", port |-> p]
    BY <1>3 DEF BindLegs
  <2>2. /\ pairs'[p].owners = {"main"} /\ pairs'[p].target_port = q
        /\ \A o \in Ports \ {p} : pairs'[o] = pairs[o]
    BY <2>1 DEF NewPair, TypeInv, TypeOK
  <2>3. MainOwns'
    BY <2>1, <2>2 DEF MainOwns
  <2>4. /\ p # q
        /\ \A o \in Ports : Bound(o) =>
             p \notin {o, pairs[o].target_port} /\ q \notin {o, pairs[o].target_port}
    BY <2>1, BindPairFree DEF BusyPorts, PortsOf
  <2>5. PortsExclusive'
    BY <2>2, <2>4 DEF PortInv, PortsExclusive, Bound, PortsOf
  <2> QED BY <2>3, <2>5 DEF PortInv
<1> QED
  BY <1>1, <1>2, <1>3

(* Recording a session hands the sockets from the main task to the legs.    *)
KeepsButOwners(old, new) ==
  /\ new.expires_at = old.expires_at /\ new.deadline = old.deadline
  /\ new.request_id = old.request_id /\ new.target_port = old.target_port
  /\ new.addr = old.addr

LEMMA NoteEffect ==
  ASSUME TypeInv, NoteSession
  PROVE  /\ pairs'[main.port].owners # {}
         /\ \A p \in Ports : KeepsButOwners(pairs[p], pairs'[p])
         /\ \A p \in Ports \ {main.port} : pairs'[p] = pairs[p]
<1> DEFINE pair == [pairs[main.port] EXCEPT !.owners = Legs]
<1>0. main.port \in Ports /\ pairs \in [Ports -> Pair] /\ pairs[main.port] \in Pair
  BY DEF TypeInv, TypeOK
<1>1. pairs' = [pairs EXCEPT ![main.port] = pair]
  BY <1>0 DEF NoteSession
<1>2. pair.owners # {} /\ KeepsButOwners(pairs[main.port], pair)
  BY <1>0 DEF Legs, Pair, KeepsButOwners
<1> HIDE DEF pair
<1>3. pairs'[main.port] = pair /\ \A p \in Ports \ {main.port} : pairs'[p] = pairs[p]
  BY <1>0, <1>1
<1> QED BY <1>2, <1>3 DEF KeepsButOwners

LEMMA PortsLeg ==
  ASSUME TypeInv, PortInv, NEW p \in Ports, NEW leg \in Legs, LegStep(p, leg)
  PROVE  PortInv'
<1>1. leg # "main" /\ leg \in pairs[p].owners /\ Bound(p)
  BY LegEffect DEF Legs, Bound
<1>2. CASE pairs'[p] = Released(pairs[p], leg)
  <2>1. Shrinks
    BY <1>1, <1>2, LegEffect, NoPairFields
       DEF Shrinks, Released, Bound, TypeInv, TypeOK, Pair
  <2>2. "main" \in pairs[p].owners => "main" \in pairs'[p].owners
    BY <1>1, <1>2 DEF Released, TypeInv, TypeOK, Pair
  <2>3. MainOwns'
    BY <2>2, LegEffect DEF PortInv, MainOwns, TypeInv, TypeOK
  <2> QED BY <2>1, <2>3, ShrinkKeepsPorts DEF PortInv
<1>3. CASE KeepsLease(pairs[p], pairs'[p])
  <2>1. Shrinks
    BY <1>1, <1>3, LegEffect DEF Shrinks, KeepsLease, Bound
  <2>2. MainOwns'
    BY <1>3, LegEffect DEF KeepsLease, PortInv, MainOwns, TypeInv, TypeOK
  <2> QED BY <2>1, <2>2, ShrinkKeepsPorts DEF PortInv
<1> QED
  BY <1>2, <1>3, LegEffect

LEMMA PortsStep == TypeInv /\ PortInv /\ [Next]_vars => PortInv'
<1> SUFFICES ASSUME TypeInv, PortInv, [Next]_vars PROVE PortInv'
  OBVIOUS
<1>1. ASSUME NoteSession PROVE PortInv'
  <2>1. main.port \in Ports /\ Bound(main.port)
    BY <1>1 DEF NoteSession, PortInv, MainOwns, Bound, TypeInv, TypeOK
  <2>2. Shrinks
    BY <1>1, <2>1 DEF NoteSession, Shrinks, Bound, TypeInv, TypeOK, Pair
  <2>3. MainOwns'
    BY <1>1 DEF NoteSession, MainOwns, Idle
  <2> QED BY <2>2, <2>3, ShrinkKeepsPorts DEF PortInv
<1>2. ASSUME GrantPublishFails \/ Crash PROVE PortInv'
  BY <1>2, NoPairFields
     DEF GrantPublishFails, Crash, Exit, Idle, PortInv, MainOwns, PortsExclusive, Bound
<1>3. ASSUME PublishGrant PROVE PortInv'
  BY <1>3 DEF PublishGrant, PortInv, MainOwns, PortsExclusive, Bound, PortsOf, TypeInv, TypeOK
<1>4. ASSUME Restart \/ WriteState \/ WriteStateFails \/ Tick \/ UNCHANGED vars
      PROVE  PortInv'
  <2>1. main' = main /\ pairs' = pairs
    BY <1>4 DEF Restart, WriteState, WriteStateFails, Snapshot, Tick, vars
  <2> QED BY <2>1 DEF PortInv, MainOwns, PortsExclusive, Bound, PortsOf
<1> QED
  BY <1>1, <1>2, <1>3, <1>4, PortsRequest, PortsLeg DEF Next

(* No two leases, and no two legs of a lease, ever share a UDP port. *)
THEOREM PortsAreExclusive == Spec => []PortsExclusive
<1>1. Init => PortInv
  BY NoPairFields DEF Init, PortInv, MainOwns, PortsExclusive, Bound, Idle
<1> QED
  BY <1>1, TypeInit, TypeStep, PortsStep, PTL DEF Spec, PortInv

-----------------------------------------------------------------------------
(* Grants.  The invariant speaks of the Instant the legs sleep on; that it  *)
(* ends in the second expires_at names carries it over to whole seconds.    *)
GrantLive(g) ==
  up /\ g.boot = boots /\ g.deadline > clock =>
    /\ Bound(g.port)
    /\ pairs[g.port].request_id = g.request_id
    /\ pairs[g.port].target_port = g.target_port
    /\ pairs[g.port].deadline = g.deadline

GrantInv ==
  /\ \A p \in Ports : Bound(p) => pairs[p].expires_at = pairs[p].deadline \div TicksPerSec
  /\ \A g \in grants : /\ g.boot <= boots
                       /\ g.expires_at = g.deadline \div TicksPerSec
                       /\ GrantLive(g)

LEMMA GrantInvImplies == TypeInv /\ GrantInv => GrantHonoured
<1> SUFFICES ASSUME TypeInv, GrantInv, NEW g \in grants,
                    up, g.boot = boots, g.expires_at > Now
             PROVE  /\ Bound(g.port)
                    /\ pairs[g.port].request_id = g.request_id
                    /\ pairs[g.port].target_port = g.target_port
                    /\ pairs[g.port].deadline = g.deadline
  BY DEF GrantHonoured
<1>1. g.deadline \in Nat /\ clock \in Nat /\ TicksPerSec \in Nat \ {0}
  BY TimeAssumption DEF TypeInv, TypeOK, GrantMsg
<1>2. g.deadline > clock
  BY <1>1, DivMono DEF GrantInv
<1> QED
  BY <1>2 DEF GrantInv, GrantLive

LEMMA GrantBind ==
  ASSUME TypeInv, GrantInv, NEW kind \in Kinds, NEW id \in RequestIds,
         NEW r \in Requesters, BindLegs(kind, id, r)
  PROVE  GrantInv'
<1>1. PICK p \in Ports, q \in Ports :
        /\ BindPair(p, q)
        /\ pairs' = [pairs EXCEPT ![p] = NewPair(q, kind, id, r)]
  BY DEF BindLegs
<1>2. UNCHANGED <<clock, up, boots, grants>>
  BY DEF BindLegs
<1>3. ~Bound(p)
  BY <1>1, BindPairFree DEF BusyPorts, PortsOf
<1>4. pairs'[p].expires_at = pairs'[p].deadline \div TicksPerSec
  <2>1. /\ pairs'[p].expires_at = (clock \div TicksPerSec) + LeaseOf(kind)
        /\ pairs'[p].deadline = clock + LeaseOf(kind) * TicksPerSec
    BY <1>1 DEF NewPair, TypeInv, TypeOK
  <2> QED BY <2>1, DivAdd, LeaseIsPositive, TimeAssumption DEF TypeInv, TypeOK
<1>5. \A o \in Ports \ {p} : pairs'[o] = pairs[o]
  BY <1>1 DEF TypeInv, TypeOK
<1>6. \A g \in grants : g.port \in Ports
  BY DEF TypeInv, TypeOK, GrantMsg
<1>7. \A o \in Ports : Bound(o)' => pairs'[o].expires_at = pairs'[o].deadline \div TicksPerSec
  BY <1>4, <1>5 DEF GrantInv, Bound
<1>8. ASSUME NEW g \in grants PROVE GrantLive(g)'
  <2>1. CASE g.port = p
    BY <1>2, <1>3, <2>1 DEF GrantInv, GrantLive
  <2>2. CASE g.port # p
    BY <1>2, <1>5, <1>6, <2>2 DEF GrantInv, GrantLive, Bound
  <2> QED BY <2>1, <2>2
<1> QED
  BY <1>2, <1>7, <1>8 DEF GrantInv

LEMMA GrantExit ==
  ASSUME TypeInv, GrantInv, Exit,
         \A g \in grants' : g \in grants \/ (g = Grant(main.port) /\ Bound(main.port))
  PROVE  GrantInv'
<1>1. main.port \in Ports
  BY DEF TypeInv, TypeOK
<1>2. \A g \in grants' : g.boot <= boots /\ g.expires_at = g.deadline \div TicksPerSec
  BY <1>1 DEF GrantInv, Grant, TypeInv, TypeOK
<1> QED
  BY <1>2, NoPairFields DEF Exit, GrantInv, GrantLive, Bound

LEMMA GrantLeg ==
  ASSUME LegErrors = FALSE, TypeInv, GrantInv,
         NEW p \in Ports, NEW leg \in Legs, LegStep(p, leg)
  PROVE  GrantInv'
<1>1. /\ clock' = clock /\ up' = up /\ boots' = boots /\ grants' = grants
      /\ \A o \in Ports \ {p} : pairs'[o] = pairs[o]
      /\ Bound(p)
  BY LegEffect DEF Bound
<1>2. \A g \in grants : g.port \in Ports
  BY DEF TypeInv, TypeOK, GrantMsg
<1>3. CASE pairs'[p] = Released(pairs[p], leg) /\ clock >= pairs[p].deadline
  <2>1. Bound(p)' => pairs'[p].expires_at = pairs[p].expires_at
                     /\ pairs'[p].deadline = pairs[p].deadline
    BY <1>3, NoPairFields DEF Released, Bound, TypeInv, TypeOK, Pair
  <2>2. \A o \in Ports : Bound(o)' => pairs'[o].expires_at = pairs'[o].deadline \div TicksPerSec
    BY <1>1, <2>1 DEF GrantInv, Bound
  <2>3. \A g \in grants : g.port = p => ~(up /\ g.boot = boots /\ g.deadline > clock)
    BY <1>3 DEF GrantInv, GrantLive, TypeInv, TypeOK, GrantMsg
  <2>4. \A g \in grants : GrantLive(g)'
    BY <1>1, <1>2, <2>3 DEF GrantInv, GrantLive, Bound
  <2> QED BY <1>1, <2>2, <2>4 DEF GrantInv
<1>4. CASE KeepsLease(pairs[p], pairs'[p])
  BY <1>1, <1>2, <1>4 DEF GrantInv, GrantLive, Bound, KeepsLease
<1> QED
  BY <1>3, <1>4, LegEffect

LEMMA GrantStep ==
  ASSUME LegErrors = FALSE
  PROVE  TypeInv /\ PortInv /\ GrantInv /\ [Next]_vars => GrantInv'
<1> SUFFICES ASSUME TypeInv, PortInv, GrantInv, [Next]_vars PROVE GrantInv'
  OBVIOUS
<1>0. main.port \in Ports /\ \A g \in grants : g.port \in Ports /\ g.boot \in Nat
  BY DEF TypeInv, TypeOK, GrantMsg
<1>1. ASSUME HandleRequest PROVE GrantInv'
  <2> PICK kind \in Kinds, r \in Requesters :
        \/ RejectRequest(kind, r) \/ RejectPublishFails(kind, r)
        \/ BindFails(kind, r)
        \/ \E id \in RequestIds : BindLegs(kind, id, r)
    BY <1>1 DEF HandleRequest
  <2>1. ASSUME RejectRequest(kind, r) \/ BindFails(kind, r) PROVE GrantInv'
    BY <2>1 DEF RejectRequest, BindFails, GrantInv, GrantLive, Bound
  <2>2. ASSUME RejectPublishFails(kind, r) PROVE GrantInv'
    <3>1. Exit /\ \A g \in grants' : g \in grants
      BY <2>2 DEF RejectPublishFails
    <3> QED BY ONLY TypeInv, GrantInv, <3>1, GrantExit
  <2> QED BY <2>1, <2>2, GrantBind
<1>2. ASSUME PublishGrant PROVE GrantInv'
  <2>1. Bound(main.port)
    BY <1>2 DEF PublishGrant, PortInv, MainOwns, Bound
  <2>2. GrantLive(Grant(main.port)) /\ Grant(main.port).boot = boots
        /\ Grant(main.port).expires_at = Grant(main.port).deadline \div TicksPerSec
    BY <1>0, <2>1 DEF Grant, GrantLive, GrantInv
  <2> QED BY <1>2, <2>2 DEF PublishGrant, GrantInv, GrantLive, Bound, TypeInv, TypeOK
<1>3. ASSUME GrantPublishFails \/ Crash PROVE GrantInv'
  <2>1. main.pc = "publish" => Bound(main.port)
    BY DEF PortInv, MainOwns, Bound
  <2>2. Exit /\ \A g \in grants' : g \in grants \/ (g = Grant(main.port) /\ Bound(main.port))
    BY <1>3, <2>1 DEF GrantPublishFails, Crash
  <2> QED BY ONLY TypeInv, GrantInv, <2>2, GrantExit
<1>4. ASSUME NoteSession PROVE GrantInv'
  <2>1. Bound(main.port)
    BY <1>4 DEF NoteSession, PortInv, MainOwns, Bound
  <2>2. \A p \in Ports :
          /\ Bound(p)' <=> Bound(p)
          /\ pairs'[p].expires_at = pairs[p].expires_at
          /\ pairs'[p].deadline = pairs[p].deadline
          /\ pairs'[p].request_id = pairs[p].request_id
          /\ pairs'[p].target_port = pairs[p].target_port
    BY <1>4, <2>1, NoteEffect DEF Bound, KeepsButOwners
  <2> QED BY <1>0, <1>4, <2>2 DEF NoteSession, GrantInv, GrantLive
<1>5. ASSUME Restart PROVE GrantInv'
  BY <1>0, <1>5 DEF Restart, GrantInv, GrantLive, Bound, TypeInv, TypeOK
<1>6. ASSUME WriteState \/ WriteStateFails \/ UNCHANGED vars PROVE GrantInv'
  BY <1>6 DEF WriteState, WriteStateFails, Snapshot, vars, GrantInv, GrantLive, Bound
<1>7. ASSUME Tick PROVE GrantInv'
  <2>1. \A g \in grants : g.deadline > clock' => g.deadline > clock
    BY <1>7 DEF Tick, TypeInv, TypeOK, GrantMsg
  <2> QED BY <1>7, <2>1 DEF Tick, GrantInv, GrantLive, Bound
<1> QED
  BY <1>1, <1>2, <1>3, <1>4, <1>5, <1>6, <1>7, GrantLeg DEF Next

(* Where sockets do not fail, every unexpired grant of the running process  *)
(* is backed by the two sockets it names.                                   *)
THEOREM GrantsAreHonoured ==
  ASSUME LegErrors = FALSE
  PROVE  Spec => []GrantHonoured
<1>1. Init => PortInv
  BY NoPairFields DEF Init, PortInv, MainOwns, PortsExclusive, Bound, Idle
<1>2. Init => GrantInv
  BY NoPairFields DEF Init, GrantInv, Bound
<1> QED
  BY <1>1, <1>2, TypeInit, TypeStep, PortsStep, GrantStep, GrantInvImplies, PTL DEF Spec

-----------------------------------------------------------------------------
(* Limits.  The check passed when the request was taken, and while the main *)
(* task works on it the recorded sessions only become fewer.                *)
Room(r) ==
  /\ Cardinality(DOMAIN active) < MaxActiveSessions
  /\ Cardinality(SessionsOf(active, r)) < MaxSessionsPerRequester

LimitInv ==
  /\ LimitsRespected
  /\ main.pc # "recv" => Room(pairs[main.port].requester)

(* Sets of request ids are finite. *)
LEMMA IdSets ==
  ASSUME NEW S \in SUBSET RequestIds, NEW T \in SUBSET S
  PROVE  /\ Cardinality(S) \in Nat /\ Cardinality(T) \in Nat
         /\ Cardinality(T) <= Cardinality(S)
         /\ \A x \in RequestIds : Cardinality(T \union {x}) <= Cardinality(S) + 1
<1>1. IsFiniteSet(S) /\ IsFiniteSet(T)
  BY NameAssumption, FS_Subset
<1>2. Cardinality(S) \in Nat /\ Cardinality(T) \in Nat /\ Cardinality(T) <= Cardinality(S)
  BY <1>1, FS_CardinalityType, FS_Subset
<1>3. ASSUME NEW x \in RequestIds
      PROVE Cardinality(T \union {x}) = Cardinality(T) \/ Cardinality(T \union {x}) = Cardinality(T) + 1
  BY <1>1, FS_AddElement
<1> QED BY <1>2, <1>3

(* A step after which every session was there before, with its requester. *)
FewerSessions ==
  /\ DOMAIN active' \subseteq DOMAIN active
  /\ \A i \in DOMAIN active' : active'[i].requester = active[i].requester

LEMMA FewerKeepsLimits ==
  ASSUME TypeInv, LimitsRespected, FewerSessions
  PROVE  LimitsRespected' /\ \A r \in Requesters : Room(r) => Room(r)'
<1>1. DOMAIN active \in SUBSET RequestIds /\ DOMAIN active' \in SUBSET (DOMAIN active)
  BY DEF TypeInv, TypeOK, FewerSessions
<1>2. \A r \in Requesters : /\ SessionsOf(active, r) \in SUBSET RequestIds
                            /\ SessionsOf(active', r) \in SUBSET SessionsOf(active, r)
  BY <1>1 DEF SessionsOf, FewerSessions
<1>3. Cardinality(DOMAIN active') \in Nat /\ Cardinality(DOMAIN active) \in Nat
      /\ Cardinality(DOMAIN active') <= Cardinality(DOMAIN active)
  BY <1>1, IdSets
<1>4. \A r \in Requesters :
        /\ Cardinality(SessionsOf(active', r)) \in Nat /\ Cardinality(SessionsOf(active, r)) \in Nat
        /\ Cardinality(SessionsOf(active', r)) <= Cardinality(SessionsOf(active, r))
  BY <1>2, IdSets
<1> QED
  BY <1>3, <1>4, LimitAssumption DEF LimitsRespected, Room

LEMMA PruneFewer ==
  ASSUME active' = PruneExpired(active, Now) PROVE FewerSessions
BY DEF PruneExpired, FewerSessions

LEMMA LimitExit ==
  ASSUME TypeInv, LimitsRespected, Exit
  PROVE  LimitInv'
<1>1. FewerSessions
  BY NoSessionsType DEF Exit, FewerSessions
<1> QED BY <1>1, FewerKeepsLimits DEF Exit, Idle, LimitInv

LEMMA LimitNote ==
  ASSUME TypeInv, LimitInv, NoteSession
  PROVE  LimitInv'
<1> DEFINE pair == pairs[main.port]
           id == pair.request_id
           kept == PruneExpired(active, Now)
<1>1. id \in RequestIds /\ pair.requester \in Requesters
  BY DEF TypeInv, TypeOK, Pair
<1>2. /\ active' = WithSession(kept, id,
           [requester |-> pair.requester, expires_at |-> pair.expires_at,
            from_requester |-> 0, from_target |-> 0])
      /\ main' = Idle /\ Room(pair.requester)
  BY DEF NoteSession, LimitInv
<1>3. /\ DOMAIN kept \in SUBSET (DOMAIN active)
      /\ \A i \in DOMAIN kept : kept[i] = active[i]
  BY DEF PruneExpired
<1> HIDE DEF pair, id, kept
<1>4. /\ DOMAIN active' = DOMAIN kept \union {id}
      /\ active'[id].requester = pair.requester
      /\ \A i \in DOMAIN kept \ {id} : active'[i] = active[i]
  BY <1>2, <1>3 DEF WithSession
<1>5. Cardinality(DOMAIN active') <= MaxActiveSessions
  <2>1. DOMAIN active \in SUBSET RequestIds
    BY DEF TypeInv, TypeOK
  <2>2. /\ Cardinality(DOMAIN kept \union {id}) <= Cardinality(DOMAIN active) + 1
        /\ Cardinality(DOMAIN active) \in Nat
    BY <1>1, <1>3, <2>1, IdSets
  <2>3. DOMAIN kept \union {id} \in SUBSET RequestIds
    BY <1>1, <1>3, <2>1
  <2>4. Cardinality(DOMAIN kept \union {id}) \in Nat
    BY <2>3, IdSets
  <2> QED BY <1>2, <1>4, <2>2, <2>4, LimitAssumption DEF Room
<1>6. ASSUME NEW r \in Requesters
      PROVE  Cardinality(SessionsOf(active', r)) <= MaxSessionsPerRequester
  <2> DEFINE S == SessionsOf(active, r)
             T == SessionsOf(kept, r) \ {id}
  <2>1. S \in SUBSET RequestIds /\ T \in SUBSET S
    BY <1>3 DEF SessionsOf, TypeInv, TypeOK
  <2>2. SessionsOf(active', r) = IF r = pair.requester THEN T \union {id} ELSE T
    BY <1>3, <1>4 DEF SessionsOf
  <2> HIDE DEF S, T
  <2>3. /\ Cardinality(S) \in Nat /\ Cardinality(T) \in Nat /\ Cardinality(T) <= Cardinality(S)
        /\ Cardinality(T \union {id}) <= Cardinality(S) + 1
    BY <1>1, <2>1, IdSets
  <2>4. T \union {id} \in SUBSET RequestIds
    BY <1>1, <2>1
  <2>5. Cardinality(T \union {id}) \in Nat
    BY <2>4, IdSets
  <2>6. Cardinality(S) <= MaxSessionsPerRequester
        /\ (r = pair.requester => Cardinality(S) < MaxSessionsPerRequester)
    BY <1>2 DEF S, Room, LimitInv, LimitsRespected
  <2> QED BY <2>2, <2>3, <2>5, <2>6, LimitAssumption
<1> QED
  BY <1>2, <1>5, <1>6 DEF LimitInv, LimitsRespected, Idle

LEMMA LimitStep == TypeInv /\ PortInv /\ LimitInv /\ [Next]_vars => LimitInv'
<1> SUFFICES ASSUME TypeInv, PortInv, LimitInv, [Next]_vars PROVE LimitInv'
  OBVIOUS
<1>0. main.port \in Ports /\ pairs[main.port].requester \in Requesters
  BY DEF TypeInv, TypeOK, Pair
<1>1. ASSUME HandleRequest PROVE LimitInv'
  <2> PICK kind \in Kinds, r \in Requesters :
        \/ RejectRequest(kind, r) \/ RejectPublishFails(kind, r)
        \/ BindFails(kind, r)
        \/ \E id \in RequestIds : BindLegs(kind, id, r)
    BY <1>1 DEF HandleRequest
  <2>1. ASSUME RejectRequest(kind, r) \/ BindFails(kind, r) PROVE LimitInv'
    BY <2>1, PruneFewer, FewerKeepsLimits
       DEF RejectRequest, BindFails, Receive, LimitInv
  <2>2. ASSUME RejectPublishFails(kind, r) PROVE LimitInv'
    BY <2>2, LimitExit DEF RejectPublishFails, LimitInv
  <2>3. ASSUME NEW id \in RequestIds, BindLegs(kind, id, r) PROVE LimitInv'
    <3>1. PICK p \in Ports, q \in Ports :
            /\ pairs' = [pairs EXCEPT ![p] = NewPair(q, kind, id, r)]
            /\ main' = [pc |-> "publish", port |-> p]
      BY <2>3 DEF BindLegs
    <3>2. pairs'[main'.port].requester = r
      BY <3>1 DEF NewPair, TypeInv, TypeOK
    <3>3. LimitsRespected' /\ DOMAIN active' \in SUBSET RequestIds
      BY <2>3, PruneFewer, FewerKeepsLimits DEF BindLegs, LimitInv, FewerSessions, TypeInv, TypeOK
    <3>4. SessionsOf(active', r) \in SUBSET RequestIds
      BY <3>3 DEF SessionsOf
    <3>5. Cardinality(DOMAIN active') \in Nat /\ Cardinality(SessionsOf(active', r)) \in Nat
      BY <3>3, <3>4, IdSets
    <3>6. Room(r)'
      BY <2>3, <3>5, LimitAssumption DEF BindLegs, Rejects, Room
    <3> QED BY <3>2, <3>3, <3>6 DEF LimitInv, Room
  <2> QED BY <2>1, <2>2, <2>3
<1>2. ASSUME PublishGrant PROVE LimitInv'
  BY <1>2 DEF PublishGrant, LimitInv, LimitsRespected, Room, SessionsOf, TypeInv, TypeOK
<1>3. ASSUME GrantPublishFails \/ Crash PROVE LimitInv'
  BY <1>3, LimitExit DEF GrantPublishFails, Crash, LimitInv
<1>4. ASSUME Restart PROVE LimitInv'
  <2>1. FewerSessions
    BY <1>4, NoSessionsType DEF Restart, FewerSessions
  <2> QED BY <1>0, <1>4, <2>1, FewerKeepsLimits DEF Restart, LimitInv, Room
<1>5. ASSUME WriteState \/ WriteStateFails PROVE LimitInv'
  <2>1. FewerSessions /\ main' = main /\ pairs' = pairs
    BY <1>5, PruneFewer DEF WriteState, WriteStateFails, Snapshot
  <2> QED BY <1>0, <2>1, FewerKeepsLimits DEF LimitInv, Room
<1>6. ASSUME Tick \/ UNCHANGED vars PROVE LimitInv'
  BY <1>6 DEF Tick, vars, LimitInv, LimitsRespected, Room, SessionsOf
<1>7. ASSUME NEW p \in Ports, NEW leg \in Legs, LegStep(p, leg) PROVE LimitInv'
  <2>1. FewerSessions /\ main' = main
    BY <1>7, LegEffect DEF FewerSessions
  <2>2. main.pc # "recv" => pairs'[main.port].requester = pairs[main.port].requester
    <3>1. CASE main.port # p
      BY <1>0, <1>7, <3>1, LegEffect
    <3>2. CASE KeepsLease(pairs[p], pairs'[p])
      BY <1>0, <1>7, <3>2, LegEffect DEF KeepsLease
    <3>3. CASE main.port = p /\ pairs'[p] = Released(pairs[p], leg)
      BY <1>0, <3>3 DEF Released, PortInv, MainOwns, Legs, TypeInv, TypeOK, Pair
    <3> QED BY <1>7, <3>1, <3>2, <3>3, LegEffect
  <2> QED BY <1>0, <2>1, <2>2, FewerKeepsLimits DEF LimitInv, Room
<1> QED
  BY <1>1, <1>2, <1>3, <1>4, <1>5, <1>6, <1>7, LimitNote DEF Next

(* The session limits hold in every state, although the check and the      *)
(* recording of a session are separated by the publishing of the grant.    *)
THEOREM LimitsAreRespected == Spec => []LimitsRespected
<1>1. Init => PortInv
  BY NoPairFields DEF Init, PortInv, MainOwns, PortsExclusive, Bound, Idle
<1>2. Init => LimitInv
  <2>1. Init => DOMAIN active = {} /\ \A r \in Requesters : SessionsOf(active, r) = {}
    BY NoSessionsType DEF Init, SessionsOf
  <2>2. Cardinality({}) = 0
    BY FS_EmptySet
  <2>3. ASSUME Init PROVE LimitsRespected
    <3>1. DOMAIN active = {} /\ \A r \in Requesters : SessionsOf(active, r) = {}
      BY <2>1, <2>3
    <3>2. /\ Cardinality(DOMAIN active) = 0
          /\ \A r \in Requesters : Cardinality(SessionsOf(active, r)) = 0
      BY <2>2, <3>1, Zenon
    <3> QED BY <3>2, LimitAssumption DEF LimitsRespected
  <2> QED BY <2>3 DEF Init, LimitInv, Idle
<1> QED
  BY <1>1, <1>2, TypeInit, TypeStep, PortsStep, LimitStep, PTL DEF Spec, LimitInv

-----------------------------------------------------------------------------
(* Bindings.  A port that is not bound remembers no source. *)
UnboundEmpty == \A p \in Ports : ~Bound(p) => pairs[p] = NoPair

(* How one step changes the pair of a port. *)
PairChange(p) ==
  \/ pairs'[p] = pairs[p]
  \/ pairs'[p] = NoPair
  \/ ~Bound(p) /\ pairs'[p].owners # {}
  \/ /\ Bound(p) /\ pairs'[p].owners # {}
     /\ \A leg \in Legs : pairs[p].addr[leg] # NoAddr =>
          pairs'[p].addr[leg] = pairs[p].addr[leg]

LEMMA LegPairChange ==
  ASSUME TypeInv, NEW p \in Ports, NEW leg \in Legs, LegStep(p, leg), NEW o \in Ports
  PROVE  PairChange(o)
<1>1. CASE o # p
  BY <1>1, LegEffect DEF PairChange
<1>2. CASE o = p
  <2>0. pairs[p] \in Pair /\ pairs \in [Ports -> Pair] /\ Bound(p) /\ pairs[p].owners # {}
    BY LegEffect DEF Bound, TypeInv, TypeOK
  <2>1. ASSUME EndLeg(p, leg) PROVE PairChange(p)
    BY <2>0, <2>1 DEF EndLeg, Released, PairChange, Pair
  <2>2. ASSUME NEW len \in PacketSizes, DropOverBytes(p, leg, len) PROVE PairChange(p)
    <3>1. pairs'[p] = [pairs[p] EXCEPT !.closed = TRUE]
      BY <2>0, <2>2 DEF DropOverBytes
    <3>2. pairs'[p].owners = pairs[p].owners /\ pairs'[p].addr = pairs[p].addr
      BY <2>0, <3>1 DEF Pair
    <3> QED BY <2>0, <3>2 DEF PairChange
  <2>3. ASSUME NEW len \in PacketSizes, DropRateLimited(p, leg, len) PROVE PairChange(p)
    <3>1. pairs'[p].owners = pairs[p].owners /\ pairs'[p].addr = pairs[p].addr
      BY <2>0, <2>3 DEF DropRateLimited, Pair
    <3> QED BY <2>0, <3>1 DEF PairChange
  <2>4. ASSUME NEW len \in PacketSizes, NEW src \in Addrs, ForwardPacket(p, leg, src, len)
        PROVE  PairChange(p)
    <3>1. /\ pairs'[p].owners = pairs[p].owners
          /\ pairs'[p].addr = Binding(pairs[p], leg, src)
      BY <2>0, <2>4 DEF ForwardPacket, Charged, Pair
    <3>2. \A l \in Legs : pairs[p].addr[l] # NoAddr =>
            Binding(pairs[p], leg, src)[l] = pairs[p].addr[l]
      BY <2>0 DEF Binding, Pair
    <3> QED BY <2>0, <3>1, <3>2 DEF PairChange
  <2> QED
    BY <1>2, <2>1, <2>2, <2>3, <2>4 DEF LegStep, LegExpires, LegFails
<1> QED BY <1>1, <1>2

LEMMA StepPairChange ==
  ASSUME TypeInv, PortInv, [Next]_vars, NEW o \in Ports
  PROVE  PairChange(o)
<1>0. pairs \in [Ports -> Pair] /\ main.port \in Ports
  BY DEF TypeInv, TypeOK
<1>1. ASSUME NEW kind \in Kinds, NEW r \in Requesters, NEW id \in RequestIds,
             BindLegs(kind, id, r)
      PROVE  PairChange(o)
  <2>1. PICK p \in Ports, q \in Ports :
          BindPair(p, q) /\ pairs' = [pairs EXCEPT ![p] = NewPair(q, kind, id, r)]
    BY <1>1 DEF BindLegs
  <2>2. ~Bound(p)
    BY <2>1, BindPairFree DEF BusyPorts, PortsOf
  <2> QED BY <1>0, <2>1, <2>2 DEF PairChange, NewPair
<1>2. ASSUME Exit PROVE PairChange(o)
  BY <1>2 DEF Exit, PairChange
<1>3. ASSUME NoteSession PROVE PairChange(o)
  <2>1. Bound(main.port)
    BY <1>3 DEF NoteSession, PortInv, MainOwns, Bound
  <2>2. o = main.port => pairs'[o].owners # {} /\ pairs'[o].addr = pairs[o].addr
    BY <1>3, NoteEffect DEF KeepsButOwners
  <2>3. o # main.port => pairs'[o] = pairs[o]
    BY <1>0, <1>3 DEF NoteSession
  <2> QED BY <2>1, <2>2, <2>3 DEF PairChange
<1>4. ASSUME pairs' = pairs PROVE PairChange(o)
  BY <1>4 DEF PairChange
<1> QED
  BY <1>1, <1>2, <1>3, <1>4, LegPairChange
     DEF Next, HandleRequest, RejectRequest, RejectPublishFails, BindFails, PublishGrant,
         GrantPublishFails, Crash, Restart, WriteState, WriteStateFails, Snapshot, Tick, vars

LEMMA UnboundStep == TypeInv /\ PortInv /\ UnboundEmpty /\ [Next]_vars => UnboundEmpty'
BY StepPairChange DEF UnboundEmpty, PairChange, Bound

LEMMA BindingStep ==
  TypeInv /\ PortInv /\ UnboundEmpty /\ [Next]_vars =>
    \A p \in Ports, leg \in Legs :
      pairs[p].addr[leg] # NoAddr /\ pairs[p]'.owners # {}
        => pairs[p]'.addr[leg] = pairs[p].addr[leg]
<1> SUFFICES ASSUME TypeInv, PortInv, UnboundEmpty, [Next]_vars,
                    NEW p \in Ports, NEW leg \in Legs,
                    pairs[p].addr[leg] # NoAddr, pairs'[p].owners # {}
             PROVE  pairs'[p].addr[leg] = pairs[p].addr[leg]
  OBVIOUS
<1>1. Bound(p)
  BY NoPairFields DEF UnboundEmpty
<1> QED
  BY <1>1, StepPairChange, NoPairFields DEF PairChange

(* Whoever a leg heard first is never replaced while its sockets live. *)
THEOREM BindingIsSticky == Spec => BindingSticky
<1>1. Init => PortInv /\ UnboundEmpty
  BY NoPairFields DEF Init, PortInv, MainOwns, PortsExclusive, UnboundEmpty, Bound, Idle
<1> QED
  BY <1>1, TypeInit, TypeStep, PortsStep, UnboundStep, BindingStep, PTL
     DEF Spec, BindingSticky

-----------------------------------------------------------------------------
(* The rate limit: what was let through and what is left in the bucket are  *)
(* together no more than the burst it was opened with and what was earned   *)
(* until its last refill.  Refills are truncated, and a sum of truncated    *)
(* refills is never more than the truncated sum.                            *)
Earned(ticks) == (ticks * MaxForwardBps) \div TicksPerSec
Bursts == PacketSizes \union {MaxForwardBps}

RatePair(pair) ==
  IF pair.window.open
  THEN /\ pair.since <= pair.window.at
       /\ \E burst \in Bursts :
            pair.bytes + pair.window.available <= burst + Earned(pair.window.at - pair.since)
  ELSE pair.bytes = 0

RateInv == MaxForwardBps # 0 => \A p \in Ports : RatePair(pairs[p])

LEMMA EarnedNat == ASSUME NEW a \in Nat PROVE Earned(a) \in Nat
<1>1. a * MaxForwardBps \in Nat
  BY LimitAssumption
<1> QED BY <1>1, TimeAssumption, DivDef DEF Earned

LEMMA DivSum ==
  ASSUME NEW a \in Nat, NEW b \in Nat, NEW n \in Nat \ {0}
  PROVE  a \div n + b \div n <= (a + b) \div n
<1> DEFINE d == a \div n
           r == b + (a - n * d)
<1>1. d \in Nat /\ n * d <= a
  BY DivDef
<1>2. n * d \in Nat
  BY <1>1
<1>3. r \in Nat /\ b <= r /\ a + b = r + d * n
  BY <1>1, <1>2
<1>4. (a + b) \div n = r \div n + d
  <2> HIDE DEF d, r
  <2>1. (r + d * n) \div n = r \div n + d
    BY <1>1, <1>3, DivAdd
  <2> QED BY <1>3, <2>1
<1>5. b \div n \in Nat /\ r \div n \in Nat
  BY <1>3, DivDef
<1>6. b \div n <= r \div n
  BY <1>3, <1>5, DivMono
<1> QED BY <1>1, <1>4, <1>5, <1>6

LEMMA EarnedSum ==
  ASSUME NEW a \in Nat, NEW b \in Nat
  PROVE  Earned(a) + Earned(b) <= Earned(a + b)
<1>1. a * MaxForwardBps \in Nat /\ b * MaxForwardBps \in Nat
  BY LimitAssumption
<1>2. (a + b) * MaxForwardBps = a * MaxForwardBps + b * MaxForwardBps
  BY LimitAssumption
<1> QED BY <1>1, <1>2, TimeAssumption, DivSum DEF Earned

(* A refill of an open bucket earns no more than the time allows. *)
LEMMA RefilledRate ==
  ASSUME clock \in Nat, NEW pair \in Pair, pair.window.at <= clock, pair.window.open,
         RatePair(pair), NEW len \in Nat, NEW w, w = Refilled(pair.window, len)
  PROVE  /\ w.open /\ pair.since <= w.at
         /\ \E burst \in Bursts : pair.bytes + w.available <= burst + Earned(w.at - pair.since)
<1> DEFINE old == pair.window
           elapsed == clock - old.at
           level == old.available + Earned(elapsed)
<1>1. /\ old \in Window /\ old.open /\ old.at <= clock /\ pair.since \in Nat /\ pair.bytes \in Nat
      /\ pair.since <= old.at
  BY DEF Pair, Window, RatePair
<1>2. PICK burst \in Bursts : pair.bytes + old.available <= burst + Earned(old.at - pair.since)
  BY DEF RatePair
<1>3. CASE elapsed = 0
  <2>1. w = old
    BY <1>1, <1>3 DEF Refilled
  <2> QED BY <1>1, <1>2, <2>1
<1>4. CASE elapsed # 0
  <2>1. elapsed \in Nat /\ old.at - pair.since \in Nat /\ old.available \in Nat
    BY <1>1 DEF Window
  <2>2. /\ w.open /\ w.at = clock
        /\ w.available = Smaller(Larger(MaxForwardBps, len), level)
    BY <1>1, <1>4 DEF Refilled, Earned
  <2>3. Earned(elapsed) \in Nat /\ Earned(old.at - pair.since) \in Nat
    BY <2>1, EarnedNat
  <2>4. Larger(MaxForwardBps, len) \in Nat
    BY LimitAssumption DEF Larger
  <2>5. w.available \in Nat /\ w.available <= level
    BY <2>1, <2>2, <2>3, <2>4 DEF Smaller
  <2>6. Earned(old.at - pair.since) + Earned(elapsed) <= Earned(clock - pair.since)
    <3>1. (old.at - pair.since) + elapsed = clock - pair.since
      BY <1>1 DEF Window
    <3> QED BY <2>1, <3>1, EarnedSum
  <2>7. clock - pair.since \in Nat /\ pair.since <= clock
    BY <1>1 DEF Window
  <2>8. Earned(clock - pair.since) \in Nat /\ burst \in Nat
    BY <2>7, EarnedNat, LimitAssumption DEF Bursts
  <2>9. pair.bytes + w.available <= burst + Earned(clock - pair.since)
    BY <1>1, <1>2, <2>1, <2>3, <2>5, <2>6, <2>8
  <2> QED BY <2>2, <2>7, <2>9
<1> QED BY <1>3, <1>4

LEMMA RateForward ==
  ASSUME TypeInv, RateInv, MaxForwardBps # 0, NEW p \in Ports, NEW len \in PacketSizes,
         ~RateLimited(pairs[p], len)
  PROVE  RatePair(Charged(pairs[p], len))
<1> DEFINE pair == pairs[p]
           w == Refilled(pair.window, len)
           new == Charged(pair, len)
<1>1. /\ clock \in Nat /\ pair \in Pair /\ pair.window \in Window /\ pair.window.at <= clock
      /\ RatePair(pair) /\ len \in Nat
  BY LimitAssumption DEF TypeInv, TypeOK, WindowsInPast, RateInv, Pair, Window
<1>2. w \in Window /\ w.available >= len
  BY <1>1, RefilledType DEF RateLimited, Window
<1>3. /\ new.window = [w EXCEPT !.available = @ - len]
      /\ new.bytes = pair.bytes + len
      /\ new.since = IF pair.window.open THEN pair.since ELSE clock
  BY <1>1 DEF Charged, Pair
<1>4. CASE pair.window.open
  <2>1. /\ w.open /\ pair.since <= w.at
        /\ \E burst \in Bursts : pair.bytes + w.available <= burst + Earned(w.at - pair.since)
    BY <1>1, <1>4, RefilledRate
  <2> HIDE DEF w, new, pair
  <2>2. new.window.open /\ new.window.at = w.at /\ new.window.available = w.available - len
    BY <1>2, <1>3, <2>1 DEF Window
  <2>3. new.bytes + new.window.available = pair.bytes + w.available /\ new.since = pair.since
    BY <1>1, <1>2, <1>3, <1>4, <2>2 DEF Window, Pair
  <2>4. RatePair(new)
    BY <2>1, <2>2, <2>3 DEF RatePair
  <2> QED BY <2>4 DEF new, pair
<1>5. CASE ~pair.window.open
  <2>1. w = [open |-> TRUE, at |-> clock, available |-> Larger(MaxForwardBps, len)]
    BY <1>1, <1>5 DEF Refilled
  <2>2. pair.bytes = 0
    BY <1>1, <1>5 DEF RatePair
  <2>3. Larger(MaxForwardBps, len) \in Bursts /\ Larger(MaxForwardBps, len) \in Nat
    BY <1>1, LimitAssumption DEF Larger, Bursts
  <2>4. Earned(clock - clock) \in Nat
    BY <1>1, EarnedNat
  <2> HIDE DEF w, new, pair
  <2>5. /\ new.window.open /\ new.window.at = clock /\ new.since = clock
        /\ new.bytes + new.window.available = Larger(MaxForwardBps, len)
    BY <1>1, <1>3, <1>5, <2>1, <2>2, <2>3
  <2>6. RatePair(new)
    BY <1>1, <2>3, <2>4, <2>5 DEF RatePair
  <2> QED BY <2>6 DEF new, pair
<1> QED BY <1>4, <1>5

(* A bucket that is opened now holds a burst, which no packet exceeds. *)
LEMMA RateDrop ==
  ASSUME TypeInv, RateInv, MaxForwardBps # 0, NEW p \in Ports, NEW len \in PacketSizes,
         RateLimited(pairs[p], len)
  PROVE  RatePair([pairs[p] EXCEPT !.window = Refilled(pairs[p].window, len)])
<1> DEFINE pair == pairs[p]
           w == Refilled(pair.window, len)
<1>1. /\ clock \in Nat /\ pair \in Pair /\ pair.window \in Window /\ pair.window.at <= clock
      /\ RatePair(pair) /\ len \in Nat
  BY LimitAssumption DEF TypeInv, TypeOK, WindowsInPast, RateInv, Pair, Window
<1>2. pair.window.open
  <2> SUFFICES ASSUME ~pair.window.open PROVE FALSE
    OBVIOUS
  <2>1. w.available = Larger(MaxForwardBps, len)
    BY <1>1 DEF Refilled
  <2> QED BY <1>1, <2>1, LimitAssumption DEF RateLimited, Larger
<1>3. /\ w.open /\ pair.since <= w.at
      /\ \E burst \in Bursts : pair.bytes + w.available <= burst + Earned(w.at - pair.since)
  BY <1>1, <1>2, RefilledRate
<1>4. RatePair([pair EXCEPT !.window = w])
  <2> HIDE DEF w, pair
  <2> QED BY <1>1, <1>3 DEF RatePair, Pair
<1> QED BY <1>4

LEMMA RateFresh == RatePair(NoPair)
                   /\ \A q, kind, id, r : RatePair(NewPair(q, kind, id, r))
BY DEF RatePair, NoPair, NewPair, NoWindow

LEMMA RateLeg ==
  ASSUME TypeInv, RateInv, MaxForwardBps # 0, NEW p \in Ports, NEW leg \in Legs, LegStep(p, leg)
  PROVE  RatePair(pairs'[p])
<1>0. pairs \in [Ports -> Pair] /\ pairs[p] \in Pair /\ RatePair(pairs[p])
  BY DEF TypeInv, TypeOK, RateInv
<1>1. ASSUME EndLeg(p, leg) PROVE RatePair(pairs'[p])
  <2>1. pairs'[p] = Released(pairs[p], leg)
    BY <1>0, <1>1 DEF EndLeg
  <2> QED BY <1>0, <2>1, RateFresh DEF Released, RatePair, Pair
<1>2. ASSUME NEW len \in PacketSizes, DropOverBytes(p, leg, len) PROVE RatePair(pairs'[p])
  BY <1>0, <1>2 DEF DropOverBytes, RatePair, Pair
<1>3. ASSUME NEW len \in PacketSizes, DropRateLimited(p, leg, len) PROVE RatePair(pairs'[p])
  <2>1. pairs'[p] = [pairs[p] EXCEPT !.window = Refilled(pairs[p].window, len)]
    BY <1>0, <1>3 DEF DropRateLimited
  <2> QED BY <1>3, <2>1, RateDrop DEF DropRateLimited
<1>4. ASSUME NEW len \in PacketSizes, NEW src \in Addrs, ForwardPacket(p, leg, src, len)
      PROVE  RatePair(pairs'[p])
  <2> DEFINE new == Charged(pairs[p], len)
  <2>1. RatePair(new)
    BY <1>4, RateForward DEF ForwardPacket
  <2>2. pairs'[p] = [new EXCEPT !.addr = Binding(pairs[p], leg, src)]
    BY <1>0, <1>4 DEF ForwardPacket
  <2>3. {"bytes", "window", "since"} \subseteq DOMAIN new
    BY <1>0 DEF Charged, Pair
  <2> HIDE DEF new
  <2> QED BY <2>1, <2>2, <2>3 DEF RatePair
<1> QED BY <1>1, <1>2, <1>3, <1>4 DEF LegStep, LegExpires, LegFails

LEMMA RateStep == TypeInv /\ RateInv /\ [Next]_vars => RateInv'
<1> SUFFICES ASSUME TypeInv, RateInv, MaxForwardBps # 0, [Next]_vars
             PROVE  \A p \in Ports : RatePair(pairs'[p])
  BY DEF RateInv
<1>0. pairs \in [Ports -> Pair] /\ \A p \in Ports : RatePair(pairs[p])
  BY DEF TypeInv, TypeOK, RateInv
<1> DEFINE Goal == \A p \in Ports : RatePair(pairs'[p])
<1>1. ASSUME HandleRequest PROVE Goal
  <2>1. ASSUME pairs' = pairs PROVE Goal
    BY <1>0, <2>1
  <2>2. ASSUME Exit PROVE Goal
    BY <2>2, RateFresh DEF Exit
  <2>3. ASSUME NEW kind \in Kinds, NEW r \in Requesters, NEW id \in RequestIds, BindLegs(kind, id, r)
        PROVE  Goal
    BY <1>0, <2>3, RateFresh DEF BindLegs
  <2> QED BY <1>1, <2>1, <2>2, <2>3
          DEF HandleRequest, RejectRequest, BindFails, RejectPublishFails
<1>2. ASSUME GrantPublishFails \/ Crash PROVE Goal
  BY <1>2, RateFresh DEF GrantPublishFails, Crash, Exit
<1>3. ASSUME NoteSession PROVE Goal
  BY <1>0, <1>3 DEF NoteSession, RatePair, Pair
<1>4. ASSUME PublishGrant \/ Restart \/ WriteState \/ WriteStateFails \/ Tick \/ UNCHANGED vars
      PROVE  Goal
  <2>1. pairs' = pairs
    BY <1>4 DEF PublishGrant, Restart, WriteState, WriteStateFails, Snapshot, Tick, vars
  <2> QED BY <1>0, <2>1
<1>5. ASSUME NEW p \in Ports, NEW leg \in Legs, LegStep(p, leg) PROVE Goal
  BY <1>0, <1>5, RateLeg, LegEffect
<1> QED BY <1>1, <1>2, <1>3, <1>4, <1>5 DEF Next

LEMMA RateInvImplies == TypeInv /\ RateInv => RateBound
<1> SUFFICES ASSUME TypeInv, RateInv, MaxForwardBps # 0, NEW p \in Ports, pairs[p].window.open
             PROVE  \E burst \in Bursts :
                      pairs[p].bytes <= burst + Earned(clock - pairs[p].since)
  BY DEF RateBound, Bursts, Earned
<1> DEFINE pair == pairs[p]
<1>1. /\ clock \in Nat /\ pair.window \in Window /\ pair.window.at <= clock
      /\ pair.since \in Nat /\ pair.bytes \in Nat /\ RatePair(pair)
  BY DEF TypeInv, TypeOK, WindowsInPast, RateInv, Pair, Window
<1> HIDE DEF pair
<1>2. PICK burst \in Bursts : pair.bytes + pair.window.available <= burst + Earned(pair.window.at - pair.since)
  BY <1>1 DEF RatePair, pair
<1> DEFINE a == pair.window.at - pair.since
           b == clock - pair.window.at
<1>3. /\ a \in Nat /\ b \in Nat /\ a + b = clock - pair.since /\ pair.window.available \in Nat
      /\ burst \in Nat
  BY <1>1, LimitAssumption DEF RatePair, Window, Bursts, pair
<1>4. Earned(a) + Earned(b) <= Earned(clock - pair.since)
      /\ Earned(a) \in Nat /\ Earned(b) \in Nat /\ Earned(clock - pair.since) \in Nat
  <2> HIDE DEF a, b
  <2>1. Earned(a) + Earned(b) <= Earned(a + b) /\ Earned(a) \in Nat /\ Earned(b) \in Nat
        /\ Earned(a + b) \in Nat
    BY <1>3, EarnedSum, EarnedNat
  <2> QED BY <1>3, <2>1
<1>5. pair.bytes <= burst + Earned(clock - pair.since)
  BY <1>1, <1>2, <1>3, <1>4
<1> QED BY <1>5 DEF pair

(* With a rate limit a session is never let through more than one burst and *)
(* the configured rate times the time since its first packet, however the   *)
(* refills of allow_forward fall.                                           *)
THEOREM RateIsBounded == Spec => []RateBound
<1>1. Init => RateInv
  BY RateFresh DEF Init, RateInv
<1> QED BY <1>1, TypeInit, TypeStep, RateStep, RateInvImplies, PTL DEF Spec

-----------------------------------------------------------------------------
(* The byte budget.  What a lease may still forward, once its session was   *)
(* counted as served; before that its legs do not run.                      *)
Left(pair) ==
  IF pair.owners # {} /\ "main" \notin pair.owners THEN MaxBytesPerSession - pair.bytes ELSE 0

(* The legs of a lease start when the main task lets go of its sockets.     *)
PairInBudget(pair) ==
  /\ pair.bytes <= MaxBytesPerSession
  /\ "main" \in pair.owners => pair.owners = {"main"} /\ pair.bytes = 0

(* S[p] is the sum of left over the ports up to p. *)
PortSums == [PortStart - 1 .. PortEnd -> Nat]
AddsUp(S, left) ==
  /\ S \in PortSums /\ S[PortStart - 1] = 0
  /\ \A p \in Ports : S[p] = S[p - 1] + left[p]
  /\ \A i, j \in PortStart - 1 .. PortEnd : i <= j => S[i] <= S[j]

LeftAt == [p \in Ports |-> Left(pairs[p])]

(* Every byte that the running leases may still forward is already paid for *)
(* by a session that was counted.                                           *)
Covered(S) == AddsUp(S, LeftAt) /\ forwarded + S[PortEnd] <= served * MaxBytesPerSession
BudgetInv ==
  /\ \A p \in Ports : PairInBudget(pairs[p])
  /\ ~up => \A p \in Ports : ~Bound(p)
  /\ disk.forwarded <= disk.served * MaxBytesPerSession
  /\ \E S \in PortSums : Covered(S)

(* The sums when one summand changes, or when there is nothing to sum. *)
LEMMA SumsChange ==
  ASSUME NEW left \in [Ports -> Nat], NEW new \in [Ports -> Nat], NEW S, AddsUp(S, left),
         NEW q \in Ports, NEW d \in Int, new[q] = left[q] + d,
         \A p \in Ports \ {q} : new[p] = left[p]
  PROVE  \E T \in PortSums : AddsUp(T, new) /\ T[PortEnd] = S[PortEnd] + d
<1> DEFINE I == PortStart - 1 .. PortEnd
           T == [p \in I |-> IF p < q THEN S[p] ELSE S[p] + d]
<1>0. /\ PortStart \in Int /\ PortEnd \in Int /\ Ports = PortStart .. PortEnd
      /\ Ports \subseteq I /\ q \in Int /\ PortStart <= q /\ q <= PortEnd
      /\ PortStart - 1 \in I /\ PortEnd \in I /\ q - 1 \in I /\ q \in I
  BY PortAssumption DEF Ports
<1>1. /\ \A p \in I : S[p] \in Nat
      /\ S[PortStart - 1] = 0 /\ \A p \in Ports : S[p] = S[p - 1] + left[p]
      /\ \A i, j \in I : i <= j => S[i] <= S[j]
  BY DEF AddsUp, PortSums
<1>2. S[q] + d = S[q - 1] + new[q] /\ new[q] \in Nat /\ left[q] \in Nat
  <2>1. S[q] = S[q - 1] + left[q] /\ S[q] \in Nat /\ S[q - 1] \in Nat
    BY <1>0, <1>1
  <2> QED BY <2>1
<1>3. \A p \in I : q <= p => S[p] + d \in Nat /\ S[q - 1] <= S[p] + d
  <2> SUFFICES ASSUME NEW p \in I, q <= p PROVE S[p] + d \in Nat /\ S[q - 1] <= S[p] + d
    OBVIOUS
  <2>1. S[q] <= S[p] /\ S[q] \in Nat /\ S[p] \in Nat /\ S[q - 1] \in Nat
    BY <1>0, <1>1
  <2> QED BY <1>2, <2>1
<1>4. T \in PortSums
  <2>1. \A p \in I : (IF p < q THEN S[p] ELSE S[p] + d) \in Nat
    BY <1>0, <1>1, <1>3
  <2> QED BY <2>1 DEF PortSums
<1>5. \A p \in I : (p < q => T[p] = S[p]) /\ (q <= p => T[p] = S[p] + d)
  BY <1>0
<1> HIDE DEF T
<1>6. T[PortStart - 1] = 0 /\ T[PortEnd] = S[PortEnd] + d
  BY <1>0, <1>1, <1>5
<1>7. ASSUME NEW p \in Ports PROVE T[p] = T[p - 1] + new[p]
  <2>0. p \in Int /\ p \in I /\ p - 1 \in I
    BY <1>0
  <2>1. /\ S[p] = S[p - 1] + left[p] /\ S[p] \in Nat /\ S[p - 1] \in Nat
        /\ left[p] \in Nat /\ new[p] \in Nat
    BY <1>0, <1>1, <2>0
  <2>2. CASE p = q
    BY <1>0, <1>2, <1>5, <2>0, <2>2
  <2>3. CASE p < q
    BY <1>0, <1>5, <2>0, <2>1, <2>3
  <2>4. CASE q < p
    <3>1. T[p] = S[p] + d /\ T[p - 1] = S[p - 1] + d /\ new[p] = left[p]
      BY <1>0, <1>5, <2>0, <2>4
    <3> QED BY <2>1, <3>1
  <2> QED BY <1>0, <2>0, <2>2, <2>3, <2>4
<1>8. ASSUME NEW i \in I, NEW j \in I, i <= j PROVE T[i] <= T[j]
  <2>0. i \in Int /\ j \in Int /\ S[i] \in Nat /\ S[j] \in Nat /\ S[i] <= S[j] /\ S[q - 1] \in Nat
    BY <1>0, <1>1, <1>8
  <2>1. CASE j < q
    BY <1>0, <1>5, <1>8, <2>0, <2>1
  <2>2. CASE q <= i
    <3>1. T[i] = S[i] + d /\ T[j] = S[j] + d
      BY <1>0, <1>5, <1>8, <2>0, <2>2
    <3> QED BY <2>0, <3>1
  <2>3. CASE i < q /\ q <= j
    <3>1. i <= q - 1 /\ S[i] <= S[q - 1]
      BY <1>0, <1>1, <2>0, <2>3
    <3>2. T[i] = S[i] /\ T[j] = S[j] + d /\ S[q - 1] <= S[j] + d
      BY <1>0, <1>3, <1>5, <2>3
    <3> QED BY <2>0, <3>1, <3>2
  <2> QED BY <1>0, <2>0, <2>1, <2>2, <2>3
<1>9. AddsUp(T, new)
  BY <1>4, <1>6, <1>7, <1>8 DEF AddsUp
<1> QED BY <1>4, <1>6, <1>9

LEMMA NothingAddsUp ==
  ASSUME NEW left, \A p \in Ports : left[p] = 0
  PROVE  \E T \in PortSums : AddsUp(T, left) /\ T[PortEnd] = 0
<1> DEFINE T == [p \in PortStart - 1 .. PortEnd |-> 0]
<1>1. T \in PortSums
  BY DEF PortSums
<1>2. \A p \in PortStart - 1 .. PortEnd : T[p] = 0
  OBVIOUS
<1>3. /\ PortStart - 1 \in PortStart - 1 .. PortEnd /\ PortEnd \in PortStart - 1 .. PortEnd
      /\ \A p \in Ports : p \in PortStart - 1 .. PortEnd /\ p - 1 \in PortStart - 1 .. PortEnd
  BY PortAssumption DEF Ports
<1> HIDE DEF T
<1>4. AddsUp(T, left)
  BY <1>1, <1>2, <1>3 DEF AddsUp
<1> QED BY <1>1, <1>2, <1>3, <1>4

LEMMA LeftIsNat ==
  ASSUME TypeInv, \A p \in Ports : PairInBudget(pairs[p])
  PROVE  LeftAt \in [Ports -> Nat] /\ \A p \in Ports : LeftAt[p] = Left(pairs[p])
<1>1. ASSUME NEW p \in Ports PROVE Left(pairs[p]) \in Nat
  BY LimitAssumption DEF TypeInv, TypeOK, Pair, Left, PairInBudget
<1> QED BY <1>1 DEF LeftAt

(* A step that changes what one lease may forward, by d, keeps every byte   *)
(* paid for when the counters change accordingly.                           *)
LEMMA OneLeaseChanges ==
  ASSUME TypeInv, TypeInv', BudgetInv, NEW q \in Ports, NEW d \in Int,
         \A p \in Ports \ {q} : pairs'[p] = pairs[p],
         PairInBudget(pairs'[q]), Left(pairs'[q]) = Left(pairs[q]) + d,
         forwarded' + d - forwarded <= (served' - served) * MaxBytesPerSession,
         disk' = disk, up /\ up'
  PROVE  BudgetInv'
<1>1. \A p \in Ports : PairInBudget(pairs'[p])
  BY DEF BudgetInv
<1>2. /\ LeftAt \in [Ports -> Nat] /\ \A p \in Ports : LeftAt[p] = Left(pairs[p])
      /\ LeftAt' \in [Ports -> Nat] /\ \A p \in Ports : LeftAt'[p] = Left(pairs'[p])
  <2>1. LeftAt \in [Ports -> Nat] /\ \A p \in Ports : LeftAt[p] = Left(pairs[p])
    BY LeftIsNat DEF BudgetInv
  <2>2. ASSUME NEW p \in Ports PROVE Left(pairs'[p]) \in Nat
    BY <1>1, LimitAssumption DEF TypeInv, TypeOK, Pair, Left, PairInBudget
  <2>3. LeftAt' = [p \in Ports |-> Left(pairs'[p])]
    BY DEF LeftAt, Left
  <2> QED BY <2>1, <2>2, <2>3
<1>3. PICK S \in PortSums : Covered(S)
  BY DEF BudgetInv
<1>4. PICK T \in PortSums : AddsUp(T, LeftAt') /\ T[PortEnd] = S[PortEnd] + d
  BY <1>2, <1>3, SumsChange DEF Covered
<1>5. forwarded' + T[PortEnd] <= served' * MaxBytesPerSession
  <2>1. /\ forwarded \in Nat /\ forwarded' \in Nat /\ served \in Nat /\ served' \in Nat
        /\ MaxBytesPerSession \in Nat /\ T[PortEnd] \in Nat /\ S[PortEnd] \in Nat
    <3>1. /\ forwarded \in Nat /\ forwarded' \in Nat /\ served \in Nat /\ served' \in Nat
          /\ MaxBytesPerSession \in Nat
      BY LimitAssumption DEF TypeInv, TypeOK
    <3>2. PortEnd \in PortStart - 1 .. PortEnd
      BY PortAssumption
    <3>3. T[PortEnd] \in Nat /\ S[PortEnd] \in Nat
      BY <3>2 DEF PortSums
    <3> QED BY <3>1, <3>3
  <2>2. forwarded + S[PortEnd] <= served * MaxBytesPerSession
    BY <1>3 DEF Covered
  <2>3. (served' - served) * MaxBytesPerSession
          = served' * MaxBytesPerSession - served * MaxBytesPerSession
    BY <2>1
  <2>4. \A a, b \in Nat : a * b \in Nat
    OBVIOUS
  <2> DEFINE paid == served * MaxBytesPerSession
             pays == served' * MaxBytesPerSession
  <2>6. forwarded' + d - forwarded <= pays - paid /\ forwarded + S[PortEnd] <= paid
    BY <2>2, <2>3
  <2>5. paid \in Nat /\ pays \in Nat
    BY <2>1, <2>4
  <2> HIDE DEF paid, pays
  <2>7. forwarded' + T[PortEnd] <= pays
    <3>1. T[PortEnd] = S[PortEnd] + d
      BY <1>4
    <3> DEFINE s == S[PortEnd]
               t == T[PortEnd]
    <3>2. s \in Nat /\ t \in Nat /\ t = s + d /\ forwarded + s <= paid
      BY <2>1, <2>6, <3>1
    <3> HIDE DEF s, t
    <3>3. forwarded' + t <= pays
      BY <2>1, <2>5, <2>6, <3>2
    <3> QED BY <3>3 DEF t
  <2> QED BY <2>7 DEF pays
<1>6. Covered(T)'
  BY <1>4, <1>5 DEF Covered
<1>7. \E U \in PortSums : Covered(U)'
  BY <1>6
<1>8. disk'.forwarded <= disk'.served * MaxBytesPerSession
  <2>1. disk.forwarded <= disk.served * MaxBytesPerSession
    BY DEF BudgetInv
  <2> QED BY <2>1, Zenon
<1> QED BY <1>1, <1>7, <1>8 DEF BudgetInv

(* The counters alone: nothing that runs is left, or nothing changes. *)
LEMMA PaidFor == TypeInv /\ BudgetInv => forwarded <= served * MaxBytesPerSession
<1> SUFFICES ASSUME TypeInv, BudgetInv PROVE forwarded <= served * MaxBytesPerSession
  OBVIOUS
<1>1. PICK S \in PortSums : forwarded + S[PortEnd] <= served * MaxBytesPerSession
  BY DEF BudgetInv, Covered
<1>2. PortEnd \in PortStart - 1 .. PortEnd
  BY PortAssumption
<1>3. S[PortEnd] \in Nat /\ forwarded \in Nat /\ served * MaxBytesPerSession \in Nat
  BY <1>2, LimitAssumption DEF PortSums, TypeInv, TypeOK
<1> QED BY <1>1, <1>3

LEMMA NothingLeft ==
  ASSUME \A p \in Ports : ~Bound(p)', forwarded' <= served' * MaxBytesPerSession,
         TypeInv', \A p \in Ports : PairInBudget(pairs'[p]),
         disk'.forwarded <= disk'.served * MaxBytesPerSession
  PROVE  BudgetInv'
<1>1. \A p \in Ports : LeftAt'[p] = 0
  BY DEF LeftAt, Left, Bound
<1>2. PICK T \in PortSums : AddsUp(T, LeftAt') /\ T[PortEnd] = 0
  BY <1>1, NothingAddsUp
<1>3. forwarded' + T[PortEnd] <= served' * MaxBytesPerSession
  BY <1>2 DEF TypeInv, TypeOK
<1>4. Covered(T)'
  BY <1>2, <1>3 DEF Covered
<1>5. \E U \in PortSums : Covered(U)'
  BY <1>4
<1> QED BY <1>5 DEF BudgetInv

LEMMA SameLeases ==
  ASSUME BudgetInv, UNCHANGED <<up, pairs, served, forwarded>>,
         disk'.forwarded <= disk'.served * MaxBytesPerSession
  PROVE  BudgetInv'
<1>1. PICK S \in PortSums : Covered(S)
  BY DEF BudgetInv
<1>2. LeftAt' = LeftAt
  BY DEF LeftAt, Left
<1>3. Covered(S)'
  BY <1>1, <1>2 DEF Covered
<1>4. \E U \in PortSums : Covered(U)'
  BY <1>3
<1>5. /\ \A p \in Ports : PairInBudget(pairs'[p])
      /\ ~up' => \A p \in Ports : ~Bound(p)'
  BY DEF BudgetInv, Bound
<1> QED BY <1>4, <1>5 DEF BudgetInv

LEMMA FreshInBudget ==
  /\ NoPair.owners = {} /\ PairInBudget(NoPair) /\ Left(NoPair) = 0
BY LimitAssumption DEF NoPair, PairInBudget, Left

LEMMA BudgetExit ==
  ASSUME TypeInv, TypeInv', BudgetInv, Exit
  PROVE  BudgetInv'
<1>1. \A p \in Ports : pairs'[p] = NoPair
  BY DEF Exit
<1>2. forwarded' <= served' * MaxBytesPerSession
  BY PaidFor DEF Exit
<1>3. disk'.forwarded <= disk'.served * MaxBytesPerSession
  BY DEF Exit, BudgetInv
<1>4. /\ \A p \in Ports : ~Bound(p)'
      /\ \A p \in Ports : PairInBudget(pairs'[p])
  BY <1>1, FreshInBudget DEF Bound
<1> QED BY <1>2, <1>3, <1>4, NothingLeft

LEMMA BudgetBind ==
  ASSUME TypeInv, TypeInv', BudgetInv, NEW kind \in Kinds, NEW r \in Requesters,
         NEW id \in RequestIds, BindLegs(kind, id, r)
  PROVE  BudgetInv'
<1>1. PICK p \in Ports, q \in Ports :
        BindPair(p, q) /\ pairs' = [pairs EXCEPT ![p] = NewPair(q, kind, id, r)]
  BY DEF BindLegs
<1>2. Left(pairs[p]) = 0
  BY <1>1, BindPairFree DEF BusyPorts, PortsOf, Bound, Left
<1>3. pairs'[p].owners = {"main"} /\ pairs'[p].bytes = 0
  BY <1>1 DEF NewPair, TypeInv, TypeOK
<1>4. PairInBudget(pairs'[p]) /\ Left(pairs'[p]) = Left(pairs[p]) + 0
  BY <1>2, <1>3, LimitAssumption DEF PairInBudget, Left
<1>5. /\ served' = served /\ forwarded' = forwarded /\ disk' = disk /\ up /\ up'
      /\ \A o \in Ports \ {p} : pairs'[o] = pairs[o]
  BY <1>1 DEF BindLegs, Receive, TypeInv, TypeOK
<1>6. forwarded' + 0 - forwarded <= (served' - served) * MaxBytesPerSession
  BY <1>5, LimitAssumption DEF TypeInv, TypeOK
<1> QED BY <1>4, <1>5, <1>6, OneLeaseChanges

(* A session is counted, and its legs start: it may forward its budget.     *)
LEMMA BudgetNote ==
  ASSUME TypeInv, TypeInv', PortInv, BudgetInv, NoteSession
  PROVE  BudgetInv'
<1> DEFINE p == main.port
<1>1. p \in Ports /\ pairs \in [Ports -> Pair] /\ "main" \in pairs[p].owners
  BY DEF NoteSession, PortInv, MainOwns, TypeInv, TypeOK
<1>2. pairs[p].owners = {"main"} /\ pairs[p].bytes = 0 /\ Left(pairs[p]) = 0
  BY <1>1 DEF BudgetInv, PairInBudget, Left
<1>3. pairs'[p].owners = Legs /\ pairs'[p].bytes = 0
  BY <1>1, <1>2 DEF NoteSession, Pair
<1>4. PairInBudget(pairs'[p]) /\ Left(pairs'[p]) = Left(pairs[p]) + MaxBytesPerSession
  BY <1>2, <1>3, LimitAssumption DEF PairInBudget, Left, Legs
<1>5. /\ served' = served + 1 /\ forwarded' = forwarded /\ disk' = disk /\ up /\ up'
      /\ \A o \in Ports \ {p} : pairs'[o] = pairs[o]
  BY <1>1 DEF NoteSession
<1>6. forwarded' + MaxBytesPerSession - forwarded <= (served' - served) * MaxBytesPerSession
  BY <1>5, LimitAssumption DEF TypeInv, TypeOK
<1> HIDE DEF p
<1> QED BY <1>1, <1>4, <1>5, <1>6, OneLeaseChanges, LimitAssumption

LEMMA BudgetLeg ==
  ASSUME TypeInv, TypeInv', BudgetInv, NEW p \in Ports, NEW leg \in Legs, LegStep(p, leg)
  PROVE  BudgetInv'
<1>0. /\ pairs \in [Ports -> Pair] /\ pairs[p] \in Pair /\ leg \in pairs[p].owners
      /\ served \in Nat /\ forwarded \in Nat /\ MaxBytesPerSession \in Nat
      /\ pairs[p].bytes \in Nat
  BY LegEffect, LimitAssumption DEF TypeInv, TypeOK, Pair
<1>1. "main" \notin pairs[p].owners
  BY <1>0 DEF BudgetInv, PairInBudget, Legs
<1>2. Left(pairs[p]) = MaxBytesPerSession - pairs[p].bytes
      /\ pairs[p].bytes <= MaxBytesPerSession
  BY <1>0, <1>1 DEF Left, BudgetInv, PairInBudget
<1>3. (served - served) * MaxBytesPerSession = 0
  BY <1>0
<1>4. ASSUME EndLeg(p, leg) PROVE BudgetInv'
  <2>1. /\ pairs'[p] = Released(pairs[p], leg) /\ \A o \in Ports \ {p} : pairs'[o] = pairs[o]
        /\ served' = served /\ forwarded' = forwarded /\ disk' = disk /\ up /\ up'
    BY <1>0, <1>4 DEF EndLeg
  <2>2. CASE pairs[p].owners = {leg}
    <3>1. pairs'[p] = NoPair
      BY <2>1, <2>2 DEF Released
    <3> DEFINE d == pairs[p].bytes - MaxBytesPerSession
    <3>2. d \in Int /\ Left(pairs'[p]) = Left(pairs[p]) + d
          /\ forwarded' + d - forwarded <= (served' - served) * MaxBytesPerSession
      BY <1>0, <1>2, <1>3, <2>1, <3>1, FreshInBudget
    <3> HIDE DEF d
    <3> QED BY <2>1, <3>1, <3>2, FreshInBudget, OneLeaseChanges
  <2>3. CASE pairs[p].owners # {leg}
    <3>1. /\ pairs'[p].owners = pairs[p].owners \ {leg} /\ pairs'[p].bytes = pairs[p].bytes
          /\ pairs'[p].owners # {} /\ "main" \notin pairs'[p].owners
      BY <1>0, <1>1, <2>1, <2>3 DEF Released, Pair
    <3>2. PairInBudget(pairs'[p]) /\ Left(pairs'[p]) = Left(pairs[p]) + 0
      BY <1>0, <1>2, <3>1 DEF PairInBudget, Left
    <3>3. forwarded' + 0 - forwarded <= (served' - served) * MaxBytesPerSession
      BY <1>0, <1>3, <2>1
    <3> QED BY <2>1, <3>2, <3>3, OneLeaseChanges
  <2> QED BY <2>2, <2>3
<1>5. ASSUME NEW len \in PacketSizes, DropOverBytes(p, leg, len) \/ DropRateLimited(p, leg, len)
      PROVE  BudgetInv'
  <2>1. /\ \A o \in Ports \ {p} : pairs'[o] = pairs[o]
        /\ served' = served /\ forwarded' = forwarded /\ disk' = disk /\ up /\ up'
    BY <1>0, <1>5 DEF DropOverBytes, DropRateLimited
  <2>2. pairs'[p].owners = pairs[p].owners /\ pairs'[p].bytes = pairs[p].bytes
    BY <1>0, <1>5 DEF DropOverBytes, DropRateLimited, Pair
  <2>3. PairInBudget(pairs'[p]) /\ Left(pairs'[p]) = Left(pairs[p]) + 0
    BY <1>0, <1>1, <1>2, <2>2 DEF PairInBudget, Left
  <2>4. forwarded' + 0 - forwarded <= (served' - served) * MaxBytesPerSession
    BY <1>0, <1>3, <2>1
  <2> QED BY <2>1, <2>3, <2>4, OneLeaseChanges
<1>6. ASSUME NEW len \in PacketSizes, NEW src \in Addrs, ForwardPacket(p, leg, src, len)
      PROVE  BudgetInv'
  <2>1. /\ \A o \in Ports \ {p} : pairs'[o] = pairs[o]
        /\ served' = served /\ disk' = disk /\ up /\ up'
        /\ forwarded' = forwarded \/ forwarded' = forwarded + len
    BY <1>0, <1>6 DEF ForwardPacket, NoteForwarded
  <2>2. pairs'[p].owners = pairs[p].owners /\ pairs'[p].bytes = pairs[p].bytes + len
    BY <1>0, <1>6 DEF ForwardPacket, Charged, Pair
  <2>3. len \in Nat /\ -len \in Int /\ pairs[p].bytes + len <= MaxBytesPerSession
    BY <1>0, <1>6, LimitAssumption DEF ForwardPacket, OverBytes
  <2>4. PairInBudget(pairs'[p]) /\ Left(pairs'[p]) = Left(pairs[p]) + -len
    BY <1>0, <1>1, <1>2, <2>2, <2>3 DEF PairInBudget, Left
  <2>5. forwarded' + -len - forwarded <= (served' - served) * MaxBytesPerSession
    BY <1>0, <1>3, <2>1, <2>3
  <2> QED BY <2>1, <2>3, <2>4, <2>5, OneLeaseChanges
<1> QED BY <1>4, <1>5, <1>6 DEF LegStep, LegExpires, LegFails

LEMMA BudgetStep == TypeInv /\ TypeInv' /\ PortInv /\ BudgetInv /\ [Next]_vars => BudgetInv'
<1> SUFFICES ASSUME TypeInv, TypeInv', PortInv, BudgetInv, [Next]_vars PROVE BudgetInv'
  OBVIOUS
<1>0. disk.forwarded <= disk.served * MaxBytesPerSession
  BY DEF BudgetInv
<1>1. ASSUME UNCHANGED <<up, pairs, served, forwarded, disk>> PROVE BudgetInv'
  BY <1>0, <1>1, SameLeases
<1>2. ASSUME WriteState PROVE BudgetInv'
  <2>1. UNCHANGED <<up, pairs, served, forwarded>>
        /\ disk'.forwarded = forwarded /\ disk'.served = served
    BY <1>2 DEF WriteState, Snapshot
  <2> QED BY <2>1, PaidFor, SameLeases
<1>3. ASSUME Restart PROVE BudgetInv'
  <2>1. pairs' = pairs /\ disk' = disk /\ forwarded' = disk.forwarded /\ served' = disk.served
    BY <1>3 DEF Restart
  <2>2. \A p \in Ports : ~Bound(p)' /\ PairInBudget(pairs'[p])
    BY <1>3, <2>1 DEF Restart, BudgetInv, Bound
  <2>3. forwarded' <= served' * MaxBytesPerSession
    BY <1>0, <2>1
  <2>4. disk'.forwarded <= disk'.served * MaxBytesPerSession
    BY <1>0, <2>1
  <2> QED BY <2>2, <2>3, <2>4, NothingLeft
<1>4. ASSUME HandleRequest PROVE BudgetInv'
  <2>1. PICK kind \in Kinds, r \in Requesters :
      \/ RejectRequest(kind, r) \/ RejectPublishFails(kind, r)
      \/ BindFails(kind, r)
      \/ \E id \in RequestIds : BindLegs(kind, id, r)
    BY <1>4 DEF HandleRequest
  <2> QED BY <1>1, <2>1, BudgetExit, BudgetBind DEF RejectRequest, RejectPublishFails, BindFails
<1>5. ASSUME GrantPublishFails \/ Crash PROVE BudgetInv'
  BY <1>5, BudgetExit DEF GrantPublishFails, Crash
<1>6. ASSUME PublishGrant \/ WriteStateFails \/ Tick \/ UNCHANGED vars PROVE BudgetInv'
  BY <1>1, <1>6 DEF PublishGrant, WriteStateFails, Snapshot, Tick, vars
<1> QED
  BY <1>2, <1>3, <1>4, <1>5, <1>6, BudgetNote, BudgetLeg DEF Next

(* The counters in memory and in the state file never claim more bytes than *)
(* the sessions counted were allowed, through every crash and restart of    *)
(* note_session_started, note_forwarded_bytes and the state writer.         *)
THEOREM TotalsAreWithinBudget == Spec => []TotalsWithinBudget
<1>1. Init /\ TypeInv => PortInv /\ BudgetInv
  <2> SUFFICES ASSUME Init, TypeInv PROVE PortInv /\ BudgetInv
    OBVIOUS
  <2>1. PortInv
    BY NoPairFields DEF Init, PortInv, MainOwns, PortsExclusive, Bound, Idle
  <2>2. /\ \A p \in Ports : LeftAt[p] = 0 /\ PairInBudget(pairs[p])
        /\ up /\ forwarded = 0 /\ served = 0
    BY FreshInBudget DEF Init, LeftAt
  <2>3. PICK T \in PortSums : AddsUp(T, LeftAt) /\ T[PortEnd] = 0
    BY <2>2, NothingAddsUp
  <2>4. forwarded + T[PortEnd] <= served * MaxBytesPerSession
    BY <2>2, <2>3, LimitAssumption
  <2>5. disk.forwarded <= disk.served * MaxBytesPerSession
    BY LimitAssumption DEF Init
  <2> QED BY <2>1, <2>2, <2>3, <2>4, <2>5 DEF BudgetInv, Covered
<1>2. TypeInv /\ BudgetInv => TotalsWithinBudget
  BY PaidFor DEF BudgetInv, TotalsWithinBudget
<1> QED
  BY <1>1, <1>2, TypeInit, TypeStep, PortsStep, BudgetStep, PTL DEF Spec

-----------------------------------------------------------------------------
(* The operator implements RelayLease, for every value of the constants.   *)

LeaseAt(p) ==
  [port |-> p, target_port |-> pairs[p].target_port,
   request_id |-> pairs[p].request_id, to |-> pairs[p].requester,
   until |-> pairs[p].deadline]

PromiseOf(g) ==
  [lease |-> [port |-> g.port, target_port |-> g.target_port,
              request_id |-> g.request_id, to |-> g.to, until |-> g.deadline],
   until |-> g.expires_at * TicksPerSec]

(* What the refinement needs besides the types and the ports: expires_at    *)
(* is the second the deadline falls in, and no grant is of a process that   *)
(* has not started.                                                         *)
TimesAgree == \A p \in Ports : Bound(p) => pairs[p].expires_at = pairs[p].deadline \div TicksPerSec
BootsPast == \A g \in grants : g.boot <= boots
RefInv == TypeInv /\ PortInv /\ TimesAgree /\ BootsPast

(* A step that leaves what a lease is made of alone leaves the leases. *)
KeepsLeases ==
  \A p \in Ports :
    /\ Bound(p)' <=> Bound(p)
    /\ Bound(p) => /\ pairs'[p].target_port = pairs[p].target_port
                   /\ pairs'[p].request_id = pairs[p].request_id
                   /\ pairs'[p].requester = pairs[p].requester
                   /\ pairs'[p].expires_at = pairs[p].expires_at
                   /\ pairs'[p].deadline = pairs[p].deadline

LEMMA HeldByPort == HeldLeases = {LeaseAt(p) : p \in {q \in Ports : Bound(q)}}
BY DEF HeldLeases, LeaseAt

LEMMA KeepsHeld == KeepsLeases => HeldLeases' = HeldLeases /\ (TimesAgree => TimesAgree')
<1> SUFFICES ASSUME KeepsLeases PROVE HeldLeases' = HeldLeases /\ (TimesAgree => TimesAgree')
  OBVIOUS
<1>1. \A p \in Ports : Bound(p) => LeaseAt(p)' = LeaseAt(p)
  BY DEF KeepsLeases, LeaseAt
<1>2. HeldLeases' = HeldLeases
  BY <1>1 DEF KeepsLeases, HeldLeases, LeaseAt
<1> QED
  BY <1>2 DEF KeepsLeases, TimesAgree

LEMMA KeepsPromises == UNCHANGED <<up, boots, grants>> => Promises' = Promises /\ (BootsPast => BootsPast')
BY DEF Promises, BootsPast

(* A lease ends no earlier than the second its expires_at names. *)
LEMMA WholeSeconds ==
  ASSUME NEW t \in Nat PROVE (t \div TicksPerSec) * TicksPerSec <= t
BY DivDef, TimeAssumption

-----------------------------------------------------------------------------
(* Binding two free ports is taking a lease. *)
LEMMA BindTakes ==
  ASSUME RefInv, NEW kind \in Kinds, NEW id \in RequestIds, NEW r \in Requesters,
         BindLegs(kind, id, r)
  PROVE  Lease!Take /\ TimesAgree' /\ BootsPast'
<1>1. PICK p \in Ports, q \in Ports :
        BindPair(p, q) /\ pairs' = [pairs EXCEPT ![p] = NewPair(q, kind, id, r)]
  BY DEF BindLegs
<1>2. p # q /\ p \notin BusyPorts /\ q \notin BusyPorts /\ ~Bound(p)
  BY <1>1, BindPairFree DEF BusyPorts, PortsOf
<1>3. pairs \in [Ports -> Pair] /\ clock \in Nat
  BY DEF RefInv, TypeInv, TypeOK
<1>4. pairs'[p] = NewPair(q, kind, id, r) /\ \A o \in Ports \ {p} : pairs'[o] = pairs[o]
  BY <1>1, <1>3
<1>5. Bound(p)' /\ \A o \in Ports \ {p} : Bound(o)' <=> Bound(o)
  BY <1>4 DEF Bound, NewPair
<1>6. LeaseAt(p)' = [port |-> p, target_port |-> q, request_id |-> id, to |-> r,
                     until |-> clock + LeaseOf(kind) * TicksPerSec]
  BY <1>4 DEF LeaseAt, NewPair
<1>7. \A o \in Ports \ {p} : LeaseAt(o)' = LeaseAt(o)
  BY <1>4 DEF LeaseAt
<1>8. HeldLeases' = HeldLeases \union {LeaseAt(p)'}
  <2>1. HeldLeases' = {LeaseAt(o)' : o \in {u \in Ports : Bound(u)'}}
    BY DEF HeldLeases, LeaseAt
  <2> QED BY <1>2, <1>5, <1>7, <2>1, HeldByPort
<1>9. LeaseAt(p)'.until \in Nat /\ LeaseAt(p)'.until > clock
  BY <1>3, <1>6, LeaseIsPositive, TimeAssumption
<1>10. \A m \in HeldLeases :
         Lease!PortsOfLease(LeaseAt(p)') \intersect Lease!PortsOfLease(m) = {}
  <2> SUFFICES ASSUME NEW o \in Ports, Bound(o)
               PROVE  {p, q} \intersect PortsOf(o) = {}
    BY <1>6, HeldByPort DEF Lease!PortsOfLease, PortsOf, LeaseAt
  <2> QED BY <1>2 DEF BusyPorts
<1>11. UNCHANGED <<clock, up, boots, grants>>
  BY DEF BindLegs
<1>12. Lease!Take
  <2>1. LeaseAt(p)' \in HeldLeases' /\ LeaseAt(p)'.port # LeaseAt(p)'.target_port
    BY <1>2, <1>6, <1>8
  <2> QED BY <1>8, <1>9, <1>10, <1>11, <2>1, KeepsPromises DEF Lease!Take
<1>13. TimesAgree'
  <2>1. pairs'[p].expires_at = pairs'[p].deadline \div TicksPerSec
    <3>1. /\ pairs'[p].expires_at = (clock \div TicksPerSec) + LeaseOf(kind)
          /\ pairs'[p].deadline = clock + LeaseOf(kind) * TicksPerSec
      BY <1>4 DEF NewPair, Now
    <3>2. (clock + LeaseOf(kind) * TicksPerSec) \div TicksPerSec
            = (clock \div TicksPerSec) + LeaseOf(kind)
      BY <1>3, DivAdd, LeaseIsPositive, TimeAssumption
    <3> QED BY <3>1, <3>2
  <2> QED BY <1>4, <1>5, <2>1 DEF TimesAgree, RefInv
<1> QED
  BY <1>11, <1>12, <1>13, KeepsPromises DEF RefInv

(* Publishing a grant promises the lease the main task holds. *)
LEMMA PublishPromises ==
  ASSUME RefInv, PublishGrant
  PROVE  Lease!Promise /\ TimesAgree' /\ BootsPast'
<1>1. main.port \in Ports /\ Bound(main.port) /\ boots \in Nat
  BY DEF PublishGrant, RefInv, PortInv, MainOwns, Bound, TypeInv, TypeOK
<1>2. pairs' = pairs /\ clock' = clock /\ up /\ up' = up /\ boots' = boots
  BY DEF PublishGrant
<1>3. grants' = grants \union {Grant(main.port)}
  BY DEF PublishGrant
<1>4. HeldLeases' = HeldLeases /\ TimesAgree'
  BY <1>2, KeepsHeld DEF KeepsLeases, Bound, RefInv
<1>5. Promises' = Promises \union {PromiseOf(Grant(main.port))}
  <2>1. Promises = {PromiseOf(g) : g \in {h \in grants : up /\ h.boot = boots}}
    BY DEF Promises, PromiseOf
  <2>2. Promises' = {PromiseOf(g) : g \in {h \in grants' : up /\ h.boot = boots}}
    BY <1>2 DEF Promises, PromiseOf
  <2>3. Grant(main.port).boot = boots
    BY DEF Grant
  <2> QED BY <1>2, <1>3, <2>1, <2>2, <2>3
<1>6. PromiseOf(Grant(main.port)).lease = LeaseAt(main.port)
  BY DEF PromiseOf, Grant, LeaseAt
<1>7. /\ PromiseOf(Grant(main.port)).until \in Nat
      /\ PromiseOf(Grant(main.port)).until <= LeaseAt(main.port).until
  <2>1. pairs[main.port].expires_at = pairs[main.port].deadline \div TicksPerSec
    BY <1>1 DEF RefInv, TimesAgree
  <2>2. pairs[main.port].deadline \in Nat
    BY <1>1 DEF RefInv, TypeInv, TypeOK, Pair
  <2>3. pairs[main.port].expires_at * TicksPerSec \in Nat
    BY <2>1, <2>2, DivDef, TimeAssumption
  <2> QED BY <2>1, <2>2, <2>3, WholeSeconds DEF PromiseOf, Grant, LeaseAt
<1>8. LeaseAt(main.port) \in HeldLeases
  BY <1>1, HeldByPort
<1>9. Lease!Promise
  <2>1. PromiseOf(Grant(main.port)) \in Promises'
    BY <1>5
  <2>2. UNCHANGED <<clock, HeldLeases>>
    BY <1>2, <1>4
  <2> QED BY <1>5, <1>6, <1>7, <1>8, <2>1, <2>2 DEF Lease!Promise
<1>10. BootsPast'
  <2>1. Grant(main.port).boot = boots
    BY DEF Grant
  <2> QED BY <1>1, <1>2, <1>3, <2>1 DEF RefInv, BootsPast
<1> QED BY <1>4, <1>9, <1>10

(* The end of the process resets everything. *)
LEMMA ExitResets ==
  ASSUME RefInv, Exit, \A g \in grants' : g \in grants \/ g = Grant(main.port)
  PROVE  Lease!Reset /\ TimesAgree' /\ BootsPast'
<1>1. \A p \in Ports : ~Bound(p)'
  BY NoPairFields DEF Exit, Bound
<1>2. HeldLeases' = {} /\ TimesAgree'
  BY <1>1 DEF HeldLeases, TimesAgree
<1>3. Promises' = {} /\ clock' = clock
  BY DEF Exit, Promises
<1>4. BootsPast'
  BY DEF Exit, Grant, RefInv, BootsPast, TypeInv, TypeOK
<1> QED BY <1>2, <1>3, <1>4 DEF Lease!Reset

(* A leg task gives its lease up when the lease is over, or on an error, or *)
(* leaves it to the other leg task.                                         *)
LEMMA LegReleases ==
  ASSUME RefInv, NEW p \in Ports, NEW leg \in Legs, LegStep(p, leg)
  PROVE  (Lease!Release \/ UNCHANGED Lease!vars) /\ TimesAgree' /\ BootsPast'
<1>1. /\ clock' = clock /\ up' = up /\ boots' = boots /\ grants' = grants
      /\ \A o \in Ports \ {p} : pairs'[o] = pairs[o]
      /\ leg \in pairs[p].owners /\ Bound(p)
      /\ \/ pairs'[p] = Released(pairs[p], leg) /\ (LegErrors \/ clock >= pairs[p].deadline)
         \/ KeepsLease(pairs[p], pairs'[p])
  BY LegEffect DEF Bound, RefInv
<1>2. Promises' = Promises /\ BootsPast'
  BY <1>1, KeepsPromises DEF RefInv
<1>3. pairs[p] \in Pair
  BY DEF RefInv, TypeInv, TypeOK
<1>4. CASE KeepsLeases
  BY <1>1, <1>2, <1>4, KeepsHeld DEF Lease!vars, RefInv
<1>5. CASE pairs'[p] = NoPair /\ (LegErrors \/ clock >= pairs[p].deadline)
  <2>1. ~Bound(p)' /\ \A o \in Ports \ {p} : (Bound(o)' <=> Bound(o)) /\ LeaseAt(o)' = LeaseAt(o)
    BY <1>1, <1>5, NoPairFields DEF Bound, LeaseAt
  <2>2. HeldLeases' = {LeaseAt(o)' : o \in {u \in Ports : Bound(u)'}}
    BY DEF HeldLeases, LeaseAt
  <2>3. \A o \in Ports \ {p} : LeaseAt(o) # LeaseAt(p)
    BY DEF LeaseAt
  <2>4. HeldLeases' = HeldLeases \ {LeaseAt(p)}
    BY <2>1, <2>2, <2>3, HeldByPort
  <2>5. LeaseAt(p) \in HeldLeases /\ LeaseAt(p).until = pairs[p].deadline
    BY <1>1, HeldByPort DEF LeaseAt
  <2>6. Lease!Release
    BY <1>1, <1>2, <1>5, <2>4, <2>5 DEF Lease!Release
  <2>7. TimesAgree'
    BY <1>1, <2>1 DEF TimesAgree, RefInv
  <2> QED BY <1>2, <2>6, <2>7
<1>6. CASE KeepsLease(pairs[p], pairs'[p])
  <2>1. KeepsLeases
    BY <1>1, <1>6 DEF KeepsLeases, KeepsLease, Bound
  <2> QED BY <1>4, <2>1
<1>7. CASE pairs'[p] = Released(pairs[p], leg) /\ pairs[p].owners # {leg}
  <2>1. pairs'[p] = [pairs[p] EXCEPT !.owners = @ \ {leg}]
    BY <1>7 DEF Released
  <2>2. pairs'[p].owners # {}
    BY <1>1, <1>3, <1>7, <2>1 DEF Pair
  <2>3. KeepsLeases
    BY <1>1, <1>3, <2>1, <2>2 DEF KeepsLeases, Bound, Pair
  <2> QED BY <1>4, <2>3
<1> QED
  BY <1>1, <1>5, <1>6, <1>7 DEF Released

-----------------------------------------------------------------------------
(* Every step of the operator is a step of RelayLease or none. *)
LEMMA StepRefines ==
  RefInv /\ [Next]_vars => [Lease!Next]_(Lease!vars) /\ TimesAgree' /\ BootsPast'
<1> SUFFICES ASSUME RefInv, [Next]_vars
             PROVE  [Lease!Next]_(Lease!vars) /\ TimesAgree' /\ BootsPast'
  OBVIOUS
<1>1. ASSUME NEW kind \in Kinds, NEW r \in Requesters, NEW id \in RequestIds,
             BindLegs(kind, id, r)
      PROVE  [Lease!Next]_(Lease!vars) /\ TimesAgree' /\ BootsPast'
  BY <1>1, BindTakes DEF Lease!Next
<1>2. ASSUME PublishGrant PROVE [Lease!Next]_(Lease!vars) /\ TimesAgree' /\ BootsPast'
  BY <1>2, PublishPromises DEF Lease!Next
<1>3. ASSUME Exit, \A g \in grants' : g \in grants \/ g = Grant(main.port)
      PROVE  [Lease!Next]_(Lease!vars) /\ TimesAgree' /\ BootsPast'
  BY <1>3, ExitResets DEF Lease!Next
<1>4. ASSUME NoteSession PROVE [Lease!Next]_(Lease!vars) /\ TimesAgree' /\ BootsPast'
  <2>1. Bound(main.port)
    BY <1>4 DEF NoteSession, RefInv, PortInv, MainOwns, Bound
  <2>2. KeepsLeases
    <3>1. \A p \in Ports : KeepsButOwners(pairs[p], pairs'[p])
      BY <1>4, NoteEffect DEF RefInv
    <3>2. \A p \in Ports : Bound(p)' <=> Bound(p)
      BY <1>4, <2>1, NoteEffect DEF Bound, RefInv
    <3>3. \A p \in Ports : pairs'[p].requester = pairs[p].requester
      BY <1>4 DEF NoteSession, RefInv, TypeInv, TypeOK, Pair
    <3> QED BY <3>1, <3>2, <3>3 DEF KeepsLeases, KeepsButOwners
  <2>3. UNCHANGED <<clock, up, boots, grants>>
    BY <1>4 DEF NoteSession
  <2> QED BY <2>2, <2>3, KeepsHeld, KeepsPromises DEF Lease!vars, RefInv
<1>5. ASSUME UNCHANGED <<clock, up, boots, pairs, grants>>
      PROVE  [Lease!Next]_(Lease!vars) /\ TimesAgree' /\ BootsPast'
  <2>1. KeepsLeases
    BY <1>5 DEF KeepsLeases, Bound
  <2> QED BY <1>5, <2>1, KeepsHeld, KeepsPromises DEF Lease!vars, RefInv
<1>6. ASSUME Tick PROVE [Lease!Next]_(Lease!vars) /\ TimesAgree' /\ BootsPast'
  <2>1. KeepsLeases
    BY <1>6 DEF Tick, KeepsLeases, Bound
  <2>2. clock' = clock + 1 /\ UNCHANGED <<up, boots, grants>>
    BY <1>6 DEF Tick
  <2>3. HeldLeases' = HeldLeases /\ Promises' = Promises /\ TimesAgree' /\ BootsPast'
    BY <2>1, <2>2, KeepsHeld, KeepsPromises DEF RefInv
  <2> QED BY <2>2, <2>3 DEF Lease!Next, Lease!Advance
<1>7. ASSUME Restart PROVE [Lease!Next]_(Lease!vars) /\ TimesAgree' /\ BootsPast'
  <2>1. KeepsLeases
    BY <1>7 DEF Restart, KeepsLeases, Bound
  <2>2. \A g \in grants : g.boot \in Nat /\ g.boot <= boots
    BY DEF RefInv, TypeInv, TypeOK, GrantMsg, BootsPast
  <2>3. boots \in Nat /\ boots' = boots + 1 /\ grants' = grants /\ ~up /\ clock' = clock
    BY <1>7 DEF Restart, RefInv, TypeInv, TypeOK
  <2>4. BootsPast'
    BY <2>2, <2>3 DEF BootsPast
  <2>5. Promises = {} /\ Promises' = {}
    <3>1. \A g \in grants : g.boot # boots'
      BY <2>2, <2>3
    <3> QED BY <2>3, <3>1 DEF Promises
  <2> QED BY <2>1, <2>3, <2>4, <2>5, KeepsHeld DEF Lease!vars, RefInv
<1>8. ASSUME NEW p \in Ports, NEW leg \in Legs, LegStep(p, leg)
      PROVE  [Lease!Next]_(Lease!vars) /\ TimesAgree' /\ BootsPast'
  BY <1>8, LegReleases DEF Lease!Next
<1> QED
  BY <1>1, <1>2, <1>3, <1>4, <1>5, <1>6, <1>7, <1>8
     DEF Next, HandleRequest, RejectRequest, RejectPublishFails, BindFails,
         GrantPublishFails, Crash, WriteState, WriteStateFails, Snapshot, vars

LEMMA InitRefines == Init => Lease!Init /\ TimesAgree /\ BootsPast /\ PortInv
<1> SUFFICES ASSUME Init PROVE Lease!Init /\ TimesAgree /\ BootsPast /\ PortInv
  OBVIOUS
<1>1. \A p \in Ports : ~Bound(p)
  BY NoPairFields DEF Init, Bound
<1>2. HeldLeases = {} /\ Promises = {}
  BY <1>1 DEF HeldLeases, Promises, Init
<1>3. PortInv
  BY <1>1, NoPairFields DEF Init, PortInv, MainOwns, PortsExclusive, Bound, Idle
<1> QED
  BY <1>1, <1>2, <1>3 DEF Init, Lease!Init, TimesAgree, BootsPast

(* The operator implements the lease service: what it does to ports and     *)
(* published grants is what RelayLease allows, whatever the number of       *)
(* requests, leases, crashes and restarts.                                  *)
THEOREM OperatorImplementsLease == Spec => ImplementsLease
<1>1. Init => RefInv /\ Lease!Init
  BY InitRefines, TypeInit DEF RefInv
<1>2. RefInv /\ [Next]_vars => RefInv' /\ [Lease!Next]_(Lease!vars)
  BY StepRefines, TypeStep, PortsStep DEF RefInv
<1> QED
  BY <1>1, <1>2, PTL DEF Spec, ImplementsLease, Lease!Spec

-----------------------------------------------------------------------------
(* What RelayLease promises, and so the operator.                           *)

(* Whatever only takes leases as Take does keeps them apart. *)
LEMMA LeasesStayApart == Lease!Spec => []Lease!NoOverlap
<1>1. Lease!Init => Lease!NoOverlap
  BY DEF Lease!Init, Lease!NoOverlap
<1>2. Lease!NoOverlap /\ [Lease!Next]_(Lease!vars) => Lease!NoOverlap'
  <2> SUFFICES ASSUME Lease!NoOverlap, [Lease!Next]_(Lease!vars) PROVE Lease!NoOverlap'
    OBVIOUS
  <2>1. CASE Lease!Take
    BY <2>1 DEF Lease!Take, Lease!NoOverlap
  <2>2. CASE Lease!Release
    BY <2>2 DEF Lease!Release, Lease!NoOverlap
  <2> QED
    BY <2>1, <2>2
       DEF Lease!Next, Lease!Promise, Lease!Reset, Lease!Advance, Lease!vars, Lease!NoOverlap
<1> QED BY <1>1, <1>2, PTL DEF Lease!Spec

(* The bound sockets of the operator are leases that do not overlap         *)
(* (allocate_relay_port_pair), by the abstract argument and the refinement. *)
THEOREM LeasesApart == Spec => []Lease!NoOverlap
BY OperatorImplementsLease, LeasesStayApart, PTL DEF ImplementsLease

(* Where leases do not break, no promise is broken. *)
LEMMA PromisesStayKept == ASSUME ~LegErrors PROVE Lease!Spec => []Lease!Kept
<1>1. Lease!Init => Lease!PromiseInv
  BY DEF Lease!Init, Lease!PromiseInv, Lease!Kept
<1>2. Lease!PromiseInv /\ [Lease!Next]_(Lease!vars) => Lease!PromiseInv'
  <2> SUFFICES ASSUME Lease!PromiseInv, [Lease!Next]_(Lease!vars) PROVE Lease!PromiseInv'
    OBVIOUS
  <2>1. CASE Lease!Take
    BY <2>1 DEF Lease!Take, Lease!PromiseInv, Lease!Kept
  <2>2. CASE Lease!Promise
    BY <2>2 DEF Lease!Promise, Lease!PromiseInv, Lease!Kept
  <2>3. CASE Lease!Release
    BY <2>3 DEF Lease!Release, Lease!PromiseInv, Lease!Kept
  <2>4. CASE Lease!Advance
    BY <2>4 DEF Lease!Advance, Lease!PromiseInv, Lease!Kept
  <2> QED
    BY <2>1, <2>2, <2>3, <2>4
       DEF Lease!Next, Lease!Reset, Lease!vars, Lease!PromiseInv, Lease!Kept
<1>3. Lease!PromiseInv => Lease!Kept
  BY DEF Lease!PromiseInv
<1> QED BY <1>1, <1>2, <1>3, PTL DEF Lease!Spec

(* What a grant of the running process told a requester (expires_at) is     *)
(* kept: until then its two sockets are bound, where no leg fails.          *)
THEOREM PromisesKept == ASSUME ~LegErrors PROVE Spec => []Lease!Kept
BY OperatorImplementsLease, PromisesStayKept, PTL DEF ImplementsLease
=============================================================================
