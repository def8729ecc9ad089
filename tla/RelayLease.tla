----------------------------- MODULE RelayLease -----------------------------
(***************************************************************************)
(* What a relay operator promises to the peers that lease from it, with    *)
(* nothing of how it does it: no request queue, no socket owners, no leg   *)
(* tasks, no session table, no state file.  A lease is a pair of UDP ports *)
(* held for one requester until an instant; a promise is what a published  *)
(* grant tells the requester, an end no later than the lease's own.        *)
(*                                                                         *)
(* RelayOperator implements this specification (ImplementsLease there).    *)
(* The actions name the lease they add by looking at the next state, so    *)
(* that the set of conceivable leases need not be enumerated.              *)
(***************************************************************************)
EXTENDS Integers

CONSTANT MayBreak    \* may a lease break before its end (a socket error)?

VARIABLES
  clock,      \* time
  leases,     \* leases held: [port, target_port, request_id, to, until]
  promises    \* promises published: [lease, until]

vars == <<clock, leases, promises>>

PortsOfLease(l) == {l.port, l.target_port}

Init == clock = 0 /\ leases = {} /\ promises = {}

(* Two ports nobody holds are taken for a lease that has not ended yet. *)
Take ==
  /\ \E l \in leases' :
       /\ leases' = leases \union {l}
       /\ l.port # l.target_port
       /\ l.until \in Nat /\ l.until > clock
       /\ \A m \in leases : PortsOfLease(l) \intersect PortsOfLease(m) = {}
  /\ UNCHANGED <<clock, promises>>

(* A lease that is held is promised, for no longer than it is held. *)
Promise ==
  /\ \E p \in promises' :
       /\ promises' = promises \union {p}
       /\ p.lease \in leases
       /\ p.until \in Nat /\ p.until <= p.lease.until
  /\ UNCHANGED <<clock, leases>>

(* A lease is given up when its time is over, and only one that may break   *)
(* is given up earlier.                                                     *)
Release ==
  /\ \E l \in leases :
       /\ MayBreak \/ clock >= l.until
       /\ leases' = leases \ {l}
  /\ UNCHANGED <<clock, promises>>

(* The operator ends: nothing is held and nothing it said holds any more.  *)
Reset == leases' = {} /\ promises' = {} /\ UNCHANGED clock

Advance == clock' = clock + 1 /\ UNCHANGED <<leases, promises>>

Next == Take \/ Promise \/ Release \/ Reset \/ Advance

Spec == Init /\ [][Next]_vars

-----------------------------------------------------------------------------
(* What follows for the peers. *)

(* A port belongs to one lease at most, and to one leg of it. *)
NoOverlap ==
  /\ \A l \in leases : l.port # l.target_port
  /\ \A l, m \in leases : l # m => PortsOfLease(l) \intersect PortsOfLease(m) = {}

(* While the time a promise names is not over, its lease is held. *)
Kept == \A p \in promises : clock < p.until => p.lease \in leases

(* Kept is inductive with the types of times and with the order of the two  *)
(* ends of a promise: the lease it names outlives it.                       *)
PromiseInv ==
  /\ clock \in Nat
  /\ \A p \in promises : /\ p.until \in Nat /\ p.lease.until \in Nat
                         /\ p.until <= p.lease.until
  /\ \A l \in leases : l.until \in Nat
  /\ Kept
==============================================================================
