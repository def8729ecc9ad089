------------------------- MODULE HostNetwork_proofs -------------------------
(***************************************************************************)
(* What HostNetwork keeps, for any participants, addresses, plans and      *)
(* faults: its types, what guards the default route, and that every change *)
(* to the machine is known to somebody who can take it back.               *)
(***************************************************************************)
EXTENDS HostNetwork, FiniteSetTheorems, TLAPS

KernelType == [default : SUBSET {"underlay", "tunnel"}, bypass : SUBSET Hosts,
               rules : SUBSET {"v4", "v6"}, fwd4 : BOOLEAN, fwd6 : BOOLEAN,
               pf : BOOLEAN]
RuntimeType == [up : BOOLEAN, fp : PlanType, wg : SUBSET Hosts, bypass : SUBSET Hosts,
                orig : BOOLEAN, out4 : {"none", "underlay", "tunnel"}, out6 : BOOLEAN,
                was4 : {"none", "on", "off"}, was6 : {"none", "on", "off"},
                waspf : {"none", "on", "off"}]
PairType == [k : KernelType, r : RuntimeType]
FileType == {NoFile} \cup [kind : {"saved"}, bypass : SUBSET Hosts, orig : BOOLEAN,
                           was4 : {"none", "on", "off"}, waspf : {"none", "on", "off"}]
Table(S) == UNION {[D -> S] : D \in SUBSET Peers}

(* Windows has no saved default route and no forwarding of its own. *)
Bare(r) == /\ r.orig = FALSE /\ r.out4 = "none" /\ r.out6 = FALSE
           /\ r.was4 = "none" /\ r.was6 = "none" /\ r.waspf = "none"

MachineInv ==
  /\ kernel \in KernelType
  /\ rt \in RuntimeType
  /\ plan \in PlanType
  /\ booting \in BOOLEAN
  /\ pc \in {"down", "idle", "plan", "start", "bypass", "iface", "forward", "windows"}
  /\ pc = "down" => rt = NewRuntime
  /\ pc \in {"down", "idle"} => booting = FALSE
  /\ pc \in {"down", "idle", "plan"} => plan = NoPlan
  /\ pc \in {"start", "bypass", "iface", "forward"} => os # "windows"
  /\ pc = "windows" => os = "windows"
  /\ os = "windows" => Bare(rt)

OutsideInv ==
  /\ os \in Platforms
  /\ before \in [fwd : BOOLEAN, pf : BOOLEAN, v6 : BOOLEAN]
  /\ file \in FileType
  /\ os # "macos" => file = NoFile
  /\ cfg \in [exit : Exits, adv : BOOLEAN]
  /\ on \in BOOLEAN
  /\ peers \in Table(Hosts) /\ \A p \in DOMAIN peers : peers[p] \in Homes[p]
  /\ ready \subseteq Peers
  /\ used \in [events : 0 .. MaxEvents, faults : 0 .. MaxFaults, crashes : 0 .. MaxCrashes]

(* The types, and what each platform and each place of the update leaves   *)
(* untouched.                                                              *)
TypeInv == MachineInv /\ OutsideInv

-----------------------------------------------------------------------------
(* Types of what the operators make. *)

LEMMA EmptyTable == \A S : <<>> \in Table(S)
<1> TAKE S
<1>1. <<>> \in [{} -> S]
  OBVIOUS
<1> QED BY <1>1 DEF Table

LEMMA NoPlanType == NoPlan \in PlanType
<1>1. <<>> \in Table(Hosts) /\ <<>> \in Table(SUBSET Routes)
  BY EmptyTable
<1> QED BY <1>1 DEF Table, PlanType, NoPlan

LEMMA NewRuntimeType == NewRuntime \in RuntimeType
  BY NoPlanType DEF NewRuntime, RuntimeType

LEMMA PlannedType ==
  ASSUME TypeInv
  PROVE  Planned \in PlanType /\ Endpoints(Planned) \subseteq Hosts
<1>1. Known \subseteq DOMAIN peers /\ DOMAIN peers \subseteq Peers
  BY DEF TypeInv, OutsideInv, Table, Known
<1>2. \A p \in DOMAIN peers : peers[p] \in Hosts
  BY <1>1 DEF TypeInv, OutsideInv, Table
<1>3. [p \in Known |-> peers[p]] \in Table(Hosts)
  BY <1>1, <1>2 DEF Table
<1>4. [p \in Known |-> RoutesOf(p)] \in Table(SUBSET Routes)
  BY <1>1 DEF Table, RoutesOf
<1>5. Control \subseteq Hosts
  BY DEF Hosts
<1>6. Planned.bypass \subseteq Hosts
  BY <1>1, <1>2, <1>5 DEF Planned
<1> QED BY <1>1, <1>2, <1>3, <1>4, <1>6 DEF Planned, PlanType, Table, Endpoints

-----------------------------------------------------------------------------
(* What the operators on the kernel and the runtime do, field by field. *)

LEMMA HereType == TypeInv => Here \in PairType /\ Here.k = kernel /\ Here.r = rt
  BY DEF TypeInv, MachineInv, Here, PairType

LEMMA PairFields ==
  ASSUME NEW s \in PairType
  PROVE  s.k \in KernelType /\ s.r \in RuntimeType
  BY DEF PairType

LEMMA SameRuntime ==
  ASSUME NEW a \in RuntimeType, NEW b \in RuntimeType,
         a.up = b.up, a.fp = b.fp, a.wg = b.wg, a.bypass = b.bypass, a.orig = b.orig,
         a.out4 = b.out4, a.out6 = b.out6, a.was4 = b.was4, a.was6 = b.was6, a.waspf = b.waspf
  PROVE  a = b
  BY DEF RuntimeType

LEMMA SameKernel ==
  ASSUME NEW a \in KernelType, NEW b \in KernelType,
         a.default = b.default, a.bypass = b.bypass, a.rules = b.rules,
         a.fwd4 = b.fwd4, a.fwd6 = b.fwd6, a.pf = b.pf
  PROVE  a = b
  BY DEF KernelType

(* The firewall and the forwarding flags of two kernels are the same. *)
SameForwarding(a, b) ==
  a.rules = b.rules /\ a.fwd4 = b.fwd4 /\ a.fwd6 = b.fwd6 /\ a.pf = b.pf

LEMMA DropDeviceEffect ==
  ASSUME NEW s \in PairType
  PROVE  /\ DropDevice(s) \in PairType
         /\ DropDevice(s).r = s.r
         /\ DropDevice(s).k = [s.k EXCEPT !.default = @ \ {"tunnel"}]
  BY PairFields DEF PairType, KernelType, DropDevice

LEMMA CaptureDefaultEffect ==
  ASSUME NEW s \in PairType
  PROVE  /\ CaptureDefault(s) \in PairType
         /\ CaptureDefault(s).k = s.k
         /\ CaptureDefault(s).r =
              IF os = "macos" \/ (os = "linux" /\ "underlay" \in s.k.default)
              THEN [s.r EXCEPT !.orig = TRUE] ELSE s.r
  BY PairFields DEF PairType, RuntimeType, CaptureDefault

LEMMA RestoreDefaultEffect ==
  ASSUME NEW s \in PairType
  PROVE  /\ RestoreDefault(s) \in PairType
         /\ RestoreDefault(s).r = [s.r EXCEPT !.orig = FALSE]
         /\ RestoreDefault(s).k =
              IF s.r.orig THEN [s.k EXCEPT !.default = {"underlay"}] ELSE s.k
<1>1. CASE s.r.orig
  BY <1>1, PairFields DEF PairType, RuntimeType, KernelType, RestoreDefault, UnderlayDefault
<1>2. CASE ~s.r.orig
  <2>1. s.r.orig = FALSE
    BY <1>2, PairFields DEF RuntimeType
  <2>2. [s.r EXCEPT !.orig = FALSE] = s.r
    BY <2>1, PairFields DEF RuntimeType
  <2> QED BY <1>2, <2>2 DEF RestoreDefault
<1> QED BY <1>1, <1>2

LEMMA ReconcileBypassEffect ==
  ASSUME NEW s \in PairType, NEW want \in SUBSET Hosts, NEW failed \in SUBSET want
  PROVE  LET t == ReconcileBypass(s, want, failed)
         IN /\ t \in PairType
            /\ t.k = [s.k EXCEPT !.bypass = (@ \ (s.r.bypass \ want)) \cup (want \ failed)]
            /\ t.r = [s.r EXCEPT !.bypass =
                        IF os = "linux" THEN want
                        ELSE (s.r.bypass \cap want) \cup (want \ failed)]
<1> DEFINE kb == (s.k.bypass \ (s.r.bypass \ want)) \cup (want \ failed)
           rb == IF os = "linux" THEN want
                 ELSE (s.r.bypass \cap want) \cup (want \ failed)
           k == [s.k EXCEPT !.bypass = kb]
           r == [s.r EXCEPT !.bypass = rb]
<1>0. s.k \in KernelType /\ s.r \in RuntimeType
  BY PairFields
<1>1. kb \in SUBSET Hosts /\ rb \in SUBSET Hosts
  BY <1>0 DEF KernelType, RuntimeType
<1>2. k \in KernelType
  BY <1>0, <1>1 DEF KernelType
<1>3. r \in RuntimeType
  BY <1>0, <1>1 DEF RuntimeType
<1>4. ReconcileBypass(s, want, failed) = [k |-> k, r |-> r]
  BY DEF PairType, ReconcileBypass
<1> QED BY <1>2, <1>3, <1>4 DEF PairType

LEMMA CleanForwardingEffect ==
  ASSUME NEW s \in PairType
  PROVE  LET t == CleanForwarding(s)
         IN /\ t \in PairType
            /\ t.k.default = s.k.default /\ t.k.bypass = s.k.bypass
            /\ t.r.up = s.r.up /\ t.r.fp = s.r.fp /\ t.r.wg = s.r.wg
            /\ t.r.bypass = s.r.bypass /\ t.r.orig = s.r.orig
            /\ os \in {"linux", "macos"} => t.r = NoForwarding(s.r)
            /\ os = "linux" =>
                 /\ t.k.rules = s.k.rules \ ((IF s.r.out4 # "none" THEN {"v4"} ELSE {})
                                             \cup (IF s.r.out6 THEN {"v6"} ELSE {}))
                 /\ t.k.fwd4 = (s.k.fwd4 /\ s.r.was4 # "off")
                 /\ t.k.fwd6 = (s.k.fwd6 /\ s.r.was6 # "off")
                 /\ t.k.pf = s.k.pf
            /\ os = "macos" =>
                 /\ t.k.rules = s.k.rules \ {"v4"}
                 /\ t.k.fwd4 = IF s.r.was4 = "none" THEN s.k.fwd4 ELSE s.r.was4 = "on"
                 /\ t.k.fwd6 = s.k.fwd6
                 /\ t.k.pf = (s.k.pf /\ s.r.waspf # "off")
            /\ os \notin {"linux", "macos"} => t = s
<1> DEFINE gone == (IF s.r.out4 # "none" THEN {"v4"} ELSE {})
                   \cup (IF s.r.out6 THEN {"v6"} ELSE {})
<1>0. /\ NoForwarding(s.r) \in RuntimeType
      /\ NoForwarding(s.r).up = s.r.up /\ NoForwarding(s.r).fp = s.r.fp
      /\ NoForwarding(s.r).wg = s.r.wg /\ NoForwarding(s.r).bypass = s.r.bypass
      /\ NoForwarding(s.r).orig = s.r.orig
  BY PairFields DEF RuntimeType, NoForwarding
<1>1. CASE os = "linux"
  <2> DEFINE l == WithoutRules(s.k, gone)
             f4 == l.fwd4 /\ s.r.was4 # "off"
             f6 == l.fwd6 /\ s.r.was6 # "off"
             k == [l EXCEPT !.fwd4 = f4, !.fwd6 = f6]
  <2>1. /\ l \in KernelType /\ l.rules = s.k.rules \ gone /\ l.default = s.k.default
        /\ l.bypass = s.k.bypass /\ l.fwd4 = s.k.fwd4 /\ l.fwd6 = s.k.fwd6 /\ l.pf = s.k.pf
    BY PairFields DEF KernelType, WithoutRules
  <2>2. f4 \in BOOLEAN /\ f6 \in BOOLEAN
    OBVIOUS
  <2>3. CleanForwarding(s).k = k /\ CleanForwarding(s) = [k |-> k, r |-> NoForwarding(s.r)]
    BY <1>1 DEF CleanForwarding, CleanForwardingLinux
  <2> HIDE DEF l, f4, f6
  <2>4. /\ k \in KernelType /\ k.rules = l.rules /\ k.default = l.default
        /\ k.bypass = l.bypass /\ k.fwd4 = f4 /\ k.fwd6 = f6 /\ k.pf = l.pf
    BY <2>1, <2>2 DEF KernelType
  <2> HIDE DEF k, gone
  <2>5. CleanForwarding(s) \in PairType /\ CleanForwarding(s).r = NoForwarding(s.r)
    BY <1>0, <2>3, <2>4 DEF PairType
  <2> QED BY <1>0, <1>1, <2>1, <2>3, <2>4, <2>5 DEF f4, f6, gone
<1>2. CASE os = "macos"
  <2> DEFINE l == WithoutRules(s.k, {"v4"})
             f4 == IF s.r.was4 = "none" THEN l.fwd4 ELSE s.r.was4 = "on"
             pf == l.pf /\ s.r.waspf # "off"
             k == [l EXCEPT !.fwd4 = f4, !.pf = pf]
  <2>1. /\ l \in KernelType /\ l.rules = s.k.rules \ {"v4"} /\ l.default = s.k.default
        /\ l.bypass = s.k.bypass /\ l.fwd4 = s.k.fwd4 /\ l.fwd6 = s.k.fwd6 /\ l.pf = s.k.pf
    BY PairFields DEF KernelType, WithoutRules
  <2>2. f4 \in BOOLEAN /\ pf \in BOOLEAN
    BY <2>1 DEF KernelType
  <2>3. CleanForwarding(s).k = k /\ CleanForwarding(s) = [k |-> k, r |-> NoForwarding(s.r)]
    BY <1>2 DEF CleanForwarding, CleanForwardingMacos
  <2> HIDE DEF l, f4, pf
  <2>4. /\ k \in KernelType /\ k.rules = l.rules /\ k.default = l.default
        /\ k.bypass = l.bypass /\ k.fwd4 = f4 /\ k.fwd6 = l.fwd6 /\ k.pf = pf
    BY <2>1, <2>2 DEF KernelType
  <2> HIDE DEF k, gone
  <2>5. CleanForwarding(s) \in PairType /\ CleanForwarding(s).r = NoForwarding(s.r)
    BY <1>0, <2>3, <2>4 DEF PairType
  <2> QED BY <1>0, <1>2, <2>1, <2>3, <2>4, <2>5 DEF f4, pf
<1>3. CASE os \notin {"linux", "macos"}
  BY <1>3 DEF CleanForwarding
<1> QED BY <1>1, <1>2, <1>3

(* StopTunnel on Linux and macOS leaves a runtime as new. *)
LEMMA StopUnixEffect ==
  ASSUME NEW s \in PairType, os \in {"linux", "macos"}
  PROVE  /\ StopTunnel(s) \in PairType
         /\ StopTunnel(s).r = NewRuntime
         /\ StopTunnel(s).k.default =
              IF s.r.orig THEN {"underlay"} ELSE s.k.default \ {"tunnel"}
         /\ StopTunnel(s).k.bypass = s.k.bypass \ s.r.bypass
         /\ SameForwarding(StopTunnel(s).k, CleanForwarding(s).k)
<1> DEFINE a == ReconcileBypass(s, {}, {})
           b == CleanForwarding(a)
           d == RestoreDefault(b)
           e == DropDevice(d)
           t == StopTunnel(s)
<1>0. s.k \in KernelType /\ s.r \in RuntimeType
  BY PairFields
<1>1. /\ a \in PairType
      /\ a.k = [s.k EXCEPT !.bypass = @ \ s.r.bypass]
      /\ a.r = [s.r EXCEPT !.bypass = {}]
  <2>1. (s.k.bypass \ (s.r.bypass \ {})) \cup ({} \ {}) = s.k.bypass \ s.r.bypass
    OBVIOUS
  <2>2. (IF os = "linux" THEN {} ELSE (s.r.bypass \cap {}) \cup ({} \ {})) = {}
    OBVIOUS
  <2>3. /\ a.k = [s.k EXCEPT !.bypass = @ \ s.r.bypass]
        /\ a.r = [s.r EXCEPT !.bypass = {}]
        /\ a = [k |-> a.k, r |-> a.r]
    BY <2>1, <2>2 DEF ReconcileBypass
  <2>4. a.k \in KernelType
    BY <1>0, <2>3 DEF KernelType
  <2>5. a.r \in RuntimeType
    BY <1>0, <2>3 DEF RuntimeType
  <2> QED BY <2>3, <2>4, <2>5 DEF PairType
<1>2. /\ b \in PairType /\ b.r = NoForwarding(a.r)
      /\ b.k.default = s.k.default /\ b.k.bypass = s.k.bypass \ s.r.bypass
      /\ SameForwarding(b.k, CleanForwarding(s).k)
  <2>1. /\ a.k.default = s.k.default /\ a.k.bypass = s.k.bypass \ s.r.bypass
        /\ SameForwarding(a.k, s.k)
    BY <1>0, <1>1 DEF KernelType, SameForwarding
  <2>2. /\ a.r.out4 = s.r.out4 /\ a.r.out6 = s.r.out6
        /\ a.r.was4 = s.r.was4 /\ a.r.was6 = s.r.was6 /\ a.r.waspf = s.r.waspf
    BY <1>0, <1>1 DEF RuntimeType
  <2> HIDE DEF a
  <2>3. /\ b \in PairType /\ b.r = NoForwarding(a.r)
        /\ b.k.default = a.k.default /\ b.k.bypass = a.k.bypass
    BY <1>1, CleanForwardingEffect
  <2>4. SameForwarding(b.k, CleanForwarding(s).k)
    <3>1. CASE os = "linux"
      <4>1. /\ b.k.rules = a.k.rules \ ((IF a.r.out4 # "none" THEN {"v4"} ELSE {})
                                         \cup (IF a.r.out6 THEN {"v6"} ELSE {}))
            /\ b.k.fwd4 = (a.k.fwd4 /\ a.r.was4 # "off")
            /\ b.k.fwd6 = (a.k.fwd6 /\ a.r.was6 # "off")
            /\ b.k.pf = a.k.pf
        BY <1>1, <3>1, CleanForwardingEffect
      <4>2. /\ CleanForwarding(s).k.rules =
                 s.k.rules \ ((IF s.r.out4 # "none" THEN {"v4"} ELSE {})
                              \cup (IF s.r.out6 THEN {"v6"} ELSE {}))
            /\ CleanForwarding(s).k.fwd4 = (s.k.fwd4 /\ s.r.was4 # "off")
            /\ CleanForwarding(s).k.fwd6 = (s.k.fwd6 /\ s.r.was6 # "off")
            /\ CleanForwarding(s).k.pf = s.k.pf
        BY <3>1, CleanForwardingEffect
      <4> HIDE DEF b
      <4> QED BY <2>1, <2>2, <4>1, <4>2 DEF SameForwarding
    <3>2. CASE os = "macos"
      <4>1. /\ b.k.rules = a.k.rules \ {"v4"}
            /\ b.k.fwd4 = IF a.r.was4 = "none" THEN a.k.fwd4 ELSE a.r.was4 = "on"
            /\ b.k.fwd6 = a.k.fwd6
            /\ b.k.pf = (a.k.pf /\ a.r.waspf # "off")
        BY <1>1, <3>2, CleanForwardingEffect
      <4>2. /\ CleanForwarding(s).k.rules = s.k.rules \ {"v4"}
            /\ CleanForwarding(s).k.fwd4 =
                 IF s.r.was4 = "none" THEN s.k.fwd4 ELSE s.r.was4 = "on"
            /\ CleanForwarding(s).k.fwd6 = s.k.fwd6
            /\ CleanForwarding(s).k.pf = (s.k.pf /\ s.r.waspf # "off")
        BY <3>2, CleanForwardingEffect
      <4> HIDE DEF b
      <4> QED BY <2>1, <2>2, <4>1, <4>2 DEF SameForwarding
    <3> QED BY <3>1, <3>2
  <2> QED BY <2>1, <2>3, <2>4
<1>3. /\ d \in PairType /\ d.r = [b.r EXCEPT !.orig = FALSE]
      /\ d.k = IF b.r.orig THEN [b.k EXCEPT !.default = {"underlay"}] ELSE b.k
  BY <1>2, RestoreDefaultEffect
<1>4. e \in PairType /\ e.k = [d.k EXCEPT !.default = @ \ {"tunnel"}]
  BY <1>3, DropDeviceEffect
<1>5. t.k = e.k /\ t.r = [d.r EXCEPT !.up = FALSE, !.fp = NoPlan, !.wg = {}]
      /\ t = [k |-> t.k, r |-> t.r]
  BY DEF StopTunnel
<1> HIDE DEF a, b, d, e, t
<1>6. t.r \in RuntimeType
  BY <1>3, <1>5, NoPlanType, PairFields DEF RuntimeType
<1>7. t.r = NewRuntime
  <2>1. /\ t.r.up = FALSE /\ t.r.fp = NoPlan /\ t.r.wg = {} /\ t.r.bypass = d.r.bypass
        /\ t.r.orig = d.r.orig /\ t.r.out4 = d.r.out4 /\ t.r.out6 = d.r.out6
        /\ t.r.was4 = d.r.was4 /\ t.r.was6 = d.r.was6 /\ t.r.waspf = d.r.waspf
    BY <1>3, <1>5, PairFields DEF RuntimeType
  <2>2. /\ d.r.orig = FALSE /\ d.r.bypass = b.r.bypass
        /\ d.r.out4 = b.r.out4 /\ d.r.out6 = b.r.out6
        /\ d.r.was4 = b.r.was4 /\ d.r.was6 = b.r.was6 /\ d.r.waspf = b.r.waspf
    BY <1>2, <1>3, PairFields DEF RuntimeType
  <2>3. /\ b.r.out4 = "none" /\ b.r.out6 = FALSE
        /\ b.r.was4 = "none" /\ b.r.was6 = "none" /\ b.r.waspf = "none"
        /\ b.r.bypass = a.r.bypass
    BY <1>1, <1>2, PairFields DEF RuntimeType, NoForwarding
  <2>4. a.r.bypass = {}
    BY <1>0, <1>1 DEF RuntimeType
  <2>5. /\ NewRuntime.up = FALSE /\ NewRuntime.fp = NoPlan /\ NewRuntime.wg = {}
        /\ NewRuntime.bypass = {} /\ NewRuntime.orig = FALSE /\ NewRuntime.out4 = "none"
        /\ NewRuntime.out6 = FALSE /\ NewRuntime.was4 = "none" /\ NewRuntime.was6 = "none"
        /\ NewRuntime.waspf = "none"
    BY DEF NewRuntime
  <2>6. /\ t.r.up = NewRuntime.up /\ t.r.fp = NewRuntime.fp /\ t.r.wg = NewRuntime.wg
        /\ t.r.bypass = NewRuntime.bypass /\ t.r.orig = NewRuntime.orig
        /\ t.r.out4 = NewRuntime.out4 /\ t.r.out6 = NewRuntime.out6
        /\ t.r.was4 = NewRuntime.was4 /\ t.r.was6 = NewRuntime.was6
        /\ t.r.waspf = NewRuntime.waspf
    BY <2>1, <2>2, <2>3, <2>4, <2>5
  <2> QED BY <1>6, <2>6, NewRuntimeType, SameRuntime
<1>9. t \in PairType
  BY <1>4, <1>5, <1>6, PairFields DEF PairType
<1>10. b.r.orig = s.r.orig
  BY <1>0, <1>1, <1>2, PairFields DEF NoForwarding, RuntimeType
<1>11. /\ e.k.default = IF s.r.orig THEN {"underlay"} ELSE s.k.default \ {"tunnel"}
       /\ e.k.bypass = s.k.bypass \ s.r.bypass
       /\ SameForwarding(e.k, CleanForwarding(s).k)
  BY <1>2, <1>3, <1>4, <1>10, PairFields DEF KernelType, SameForwarding
<1> QED BY <1>5, <1>7, <1>9, <1>11 DEF t

LEMMA StopWindowsEffect ==
  ASSUME NEW s \in PairType, os = "windows"
  PROVE  /\ StopTunnel(s) \in PairType
         /\ StopTunnel(s).r = [s.r EXCEPT !.up = FALSE, !.fp = NoPlan, !.wg = {}, !.bypass = {}]
         /\ StopTunnel(s).k = [s.k EXCEPT !.default = @ \ {"tunnel"}, !.bypass = @ \ s.r.bypass]
<1> DEFINE a == DropDevice(s)
           b == StopWindows(s)
           e == DropDevice(b)
           t == StopTunnel(s)
<1>0. s.k \in KernelType /\ s.r \in RuntimeType
  BY PairFields
<1>1. a \in PairType /\ a.k = [s.k EXCEPT !.default = @ \ {"tunnel"}]
  BY DropDeviceEffect
<1>2. /\ b.k = [a.k EXCEPT !.bypass = @ \ s.r.bypass]
      /\ b.r = [s.r EXCEPT !.bypass = {}]
      /\ b = [k |-> b.k, r |-> b.r]
  BY DEF StopWindows
<1>3. t.k = e.k /\ t.r = [b.r EXCEPT !.up = FALSE, !.fp = NoPlan, !.wg = {}]
      /\ t = [k |-> t.k, r |-> t.r]
  BY DEF StopTunnel
<1> HIDE DEF a, b, e, t
<1>4. b \in PairType
  <2>1. b.k \in KernelType
    BY <1>0, <1>1, <1>2 DEF KernelType
  <2>2. b.r \in RuntimeType
    BY <1>0, <1>2 DEF RuntimeType
  <2> QED BY <1>2, <2>1, <2>2 DEF PairType
<1>5. e \in PairType /\ e.k = [b.k EXCEPT !.default = @ \ {"tunnel"}]
  BY <1>4, DropDeviceEffect DEF e
<1>6. t.r \in RuntimeType
  BY <1>3, <1>4, NoPlanType, PairFields DEF RuntimeType
<1>7. t.r = [s.r EXCEPT !.up = FALSE, !.fp = NoPlan, !.wg = {}, !.bypass = {}]
  <2> DEFINE r == [s.r EXCEPT !.up = FALSE, !.fp = NoPlan, !.wg = {}, !.bypass = {}]
  <2>1. r \in RuntimeType
    BY <1>0, NoPlanType DEF RuntimeType
  <2>2. /\ t.r.up = r.up /\ t.r.fp = r.fp /\ t.r.wg = r.wg /\ t.r.bypass = r.bypass
        /\ t.r.orig = r.orig /\ t.r.out4 = r.out4 /\ t.r.out6 = r.out6
        /\ t.r.was4 = r.was4 /\ t.r.was6 = r.was6 /\ t.r.waspf = r.waspf
    BY <1>0, <1>2, <1>3 DEF RuntimeType
  <2> QED BY <1>6, <2>1, <2>2, SameRuntime
<1>8. t.k = [s.k EXCEPT !.default = @ \ {"tunnel"}, !.bypass = @ \ s.r.bypass]
  <2> DEFINE k == [s.k EXCEPT !.default = @ \ {"tunnel"}, !.bypass = @ \ s.r.bypass]
  <2>1. k \in KernelType
    BY <1>0 DEF KernelType
  <2>2. (s.k.default \ {"tunnel"}) \ {"tunnel"} = s.k.default \ {"tunnel"}
    OBVIOUS
  <2>3. /\ e.k.default = k.default /\ e.k.bypass = k.bypass /\ SameForwarding(e.k, k)
    BY <1>0, <1>1, <1>2, <1>5, <2>2 DEF KernelType, SameForwarding
  <2>4. e.k \in KernelType
    BY <1>5, PairFields
  <2> QED BY <1>3, <2>1, <2>3, <2>4, SameKernel DEF SameForwarding
<1>9. t \in PairType
  BY <1>3, <1>5, <1>6, PairFields DEF PairType
<1> QED BY <1>7, <1>8, <1>9 DEF t

-----------------------------------------------------------------------------
(* Exit-node forwarding. *)

LEMMA WasType == \A b \in BOOLEAN : Was(b) \in {"on", "off"} /\ (Was(b) = "on" <=> b)
  BY DEF Was

LEMMA ForwardLinuxType ==
  ASSUME NEW s \in PairType, NEW fault, OutsideInv
  PROVE  ForwardLinux(s, fault) \in PairType
<1> DEFINE t == CleanForwarding(s)
           keep6 == before.v6 /\ fault # "rules6"
           f6 == t.k.fwd6 \/ before.v6
           k == [t.k EXCEPT !.fwd4 = TRUE, !.fwd6 = f6]
           rules == IF keep6 THEN {"v4", "v6"} ELSE {"v4"}
           was6 == IF keep6 THEN Was(t.k.fwd6) ELSE "none"
           l == WithRules(k, rules)
           r == [t.r EXCEPT !.out4 = DefaultDevice(s), !.out6 = keep6,
                            !.was4 = Was(t.k.fwd4), !.was6 = was6]
<1>1. t \in PairType
  BY CleanForwardingEffect
<1>2. ForwardLinux(s, fault) \in {t, s, [k |-> l, r |-> r]}
  BY DEF ForwardLinux
<1>3. t.k \in KernelType /\ t.r \in RuntimeType
  BY <1>1, PairFields
<1>4. Was(t.k.fwd4) \in {"on", "off"} /\ was6 \in {"none", "on", "off"}
  BY <1>3, WasType DEF KernelType
<1>5. /\ f6 \in BOOLEAN /\ keep6 \in BOOLEAN /\ rules \in SUBSET {"v4", "v6"}
      /\ DefaultDevice(s) \in {"none", "underlay", "tunnel"}
  BY DEF DefaultDevice
<1> HIDE DEF t, keep6, f6, rules, was6
<1>6. k \in KernelType
  BY <1>3, <1>5 DEF KernelType
<1>7. l \in KernelType
  BY <1>5, <1>6 DEF KernelType, WithRules
<1>8. r \in RuntimeType
  BY <1>3, <1>4, <1>5 DEF RuntimeType
<1> HIDE DEF k, l, r
<1> QED BY <1>1, <1>2, <1>7, <1>8 DEF PairType

LEMMA ForwardMacosType ==
  ASSUME NEW s \in PairType, NEW fault
  PROVE  ForwardMacos(s, fault) \in PairType
<1> DEFINE t == CleanForwarding(s)
           k == [t.k EXCEPT !.fwd4 = TRUE]
           l == WithRules(k, {"v4"})
           m == [l EXCEPT !.pf = TRUE]
           r == [t.r EXCEPT !.out4 = "underlay", !.was4 = Was(t.k.fwd4),
                            !.waspf = Was(t.k.pf)]
<1>1. t \in PairType
  BY CleanForwardingEffect
<1>2. ForwardMacos(s, fault) \in {t, s, [k |-> m, r |-> r]}
  BY DEF ForwardMacos, WithPfNat
<1>3. t.k \in KernelType /\ t.r \in RuntimeType
  BY <1>1, PairFields
<1>4. Was(t.k.fwd4) \in {"on", "off"} /\ Was(t.k.pf) \in {"on", "off"}
  BY <1>3, WasType DEF KernelType
<1> HIDE DEF t
<1>5. k \in KernelType
  BY <1>3 DEF KernelType
<1>6. l \in KernelType
  BY <1>5 DEF KernelType, WithRules
<1>7. m \in KernelType
  BY <1>6 DEF KernelType
<1>8. r \in RuntimeType
  BY <1>3, <1>4 DEF RuntimeType
<1> HIDE DEF k, l, m, r
<1> QED BY <1>1, <1>2, <1>7, <1>8 DEF PairType

-----------------------------------------------------------------------------
(* How an update goes on and how it ends. *)

LEMMA GoType ==
  ASSUME TypeInv, NEW s \in PairType, NEW p \in PlanType, NEW step, Go(step, p, s),
         UNCHANGED os, os = "windows" => Bare(s.r),
         step \in {"plan", "start", "bypass", "iface", "forward", "windows"},
         step = "plan" => p = NoPlan,
         step \in {"start", "bypass", "iface", "forward"} => os # "windows",
         step = "windows" => os = "windows"
  PROVE  MachineInv'
  BY PairFields DEF TypeInv, MachineInv, Go, Keep

LEMMA DieType ==
  ASSUME TypeInv, NEW s \in PairType, Die(s), UNCHANGED os
  PROVE  MachineInv'
<1>1. kernel' \in KernelType
  BY DropDeviceEffect, PairFields DEF Die
<1>2. Bare(NewRuntime)
  BY DEF Bare, NewRuntime
<1> QED BY <1>1, <1>2, NewRuntimeType, NoPlanType DEF Die, MachineInv

LEMMA FinishType ==
  ASSUME TypeInv, NEW s \in PairType, Finish(s), UNCHANGED os, os = "windows" => Bare(s.r)
  PROVE  MachineInv'
  BY PairFields, NoPlanType DEF Finish, Keep, MachineInv

LEMMA FailType ==
  ASSUME TypeInv, NEW s \in PairType, Fail(s) \/ FailForgetting(s), UNCHANGED os,
         os = "windows" => Bare(s.r)
  PROVE  MachineInv'
  BY DieType, FinishType DEF Fail, FailForgetting, Return

-----------------------------------------------------------------------------
(* Type correctness, action by action. *)

LEMMA FaultCounted ==
  ASSUME OutsideInv, NEW c, MayFail(c), Count("faults")
  PROVE  used' \in [events : 0 .. MaxEvents, faults : 0 .. MaxFaults, crashes : 0 .. MaxCrashes]
<1>1. used.faults \in 0 .. MaxFaults /\ used.faults < MaxFaults /\ MaxFaults \in Nat
  BY HostAssumption DEF OutsideInv, MayFail
<1>2. used.faults + 1 \in 0 .. MaxFaults
  BY <1>1
<1>3. used' = [used EXCEPT !.faults = @ + 1]
  BY DEF Count
<1> QED BY <1>2, <1>3 DEF OutsideInv

(* A step of an update changes nothing outside the machine. *)
LEMMA ApplyOutside ==
  ASSUME TypeInv, Apply
  PROVE  OutsideInv' /\ UNCHANGED <<World, file>>
<1>1. UNCHANGED <<World, file>>
  BY DEF Apply, PlanStops, PlanUnix, PlanRefreshes, PlanUnresolved, StartDevice, StartFails,
         BypassInstalled, BypassFails, ConfigureInterface, InterfaceFails, ForwardDone,
         ForwardFails, Forward, PlanWindows, StartWindows, StartWindowsFails
<1>2. UNCHANGED used \/ \E c : MayFail(c) /\ Count("faults")
  BY DEF Apply, PlanStops, PlanUnix, PlanRefreshes, PlanUnresolved, StartDevice, StartFails,
         BypassInstalled, BypassFails, ConfigureInterface, InterfaceFails, ForwardDone,
         ForwardFails, Forward, PlanWindows, StartWindows, StartWindowsFails
<1>3. used' \in [events : 0 .. MaxEvents, faults : 0 .. MaxFaults, crashes : 0 .. MaxCrashes]
  BY <1>2, FaultCounted DEF TypeInv, OutsideInv
<1> QED BY <1>1, <1>3 DEF TypeInv, OutsideInv, World

LEMMA DecidedType ==
  ASSUME TypeInv
  PROVE  /\ DefaultDecided \in PairType
         /\ RestoreDefault(DefaultDecided) \in PairType
  BY HereType, CaptureDefaultEffect, RestoreDefaultEffect DEF DefaultDecided

LEMMA StopType ==
  ASSUME OutsideInv, NEW s \in PairType, os = "windows" => Bare(s.r)
  PROVE  /\ StopTunnel(s) \in PairType
         /\ StopTunnel(s).r = NewRuntime /\ Bare(NewRuntime)
<1>0. Bare(NewRuntime)
  BY DEF NewRuntime, Bare
<1>1. CASE os = "windows"
  <2>1. StopTunnel(s) \in PairType
    BY <1>1, StopWindowsEffect
  <2>2. StopTunnel(s).r = NewRuntime
    <3> DEFINE r == [s.r EXCEPT !.up = FALSE, !.fp = NoPlan, !.wg = {}, !.bypass = {}]
    <3>1. /\ r.up = FALSE /\ r.fp = NoPlan /\ r.wg = {} /\ r.bypass = {}
          /\ r.orig = s.r.orig /\ r.out4 = s.r.out4 /\ r.out6 = s.r.out6
          /\ r.was4 = s.r.was4 /\ r.was6 = s.r.was6 /\ r.waspf = s.r.waspf
      BY PairFields DEF RuntimeType
    <3>2. StopTunnel(s).r = r
      BY <1>1, StopWindowsEffect
    <3>3. r \in RuntimeType
      BY <2>1, <3>2, PairFields
    <3> HIDE DEF r
    <3>4. r = NewRuntime
      <4>1. /\ NewRuntime.up = FALSE /\ NewRuntime.fp = NoPlan /\ NewRuntime.wg = {}
            /\ NewRuntime.bypass = {} /\ Bare(NewRuntime)
        BY DEF NewRuntime, Bare
      <4> QED BY <1>1, <3>1, <3>3, <4>1, NewRuntimeType, SameRuntime DEF Bare
    <3> QED BY <3>2, <3>4
  <2> QED BY <1>0, <2>1, <2>2
<1>2. CASE os # "windows"
  BY <1>0, <1>2, StopUnixEffect, HostAssumption DEF OutsideInv
<1> QED BY <1>1, <1>2

LEMMA ApplyType ==
  ASSUME TypeInv, Apply
  PROVE  TypeInv'
<1>1. OutsideInv' /\ UNCHANGED os
  BY ApplyOutside DEF World
<1>2. /\ OutsideInv /\ Here \in PairType /\ Here.k = kernel /\ Here.r = rt
      /\ kernel \in KernelType /\ rt \in RuntimeType
      /\ os = "windows" => Bare(rt)
  BY HereType DEF TypeInv, MachineInv
<1>3. Planned \in PlanType /\ Endpoints(Planned) \subseteq Hosts
  BY PlannedType
<1>4. plan \in PlanType
  BY DEF TypeInv, MachineInv
<1>5. plan.bypass \in SUBSET Hosts /\ Endpoints(plan) \subseteq Hosts
  BY <1>4 DEF PlanType, Endpoints
<1>6. pc \in {"start", "bypass", "iface", "forward"} => os # "windows"
  BY DEF TypeInv, MachineInv
<1>7. SUFFICES MachineInv'
  BY <1>1 DEF TypeInv
<1>8. CASE PlanStops
  BY <1>1, <1>2, <1>8, StopType, FinishType DEF PlanStops, Return
<1>9. CASE PlanUnix \/ PlanRefreshes
  BY <1>1, <1>2, <1>3, <1>9, DecidedType, FinishType, GoType DEF PlanUnix, PlanRefreshes, Return
<1>10. CASE PlanUnresolved
  <2> DEFINE p == [Withheld(Planned) EXCEPT !.bypass = {}]
  <2>1. p \in PlanType
    BY <1>3 DEF Withheld, PlanType
  <2> HIDE DEF p
  <2>2. \/ Return(RestoreDefault(DefaultDecided))
        \/ Go("start", p, RestoreDefault(DefaultDecided))
        \/ Fail(DefaultDecided)
    BY <1>10 DEF PlanUnresolved, p
  <2> QED BY <1>1, <1>2, <1>10, <2>1, <2>2, DecidedType, FinishType, GoType, FailType
          DEF Return, PlanUnresolved
<1>11. CASE StartDevice
  <2> DEFINE s == [Here EXCEPT !.r = [@ EXCEPT !.up = TRUE, !.wg = Endpoints(plan)]]
  <2>1. s.k = kernel /\ s.r = [rt EXCEPT !.up = TRUE, !.wg = Endpoints(plan)] /\ s = [k |-> s.k, r |-> s.r]
    BY <1>2 DEF Here
  <2>2. s \in PairType
    BY <1>2, <1>5, <2>1 DEF PairType, RuntimeType
  <2> HIDE DEF s
  <2>3. Go("bypass", plan, s) /\ os # "windows"
    BY <1>6, <1>11 DEF StartDevice, s
  <2> QED BY <1>1, <1>4, <2>2, <2>3, GoType
<1>12. CASE StartFails
  <2>1. PICK up \in {rt.up, TRUE} : Fail([Here EXCEPT !.r.up = up])
    BY <1>12 DEF StartFails
  <2> DEFINE s == [Here EXCEPT !.r.up = up]
  <2>2. s.k = kernel /\ s.r = [rt EXCEPT !.up = up] /\ s = [k |-> s.k, r |-> s.r]
    BY DEF Here
  <2>3. s \in PairType
    BY <1>2, <2>2 DEF PairType, RuntimeType
  <2> HIDE DEF s
  <2>4. os # "windows"
    BY <1>6, <1>12 DEF StartFails
  <2> QED BY <1>1, <2>1, <2>3, <2>4, FailType DEF s
<1>13. CASE BypassInstalled \/ BypassFails
  <2>1. PICK failed \in SUBSET plan.bypass : InstallBypass(failed)
    BY <1>13 DEF BypassInstalled, BypassFails
  <2> DEFINE s == ReconcileBypass(Here, plan.bypass, failed)
  <2>2. s \in PairType /\ RestoreDefault(s) \in PairType
    BY <1>2, <1>5, ReconcileBypassEffect, RestoreDefaultEffect
  <2>3. Withheld(plan) \in PlanType
    BY <1>4 DEF PlanType, Withheld
  <2>4. os # "windows"
    BY <1>6, <2>1 DEF InstallBypass
  <2>5. Go("iface", Withheld(plan), RestoreDefault(s)) \/ Go("iface", plan, s)
    BY <2>1 DEF InstallBypass
  <2> HIDE DEF s
  <2> QED BY <1>1, <1>4, <2>2, <2>3, <2>4, <2>5, GoType
<1>14. CASE ConfigureInterface
  <2> DEFINE s == [Here EXCEPT !.k = TunnelDefault(@)]
  <2>1. TunnelDefault(kernel) \in KernelType
    BY <1>2 DEF TunnelDefault, KernelType
  <2>2. s = [k |-> TunnelDefault(kernel), r |-> rt]
    BY DEF Here
  <2>3. s \in PairType
    BY <1>2, <2>1, <2>2 DEF PairType
  <2> HIDE DEF s
  <2>4. os # "windows" /\ (Go("forward", plan, s) \/ Go("forward", plan, Here))
    BY <1>6, <1>14 DEF ConfigureInterface, s
  <2> QED BY <1>1, <1>2, <1>4, <2>3, <2>4, GoType
<1>15. CASE InterfaceFails
  <2>1. PICK gone : Fail([Here EXCEPT !.k.default = @ \ gone])
    BY <1>15 DEF InterfaceFails
  <2> DEFINE s == [Here EXCEPT !.k.default = @ \ gone]
  <2>2. s = [k |-> [kernel EXCEPT !.default = @ \ gone], r |-> rt]
    BY DEF Here
  <2>3. [kernel EXCEPT !.default = @ \ gone] \in KernelType
    BY <1>2 DEF KernelType
  <2>4. s \in PairType
    BY <1>2, <2>2, <2>3 DEF PairType
  <2> HIDE DEF s
  <2>5. os # "windows"
    BY <1>6, <1>15 DEF InterfaceFails
  <2> QED BY <1>1, <2>1, <2>4, <2>5, FailType DEF s
<1>16. CASE ForwardDone \/ ForwardFails
  <2>1. PICK fault : Forward(fault)
    BY <1>16 DEF ForwardDone, ForwardFails
  <2> DEFINE s == IF os = "linux" THEN ForwardLinux(Here, fault) ELSE ForwardMacos(Here, fault)
             t == [s EXCEPT !.r.fp = plan]
  <2>2. s \in PairType
    BY <1>2, ForwardLinuxType, ForwardMacosType
  <2>3. Finish(t) /\ os # "windows"
    BY <1>6, <2>1 DEF Forward
  <2> HIDE DEF s
  <2>4. t = [k |-> s.k, r |-> [s.r EXCEPT !.fp = plan]]
    BY <2>2 DEF PairType
  <2>5. t \in PairType
    BY <1>4, <2>2, <2>4, PairFields DEF PairType, RuntimeType
  <2> HIDE DEF t
  <2> QED BY <1>1, <2>3, <2>5, FinishType
<1>17. CASE PlanWindows
  BY <1>1, <1>2, <1>3, <1>17, StopType, FinishType, GoType DEF PlanWindows, Return
<1>18. CASE StartWindows
  <2> DEFINE b == [kernel EXCEPT !.bypass = @ \cup plan.bypass]
             k == IF plan.dflt THEN TunnelDefault(b) ELSE b
             r == [rt EXCEPT !.up = TRUE, !.fp = plan, !.wg = Endpoints(plan), !.bypass = plan.bypass]
  <2>1. b \in KernelType
    BY <1>2, <1>5 DEF KernelType
  <2>2. k \in KernelType
    BY <2>1 DEF KernelType, TunnelDefault
  <2>3. r \in RuntimeType /\ (Bare(rt) => Bare(r))
    BY <1>2, <1>4, <1>5 DEF RuntimeType, Bare
  <2>4. Finish([k |-> k, r |-> r])
    BY <1>18 DEF StartWindows, Return, AddBypass
  <2> HIDE DEF k, r
  <2>5. [k |-> k, r |-> r] \in PairType
    BY <2>2, <2>3 DEF PairType
  <2> QED BY <1>1, <1>2, <2>3, <2>4, <2>5, FinishType
<1>19. CASE StartWindowsFails
  <2> DEFINE a == [Here EXCEPT !.k = DropBypass(@, plan.bypass)]
             b == [Here EXCEPT !.k = AddBypass(@, plan.bypass)]
  <2>1. Fail(a) \/ FailForgetting(b) \/ Fail(Here)
    BY <1>19 DEF StartWindowsFails
  <2>2. DropBypass(kernel, plan.bypass) \in KernelType /\ AddBypass(kernel, plan.bypass) \in KernelType
    BY <1>2, <1>5 DEF KernelType, DropBypass, AddBypass
  <2>3. a = [k |-> DropBypass(kernel, plan.bypass), r |-> rt] /\ b = [k |-> AddBypass(kernel, plan.bypass), r |-> rt]
    BY DEF Here
  <2>4. a \in PairType /\ b \in PairType /\ a.r = rt /\ b.r = rt
    BY <1>2, <2>2, <2>3 DEF PairType
  <2> HIDE DEF a, b
  <2> QED BY <1>1, <1>2, <2>1, <2>4, FailType
<1> QED BY <1>8, <1>9, <1>10, <1>11, <1>12, <1>13, <1>14, <1>15, <1>16, <1>17, <1>18, <1>19 DEF Apply

LEMMA EventCounted ==
  ASSUME OutsideInv, Event
  PROVE  used' \in [events : 0 .. MaxEvents, faults : 0 .. MaxFaults, crashes : 0 .. MaxCrashes]
<1>1. used.events \in 0 .. MaxEvents /\ used.events < MaxEvents /\ MaxEvents \in Nat
  BY HostAssumption DEF OutsideInv, Event
<1>2. used.events + 1 \in 0 .. MaxEvents
  BY <1>1
<1>3. used' = [used EXCEPT !.events = @ + 1]
  BY DEF Event, Count
<1> QED BY <1>2, <1>3 DEF OutsideInv

LEMMA CrashCounted ==
  ASSUME OutsideInv, Crash
  PROVE  used' \in [events : 0 .. MaxEvents, faults : 0 .. MaxFaults, crashes : 0 .. MaxCrashes]
<1>1. used.crashes \in 0 .. MaxCrashes /\ used.crashes < MaxCrashes /\ MaxCrashes \in Nat
  BY HostAssumption DEF OutsideInv, Crash
<1>2. used.crashes + 1 \in 0 .. MaxCrashes
  BY <1>1
<1>3. used' = [used EXCEPT !.crashes = @ + 1]
  BY DEF Crash, Count
<1> QED BY <1>2, <1>3 DEF OutsideInv

(* A peer's announcement changes the table of peers within its type. *)
LEMMA PeersType ==
  ASSUME TypeInv, PeerChanges
  PROVE  peers' \in Table(Hosts) /\ \A p \in DOMAIN peers' : peers'[p] \in Homes[p]
<1>1. PICK p \in Peers :
        \/ \E h \in Homes[p] :
             peers' = [q \in DOMAIN peers \cup {p} |-> IF q = p THEN h ELSE peers[q]]
        \/ peers' = [q \in DOMAIN peers \ {p} |-> peers[q]]
  BY DEF PeerChanges
<1>2. DOMAIN peers \subseteq Peers /\ \A q \in DOMAIN peers : peers[q] \in Homes[q]
  BY DEF TypeInv, OutsideInv, Table
<1>3. \A q \in Peers : Homes[q] \subseteq Hosts
  BY DEF Hosts
<1>4. CASE peers' = [q \in DOMAIN peers \ {p} |-> peers[q]]
  <2>1. DOMAIN peers \ {p} \in SUBSET Peers /\ peers' \in [DOMAIN peers \ {p} -> Hosts]
    BY <1>2, <1>3, <1>4
  <2> QED BY <1>2, <1>4, <2>1 DEF Table
<1>5. ASSUME NEW h \in Homes[p],
             peers' = [q \in DOMAIN peers \cup {p} |-> IF q = p THEN h ELSE peers[q]]
      PROVE  peers' \in Table(Hosts) /\ \A q \in DOMAIN peers' : peers'[q] \in Homes[q]
  <2>1. /\ DOMAIN peers \cup {p} \in SUBSET Peers
        /\ peers' \in [DOMAIN peers \cup {p} -> Hosts]
    BY <1>2, <1>3, <1>5
  <2> QED BY <1>2, <1>5, <2>1 DEF Table
<1> QED BY <1>1, <1>4, <1>5

LEMMA CleanupType ==
  \A r \in RuntimeType : CleanupState(r) \in FileType
  BY DEF CleanupState, RuntimeType, FileType

LEMMA RepairType ==
  ASSUME TypeInv, RepairSavedNetworkState
  PROVE  /\ kernel' \in KernelType /\ file' \in {file, NoFile}
         /\ used' \in [events : 0 .. MaxEvents, faults : 0 .. MaxFaults, crashes : 0 .. MaxCrashes]
<1>1. kernel \in KernelType /\ file \in FileType
  BY DEF TypeInv, MachineInv, OutsideInv
<1>2. \A k \in KernelType : RepairLegacy(k) \in KernelType
  BY DEF RepairLegacy, KernelType, UnderlayDefault, WithoutRules
<1>3. CASE os # "macos"
  BY <1>1, <1>3 DEF RepairSavedNetworkState, TypeInv, OutsideInv
<1>4. CASE os = "macos" /\ file = NoFile
  BY <1>1, <1>2, <1>4 DEF RepairSavedNetworkState, TypeInv, OutsideInv
<1>5. CASE os = "macos" /\ file # NoFile
  <2>1. PICK failed \in IF MayFail("repair") THEN SUBSET (kernel.bypass \cap file.bypass) ELSE {{}} :
          /\ kernel' = RepairSaved(kernel, failed)
          /\ file' = IF failed = {} THEN NoFile ELSE file
          /\ used' = [used EXCEPT !.faults = @ + (IF failed = {} THEN 0 ELSE 1)]
    BY <1>5 DEF RepairSavedNetworkState
  <2>2. failed \subseteq kernel.bypass /\ (failed # {} => used.faults < MaxFaults)
    BY <2>1 DEF MayFail
  <2> DEFINE b == (kernel.bypass \ ManagedRoutes) \cup failed
             d == IF file.orig THEN {"underlay"} ELSE kernel.default
             u == IF file.waspf # "none" THEN {} ELSE kernel.rules
             f == kernel.pf /\ file.waspf # "off"
             g == IF file.was4 = "none" THEN kernel.fwd4 ELSE file.was4 = "on"
             t == [kernel EXCEPT !.bypass = b, !.default = d, !.rules = u, !.pf = f, !.fwd4 = g]
  <2>3. /\ b \in SUBSET Hosts /\ d \in SUBSET {"underlay", "tunnel"}
        /\ u \in SUBSET {"v4", "v6"} /\ f \in BOOLEAN /\ g \in BOOLEAN
    BY <1>1, <2>2 DEF KernelType
  <2>4. RepairSaved(kernel, failed) \in {t, RepairLegacy(t)}
    BY DEF RepairSaved
  <2> HIDE DEF b, d, u, f, g
  <2>5. t \in KernelType
    BY <1>1, <2>3 DEF KernelType
  <2> HIDE DEF t
  <2>6. used' \in [events : 0 .. MaxEvents, faults : 0 .. MaxFaults, crashes : 0 .. MaxCrashes]
    <3>1. used.faults \in 0 .. MaxFaults /\ MaxFaults \in Nat
      BY HostAssumption DEF TypeInv, OutsideInv
    <3>2. used.faults + (IF failed = {} THEN 0 ELSE 1) \in 0 .. MaxFaults
      BY <2>2, <3>1
    <3> QED BY <2>1, <3>2 DEF TypeInv, OutsideInv
  <2> QED BY <1>2, <2>1, <2>4, <2>5, <2>6
<1> QED BY <1>3, <1>4, <1>5

LEMMA StartRepairType ==
  ASSUME TypeInv, Start \/ RepairNetwork
  PROVE  TypeInv'
<1>1. /\ kernel' \in KernelType /\ file' \in {file, NoFile}
      /\ used' \in [events : 0 .. MaxEvents, faults : 0 .. MaxFaults, crashes : 0 .. MaxCrashes]
  BY RepairType DEF Start, RepairNetwork
<1>2. MachineInv'
  BY <1>1 DEF Start, RepairNetwork, World, TypeInv, MachineInv
<1>3. OutsideInv'
  <2>1. /\ UNCHANGED <<os, before, cfg>> /\ on' \in {on, TRUE}
        /\ peers' \in {peers, <<>>} /\ ready' \in {ready, {}}
    BY DEF Start, RepairNetwork, World
  <2>2. <<>> \in Table(Hosts) /\ DOMAIN <<>> = {}
    BY EmptyTable
  <2>3. peers' \in Table(Hosts) /\ \A p \in DOMAIN peers' : peers'[p] \in Homes[p]
    BY <2>1, <2>2 DEF TypeInv, OutsideInv
  <2>4. file' \in FileType /\ (os # "macos" => file' = NoFile)
    BY <1>1 DEF TypeInv, OutsideInv, FileType
  <2> QED BY <1>1, <2>1, <2>3, <2>4 DEF TypeInv, OutsideInv
<1> QED BY <1>2, <1>3 DEF TypeInv

LEMMA SessionType ==
  ASSUME TypeInv, Next, ~Apply
  PROVE  TypeInv'
<1>1. /\ MachineInv /\ OutsideInv /\ Here \in PairType /\ Here.k = kernel /\ Here.r = rt
      /\ kernel \in KernelType /\ rt \in RuntimeType
      /\ os = "windows" => Bare(rt)
  BY HereType DEF TypeInv, MachineInv
<1>2. CASE PeerChanges
  <2>1. OutsideInv'
    BY <1>1, <1>2, PeersType, EventCounted DEF PeerChanges, Quiet, OutsideInv
  <2> QED BY <1>1, <1>2, <2>1 DEF PeerChanges, Quiet, Update, TypeInv, MachineInv
<1>3. CASE Reload
  <2>1. OutsideInv'
    BY <1>1, <1>3, EventCounted DEF Reload, Quiet, OutsideInv
  <2> QED BY <1>1, <1>3, <2>1 DEF Reload, Quiet, Update, TypeInv, MachineInv
<1>4. CASE PauseOrResume
  <2>1. OutsideInv'
    BY <1>1, <1>4, EventCounted DEF PauseOrResume, Quiet, OutsideInv
  <2> QED BY <1>1, <1>4, <2>1 DEF PauseOrResume, Quiet, Update, TypeInv, MachineInv
<1>5. CASE HandshakeChanges
  <2>1. ready' \subseteq Peers
    BY <1>1, <1>5 DEF HandshakeChanges, OutsideInv
  <2> QED BY <1>1, <1>5, <2>1 DEF HandshakeChanges, Quiet, TypeInv, MachineInv, OutsideInv
<1>6. CASE Refresh
  BY <1>1, <1>6 DEF Refresh, Quiet, Update, TypeInv, MachineInv, OutsideInv
<1>7. CASE NatPunch
  <2>1. OutsideInv' /\ UNCHANGED os
    BY <1>1, <1>7 DEF NatPunch, World, OutsideInv
  <2> QED BY <1>1, <1>7, <2>1, StopType, GoType, NoPlanType DEF NatPunch, TypeInv
<1>8. CASE Tick
  <2>1. file' \in FileType /\ os = "macos"
    BY <1>1, <1>8, CleanupType DEF Tick, PersistCleanup, OutsideInv
  <2> QED BY <1>1, <1>8, <2>1 DEF Tick, World, TypeInv, MachineInv, OutsideInv
<1>9. CASE Start \/ RepairNetwork
  BY <1>9, StartRepairType
<1>10. CASE Shutdown
  <2>1. StopTunnel(Here) \in PairType /\ StopTunnel(Here).r = NewRuntime /\ Bare(NewRuntime)
    BY <1>1, StopType
  <2>2. OutsideInv'
    BY <1>1, <1>10, <2>1, CleanupType, NewRuntimeType DEF Shutdown, PersistCleanup, OutsideInv
  <2>3. kernel' \in KernelType /\ rt' = NewRuntime
    BY <1>10, <2>1, PairFields DEF Shutdown, Keep
  <2> QED BY <1>1, <1>10, <2>1, <2>2, <2>3, NewRuntimeType DEF Shutdown, TypeInv, MachineInv
<1>11. CASE Crash
  <2>1. OutsideInv' /\ UNCHANGED os
    BY <1>1, <1>11, CrashCounted DEF Crash, World, OutsideInv
  <2> QED BY <1>1, <1>11, <2>1, DieType DEF Crash, TypeInv
<1> QED BY <1>2, <1>3, <1>4, <1>5, <1>6, <1>7, <1>8, <1>9, <1>10, <1>11 DEF Next

LEMMA TypeInit == Init => TypeInv
<1> SUFFICES ASSUME Init PROVE TypeInv
  OBVIOUS
<1>1. Bare(NewRuntime) /\ NewRuntime \in RuntimeType /\ NoPlan \in PlanType
  BY NewRuntimeType, NoPlanType DEF Bare, NewRuntime
<1>2. kernel \in KernelType
  BY DEF Init, KernelType
<1>3. peers \in Table(Hosts) /\ \A p \in DOMAIN peers : peers[p] \in Homes[p]
  BY HostAssumption DEF Init, Table, Hosts
<1>4. used \in [events : 0 .. MaxEvents, faults : 0 .. MaxFaults, crashes : 0 .. MaxCrashes]
  BY HostAssumption DEF Init
<1>5. MachineInv
  BY <1>1, <1>2 DEF Init, MachineInv
<1>6. OutsideInv
  BY <1>3, <1>4, HostAssumption DEF Init, OutsideInv, FileType
<1> QED BY <1>5, <1>6 DEF TypeInv

LEMMA TypeStep == TypeInv /\ [Next]_vars => TypeInv'
<1> SUFFICES ASSUME TypeInv, [Next]_vars PROVE TypeInv'
  OBVIOUS
<1>1. CASE UNCHANGED vars
  BY <1>1 DEF vars, TypeInv, MachineInv, OutsideInv
<1>2. CASE Next
  BY <1>2, ApplyType, SessionType
<1> QED BY <1>1, <1>2

LEMMA TypeImplies == TypeInv => TypeOK
<1> SUFFICES ASSUME TypeInv PROVE TypeOK
  OBVIOUS
<1>1. file = NoFile \/ file.bypass \subseteq Hosts
  BY DEF TypeInv, OutsideInv, FileType
<1>2. /\ used.events <= MaxEvents /\ used.faults <= MaxFaults /\ used.crashes <= MaxCrashes
  BY HostAssumption DEF TypeInv, OutsideInv
<1> QED BY <1>1, <1>2 DEF TypeInv, OutsideInv, MachineInv, TypeOK, KernelType, RuntimeType

(* The kernel, the runtime, the file and the plan have their types, and a   *)
(* process that is down has no runtime, whatever fails and whenever the     *)
(* process dies.                                                            *)
THEOREM HostTypeCorrect == Spec => []TypeOK
<1>1. Spec => []TypeInv
  BY TypeInit, TypeStep, PTL DEF Spec
<1> QED BY <1>1, TypeImplies, PTL

-----------------------------------------------------------------------------
(* The default route. *)

Tunnelled(k) == "tunnel" \in k.default
Lost == <<"missing", "underlay">> \in orphans
Updating == {"start", "bypass", "iface", "forward"}

(* One peer at most has the default route among its routes, and one has it  *)
(* when the default route is to be taken.                                   *)
Sound(p) ==
  /\ \A a, b \in DOMAIN p.routes :
       "default" \in p.routes[a] /\ "default" \in p.routes[b] => a = b
  /\ p.dflt => \E a \in DOMAIN p.routes : "default" \in p.routes[a]

(* Whatever the place of the update: on Linux the tunnel's default route is *)
(* there instead of the underlay's, elsewhere beside it; on macOS the       *)
(* daemon can go back, and its bypass routes exist.                         *)
Routable(k, r) ==
  /\ Tunnelled(k) => r.up
  /\ os = "macos" => (Tunnelled(k) => r.orig) /\ r.bypass \subseteq k.bypass
  /\ os = "linux" => ~(Tunnelled(k) /\ "underlay" \in k.default)
  /\ os # "linux" => "underlay" \in k.default
  /\ "underlay" \notin k.default => r.orig \/ Lost
  /\ os = "windows" => (Tunnelled(k) => r.fp.dflt)
  /\ Sound(r.fp)

Bypassed == rt.wg \subseteq kernel.bypass

RouteInv ==
  /\ Routable(kernel, rt)
  /\ Sound(plan)
  /\ os # "linux" => ~Lost
  /\ pc = "idle" => (Tunnelled(kernel) /\ ~Lost => Selected # NoPeer)
  /\ pc \in Updating => (Tunnelled(kernel) /\ ~Lost => plan.dflt)
  /\ pc \in Updating \cup {"windows"} =>
       (plan.dflt => Selected # NoPeer /\ Endpoints(plan) \subseteq plan.bypass)
  /\ pc \in {"start", "bypass", "iface"} => (plan.dflt => rt.orig \/ Lost)
  /\ pc \in {"bypass", "iface", "forward"} => rt.up
  /\ pc = "bypass" => rt.wg = Endpoints(plan)
  /\ pc = "windows" => ~Tunnelled(kernel)
  /\ os # "linux" /\ pc \in {"idle", "plan", "start", "forward"} => (Tunnelled(kernel) => Bypassed)
  /\ os # "linux" /\ pc = "iface" => (plan.dflt => Bypassed)

LEMMA SoundNoPlan == Sound(NoPlan) /\ Endpoints(NoPlan) = {}
<1>1. DOMAIN <<>> = {}
  OBVIOUS
<1> QED BY <1>1 DEF Sound, NoPlan, Endpoints

(* The planner gives the default route to the selected exit node only.      *)
LEMMA PlannedSound ==
  ASSUME TypeInv
  PROVE  /\ Sound(Planned)
         /\ \A a \in DOMAIN Planned.routes :
              "default" \in Planned.routes[a] => Selected # NoPeer
         /\ Planned.dflt => Selected # NoPeer /\ Endpoints(Planned) \subseteq Planned.bypass
<1>1. Known \subseteq Peers
  BY DEF TypeInv, OutsideInv, Known, Table
<1>2. \A p : "default" \in RoutesOf(p) => p \in Known /\ p = Selected
  BY DEF RoutesOf, Claims
<1>3. DOMAIN Planned.routes = Known /\ \A p \in Known : Planned.routes[p] = RoutesOf(p)
  BY DEF Planned
<1>4. Planned.dflt => \E p \in Known : "default" \in RoutesOf(p)
  BY DEF Planned, Targets
<1>5. NoPeer \notin Known
  BY <1>1, HostAssumption DEF NoPeer
<1>6. \A p \in Known : "default" \in Planned.routes[p] => p = Selected /\ Selected # NoPeer
  BY <1>2, <1>3, <1>5
<1>7. Planned.dflt => Endpoints(Planned) \subseteq Planned.bypass
  <2>1. Endpoints(Planned) = {peers[p] : p \in Known}
    BY DEF Endpoints, Planned
  <2>2. Planned.dflt => Planned.bypass \in {{peers[p] : p \in Known}, {peers[p] : p \in Known} \cup Control}
    BY DEF Planned
  <2> QED BY <2>1, <2>2
<1> QED BY <1>3, <1>4, <1>6, <1>7 DEF Sound

LEMMA MissingLeftover ==
  \A k \in KernelType : <<"missing", "underlay">> \in Leftovers(k) <=> "underlay" \notin k.default
  BY DEF Leftovers, KernelType

(* What a step may add to the orphans is left on the machine after it. *)
OrphansGrow ==
  orphans \subseteq orphans' /\ orphans' \subseteq orphans \cup Leftovers(kernel')

LEMMA OutcomeOrphans ==
  ASSUME NEW s, \/ Return(s) \/ Fail(s) \/ FailForgetting(s)
                \/ \E step, p : Go(step, p, s)
  PROVE  OrphansGrow
<1>1. CASE Return(s) \/ \E step, p : Go(step, p, s)
  BY <1>1 DEF Return, Go, OrphansGrow
<1>2. CASE Die(s)
  BY <1>2 DEF Die, OrphansGrow
<1>3. CASE Finish(s) /\ Forget(s)
  BY <1>3 DEF Finish, Keep, Forget, OrphansGrow
<1> QED BY <1>1, <1>2, <1>3 DEF Fail, FailForgetting

LEMMA RoutableDecided ==
  ASSUME TypeInv, Routable(kernel, rt), os # "windows"
  PROVE  LET d == DefaultDecided
         IN /\ Routable(d.k, d.r)
            /\ Planned.dflt => d.r.orig \/ Lost
            /\ ~Planned.dflt => (Tunnelled(d.k) => Lost)
            /\ Tunnelled(d.k) => Tunnelled(kernel)
            /\ d.k.bypass = kernel.bypass /\ d.r.wg = rt.wg /\ d.r.up = rt.up
            /\ d.r.bypass = rt.bypass
            /\ "underlay" \in kernel.default => "underlay" \in d.k.default
<1>1. Here \in PairType /\ Here.k = kernel /\ Here.r = rt
  BY HereType
<1>2. kernel \in KernelType /\ rt \in RuntimeType /\ os \in {"linux", "macos"}
  BY HostAssumption DEF TypeInv, MachineInv, OutsideInv
<1>3. CASE Planned.dflt
  <2> DEFINE d == CaptureDefault(Here)
  <2>1. DefaultDecided = d
    BY <1>3 DEF DefaultDecided
  <2>2. /\ d.k = kernel
        /\ d.r = IF os = "macos" \/ (os = "linux" /\ "underlay" \in kernel.default)
                 THEN [rt EXCEPT !.orig = TRUE] ELSE rt
    BY <1>1, CaptureDefaultEffect
  <2> HIDE DEF d
  <2>3. /\ d.r.wg = rt.wg /\ d.r.up = rt.up /\ d.r.bypass = rt.bypass /\ d.r.fp = rt.fp
        /\ os = "macos" \/ "underlay" \in kernel.default => d.r.orig
        /\ rt.orig => d.r.orig
    BY <1>2, <2>2 DEF RuntimeType
  <2> QED BY <1>2, <1>3, <2>1, <2>2, <2>3 DEF Routable, Tunnelled
<1>4. CASE ~Planned.dflt
  <2> DEFINE d == RestoreDefault(Here)
  <2>1. DefaultDecided = d
    BY <1>4 DEF DefaultDecided
  <2>2. /\ d.r = [rt EXCEPT !.orig = FALSE]
        /\ d.k = IF rt.orig THEN [kernel EXCEPT !.default = {"underlay"}] ELSE kernel
    BY <1>1, RestoreDefaultEffect
  <2> HIDE DEF d
  <2>3. /\ d.r.wg = rt.wg /\ d.r.up = rt.up /\ d.r.bypass = rt.bypass /\ d.r.fp = rt.fp
        /\ d.r.orig = FALSE
    BY <1>2, <2>2 DEF RuntimeType
  <2>4. /\ d.k.default = IF rt.orig THEN {"underlay"} ELSE kernel.default
        /\ d.k.bypass = kernel.bypass
    BY <1>2, <2>2 DEF KernelType
  <2> QED BY <1>2, <1>4, <2>1, <2>3, <2>4 DEF Routable, Tunnelled
<1> QED BY <1>3, <1>4

(* A stop goes back to the underlay, if it was there or is remembered. *)
LEMMA RoutableStop ==
  ASSUME OutsideInv, NEW s \in PairType, os = "windows" => Bare(s.r), Routable(s.k, s.r)
  PROVE  /\ Routable(StopTunnel(s).k, StopTunnel(s).r)
         /\ ~Tunnelled(StopTunnel(s).k)
<1>1. StopTunnel(s).r = NewRuntime
  BY StopType
<1>2. s.k \in KernelType /\ s.r \in RuntimeType
  BY PairFields
<1>3. /\ "tunnel" \notin StopTunnel(s).k.default
      /\ "underlay" \in s.k.default \/ (os # "windows" /\ s.r.orig)
           => "underlay" \in StopTunnel(s).k.default
  <2>1. CASE os = "windows"
    <3>1. StopTunnel(s).k.default = s.k.default \ {"tunnel"}
      BY <1>2, <2>1, StopWindowsEffect DEF KernelType
    <3> QED BY <2>1, <3>1
  <2>2. CASE os # "windows"
    <3>1. StopTunnel(s).k.default = IF s.r.orig THEN {"underlay"} ELSE s.k.default \ {"tunnel"}
      BY <2>2, StopUnixEffect, HostAssumption DEF OutsideInv
    <3> QED BY <2>2, <3>1
  <2> QED BY <2>1, <2>2
<1>4. NewRuntime.bypass = {} /\ NewRuntime.orig = FALSE /\ NewRuntime.fp = NoPlan
  BY DEF NewRuntime
<1>5. Sound(NoPlan)
  BY SoundNoPlan
<1> QED BY <1>1, <1>3, <1>4, <1>5 DEF Routable, Tunnelled, Bare

(* The orphans say that the underlay's default route is lost only where it  *)
(* is missing; that never happens on macOS and Windows.                     *)
LEMMA LostGrows ==
  ASSUME RouteInv, OrphansGrow, UNCHANGED os, kernel' \in KernelType,
         os # "linux" => "underlay" \in kernel'.default
  PROVE  (Lost => Lost') /\ (os # "linux" => ~Lost')
<1>1. ASSUME "underlay" \in kernel'.default
      PROVE  <<"missing", "underlay">> \notin Leftovers(kernel')
  <2>1. \A k \in KernelType : <<"missing", "underlay">> \in {<<"missing", r>> : r \in {"underlay"} \ k.default}
                             => "underlay" \notin k.default
    OBVIOUS
  <2>2. <<"missing", "underlay">> \in Leftovers(kernel') => "underlay" \notin kernel'.default
    BY DEF Leftovers
  <2> QED BY <1>1, <2>2
<1> QED BY <1>1 DEF OrphansGrow, Lost, RouteInv

LEMMA RouteDie ==
  ASSUME TypeInv, RouteInv, NEW s \in PairType, Die(s), UNCHANGED os, Routable(s.k, s.r)
  PROVE  RouteInv'
<1>1. kernel' \in KernelType /\ kernel'.default = s.k.default \ {"tunnel"}
  BY DropDeviceEffect, PairFields DEF Die, KernelType
<1>2. OrphansGrow
  BY DEF Die, OrphansGrow
<1>3. os # "linux" => "underlay" \in kernel'.default
  BY <1>1 DEF Routable
<1>4. (Lost => Lost') /\ (os # "linux" => ~Lost')
  BY <1>1, <1>2, <1>3, LostGrows
<1>5. "underlay" \notin kernel'.default => Lost'
  <2>1. SUFFICES ASSUME "underlay" \notin kernel'.default PROVE Lost'
    OBVIOUS
  <2>2. os = "linux" /\ RememberedIn(file) = {}
    BY <1>3, <2>1 DEF TypeInv, OutsideInv, RememberedIn
  <2>3. <<"missing", "underlay">> \in Leftovers(kernel')
    BY <2>1 DEF Leftovers
  <2> QED BY <2>2, <2>3 DEF Die, Lost
<1>6. NewRuntime.bypass = {} /\ NewRuntime.fp = NoPlan
  BY DEF NewRuntime
<1>7. Routable(kernel, rt)'
  BY <1>1, <1>3, <1>5, <1>6, SoundNoPlan DEF Die, Routable, Tunnelled
<1> QED BY <1>4, <1>7, SoundNoPlan DEF Die, RouteInv, Updating

(* The end of an update. *)
LEMMA RouteFinish ==
  ASSUME TypeInv, RouteInv, NEW s \in PairType, Finish(s), OrphansGrow, UNCHANGED World,
         Routable(s.k, s.r),
         Tunnelled(s.k) /\ ~Lost => Selected # NoPeer,
         os # "linux" => (Tunnelled(s.k) => s.r.wg \subseteq s.k.bypass)
  PROVE  RouteInv'
<1>1. /\ kernel' = s.k /\ rt' = s.r /\ pc' = "idle" /\ plan' = NoPlan
      /\ UNCHANGED <<os, cfg, on, peers>> /\ kernel' \in KernelType
  BY PairFields DEF Finish, Keep, World
<1>2. os # "linux" => "underlay" \in kernel'.default
  BY <1>1 DEF Routable
<1>3. (Lost => Lost') /\ (os # "linux" => ~Lost')
  BY <1>1, <1>2, LostGrows
<1>4. Selected' = Selected
  BY <1>1 DEF Selected, Known
<1>5. Routable(kernel, rt)'
  BY <1>1, <1>3 DEF Routable, Tunnelled, Sound
<1> QED BY <1>1, <1>3, <1>4, <1>5, SoundNoPlan DEF RouteInv, Updating, Tunnelled, Bypassed

LEMMA RouteFail ==
  ASSUME TypeInv, RouteInv, NEW s \in PairType, Return(s) \/ Fail(s) \/ FailForgetting(s),
         UNCHANGED World, Routable(s.k, s.r),
         Tunnelled(s.k) /\ ~Lost => Selected # NoPeer,
         os # "linux" => (Tunnelled(s.k) => s.r.wg \subseteq s.k.bypass)
  PROVE  RouteInv'
<1>1. OrphansGrow
  BY OutcomeOrphans
<1>2. UNCHANGED os
  BY DEF World
<1>3. CASE Die(s)
  BY <1>2, <1>3, RouteDie
<1>4. CASE Finish(s)
  BY <1>1, <1>4, RouteFinish
<1> QED BY <1>3, <1>4 DEF Fail, FailForgetting, Return

(* The next step of an update. *)
LEMMA RouteGo ==
  ASSUME TypeInv, RouteInv, NEW s \in PairType, NEW p, NEW step, Go(step, p, s), UNCHANGED World,
         step \in {"plan", "start", "bypass", "iface", "forward", "windows"},
         Routable(s.k, s.r), Sound(p),
         step \in Updating => (Tunnelled(s.k) /\ ~Lost => p.dflt),
         step \in Updating \cup {"windows"} =>
           (p.dflt => Selected # NoPeer /\ Endpoints(p) \subseteq p.bypass),
         step \in {"start", "bypass", "iface"} => (p.dflt => s.r.orig \/ Lost),
         step \in {"bypass", "iface", "forward"} => s.r.up,
         step = "bypass" => s.r.wg = Endpoints(p),
         step = "windows" => ~Tunnelled(s.k),
         os # "linux" /\ step \in {"plan", "start", "forward"} =>
           (Tunnelled(s.k) => s.r.wg \subseteq s.k.bypass),
         os # "linux" /\ step = "iface" => (p.dflt => s.r.wg \subseteq s.k.bypass)
  PROVE  RouteInv'
<1>1. /\ kernel' = s.k /\ rt' = s.r /\ pc' = step /\ plan' = p /\ UNCHANGED orphans
      /\ UNCHANGED <<os, cfg, on, peers>>
  BY DEF Go, Keep, World
<1>2. Selected' = Selected /\ Lost' = Lost
  BY <1>1 DEF Selected, Known, Lost
<1>3. Routable(kernel, rt)'
  BY <1>1, <1>2 DEF Routable, Tunnelled, Sound
<1>4. Sound(plan)'
  BY <1>1 DEF Sound
<1>5. Endpoints(plan)' = Endpoints(p)
  BY <1>1 DEF Endpoints
<1>6. /\ pc' # "idle"
      /\ pc' \in Updating => (Tunnelled(kernel)' /\ ~Lost' => plan'.dflt)
      /\ pc' \in Updating \cup {"windows"} =>
           (plan'.dflt => Selected' # NoPeer /\ Endpoints(plan)' \subseteq plan'.bypass)
      /\ pc' \in {"start", "bypass", "iface"} => (plan'.dflt => rt'.orig \/ Lost')
      /\ pc' \in {"bypass", "iface", "forward"} => rt'.up
      /\ pc' = "bypass" => rt'.wg = Endpoints(plan)'
      /\ pc' = "windows" => ~Tunnelled(kernel)'
      /\ os' # "linux" /\ pc' \in {"idle", "plan", "start", "forward"} =>
           (Tunnelled(kernel)' => Bypassed')
      /\ os' # "linux" /\ pc' = "iface" => (plan'.dflt => Bypassed')
  BY <1>1, <1>2, <1>5 DEF Tunnelled, Bypassed
<1>7. os' # "linux" => ~Lost'
  BY <1>1, <1>2 DEF RouteInv
<1> QED BY <1>3, <1>4, <1>6, <1>7 DEF RouteInv, Updating

(* The plan step: what is to be routed, and where the default route goes.   *)
LEMMA RoutePlan ==
  ASSUME TypeInv, RouteInv, PlanStops \/ PlanUnix \/ PlanRefreshes \/ PlanUnresolved
  PROVE  RouteInv'
<1>1. UNCHANGED World /\ pc = "plan" /\ UNCHANGED os
  BY DEF PlanStops, PlanUnix, PlanRefreshes, PlanUnresolved, World
<1>2. /\ Here \in PairType /\ Here.k = kernel /\ Here.r = rt
      /\ kernel \in KernelType /\ rt \in RuntimeType /\ OutsideInv
      /\ os = "windows" => Bare(rt)
  BY HereType DEF TypeInv, MachineInv
<1>3. /\ Routable(kernel, rt)
      /\ os # "linux" => ~Lost /\ (Tunnelled(kernel) => rt.wg \subseteq kernel.bypass)
  BY <1>1 DEF RouteInv, Bypassed
<1>4. CASE PlanStops
  <2> DEFINE t == StopTunnel(Here)
  <2>1. t \in PairType /\ Routable(t.k, t.r) /\ ~Tunnelled(t.k)
    BY <1>2, <1>3, StopType, RoutableStop
  <2>2. Return(t)
    BY <1>4 DEF PlanStops
  <2> HIDE DEF t
  <2> QED BY <1>1, <2>1, <2>2, RouteFail
<1>5. CASE os # "windows" /\ (PlanUnix \/ PlanRefreshes \/ PlanUnresolved)
  <2> DEFINE d == DefaultDecided
  <2>1. /\ d \in PairType
        /\ Routable(d.k, d.r)
        /\ Planned.dflt => d.r.orig \/ Lost
        /\ ~Planned.dflt => (Tunnelled(d.k) => Lost)
        /\ Tunnelled(d.k) => Tunnelled(kernel)
        /\ d.k.bypass = kernel.bypass /\ d.r.wg = rt.wg /\ d.r.up = rt.up
    BY <1>3, <1>5, DecidedType, RoutableDecided
  <2>2. /\ Sound(Planned)
        /\ Planned.dflt => Selected # NoPeer /\ Endpoints(Planned) \subseteq Planned.bypass
    BY PlannedSound
  <2>3. RestoreDefault(d) \in PairType
    BY DecidedType
  <2> HIDE DEF d
  <2>4. CASE Return(d) \/ Fail(d)
    BY <1>1, <1>3, <2>1, <2>2, <2>4, RouteFail
  <2>5. CASE Go("start", Planned, d)
    BY <1>1, <1>3, <2>1, <2>2, <2>5, RouteGo DEF Updating
  <2>6. ASSUME os = "macos", Planned.dflt, PlanUnresolved
        PROVE  RouteInv'
    <3> DEFINE w == [Withheld(Planned) EXCEPT !.bypass = {}]
               e == RestoreDefault(d)
    <3>1. Return(e) \/ Go("start", w, e)
      BY <2>6 DEF PlanUnresolved, d
    <3>2. Planned \in PlanType
      BY PlannedType
    <3>3. w.dflt = FALSE /\ w.routes = Planned.routes
      BY <3>2 DEF PlanType, Withheld
    <3>4. Sound(w)
      BY <2>2, <3>3 DEF Sound
    <3>5. d.r.orig
      BY <1>3, <2>1, <2>6
    <3>6. /\ e \in PairType /\ e.r = [d.r EXCEPT !.orig = FALSE]
          /\ e.k = [d.k EXCEPT !.default = {"underlay"}]
      BY <2>1, <3>5, RestoreDefaultEffect
    <3> HIDE DEF e, w
    <3>7. /\ e.r.up = d.r.up /\ e.r.wg = d.r.wg /\ e.r.bypass = d.r.bypass /\ e.r.fp = d.r.fp
          /\ e.k.bypass = d.k.bypass /\ e.k.default = {"underlay"}
      BY <2>1, <3>6, PairFields DEF RuntimeType, KernelType
    <3>8. ~Tunnelled(e.k)
      BY <3>7 DEF Tunnelled
    <3>9. Routable(e.k, e.r)
      BY <2>1, <2>6, <3>7, <3>8 DEF Routable
    <3> QED BY <1>1, <3>1, <3>3, <3>4, <3>6, <3>8, <3>9, RouteFail, RouteGo DEF Updating
  <2>7. \/ Return(d) \/ Fail(d) \/ Go("start", Planned, d)
        \/ (os = "macos" /\ Planned.dflt /\ PlanUnresolved)
    BY <1>5 DEF PlanUnix, PlanRefreshes, PlanUnresolved, d
  <2> QED BY <2>4, <2>5, <2>6, <2>7
<1> QED BY <1>4, <1>5 DEF PlanUnix, PlanRefreshes, PlanUnresolved

(* The device, and the bypass routes before the default route. *)
LEMMA RouteDevice ==
  ASSUME TypeInv, RouteInv, StartDevice \/ StartFails
  PROVE  RouteInv'
<1>1. UNCHANGED World /\ pc = "start"
  BY DEF StartDevice, StartFails
<1>2. /\ Here \in PairType /\ Here.k = kernel /\ Here.r = rt
      /\ kernel \in KernelType /\ rt \in RuntimeType /\ plan \in PlanType
  BY HereType DEF TypeInv, MachineInv
<1>3. /\ Routable(kernel, rt) /\ Sound(plan)
      /\ Tunnelled(kernel) /\ ~Lost => plan.dflt
      /\ plan.dflt => Selected # NoPeer /\ Endpoints(plan) \subseteq plan.bypass
      /\ plan.dflt => rt.orig \/ Lost
      /\ os # "linux" => ~Lost /\ (Tunnelled(kernel) => rt.wg \subseteq kernel.bypass)
  BY <1>1 DEF RouteInv, Updating, Bypassed
<1>4. CASE StartDevice
  <2> DEFINE s == [Here EXCEPT !.r = [@ EXCEPT !.up = TRUE, !.wg = Endpoints(plan)]]
  <2>1. /\ s.k = kernel /\ s.r = [rt EXCEPT !.up = TRUE, !.wg = Endpoints(plan)]
        /\ s = [k |-> s.k, r |-> s.r]
    BY DEF Here
  <2>2. Go("bypass", plan, s)
    BY <1>4 DEF StartDevice
  <2>3. Endpoints(plan) \subseteq Hosts
    BY <1>2 DEF PlanType, Endpoints
  <2> HIDE DEF s
  <2>4. /\ s \in PairType /\ s.r.up = TRUE /\ s.r.wg = Endpoints(plan) /\ s.r.orig = rt.orig
        /\ s.r.bypass = rt.bypass /\ s.r.fp = rt.fp
    BY <1>2, <2>1, <2>3 DEF PairType, RuntimeType
  <2>5. Routable(s.k, s.r)
    BY <1>3, <2>1, <2>4 DEF Routable
  <2> QED BY <1>1, <1>3, <2>1, <2>2, <2>4, <2>5, RouteGo DEF Updating
<1>5. CASE StartFails
  <2>1. PICK up \in {rt.up, TRUE} : Fail([Here EXCEPT !.r.up = up])
    BY <1>5 DEF StartFails
  <2> DEFINE s == [Here EXCEPT !.r.up = up]
  <2>2. s.k = kernel /\ s.r = [rt EXCEPT !.up = up] /\ s = [k |-> s.k, r |-> s.r]
    BY DEF Here
  <2>3. Fail(s)
    BY <2>1
  <2> HIDE DEF s
  <2>4. /\ s \in PairType /\ (rt.up => s.r.up) /\ s.r.wg = rt.wg /\ s.r.orig = rt.orig
        /\ s.r.bypass = rt.bypass /\ s.r.fp = rt.fp
    BY <1>2, <2>1, <2>2 DEF PairType, RuntimeType
  <2>5. Routable(s.k, s.r)
    BY <1>3, <2>2, <2>4 DEF Routable
  <2> QED BY <1>1, <1>3, <2>2, <2>3, <2>4, <2>5, RouteFail
<1> QED BY <1>4, <1>5

LEMMA RouteBypass ==
  ASSUME TypeInv, RouteInv, BypassInstalled \/ BypassFails
  PROVE  RouteInv'
<1>1. PICK failed \in SUBSET plan.bypass : InstallBypass(failed)
  BY DEF BypassInstalled, BypassFails
<1>2. UNCHANGED World /\ pc = "bypass"
  BY <1>1 DEF BypassInstalled, BypassFails, InstallBypass
<1>3. /\ Here \in PairType /\ Here.k = kernel /\ Here.r = rt
      /\ kernel \in KernelType /\ rt \in RuntimeType /\ plan \in PlanType /\ os # "windows"
      /\ os \in {"linux", "macos"}
  BY <1>2, HereType, HostAssumption DEF TypeInv, MachineInv, OutsideInv
<1>4. /\ Routable(kernel, rt) /\ Sound(plan) /\ rt.up /\ rt.wg = Endpoints(plan)
      /\ Tunnelled(kernel) /\ ~Lost => plan.dflt
      /\ plan.dflt => Selected # NoPeer /\ Endpoints(plan) \subseteq plan.bypass
      /\ plan.dflt => rt.orig \/ Lost
      /\ os # "linux" => ~Lost
  BY <1>2 DEF RouteInv, Updating
<1> DEFINE s == ReconcileBypass(Here, plan.bypass, failed)
<1>5. plan.bypass \in SUBSET Hosts
  BY <1>3 DEF PlanType
<1>6. /\ s \in PairType
      /\ s.k = [kernel EXCEPT !.bypass = (@ \ (rt.bypass \ plan.bypass)) \cup (plan.bypass \ failed)]
      /\ s.r = [rt EXCEPT !.bypass = IF os = "linux" THEN plan.bypass
                                     ELSE (rt.bypass \cap plan.bypass) \cup (plan.bypass \ failed)]
  BY <1>3, <1>5, ReconcileBypassEffect
<1>7. \/ /\ os = "macos" /\ plan.dflt
         /\ Go("iface", Withheld(plan), RestoreDefault(s))
      \/ /\ os = "macos" /\ plan.dflt => s.r.bypass = plan.bypass
         /\ Go("iface", plan, s)
  BY <1>1 DEF InstallBypass
<1> HIDE DEF s
<1>8. /\ s.k.default = kernel.default /\ s.r.up = rt.up /\ s.r.wg = rt.wg
      /\ s.r.orig = rt.orig /\ s.r.fp = rt.fp
  BY <1>3, <1>6 DEF KernelType, RuntimeType
<1>9. os = "macos" => s.r.bypass \subseteq s.k.bypass
  <2>1. os = "macos" => rt.bypass \subseteq kernel.bypass
    BY <1>4 DEF Routable
  <2>2. os = "macos" => s.r.bypass = (rt.bypass \cap plan.bypass) \cup (plan.bypass \ failed)
    BY <1>3, <1>6 DEF RuntimeType
  <2>3. s.k.bypass = (kernel.bypass \ (rt.bypass \ plan.bypass)) \cup (plan.bypass \ failed)
    BY <1>3, <1>6 DEF KernelType
  <2> QED BY <2>1, <2>2, <2>3
<1>10. Routable(s.k, s.r)
  BY <1>3, <1>4, <1>8, <1>9 DEF Routable, Tunnelled
<1>11. ASSUME os = "macos" /\ plan.dflt => s.r.bypass = plan.bypass, Go("iface", plan, s)
       PROVE  RouteInv'
  <2>1. plan.dflt => s.r.orig \/ Lost
    BY <1>4, <1>8
  <2>2. Tunnelled(s.k) /\ ~Lost => plan.dflt
    BY <1>4, <1>8 DEF Tunnelled
  <2>3. os # "linux" => (plan.dflt => s.r.wg \subseteq s.k.bypass)
    BY <1>3, <1>4, <1>8, <1>9, <1>11
  <2> QED BY <1>2, <1>4, <1>6, <1>8, <1>10, <1>11, <2>1, <2>2, <2>3, RouteGo DEF Updating
<1>12. ASSUME os = "macos", plan.dflt, Go("iface", Withheld(plan), RestoreDefault(s))
       PROVE  RouteInv'
  <2> DEFINE e == RestoreDefault(s)
             w == Withheld(plan)
  <2>1. w.dflt = FALSE /\ w.routes = plan.routes
    BY <1>3 DEF PlanType, Withheld
  <2>2. Sound(w)
    BY <1>4, <2>1 DEF Sound
  <2>3. s.r.orig
    BY <1>4, <1>8, <1>12
  <2>4. /\ e \in PairType /\ e.r = [s.r EXCEPT !.orig = FALSE]
        /\ e.k = [s.k EXCEPT !.default = {"underlay"}]
    BY <1>6, <2>3, RestoreDefaultEffect
  <2>5. Go("iface", w, e)
    BY <1>12
  <2> HIDE DEF e, w
  <2>6. /\ e.r.up = s.r.up /\ e.r.wg = s.r.wg /\ e.r.bypass = s.r.bypass /\ e.r.fp = s.r.fp
        /\ e.k.bypass = s.k.bypass /\ e.k.default = {"underlay"}
    BY <1>6, <2>4, PairFields DEF RuntimeType, KernelType
  <2>7. ~Tunnelled(e.k)
    BY <2>6 DEF Tunnelled
  <2>8. Routable(e.k, e.r)
    BY <1>10, <1>12, <2>6, <2>7 DEF Routable
  <2> QED BY <1>2, <1>4, <1>8, <2>1, <2>2, <2>4, <2>5, <2>6, <2>7, <2>8, RouteGo DEF Updating
<1> QED BY <1>7, <1>11, <1>12

(* The interface, and the exit node's forwarding. *)
LEMMA RouteInterface ==
  ASSUME TypeInv, RouteInv, ConfigureInterface \/ InterfaceFails
  PROVE  RouteInv'
<1>1. UNCHANGED World /\ pc = "iface"
  BY DEF ConfigureInterface, InterfaceFails
<1>2. /\ Here \in PairType /\ Here.k = kernel /\ Here.r = rt
      /\ kernel \in KernelType /\ rt \in RuntimeType /\ os \in {"linux", "macos"}
  BY <1>1, HereType, HostAssumption DEF TypeInv, MachineInv, OutsideInv
<1>3. /\ Routable(kernel, rt) /\ Sound(plan) /\ rt.up
      /\ Tunnelled(kernel) /\ ~Lost => plan.dflt
      /\ plan.dflt => Selected # NoPeer /\ Endpoints(plan) \subseteq plan.bypass
      /\ plan.dflt => rt.orig \/ Lost
      /\ os # "linux" => ~Lost /\ (plan.dflt => rt.wg \subseteq kernel.bypass)
  BY <1>1 DEF RouteInv, Updating, Bypassed
<1>4. ASSUME plan.dflt, ConfigureInterface
      PROVE  RouteInv'
  <2> DEFINE s == [Here EXCEPT !.k = TunnelDefault(@)]
  <2>1. s = [k |-> TunnelDefault(kernel), r |-> rt]
    BY DEF Here
  <2>2. /\ TunnelDefault(kernel) \in KernelType
        /\ TunnelDefault(kernel).bypass = kernel.bypass
        /\ TunnelDefault(kernel).default =
             IF os = "linux" THEN {"tunnel"} ELSE kernel.default \cup {"tunnel"}
    BY <1>2 DEF TunnelDefault, KernelType
  <2>3. Go("forward", plan, s)
    BY <1>4 DEF ConfigureInterface
  <2> HIDE DEF s
  <2>4. s \in PairType /\ s.k = TunnelDefault(kernel) /\ s.r = rt
    BY <1>2, <2>1, <2>2 DEF PairType
  <2>5. Routable(s.k, s.r)
    BY <1>2, <1>3, <1>4, <2>2, <2>4 DEF Routable, Tunnelled
  <2> QED BY <1>1, <1>3, <1>4, <2>2, <2>3, <2>4, <2>5, RouteGo DEF Updating
<1>5. ASSUME ~plan.dflt, ConfigureInterface
      PROVE  RouteInv'
  <2>1. Go("forward", plan, Here)
    BY <1>5 DEF ConfigureInterface
  <2> QED BY <1>1, <1>2, <1>3, <1>5, <2>1, RouteGo DEF Updating
<1>6. CASE InterfaceFails
  <2>1. PICK gone \in SUBSET (IF ~plan.dflt THEN {}
                              ELSE IF os = "linux" THEN {"underlay", "tunnel"}
                              ELSE {"tunnel"}) :
          Fail([Here EXCEPT !.k.default = @ \ gone])
    BY <1>6 DEF InterfaceFails
  <2> DEFINE s == [Here EXCEPT !.k.default = @ \ gone]
  <2>2. s = [k |-> [kernel EXCEPT !.default = @ \ gone], r |-> rt]
    BY DEF Here
  <2>3. Fail(s)
    BY <2>1
  <2> HIDE DEF s
  <2>4. /\ s \in PairType /\ s.r = rt /\ s.k.default = kernel.default \ gone
        /\ s.k.bypass = kernel.bypass
    BY <1>2, <2>2 DEF PairType, KernelType
  <2>5. Routable(s.k, s.r)
    BY <1>2, <1>3, <2>1, <2>4 DEF Routable, Tunnelled
  <2> QED BY <1>1, <1>3, <2>3, <2>4, <2>5, RouteFail DEF Tunnelled
<1> QED BY <1>4, <1>5, <1>6

(* Forwarding leaves the routes and what the runtime knows of them alone.   *)
LEMMA ForwardRoutes ==
  ASSUME NEW s \in PairType, NEW fault, OutsideInv, os # "windows"
  PROVE  LET f == IF os = "linux" THEN ForwardLinux(s, fault) ELSE ForwardMacos(s, fault)
         IN /\ f \in PairType
            /\ f.k.default = s.k.default /\ f.k.bypass = s.k.bypass
            /\ f.r.up = s.r.up /\ f.r.fp = s.r.fp /\ f.r.wg = s.r.wg
            /\ f.r.bypass = s.r.bypass /\ f.r.orig = s.r.orig
<1> DEFINE t == CleanForwarding(s)
           l == ForwardLinux(s, fault)
           m == ForwardMacos(s, fault)
<1>1. /\ t \in PairType
      /\ t.k.default = s.k.default /\ t.k.bypass = s.k.bypass
      /\ t.r.up = s.r.up /\ t.r.fp = s.r.fp /\ t.r.wg = s.r.wg
      /\ t.r.bypass = s.r.bypass /\ t.r.orig = s.r.orig
  BY CleanForwardingEffect
<1>2. l \in PairType /\ m \in PairType
  BY ForwardLinuxType, ForwardMacosType
<1> DEFINE keep6 == before.v6 /\ fault # "rules6"
           f6 == t.k.fwd6 \/ before.v6
           rules == IF keep6 THEN {"v4", "v6"} ELSE {"v4"}
           was6 == IF keep6 THEN Was(t.k.fwd6) ELSE "none"
           lk == WithRules([t.k EXCEPT !.fwd4 = TRUE, !.fwd6 = f6], rules)
           lr == [t.r EXCEPT !.out4 = DefaultDevice(s), !.out6 = keep6,
                             !.was4 = Was(t.k.fwd4), !.was6 = was6]
           mk == WithPfNat([t.k EXCEPT !.fwd4 = TRUE])
           mr == [t.r EXCEPT !.out4 = "underlay", !.was4 = Was(t.k.fwd4),
                             !.waspf = Was(t.k.pf)]
<1>3. l \in {t, s, [k |-> lk, r |-> lr]}
  BY DEF ForwardLinux
<1>4. m \in {t, s, [k |-> mk, r |-> mr]}
  BY DEF ForwardMacos
<1>5. t.k \in KernelType /\ t.r \in RuntimeType
  BY <1>1, PairFields
<1> HIDE DEF t, l, m, keep6, f6, rules, was6
<1>8. /\ lk.default = t.k.default /\ lk.bypass = t.k.bypass
       /\ lr.up = t.r.up /\ lr.fp = t.r.fp /\ lr.wg = t.r.wg
       /\ lr.bypass = t.r.bypass /\ lr.orig = t.r.orig
  BY <1>5 DEF WithRules, KernelType, RuntimeType
<1>9. /\ mk.default = t.k.default /\ mk.bypass = t.k.bypass
       /\ mr.up = t.r.up /\ mr.fp = t.r.fp /\ mr.wg = t.r.wg
       /\ mr.bypass = t.r.bypass /\ mr.orig = t.r.orig
  BY <1>5 DEF WithRules, WithPfNat, KernelType, RuntimeType
<1> HIDE DEF lk, lr, mk, mr
<1>6. /\ l.k.default = s.k.default /\ l.k.bypass = s.k.bypass
      /\ l.r.up = s.r.up /\ l.r.fp = s.r.fp /\ l.r.wg = s.r.wg
      /\ l.r.bypass = s.r.bypass /\ l.r.orig = s.r.orig
  BY <1>1, <1>3, <1>8
<1>7. /\ m.k.default = s.k.default /\ m.k.bypass = s.k.bypass
      /\ m.r.up = s.r.up /\ m.r.fp = s.r.fp /\ m.r.wg = s.r.wg
      /\ m.r.bypass = s.r.bypass /\ m.r.orig = s.r.orig
  BY <1>1, <1>4, <1>9
<1> QED BY <1>2, <1>6, <1>7 DEF l, m

LEMMA RouteForward ==
  ASSUME TypeInv, RouteInv, ForwardDone \/ ForwardFails
  PROVE  RouteInv'
<1>1. PICK fault : Forward(fault)
  BY DEF ForwardDone, ForwardFails
<1>2. UNCHANGED World /\ pc = "forward"
  BY <1>1 DEF Forward
<1>3. /\ Here \in PairType /\ Here.k = kernel /\ Here.r = rt
      /\ os # "windows" /\ plan \in PlanType /\ OutsideInv
  BY <1>2, HereType DEF TypeInv, MachineInv
<1>4. /\ Routable(kernel, rt) /\ Sound(plan)
      /\ Tunnelled(kernel) /\ ~Lost => plan.dflt
      /\ plan.dflt => Selected # NoPeer
      /\ os # "linux" => (Tunnelled(kernel) => rt.wg \subseteq kernel.bypass)
  BY <1>2 DEF RouteInv, Updating, Bypassed
<1> DEFINE f == IF os = "linux" THEN ForwardLinux(Here, fault) ELSE ForwardMacos(Here, fault)
           t == [f EXCEPT !.r.fp = plan]
<1>5. /\ f \in PairType
      /\ f.k.default = kernel.default /\ f.k.bypass = kernel.bypass
      /\ f.r.up = rt.up /\ f.r.wg = rt.wg
      /\ f.r.bypass = rt.bypass /\ f.r.orig = rt.orig
  BY <1>3, ForwardRoutes
<1>6. Finish(t) /\ (Forget(f) \/ UNCHANGED orphans)
  BY <1>1 DEF Forward
<1> HIDE DEF f
<1>7. t = [k |-> f.k, r |-> [f.r EXCEPT !.fp = plan]]
  BY <1>5 DEF PairType
<1> HIDE DEF t
<1>8. /\ t \in PairType /\ t.k = f.k /\ t.r.fp = plan /\ t.r.up = f.r.up /\ t.r.wg = f.r.wg
      /\ t.r.bypass = f.r.bypass /\ t.r.orig = f.r.orig
  BY <1>3, <1>5, <1>7, PairFields DEF PairType, RuntimeType
<1>9. OrphansGrow
  BY <1>6, <1>8 DEF Finish, Keep, Forget, OrphansGrow
<1>10. Routable(t.k, t.r)
  BY <1>3, <1>4, <1>5, <1>8 DEF Routable, Tunnelled
<1> QED BY <1>2, <1>4, <1>5, <1>6, <1>8, <1>9, <1>10, RouteFinish DEF Tunnelled

LEMMA RouteWindows ==
  ASSUME TypeInv, RouteInv, PlanWindows \/ StartWindows \/ StartWindowsFails
  PROVE  RouteInv'
<1>1. /\ UNCHANGED World /\ os = "windows"
      /\ PlanWindows => pc = "plan"
      /\ StartWindows \/ StartWindowsFails => pc = "windows"
  BY DEF PlanWindows, StartWindows, StartWindowsFails, TypeInv, MachineInv
<1>2. /\ Here \in PairType /\ Here.k = kernel /\ Here.r = rt
      /\ kernel \in KernelType /\ rt \in RuntimeType /\ plan \in PlanType
      /\ OutsideInv /\ Bare(rt)
  BY <1>1, HereType DEF TypeInv, MachineInv
<1>3. Routable(kernel, rt) /\ Sound(plan) /\ ~Lost /\ "underlay" \in kernel.default
  BY <1>1 DEF RouteInv, Routable
<1>4. plan.bypass \in SUBSET Hosts /\ Endpoints(plan) \subseteq Hosts
  BY <1>2 DEF PlanType, Endpoints
<1>5. CASE PlanWindows /\ SameTunnel
  <2>1. Return(Here) /\ rt.fp.routes = Planned.routes
    BY <1>5 DEF PlanWindows, SameTunnel
  <2>2. Tunnelled(kernel) => Selected # NoPeer
    BY <1>1, <1>3, <2>1, PlannedSound DEF Routable, Sound
  <2>3. Tunnelled(kernel) => rt.wg \subseteq kernel.bypass
    BY <1>1, <1>5 DEF RouteInv, Bypassed
  <2> QED BY <1>1, <1>2, <1>3, <2>1, <2>2, <2>3, RouteFail
<1>6. CASE PlanWindows /\ ~SameTunnel
  <2> DEFINE t == StopTunnel(Here)
  <2>1. t \in PairType /\ Routable(t.k, t.r) /\ ~Tunnelled(t.k)
    BY <1>2, <1>3, StopType, RoutableStop
  <2>2. Go("windows", Planned, t)
    BY <1>6 DEF PlanWindows
  <2> HIDE DEF t
  <2> QED BY <1>1, <2>1, <2>2, PlannedSound, RouteGo DEF Updating
<1>7. CASE StartWindows
  <2> DEFINE b == [kernel EXCEPT !.bypass = @ \cup plan.bypass]
             k == IF plan.dflt THEN TunnelDefault(b) ELSE b
             r == [rt EXCEPT !.up = TRUE, !.fp = plan, !.wg = Endpoints(plan), !.bypass = plan.bypass]
             s == [k |-> k, r |-> r]
  <2>1. b \in KernelType /\ b.bypass = kernel.bypass \cup plan.bypass /\ b.default = kernel.default
    BY <1>2, <1>4 DEF KernelType
  <2>2. /\ k \in KernelType /\ k.bypass = b.bypass
        /\ k.default = IF plan.dflt THEN b.default \cup {"tunnel"} ELSE b.default
    BY <1>1, <2>1 DEF KernelType, TunnelDefault
  <2>3. /\ r \in RuntimeType /\ r.up = TRUE /\ r.fp = plan /\ r.wg = Endpoints(plan)
        /\ r.orig = FALSE
    BY <1>2, <1>4 DEF RuntimeType, Bare
  <2>4. Return(s)
    BY <1>7 DEF StartWindows, AddBypass
  <2> HIDE DEF b, k, r
  <2>5. s \in PairType /\ s.k = k /\ s.r = r
    BY <2>2, <2>3 DEF PairType
  <2> HIDE DEF s
  <2>6. /\ ~Tunnelled(kernel)
        /\ plan.dflt => Selected # NoPeer /\ Endpoints(plan) \subseteq plan.bypass
    BY <1>1, <1>7 DEF RouteInv
  <2>7. Tunnelled(s.k) => plan.dflt
    BY <2>1, <2>2, <2>5, <2>6 DEF Tunnelled
  <2>8. Routable(s.k, s.r)
    BY <1>1, <1>3, <2>1, <2>2, <2>3, <2>5, <2>7 DEF Routable
  <2> QED BY <1>1, <2>1, <2>2, <2>3, <2>4, <2>5, <2>6, <2>7, <2>8, RouteFail
<1>8. CASE StartWindowsFails
  <2> DEFINE a == [Here EXCEPT !.k = DropBypass(@, plan.bypass)]
             b == [Here EXCEPT !.k = AddBypass(@, plan.bypass)]
  <2>1. Fail(a) \/ FailForgetting(b) \/ Fail(Here)
    BY <1>8 DEF StartWindowsFails
  <2>2. /\ DropBypass(kernel, plan.bypass) \in KernelType
        /\ DropBypass(kernel, plan.bypass).default = kernel.default
        /\ AddBypass(kernel, plan.bypass) \in KernelType
        /\ AddBypass(kernel, plan.bypass).default = kernel.default
    BY <1>2, <1>4 DEF KernelType, DropBypass, AddBypass
  <2>3. /\ a = [k |-> DropBypass(kernel, plan.bypass), r |-> rt]
        /\ b = [k |-> AddBypass(kernel, plan.bypass), r |-> rt]
    BY DEF Here
  <2>4. /\ a \in PairType /\ b \in PairType /\ a.r = rt /\ b.r = rt
        /\ a.k.default = kernel.default /\ b.k.default = kernel.default
    BY <1>2, <2>2, <2>3 DEF PairType
  <2> HIDE DEF a, b
  <2>5. ~Tunnelled(kernel)
    BY <1>1, <1>8 DEF RouteInv
  <2>6. /\ Routable(a.k, a.r) /\ ~Tunnelled(a.k)
        /\ Routable(b.k, b.r) /\ ~Tunnelled(b.k)
    BY <1>1, <1>3, <2>4, <2>5 DEF Routable, Tunnelled
  <2> QED BY <1>1, <1>2, <1>3, <2>1, <2>4, <2>5, <2>6, RouteFail
<1> QED BY <1>5, <1>6, <1>7, <1>8

(* What a repair does to the default route. *)
LEMMA RepairDefault ==
  ASSUME TypeInv, RepairSavedNetworkState
  PROVE  /\ kernel'.default \in {kernel.default, {"underlay"}}
         /\ os # "macos" => UNCHANGED kernel
<1>1. kernel \in KernelType
  BY DEF TypeInv, MachineInv
<1>2. \A k \in KernelType : RepairLegacy(k).default = {"underlay"}
  BY DEF RepairLegacy, KernelType, UnderlayDefault, WithoutRules
<1>3. CASE os = "macos" /\ file # NoFile
  <2>1. PICK failed \in IF MayFail("repair") THEN SUBSET (kernel.bypass \cap file.bypass) ELSE {{}} :
          kernel' = RepairSaved(kernel, failed)
    BY <1>3 DEF RepairSavedNetworkState
  <2>2. failed \subseteq kernel.bypass
    BY <2>1
  <2> DEFINE b == (kernel.bypass \ ManagedRoutes) \cup failed
             d == IF file.orig THEN {"underlay"} ELSE kernel.default
             u == IF file.waspf # "none" THEN {} ELSE kernel.rules
             f == kernel.pf /\ file.waspf # "off"
             g == IF file.was4 = "none" THEN kernel.fwd4 ELSE file.was4 = "on"
             t == [kernel EXCEPT !.bypass = b, !.default = d, !.rules = u, !.pf = f, !.fwd4 = g]
  <2>3. /\ b \in SUBSET Hosts /\ d \in SUBSET {"underlay", "tunnel"}
        /\ d \in {kernel.default, {"underlay"}}
        /\ u \in SUBSET {"v4", "v6"} /\ f \in BOOLEAN /\ g \in BOOLEAN
    BY <1>1, <2>2 DEF KernelType
  <2>4. RepairSaved(kernel, failed) \in {t, RepairLegacy(t)}
    BY DEF RepairSaved
  <2> HIDE DEF b, d, u, f, g
  <2>5. t \in KernelType /\ t.default = d
    BY <1>1, <2>3 DEF KernelType
  <2> HIDE DEF t
  <2> QED BY <1>2, <1>3, <2>1, <2>3, <2>4, <2>5
<1>4. CASE os # "macos" \/ file = NoFile
  BY <1>1, <1>2, <1>4 DEF RepairSavedNetworkState
<1> QED BY <1>3, <1>4

LEMMA RouteSession ==
  ASSUME TypeInv, RouteInv, Next, ~Apply
  PROVE  RouteInv'
<1>1. /\ Here \in PairType /\ Here.k = kernel /\ Here.r = rt
      /\ kernel \in KernelType /\ rt \in RuntimeType /\ OutsideInv
      /\ os = "windows" => Bare(rt)
  BY HereType DEF TypeInv, MachineInv
<1>2. Routable(kernel, rt)
  BY DEF RouteInv
<1>3. ASSUME UNCHANGED <<os, kernel, rt, plan, orphans>>,
             pc' \in {pc, "plan", "down"}, pc' # pc => pc \in {"idle", "down"},
             pc' = pc => UNCHANGED <<cfg, on, peers>> \/ pc' = "down"
      PROVE  RouteInv'
  <2>1. Lost' = Lost /\ Routable(kernel, rt)' /\ Sound(plan)'
    BY <1>2, <1>3 DEF Lost, Routable, Tunnelled, Sound, RouteInv
  <2>2. UNCHANGED <<cfg, on, peers>> => Selected' = Selected
    BY DEF Selected, Known
  <2>3. pc = "down" => ~Tunnelled(kernel)
    BY <1>2 DEF Routable, TypeInv, MachineInv, NewRuntime
  <2>4. CASE pc' = pc /\ pc' # "down"
    BY <1>3, <2>1, <2>2, <2>4 DEF RouteInv, Updating, Tunnelled, Bypassed, Endpoints
  <2>5. CASE pc' = "down"
    BY <1>3, <2>1, <2>3, <2>5 DEF RouteInv, Updating, Tunnelled, Bypassed
  <2>6. CASE pc' = "plan" /\ pc' # pc
    BY <1>3, <2>1, <2>3, <2>6 DEF RouteInv, Updating, Tunnelled, Bypassed
  <2> QED BY <1>3, <2>4, <2>5, <2>6
<1>4. CASE PeerChanges \/ Reload \/ PauseOrResume \/ HandshakeChanges \/ Refresh
  BY <1>3, <1>4 DEF PeerChanges, Reload, PauseOrResume, HandshakeChanges, Refresh, Quiet, Update
<1>5. CASE NatPunch
  <2> DEFINE t == StopTunnel(Here)
  <2>1. t \in PairType /\ Routable(t.k, t.r) /\ ~Tunnelled(t.k)
    BY <1>1, <1>2, StopType, RoutableStop
  <2>2. Go("plan", NoPlan, t) /\ UNCHANGED World
    BY <1>5 DEF NatPunch
  <2> HIDE DEF t
  <2> QED BY <2>1, <2>2, SoundNoPlan, RouteGo DEF Updating
<1>6. CASE Tick
  <2>1. /\ OrphansGrow /\ UNCHANGED <<os, cfg, on, peers, kernel, rt, plan, pc>> /\ pc = "idle"
    BY <1>1, <1>6 DEF Tick, World, PersistCleanup, OrphansGrow
  <2>2. (Lost => Lost') /\ (os # "linux" => ~Lost')
    BY <1>1, <1>2, <2>1, LostGrows DEF Routable
  <2>3. Routable(kernel, rt)' /\ Sound(plan)' /\ Selected' = Selected
    BY <1>2, <2>1, <2>2 DEF Routable, Tunnelled, Sound, RouteInv, Selected, Known
  <2> QED BY <2>1, <2>2, <2>3 DEF RouteInv, Updating, Tunnelled, Bypassed
<1>7. CASE Start \/ RepairNetwork
  <2>1. /\ RepairSavedNetworkState /\ UNCHANGED <<os, rt, plan, orphans>>
        /\ pc = "down" /\ pc' \in {"plan", "down"} /\ rt = NewRuntime
    BY <1>7 DEF Start, RepairNetwork, World, TypeInv, MachineInv
  <2>2. /\ kernel'.default \in {kernel.default, {"underlay"}}
        /\ os # "macos" => UNCHANGED kernel
    BY <2>1, RepairDefault
  <2>3. rt.up = FALSE /\ rt.bypass = {} /\ rt.orig = FALSE /\ ~Tunnelled(kernel)
    BY <1>2, <2>1 DEF NewRuntime, Routable
  <2>4. ~Tunnelled(kernel)'
    BY <2>2, <2>3 DEF Tunnelled
  <2>5. Lost' = Lost /\ Sound(rt.fp)' /\ Sound(plan)'
    BY <1>2, <2>1 DEF Lost, Sound, Routable, RouteInv
  <2>6. Routable(kernel, rt)'
    BY <1>2, <2>1, <2>2, <2>3, <2>4, <2>5 DEF Routable
  <2> QED BY <2>1, <2>4, <2>5, <2>6 DEF RouteInv, Updating
<1>8. CASE Shutdown
  <2> DEFINE t == StopTunnel(Here)
  <2>1. t \in PairType /\ Routable(t.k, t.r) /\ ~Tunnelled(t.k)
    BY <1>1, <1>2, StopType, RoutableStop
  <2>2. /\ kernel' = t.k /\ rt' = t.r /\ pc' = "down" /\ UNCHANGED <<os, plan>> /\ OrphansGrow
    BY <1>8 DEF Shutdown, Keep, PersistCleanup, OrphansGrow
  <2> HIDE DEF t
  <2>3. (Lost => Lost') /\ (os # "linux" => ~Lost')
    BY <2>1, <2>2, PairFields, LostGrows DEF Routable
  <2>4. Routable(kernel, rt)' /\ Sound(plan)'
    BY <2>1, <2>2, <2>3 DEF Routable, Tunnelled, Sound, RouteInv
  <2> QED BY <2>2, <2>3, <2>4 DEF RouteInv, Updating
<1>9. CASE Crash
  BY <1>1, <1>2, <1>9, RouteDie DEF Crash, World
<1> QED BY <1>4, <1>5, <1>6, <1>7, <1>8, <1>9 DEF Next

LEMMA RouteInit == Init => RouteInv
<1> SUFFICES ASSUME Init PROVE RouteInv
  OBVIOUS
<1>1. /\ kernel.default = {"underlay"} /\ kernel.bypass = {} /\ rt = NewRuntime
      /\ plan = NoPlan /\ pc = "down" /\ orphans = {}
  BY DEF Init
<1>2. NewRuntime.bypass = {} /\ NewRuntime.fp = NoPlan
  BY DEF NewRuntime
<1> QED BY <1>1, <1>2, SoundNoPlan DEF RouteInv, Routable, Tunnelled, Lost, Updating

LEMMA RouteStep == TypeInv /\ RouteInv /\ [Next]_vars => RouteInv'
<1> SUFFICES ASSUME TypeInv, RouteInv, [Next]_vars PROVE RouteInv'
  OBVIOUS
<1>1. CASE UNCHANGED vars
  BY <1>1 DEF vars, RouteInv, Routable, Tunnelled, Lost, Sound, Selected, Known, Bypassed, Endpoints
<1>2. CASE Apply
  BY <1>2, RoutePlan, RouteDevice, RouteBypass, RouteInterface, RouteForward, RouteWindows DEF Apply
<1>3. CASE Next /\ ~Apply
  BY <1>3, RouteSession
<1> QED BY <1>1, <1>2, <1>3 DEF Next

LEMMA RouteImplies == TypeInv /\ RouteInv => DefaultRouteGuarded
<1> SUFFICES ASSUME TypeInv, RouteInv PROVE DefaultRouteGuarded
  OBVIOUS
<1>1. BypassBeforeDefault
  BY DEF RouteInv, BypassBeforeDefault, Tunnelled, Bypassed
<1>2. ASSUME pc = "idle", <<"missing", "underlay">> \notin orphans, "tunnel" \in kernel.default
      PROVE  rt.up /\ Selected # NoPeer
  BY <1>2 DEF RouteInv, Routable, Tunnelled, Lost
<1>3. Cardinality({p \in DOMAIN rt.fp.routes : "default" \in rt.fp.routes[p]}) <= 1
  <2> DEFINE S == {p \in DOMAIN rt.fp.routes : "default" \in rt.fp.routes[p]}
  <2>1. \A a, b \in S : a = b
    BY DEF RouteInv, Routable, Sound
  <2> HIDE DEF S
  <2>2. S = {} => Cardinality(S) <= 1
    BY FS_EmptySet
  <2>3. ASSUME NEW a \in S PROVE Cardinality(S) <= 1
    <3>1. S = {a}
      BY <2>1
    <3> QED BY <3>1, FS_Singleton
  <2>4. Cardinality(S) <= 1
    BY <2>2, <2>3
  <2> QED BY <2>4 DEF S
<1>4. DefaultFollowsSelection
  BY <1>2, <1>3 DEF DefaultFollowsSelection
<1> QED BY <1>1, <1>4 DEF DefaultRouteGuarded

(* Whatever fails, and whenever the process dies: on macOS and Windows the  *)
(* tunnel has the default route only with a bypass route to every address   *)
(* WireGuard sends to, and nowhere without a selected exit node, which is   *)
(* the only peer with the default route (CliTunnelRuntime::apply).          *)
THEOREM HostDefaultRouteGuarded == Spec => []DefaultRouteGuarded
<1>1. Spec => [](TypeInv /\ RouteInv)
  <2>1. Init => TypeInv /\ RouteInv
    BY TypeInit, RouteInit
  <2>2. TypeInv /\ RouteInv /\ [Next]_vars => (TypeInv /\ RouteInv)'
    BY TypeStep, RouteStep
  <2> QED BY <2>1, <2>2, PTL DEF Spec
<1> QED BY <1>1, RouteImplies, PTL

-----------------------------------------------------------------------------
(* Who knows of a change to the machine. *)

(* Every difference between k and the machine before is known to the        *)
(* runtime r or listed in X: Leftovers(k) \subseteq RememberedBy(r) \cup X, *)
(* difference by difference.                                                *)
Explained(k, r, X) ==
  /\ \A h \in k.bypass : h \in r.bypass \/ <<"bypass", h>> \in X
  /\ "v4" \in k.rules => r.out4 # "none" \/ <<"rules", "v4">> \in X
  /\ "v6" \in k.rules => r.out6 \/ <<"rules", "v6">> \in X
  /\ "underlay" \notin k.default => r.orig \/ <<"missing", "underlay">> \in X
  /\ "tunnel" \in k.default => r.up \/ <<"default", "tunnel">> \in X
  /\ ~before.fwd /\ k.fwd4 => r.was4 = "off" \/ <<"forward", "v4">> \in X
  /\ ~before.fwd /\ k.fwd6 => r.was6 = "off" \/ <<"forward", "v6">> \in X
  /\ k.pf /\ ~before.pf => r.waspf = "off" \/ <<"pf", TRUE>> \in X

LEMMA ExplainedLeftovers ==
  ASSUME OutsideInv, NEW k \in KernelType, NEW r \in RuntimeType, NEW X
  PROVE  Explained(k, r, X) <=> Leftovers(k) \subseteq RememberedBy(r) \cup X
<1>0. /\ k.fwd4 \in BOOLEAN /\ k.fwd6 \in BOOLEAN /\ k.pf \in BOOLEAN
      /\ k.rules \subseteq {"v4", "v6"} /\ k.default \subseteq {"underlay", "tunnel"}
      /\ before.pf \in BOOLEAN
  BY DEF KernelType, OutsideInv
<1>1. ASSUME Explained(k, r, X), NEW x \in Leftovers(k)
      PROVE  x \in RememberedBy(r) \cup X
  <2>1. \/ \E h \in k.bypass : x = <<"bypass", h>>
        \/ x = <<"rules", "v4">> /\ "v4" \in k.rules
        \/ x = <<"rules", "v6">> /\ "v6" \in k.rules
        \/ x = <<"missing", "underlay">> /\ "underlay" \notin k.default
        \/ x = <<"default", "tunnel">> /\ "tunnel" \in k.default
        \/ x = <<"forward", "v4">> /\ ~before.fwd /\ k.fwd4
        \/ x = <<"forward", "v6">> /\ ~before.fwd /\ k.fwd6
        \/ x = <<"pf", TRUE>> /\ k.pf /\ ~before.pf
    BY <1>0, <1>1 DEF Leftovers
  <2> QED BY <1>1, <2>1 DEF Explained, RememberedBy
<1>2. ASSUME Leftovers(k) \subseteq RememberedBy(r) \cup X
      PROVE  Explained(k, r, X)
  <2>1. /\ \A h : <<"bypass", h>> \in RememberedBy(r) <=> h \in r.bypass
        /\ <<"rules", "v4">> \in RememberedBy(r) <=> r.out4 # "none"
        /\ <<"rules", "v6">> \in RememberedBy(r) <=> r.out6
        /\ <<"missing", "underlay">> \in RememberedBy(r) <=> r.orig
        /\ <<"default", "tunnel">> \in RememberedBy(r) <=> r.up
        /\ <<"forward", "v4">> \in RememberedBy(r) <=> r.was4 = "off"
        /\ <<"forward", "v6">> \in RememberedBy(r) <=> r.was6 = "off"
        /\ <<"pf", TRUE>> \in RememberedBy(r) <=> r.waspf = "off"
    BY DEF RememberedBy
  <2>2. /\ \A h \in k.bypass : <<"bypass", h>> \in Leftovers(k)
        /\ \A f \in k.rules : <<"rules", f>> \in Leftovers(k)
        /\ "underlay" \notin k.default => <<"missing", "underlay">> \in Leftovers(k)
        /\ "tunnel" \in k.default => <<"default", "tunnel">> \in Leftovers(k)
        /\ ~before.fwd /\ k.fwd4 => <<"forward", "v4">> \in Leftovers(k)
        /\ ~before.fwd /\ k.fwd6 => <<"forward", "v6">> \in Leftovers(k)
        /\ k.pf /\ ~before.pf => <<"pf", TRUE>> \in Leftovers(k)
    BY <1>0 DEF Leftovers
  <2> QED BY <1>2, <2>1, <2>2 DEF Explained
<1> QED BY <1>1, <1>2

(* On macOS a runtime has no IPv6 forwarding, remembers PF with its rules,  *)
(* and has found forwarding on only where it was on before nostr-vpn, or    *)
(* where somebody had forgotten it; Linux has no PF.                        *)
Steady(r) ==
  /\ os = "linux" => r.waspf = "none"
  /\ os = "macos" =>
       /\ r.out6 = FALSE /\ r.was6 = "none"
       /\ r.out4 # "none" => r.waspf # "none"
       /\ r.was4 = "on" => before.fwd \/ <<"forward", "v4">> \in orphans

(* A pair that is explained by its runtime and by X, orphans among them.    *)
Settled(s, X) ==
  /\ s \in PairType /\ Explained(s.k, s.r, X) /\ Steady(s.r)
  /\ orphans \subseteq X
  /\ <<"forward", "v4">> \in X => <<"forward", "v4">> \in orphans

LEMMA SettledCapture ==
  ASSUME NEW X, NEW s, Settled(s, X)
  PROVE  Settled(CaptureDefault(s), X)
<1>1. s \in PairType /\ s.r \in RuntimeType
  BY PairFields DEF Settled
<1> DEFINE c == CaptureDefault(s)
<1>2. c \in PairType /\ c.k = s.k /\ c.r \in {[s.r EXCEPT !.orig = TRUE], s.r}
  BY <1>1, CaptureDefaultEffect
<1> HIDE DEF c
<1>3. /\ c.r.up = s.r.up /\ c.r.bypass = s.r.bypass /\ c.r.out4 = s.r.out4
      /\ c.r.out6 = s.r.out6 /\ c.r.was4 = s.r.was4 /\ c.r.was6 = s.r.was6
      /\ c.r.waspf = s.r.waspf /\ (s.r.orig => c.r.orig)
  BY <1>1, <1>2 DEF RuntimeType
<1> QED BY <1>2, <1>3 DEF Settled, Explained, Steady, c

LEMMA SettledRestore ==
  ASSUME NEW X, NEW s, Settled(s, X)
  PROVE  Settled(RestoreDefault(s), X)
<1>1. s \in PairType /\ s.r \in RuntimeType /\ s.k \in KernelType
  BY PairFields DEF Settled
<1> DEFINE c == RestoreDefault(s)
<1>2. /\ c \in PairType /\ c.r = [s.r EXCEPT !.orig = FALSE]
      /\ c.k = IF s.r.orig THEN [s.k EXCEPT !.default = {"underlay"}] ELSE s.k
  BY <1>1, RestoreDefaultEffect
<1> HIDE DEF c
<1>3. /\ c.r.up = s.r.up /\ c.r.bypass = s.r.bypass /\ c.r.out4 = s.r.out4
      /\ c.r.out6 = s.r.out6 /\ c.r.was4 = s.r.was4 /\ c.r.was6 = s.r.was6
      /\ c.r.waspf = s.r.waspf
  BY <1>1, <1>2 DEF RuntimeType
<1>4. /\ c.k.bypass = s.k.bypass /\ SameForwarding(c.k, s.k)
      /\ c.k.default = IF s.r.orig THEN {"underlay"} ELSE s.k.default
  BY <1>1, <1>2 DEF KernelType, SameForwarding
<1> QED BY <1>2, <1>3, <1>4 DEF Settled, Explained, Steady, SameForwarding, c

LEMMA SettledReconcile ==
  ASSUME NEW X, NEW s, Settled(s, X), NEW want \in SUBSET Hosts, NEW failed \in SUBSET want
  PROVE  Settled(ReconcileBypass(s, want, failed), X)
<1>1. s \in PairType /\ s.r \in RuntimeType /\ s.k \in KernelType
  BY PairFields DEF Settled
<1> DEFINE c == ReconcileBypass(s, want, failed)
<1>2. /\ c \in PairType
      /\ c.k = [s.k EXCEPT !.bypass = (@ \ (s.r.bypass \ want)) \cup (want \ failed)]
      /\ c.r = [s.r EXCEPT !.bypass =
                  IF os = "linux" THEN want
                  ELSE (s.r.bypass \cap want) \cup (want \ failed)]
  BY <1>1, ReconcileBypassEffect
<1> HIDE DEF c
<1>3. /\ c.r.up = s.r.up /\ c.r.orig = s.r.orig /\ c.r.out4 = s.r.out4
      /\ c.r.out6 = s.r.out6 /\ c.r.was4 = s.r.was4 /\ c.r.was6 = s.r.was6
      /\ c.r.waspf = s.r.waspf
      /\ (s.r.bypass \cap want) \cup (want \ failed) \subseteq c.r.bypass
  BY <1>1, <1>2 DEF RuntimeType
<1>4. /\ c.k.default = s.k.default /\ SameForwarding(c.k, s.k)
      /\ c.k.bypass = (s.k.bypass \ (s.r.bypass \ want)) \cup (want \ failed)
  BY <1>1, <1>2 DEF KernelType, SameForwarding
<1>5. \A h \in c.k.bypass : h \in c.r.bypass \/ <<"bypass", h>> \in X
  BY <1>3, <1>4 DEF Settled, Explained
<1> QED BY <1>2, <1>3, <1>4, <1>5 DEF Settled, Explained, Steady, SameForwarding, c

LEMMA SettledClean ==
  ASSUME NEW X, NEW s, Settled(s, X), os \in {"linux", "macos"}
  PROVE  Settled(CleanForwarding(s), X)
<1>1. s \in PairType /\ s.r \in RuntimeType /\ s.k \in KernelType
  BY PairFields DEF Settled
<1> DEFINE c == CleanForwarding(s)
<1>2. /\ c \in PairType
      /\ c.k.default = s.k.default /\ c.k.bypass = s.k.bypass
      /\ c.r.up = s.r.up /\ c.r.bypass = s.r.bypass /\ c.r.orig = s.r.orig
      /\ c.r = NoForwarding(s.r)
  BY <1>1, CleanForwardingEffect
<1>3. os = "linux" =>
        /\ c.k.rules = s.k.rules \ ((IF s.r.out4 # "none" THEN {"v4"} ELSE {})
                                    \cup (IF s.r.out6 THEN {"v6"} ELSE {}))
        /\ c.k.fwd4 = (s.k.fwd4 /\ s.r.was4 # "off")
        /\ c.k.fwd6 = (s.k.fwd6 /\ s.r.was6 # "off")
        /\ c.k.pf = s.k.pf
  BY <1>1, CleanForwardingEffect
<1>4. os = "macos" =>
        /\ c.k.rules = s.k.rules \ {"v4"}
        /\ c.k.fwd4 = IF s.r.was4 = "none" THEN s.k.fwd4 ELSE s.r.was4 = "on"
        /\ c.k.fwd6 = s.k.fwd6
        /\ c.k.pf = (s.k.pf /\ s.r.waspf # "off")
  BY <1>1, CleanForwardingEffect
<1> HIDE DEF c
<1>5. /\ c.r.out4 = "none" /\ c.r.out6 = FALSE /\ c.r.was4 = "none"
      /\ c.r.was6 = "none" /\ c.r.waspf = "none"
  BY <1>1, <1>2 DEF NoForwarding, RuntimeType
<1>6. /\ \A h \in s.k.bypass : h \in s.r.bypass \/ <<"bypass", h>> \in X
      /\ "v4" \in s.k.rules => s.r.out4 # "none" \/ <<"rules", "v4">> \in X
      /\ "v6" \in s.k.rules => s.r.out6 \/ <<"rules", "v6">> \in X
      /\ "underlay" \notin s.k.default => s.r.orig \/ <<"missing", "underlay">> \in X
      /\ "tunnel" \in s.k.default => s.r.up \/ <<"default", "tunnel">> \in X
      /\ ~before.fwd /\ s.k.fwd4 => s.r.was4 = "off" \/ <<"forward", "v4">> \in X
      /\ ~before.fwd /\ s.k.fwd6 => s.r.was6 = "off" \/ <<"forward", "v6">> \in X
      /\ s.k.pf /\ ~before.pf => s.r.waspf = "off" \/ <<"pf", TRUE>> \in X
  BY DEF Settled, Explained
<1>7. /\ os = "linux" => s.r.waspf = "none"
      /\ os = "macos" => /\ s.r.out6 = FALSE /\ s.r.was6 = "none"
                         /\ s.r.was4 = "on" => before.fwd \/ <<"forward", "v4">> \in X
  BY DEF Settled, Steady
<1>8. /\ "v4" \in c.k.rules => <<"rules", "v4">> \in X
      /\ "v6" \in c.k.rules => <<"rules", "v6">> \in X
  BY <1>3, <1>4, <1>6, <1>7
<1>9. /\ ~before.fwd /\ c.k.fwd4 => <<"forward", "v4">> \in X
      /\ ~before.fwd /\ c.k.fwd6 => <<"forward", "v6">> \in X
      /\ c.k.pf /\ ~before.pf => <<"pf", TRUE>> \in X
  <2>1. CASE os = "linux"
    BY <1>3, <1>6, <1>7, <2>1
  <2>2. CASE os = "macos"
    BY <1>4, <1>6, <1>7, <2>2
  <2> QED BY <2>1, <2>2
<1>10. Explained(c.k, c.r, X)
  BY <1>2, <1>6, <1>8, <1>9 DEF Explained
<1>11. Steady(c.r)
  BY <1>5 DEF Steady
<1> QED BY <1>2, <1>10, <1>11 DEF Settled, c

(* After the rules are gone, only X explains what is left of forwarding.    *)
LEMMA CleanedForwarding ==
  ASSUME NEW X, NEW s, Settled(s, X), os \in {"linux", "macos"}
  PROVE  LET c == CleanForwarding(s)
         IN /\ "v4" \in c.k.rules => <<"rules", "v4">> \in X
            /\ "v6" \in c.k.rules => <<"rules", "v6">> \in X
            /\ ~before.fwd /\ c.k.fwd4 => <<"forward", "v4">> \in X
            /\ ~before.fwd /\ c.k.fwd6 => <<"forward", "v6">> \in X
            /\ c.k.pf /\ ~before.pf => <<"pf", TRUE>> \in X
            /\ c.r.out4 = "none" /\ c.r.out6 = FALSE /\ c.r.was4 = "none"
            /\ c.r.was6 = "none" /\ c.r.waspf = "none"
<1> DEFINE c == CleanForwarding(s)
<1>1. s \in PairType /\ s.r \in RuntimeType
  BY PairFields DEF Settled
<1>2. Settled(c, X)
  BY SettledClean
<1>3. c.r = NoForwarding(s.r)
  BY <1>1, CleanForwardingEffect
<1> HIDE DEF c
<1>4. /\ c.r.out4 = "none" /\ c.r.out6 = FALSE /\ c.r.was4 = "none"
      /\ c.r.was6 = "none" /\ c.r.waspf = "none"
  BY <1>1, <1>3 DEF NoForwarding, RuntimeType
<1> QED BY <1>2, <1>4 DEF Settled, Explained, c

LEMMA SettledStop ==
  ASSUME OutsideInv, NEW X, NEW s, Settled(s, X), os = "windows" => Bare(s.r)
  PROVE  Settled(StopTunnel(s), X)
<1>1. s \in PairType /\ s.r \in RuntimeType /\ s.k \in KernelType
  BY PairFields DEF Settled
<1>2. StopTunnel(s) \in PairType /\ StopTunnel(s).r = NewRuntime
  BY <1>1, StopType
<1>3. Explained(s.k, s.r, X)
  BY DEF Settled
<1>4. /\ NewRuntime.bypass = {} /\ NewRuntime.out6 = FALSE /\ NewRuntime.out4 = "none"
      /\ NewRuntime.was4 = "none" /\ NewRuntime.was6 = "none" /\ NewRuntime.waspf = "none"
  BY DEF NewRuntime
<1>5. Steady(NewRuntime)
  BY <1>4 DEF Steady
<1>6. CASE os = "windows"
  <2>1. StopTunnel(s).k = [s.k EXCEPT !.default = @ \ {"tunnel"}, !.bypass = @ \ s.r.bypass]
    BY <1>1, <1>6, StopWindowsEffect
  <2>2. /\ StopTunnel(s).k.default = s.k.default \ {"tunnel"}
        /\ StopTunnel(s).k.bypass = s.k.bypass \ s.r.bypass
        /\ SameForwarding(StopTunnel(s).k, s.k)
    BY <1>1, <2>1 DEF KernelType, SameForwarding
  <2>3. Explained(StopTunnel(s).k, NewRuntime, X)
    BY <1>3, <1>6, <2>2 DEF Explained, SameForwarding, Bare
  <2> QED BY <1>2, <1>5, <2>3 DEF Settled
<1>7. CASE os # "windows"
  <2>1. os \in {"linux", "macos"}
    BY <1>7, HostAssumption DEF OutsideInv
  <2>2. /\ StopTunnel(s).k.default = IF s.r.orig THEN {"underlay"} ELSE s.k.default \ {"tunnel"}
        /\ StopTunnel(s).k.bypass = s.k.bypass \ s.r.bypass
        /\ SameForwarding(StopTunnel(s).k, CleanForwarding(s).k)
    BY <1>1, <2>1, StopUnixEffect
  <2>3. /\ \A h \in StopTunnel(s).k.bypass : <<"bypass", h>> \in X
        /\ "underlay" \notin StopTunnel(s).k.default => <<"missing", "underlay">> \in X
        /\ "tunnel" \notin StopTunnel(s).k.default
    BY <1>3, <2>2 DEF Explained
  <2>4. Explained(StopTunnel(s).k, NewRuntime, X)
    BY <2>1, <2>2, <2>3, CleanedForwarding DEF Explained, SameForwarding
  <2> QED BY <1>2, <1>5, <2>4 DEF Settled
<1> QED BY <1>6, <1>7

LEMMA SettledForward ==
  ASSUME OutsideInv, NEW X, NEW s, NEW fault, Settled(s, X), os \in {"linux", "macos"}
  PROVE  LET f == IF os = "linux" THEN ForwardLinux(s, fault) ELSE ForwardMacos(s, fault)
         IN /\ f \in PairType /\ Steady(f.r)
            /\ os # "linux" \/ fault # "rules6" => Settled(f, X)
<1> DEFINE t == CleanForwarding(s)
<1>1. s \in PairType /\ t \in PairType /\ t.k \in KernelType /\ t.r \in RuntimeType
  BY SettledClean, PairFields DEF Settled
<1>2. Settled(t, X) /\ Steady(s.r) /\ Steady(t.r)
  BY SettledClean DEF Settled
<1>3. /\ "v4" \in t.k.rules => <<"rules", "v4">> \in X
      /\ "v6" \in t.k.rules => <<"rules", "v6">> \in X
      /\ ~before.fwd /\ t.k.fwd4 => <<"forward", "v4">> \in X
      /\ ~before.fwd /\ t.k.fwd6 => <<"forward", "v6">> \in X
      /\ t.k.pf /\ ~before.pf => <<"pf", TRUE>> \in X
      /\ t.r.out4 = "none" /\ t.r.out6 = FALSE /\ t.r.was4 = "none"
      /\ t.r.was6 = "none" /\ t.r.waspf = "none"
  BY CleanedForwarding
<1>4. /\ \A h \in t.k.bypass : h \in t.r.bypass \/ <<"bypass", h>> \in X
      /\ "underlay" \notin t.k.default => t.r.orig \/ <<"missing", "underlay">> \in X
      /\ "tunnel" \in t.k.default => t.r.up \/ <<"default", "tunnel">> \in X
      /\ orphans \subseteq X /\ (<<"forward", "v4">> \in X => <<"forward", "v4">> \in orphans)
  BY <1>2 DEF Settled, Explained
<1>5. \A b \in BOOLEAN : Was(b) \in {"on", "off"} /\ (Was(b) = "off" <=> ~b)
  BY DEF Was
<1>6. t.k.fwd4 \in BOOLEAN /\ t.k.fwd6 \in BOOLEAN /\ t.k.pf \in BOOLEAN /\ before.v6 \in BOOLEAN
  BY <1>1 DEF KernelType, OutsideInv
<1>7. CASE os = "linux"
  <2> DEFINE keep6 == before.v6 /\ fault # "rules6"
             f6 == t.k.fwd6 \/ before.v6
             rules == IF keep6 THEN {"v4", "v6"} ELSE {"v4"}
             was6 == IF keep6 THEN Was(t.k.fwd6) ELSE "none"
             l == ForwardLinux(s, fault)
             dd == DefaultDevice(s)
             w4 == Was(t.k.fwd4)
             lk == WithRules([t.k EXCEPT !.fwd4 = TRUE, !.fwd6 = f6], rules)
             lr == [t.r EXCEPT !.out4 = dd, !.out6 = keep6, !.was4 = w4, !.was6 = was6]
  <2>1. l \in {t, s, [k |-> lk, r |-> lr]}
    BY DEF ForwardLinux
  <2>2. l \in PairType
    BY <1>1, ForwardLinuxType
  <2>3. dd # "none"
    BY DEF DefaultDevice
  <2>4. /\ keep6 => was6 = Was(t.k.fwd6)
        /\ fault # "rules6" => keep6 = before.v6
        /\ "v6" \in rules => keep6
        /\ "v4" \in rules /\ keep6 \in BOOLEAN /\ rules \subseteq {"v4", "v6"}
    <3>1. fault # "rules6" => keep6 = before.v6
      BY <1>6
    <3> QED BY <3>1
  <2> HIDE DEF keep6, was6, dd, rules, l, w4
  <2>41. f6 \in BOOLEAN /\ f6 = (t.k.fwd6 \/ before.v6)
    OBVIOUS
  <2> HIDE DEF t, f6
  <2>5. /\ lk.default = t.k.default /\ lk.bypass = t.k.bypass /\ lk.pf = t.k.pf
        /\ lk.rules = t.k.rules \cup rules /\ lk.fwd4 = TRUE /\ lk.fwd6 = f6
        /\ lr.up = t.r.up /\ lr.bypass = t.r.bypass /\ lr.orig = t.r.orig
        /\ lr.out4 = dd /\ lr.out6 = keep6 /\ lr.was4 = w4 /\ lr.was6 = was6
        /\ lr.waspf = t.r.waspf
    BY <1>1 DEF WithRules, KernelType, RuntimeType
  <2> HIDE DEF lk, lr
  <2>6. Steady(lr)
    BY <1>3, <1>7, <2>5 DEF Steady
  <2>7. ASSUME fault # "rules6" PROVE Explained(lk, lr, X)
    <3>1. ~before.fwd => lr.was4 = "off" \/ <<"forward", "v4">> \in X
      BY <1>3, <1>5, <1>6, <2>5 DEF w4
    <3>2. ~before.fwd /\ lk.fwd6 => lr.was6 = "off" \/ <<"forward", "v6">> \in X
      BY <1>3, <1>5, <1>6, <2>4, <2>41, <2>5, <2>7
    <3>3. /\ lr.out4 # "none"
          /\ "v6" \in lk.rules => lr.out6 \/ <<"rules", "v6">> \in X
      BY <1>3, <2>3, <2>4, <2>5
    <3> QED BY <1>3, <1>4, <2>5, <3>1, <3>2, <3>3 DEF Explained
  <2>8. [k |-> lk, r |-> lr].k = lk /\ [k |-> lk, r |-> lr].r = lr
    OBVIOUS
  <2>9. Steady(l.r) /\ (fault # "rules6" => Settled(l, X))
    BY <1>2, <1>4, <2>1, <2>2, <2>6, <2>7, <2>8 DEF Settled
  <2> QED BY <1>7, <2>2, <2>9 DEF l
<1>8. CASE os = "macos"
  <2> DEFINE m == ForwardMacos(s, fault)
             w4 == Was(t.k.fwd4)
             wp == Was(t.k.pf)
             mk == WithPfNat([t.k EXCEPT !.fwd4 = TRUE])
             mr == [t.r EXCEPT !.out4 = "underlay", !.was4 = w4, !.waspf = wp]
  <2>1. m \in {t, s, [k |-> mk, r |-> mr]}
    BY DEF ForwardMacos
  <2>2. m \in PairType
    BY <1>1, ForwardMacosType
  <2>3. /\ w4 \in {"on", "off"} /\ (w4 = "off" <=> ~t.k.fwd4)
        /\ wp \in {"on", "off"} /\ (wp = "off" <=> ~t.k.pf)
    BY <1>5, <1>6
  <2> HIDE DEF m, t, w4, wp
  <2>5. /\ mk.default = t.k.default /\ mk.bypass = t.k.bypass /\ mk.pf = TRUE
        /\ mk.rules = t.k.rules \cup {"v4"} /\ mk.fwd4 = TRUE /\ mk.fwd6 = t.k.fwd6
        /\ mr.up = t.r.up /\ mr.bypass = t.r.bypass /\ mr.orig = t.r.orig
        /\ mr.out4 = "underlay" /\ mr.out6 = t.r.out6 /\ mr.was4 = w4 /\ mr.was6 = t.r.was6
        /\ mr.waspf = wp
    BY <1>1 DEF WithRules, WithPfNat, KernelType, RuntimeType
  <2> HIDE DEF mk, mr
  <2>6. Steady(mr)
    <3>1. mr.was4 = "on" => before.fwd \/ <<"forward", "v4">> \in orphans
      BY <1>2, <1>3, <2>3, <2>5 DEF Settled
    <3> QED BY <1>2, <1>3, <1>8, <2>3, <2>5, <3>1 DEF Steady
  <2>7. Explained(mk, mr, X)
    BY <1>3, <1>4, <2>3, <2>5 DEF Explained
  <2>8. [k |-> mk, r |-> mr].k = mk /\ [k |-> mk, r |-> mr].r = mr
    OBVIOUS
  <2>9. Settled(m, X)
    BY <1>2, <1>4, <2>1, <2>2, <2>6, <2>7, <2>8 DEF Settled
  <2> QED BY <1>8, <2>9 DEF m, Settled
<1> QED BY <1>7, <1>8

(* The bypass routes that the file still lists: after a repair that could   *)
(* not delete them, a running process knows them only from there.           *)
FileRoutes == IF file = NoFile THEN {} ELSE {<<"bypass", h>> : h \in file.bypass}
Noted == orphans \cup FileRoutes

ChangeInv ==
  /\ pc # "down" => Explained(kernel, rt, Noted)
  /\ pc = "down" => Explained(kernel, rt, orphans \cup RememberedIn(file))
  /\ Steady(rt)
  /\ file # NoFile => (file.was4 = "on" => before.fwd \/ <<"forward", "v4">> \in orphans)
  /\ pc = "windows" => rt = NewRuntime

LEMMA NotedPlain ==
  /\ orphans \subseteq Noted
  /\ <<"forward", "v4">> \in Noted => <<"forward", "v4">> \in orphans
<1>1. <<"forward", "v4">> \notin FileRoutes
  BY DEF FileRoutes
<1> QED BY <1>1 DEF Noted

LEMMA SettledHere ==
  ASSUME TypeInv, ChangeInv, pc # "down"
  PROVE  Settled(Here, Noted)
  BY HereType, NotedPlain DEF ChangeInv, Settled

LEMMA ExplainedGrows ==
  ASSUME NEW k, NEW r, NEW X, NEW Y, X \subseteq Y, Explained(k, r, X)
  PROVE  Explained(k, r, Y)
  BY DEF Explained

LEMMA ChangeDie ==
  ASSUME TypeInv, ChangeInv, NEW s \in PairType, Die(s), UNCHANGED <<World, file>>
  PROVE  ChangeInv'
<1>1. kernel' = DropDevice(s).k /\ kernel' \in KernelType
  BY DropDeviceEffect, PairFields DEF Die
<1>2. Leftovers(kernel') \subseteq RememberedBy(NewRuntime) \cup (orphans' \cup RememberedIn(file))
  BY <1>1 DEF Die
<1>3. Explained(kernel', NewRuntime, orphans' \cup RememberedIn(file))
  BY <1>1, <1>2, NewRuntimeType, ExplainedLeftovers DEF TypeInv
<1>4. /\ rt' = NewRuntime /\ pc' = "down" /\ orphans \subseteq orphans'
      /\ UNCHANGED <<os, before, file>>
  BY DEF Die, World
<1>5. Explained(kernel, rt, orphans \cup RememberedIn(file))'
  <2>1. RememberedIn(file)' = RememberedIn(file)
    BY <1>4 DEF RememberedIn
  <2> QED BY <1>3, <1>4, <2>1 DEF Explained
<1>6. Steady(rt)'
  BY <1>4 DEF Steady, NewRuntime
<1>7. file' # NoFile => (file'.was4 = "on" => before'.fwd \/ <<"forward", "v4">> \in orphans')
  BY <1>4 DEF ChangeInv
<1> QED BY <1>4, <1>5, <1>6, <1>7 DEF ChangeInv

(* A step that goes on or ends with a settled pair. *)
LEMMA ChangeKeep ==
  ASSUME TypeInv, ChangeInv, NEW s, Settled(s, Noted), Keep(s), pc' # "down",
         pc' = "windows" => s.r = NewRuntime, UNCHANGED <<World, file, orphans>>
  PROVE  ChangeInv'
<1>1. kernel' = s.k /\ rt' = s.r /\ UNCHANGED <<os, before, file, orphans>>
  BY DEF Keep, World
<1>2. Explained(kernel, rt, Noted)'
  BY <1>1 DEF Settled, Explained, Noted, FileRoutes
<1>3. Steady(rt)'
  BY <1>1 DEF Settled, Steady
<1>4. file' # NoFile => (file'.was4 = "on" => before'.fwd \/ <<"forward", "v4">> \in orphans')
  BY <1>1 DEF ChangeInv
<1> QED BY <1>1, <1>2, <1>3, <1>4 DEF ChangeInv

LEMMA ChangeFail ==
  ASSUME TypeInv, ChangeInv, NEW s, Settled(s, Noted), Return(s) \/ Fail(s),
         UNCHANGED <<World, file>>
  PROVE  ChangeInv'
<1>1. s \in PairType
  BY DEF Settled
<1>2. CASE Die(s)
  BY <1>1, <1>2, ChangeDie
<1>3. CASE Return(s)
  BY <1>3, ChangeKeep DEF Return, Finish
<1> QED BY <1>2, <1>3 DEF Fail

LEMMA ChangeGo ==
  ASSUME TypeInv, ChangeInv, NEW s, NEW step, NEW p, Settled(s, Noted), Go(step, p, s),
         step # "down", step = "windows" => s.r = NewRuntime, UNCHANGED <<World, file>>
  PROVE  ChangeInv'
  BY ChangeKeep DEF Go

(* An update that ends by forgetting, where there is no file. *)
LEMMA ChangeForget ==
  ASSUME TypeInv, ChangeInv, NEW s \in PairType, NEW t, t.k = s.k,
         RememberedBy(t.r) = RememberedBy(s.r), t \in PairType, Steady(t.r),
         Finish(t), Forget(s), os # "macos", UNCHANGED <<World, file>>
  PROVE  ChangeInv'
<1>1. RememberedIn(file) = {} /\ FileRoutes = {} /\ file = NoFile
  BY DEF TypeInv, OutsideInv, RememberedIn, FileRoutes
<1>2. Leftovers(t.k) \subseteq RememberedBy(t.r) \cup orphans'
  BY <1>1 DEF Forget
<1>3. t.k \in KernelType /\ t.r \in RuntimeType
  BY PairFields
<1>4. Explained(t.k, t.r, orphans')
  BY <1>2, <1>3, ExplainedLeftovers DEF TypeInv
<1>5. /\ kernel' = t.k /\ rt' = t.r /\ pc' = "idle" /\ UNCHANGED <<os, before, file>>
  BY DEF Finish, Keep, World
<1>6. Explained(kernel, rt, Noted)'
  BY <1>1, <1>4, <1>5 DEF Explained, Noted, FileRoutes
<1>7. Steady(rt)'
  <2>1. orphans \subseteq orphans'
    BY DEF Forget
  <2> QED BY <1>5, <2>1 DEF Steady
<1> QED BY <1>1, <1>5, <1>6, <1>7 DEF ChangeInv

LEMMA ChangePlan ==
  ASSUME TypeInv, ChangeInv, PlanStops \/ PlanUnix \/ PlanRefreshes \/ PlanUnresolved
  PROVE  ChangeInv'
<1>1. UNCHANGED <<World, file>> /\ pc = "plan"
  BY DEF PlanStops, PlanUnix, PlanRefreshes, PlanUnresolved
<1>2. Settled(Here, Noted) /\ OutsideInv /\ (os = "windows" => Bare(Here.r))
  BY <1>1, SettledHere, HereType DEF TypeInv, MachineInv
<1>3. CASE PlanStops
  <2>1. Settled(StopTunnel(Here), Noted)
    BY <1>2, SettledStop
  <2> QED BY <1>1, <1>3, <2>1, ChangeFail DEF PlanStops
<1>4. CASE PlanUnix \/ PlanRefreshes \/ PlanUnresolved
  <2> DEFINE d == DefaultDecided
             e == RestoreDefault(d)
             w == [Withheld(Planned) EXCEPT !.bypass = {}]
  <2>1. Settled(d, Noted)
    BY <1>2, SettledCapture, SettledRestore DEF DefaultDecided
  <2>2. Settled(e, Noted)
    BY <2>1, SettledRestore
  <2>3. \/ Return(d) \/ Fail(d) \/ Go("start", Planned, d)
        \/ Return(e) \/ Go("start", w, e)
    BY <1>4 DEF PlanUnix, PlanRefreshes, PlanUnresolved
  <2> HIDE DEF d, e, w
  <2> QED BY <1>1, <2>1, <2>2, <2>3, ChangeFail, ChangeGo
<1> QED BY <1>3, <1>4

LEMMA ChangeDevice ==
  ASSUME TypeInv, ChangeInv, StartDevice \/ StartFails
  PROVE  ChangeInv'
<1>1. UNCHANGED <<World, file>> /\ pc = "start"
  BY DEF StartDevice, StartFails
<1>2. /\ Settled(Here, Noted) /\ Here.k = kernel /\ Here.r = rt
      /\ kernel \in KernelType /\ rt \in RuntimeType /\ plan \in PlanType
  BY <1>1, SettledHere, HereType DEF TypeInv, MachineInv
<1>3. ASSUME NEW r \in RuntimeType, r.up = rt.up \/ r.up = TRUE, r.bypass = rt.bypass,
             r.orig = rt.orig, r.out4 = rt.out4, r.out6 = rt.out6, r.was4 = rt.was4,
             r.was6 = rt.was6, r.waspf = rt.waspf,
             NEW s, s = [k |-> kernel, r |-> r]
      PROVE  Settled(s, Noted)
  <2>1. s \in PairType /\ s.k = kernel /\ s.r = r
    BY <1>2, <1>3 DEF PairType
  <2>2. Explained(kernel, r, Noted)
    BY <1>2, <1>3 DEF Settled, Explained
  <2>3. Steady(r)
    BY <1>2, <1>3 DEF Settled, Steady
  <2> QED BY <1>2, <2>1, <2>2, <2>3 DEF Settled
<1>4. CASE StartDevice
  <2> DEFINE r == [rt EXCEPT !.up = TRUE, !.wg = Endpoints(plan)]
             s == [Here EXCEPT !.r = [@ EXCEPT !.up = TRUE, !.wg = Endpoints(plan)]]
  <2>1. s = [k |-> kernel, r |-> r]
    BY DEF Here
  <2>2. Endpoints(plan) \subseteq Hosts
    BY <1>2 DEF PlanType, Endpoints
  <2>3. /\ r \in RuntimeType /\ r.up = TRUE /\ r.bypass = rt.bypass /\ r.orig = rt.orig
        /\ r.out4 = rt.out4 /\ r.out6 = rt.out6 /\ r.was4 = rt.was4 /\ r.was6 = rt.was6
        /\ r.waspf = rt.waspf
    BY <1>2, <2>2 DEF RuntimeType
  <2>4. Go("bypass", plan, s)
    BY <1>4 DEF StartDevice
  <2> HIDE DEF r, s
  <2>5. Settled(s, Noted)
    BY <1>3, <2>1, <2>3
  <2> QED BY <1>1, <2>4, <2>5, ChangeGo
<1>5. CASE StartFails
  <2>1. PICK up \in {rt.up, TRUE} : Fail([Here EXCEPT !.r.up = up])
    BY <1>5 DEF StartFails
  <2> DEFINE r == [rt EXCEPT !.up = up]
             s == [Here EXCEPT !.r.up = up]
  <2>2. s = [k |-> kernel, r |-> r]
    BY DEF Here
  <2>3. /\ r \in RuntimeType /\ (r.up = rt.up \/ r.up = TRUE) /\ r.bypass = rt.bypass
        /\ r.orig = rt.orig /\ r.out4 = rt.out4 /\ r.out6 = rt.out6 /\ r.was4 = rt.was4
        /\ r.was6 = rt.was6 /\ r.waspf = rt.waspf
    BY <1>2, <2>1 DEF RuntimeType
  <2>4. Fail(s)
    BY <2>1
  <2> HIDE DEF r, s
  <2>5. Settled(s, Noted)
    BY <1>3, <2>2, <2>3
  <2> QED BY <1>1, <2>4, <2>5, ChangeFail
<1> QED BY <1>4, <1>5

LEMMA ChangeBypass ==
  ASSUME TypeInv, ChangeInv, BypassInstalled \/ BypassFails
  PROVE  ChangeInv'
<1>1. PICK failed \in SUBSET plan.bypass : InstallBypass(failed)
  BY DEF BypassInstalled, BypassFails
<1>2. UNCHANGED <<World, file>> /\ pc = "bypass"
  BY <1>1 DEF BypassInstalled, BypassFails, InstallBypass
<1>3. Settled(Here, Noted) /\ plan.bypass \in SUBSET Hosts
  BY <1>2, SettledHere DEF TypeInv, MachineInv, PlanType
<1> DEFINE s == ReconcileBypass(Here, plan.bypass, failed)
           e == RestoreDefault(s)
<1>4. Settled(s, Noted) /\ Settled(e, Noted)
  BY <1>3, SettledReconcile, SettledRestore
<1>5. Go("iface", Withheld(plan), e) \/ Go("iface", plan, s)
  BY <1>1 DEF InstallBypass
<1> HIDE DEF s, e
<1> QED BY <1>2, <1>4, <1>5, ChangeGo

LEMMA ChangeInterface ==
  ASSUME TypeInv, RouteInv, ChangeInv, ConfigureInterface \/ InterfaceFails
  PROVE  ChangeInv'
<1>1. UNCHANGED <<World, file>> /\ pc = "iface"
  BY DEF ConfigureInterface, InterfaceFails
<1>2. /\ Settled(Here, Noted) /\ Here.k = kernel /\ Here.r = rt
      /\ kernel \in KernelType /\ rt \in RuntimeType
  BY <1>1, SettledHere, HereType DEF TypeInv, MachineInv
<1>3. rt.up /\ (plan.dflt => rt.orig \/ <<"missing", "underlay">> \in Noted)
  BY <1>1 DEF RouteInv, Lost, Noted
<1>4. ASSUME NEW d \in SUBSET {"underlay", "tunnel"},
             "underlay" \notin d => plan.dflt \/ "underlay" \notin kernel.default,
             NEW s, s = [k |-> [kernel EXCEPT !.default = d], r |-> rt]
      PROVE  Settled(s, Noted)
  <2> DEFINE k == [kernel EXCEPT !.default = d]
  <2>1. /\ k \in KernelType /\ k.default = d /\ k.bypass = kernel.bypass
        /\ SameForwarding(k, kernel)
    BY <1>2 DEF KernelType, SameForwarding
  <2> HIDE DEF k
  <2>2. s \in PairType /\ s.k = k /\ s.r = rt
    BY <1>2, <1>4, <2>1 DEF PairType, k
  <2>3. Explained(k, rt, Noted)
    BY <1>2, <1>3, <1>4, <2>1 DEF Settled, Explained, SameForwarding
  <2> QED BY <1>2, <2>2, <2>3 DEF Settled
<1>5. CASE ConfigureInterface
  <2> DEFINE s == IF plan.dflt THEN [Here EXCEPT !.k = TunnelDefault(@)] ELSE Here
  <2>1. Go("forward", plan, s)
    BY <1>5 DEF ConfigureInterface
  <2>2. CASE plan.dflt
    <3> DEFINE d == IF os = "linux" THEN {"tunnel"} ELSE kernel.default \cup {"tunnel"}
    <3>1. s = [k |-> [kernel EXCEPT !.default = d], r |-> rt]
      BY <2>2 DEF Here, TunnelDefault
    <3>2. d \in SUBSET {"underlay", "tunnel"}
      BY <1>2 DEF KernelType
    <3> HIDE DEF d, s
    <3>3. Settled(s, Noted)
      BY <1>4, <2>2, <3>1, <3>2
    <3> QED BY <1>1, <2>1, <3>3, ChangeGo
  <2>3. CASE ~plan.dflt
    BY <1>1, <1>2, <2>1, <2>3, ChangeGo
  <2> QED BY <2>2, <2>3
<1>6. CASE InterfaceFails
  <2>1. PICK gone \in SUBSET (IF ~plan.dflt THEN {}
                              ELSE IF os = "linux" THEN {"underlay", "tunnel"}
                              ELSE {"tunnel"}) :
          Fail([Here EXCEPT !.k.default = @ \ gone])
    BY <1>6 DEF InterfaceFails
  <2> DEFINE s == [Here EXCEPT !.k.default = @ \ gone]
             d == kernel.default \ gone
  <2>2. s = [k |-> [kernel EXCEPT !.default = d], r |-> rt]
    BY DEF Here
  <2>3. d \in SUBSET {"underlay", "tunnel"} /\ ("underlay" \notin d => plan.dflt \/ "underlay" \notin kernel.default)
    BY <1>2, <2>1 DEF KernelType
  <2>4. Fail(s)
    BY <2>1
  <2> HIDE DEF d, s
  <2>5. Settled(s, Noted)
    BY <1>4, <2>2, <2>3
  <2> QED BY <1>1, <2>4, <2>5, ChangeFail
<1> QED BY <1>5, <1>6

LEMMA ChangeForward ==
  ASSUME TypeInv, ChangeInv, ForwardDone \/ ForwardFails
  PROVE  ChangeInv'
<1>1. PICK fault : Forward(fault)
  BY DEF ForwardDone, ForwardFails
<1>2. UNCHANGED <<World, file>> /\ pc = "forward"
  BY <1>1 DEF Forward
<1>3. /\ Settled(Here, Noted) /\ plan \in PlanType /\ OutsideInv /\ os \in {"linux", "macos"}
  BY <1>2, SettledHere, HostAssumption DEF TypeInv, MachineInv, OutsideInv
<1> DEFINE f == IF os = "linux" THEN ForwardLinux(Here, fault) ELSE ForwardMacos(Here, fault)
           t == [f EXCEPT !.r.fp = plan]
<1>4. /\ f \in PairType /\ Steady(f.r)
      /\ os # "linux" \/ fault # "rules6" => Settled(f, Noted)
  BY <1>3, SettledForward
<1>5. Finish(t) /\ (IF fault = "rules6" THEN Forget(f) ELSE UNCHANGED orphans)
  BY <1>1 DEF Forward
<1> HIDE DEF f
<1>6. t = [k |-> f.k, r |-> [f.r EXCEPT !.fp = plan]]
  BY <1>4 DEF PairType
<1> HIDE DEF t
<1>7. /\ t \in PairType /\ t.k = f.k
      /\ t.r.up = f.r.up /\ t.r.bypass = f.r.bypass /\ t.r.orig = f.r.orig
      /\ t.r.out4 = f.r.out4 /\ t.r.out6 = f.r.out6 /\ t.r.was4 = f.r.was4
      /\ t.r.was6 = f.r.was6 /\ t.r.waspf = f.r.waspf
  BY <1>3, <1>4, <1>6, PairFields DEF PairType, RuntimeType
<1>8. Steady(t.r) /\ RememberedBy(t.r) = RememberedBy(f.r)
  BY <1>4, <1>7 DEF Steady, RememberedBy
<1>9. CASE os = "linux" /\ fault = "rules6"
  BY <1>2, <1>4, <1>5, <1>7, <1>8, <1>9, ChangeForget
<1>10. CASE os # "linux" \/ fault # "rules6"
  <2>1. Explained(f.k, f.r, Noted) /\ orphans \subseteq orphans'
    BY <1>4, <1>5, <1>10 DEF Settled, Forget
  <2>2. /\ kernel' = t.k /\ rt' = t.r /\ pc' = "idle" /\ UNCHANGED <<os, before, file>>
    BY <1>2, <1>5 DEF Finish, Keep, World
  <2>3. Explained(t.k, t.r, Noted)
    BY <1>7, <2>1 DEF Explained
  <2>4. Explained(t.k, t.r, orphans' \cup FileRoutes)
    BY <2>1, <2>3, ExplainedGrows DEF Noted
  <2>5. FileRoutes' = FileRoutes
    BY <2>2 DEF FileRoutes
  <2>6. Explained(kernel, rt, Noted)'
    BY <2>2, <2>4, <2>5 DEF Explained, Noted
  <2>7. Steady(rt)'
    BY <1>8, <2>1, <2>2 DEF Steady
  <2> QED BY <2>1, <2>2, <2>6, <2>7 DEF ChangeInv
<1> QED BY <1>9, <1>10

LEMMA ChangeWindows ==
  ASSUME TypeInv, ChangeInv, PlanWindows \/ StartWindows \/ StartWindowsFails
  PROVE  ChangeInv'
<1>1. /\ UNCHANGED <<World, file>> /\ os = "windows" /\ pc \in {"plan", "windows"}
      /\ StartWindows \/ StartWindowsFails => pc = "windows"
  BY DEF PlanWindows, StartWindows, StartWindowsFails, TypeInv, MachineInv
<1>2. /\ Settled(Here, Noted) /\ Here.k = kernel /\ Here.r = rt
      /\ kernel \in KernelType /\ rt \in RuntimeType /\ plan \in PlanType
      /\ OutsideInv /\ Bare(Here.r)
  BY <1>1, SettledHere, HereType DEF TypeInv, MachineInv
<1>3. plan.bypass \in SUBSET Hosts /\ Endpoints(plan) \subseteq Hosts
  BY <1>2 DEF PlanType, Endpoints
<1>4. pc = "windows" => rt.bypass = {} /\ rt.up = FALSE
  BY DEF ChangeInv, NewRuntime
<1>5. CASE PlanWindows
  <2>1. StopTunnel(Here).r = NewRuntime /\ Settled(StopTunnel(Here), Noted)
    BY <1>1, <1>2, StopType, SettledStop DEF Settled
  <2> QED BY <1>1, <1>2, <1>5, <2>1, ChangeFail, ChangeGo DEF PlanWindows
<1>6. CASE StartWindows
  <2> DEFINE b == [kernel EXCEPT !.bypass = @ \cup plan.bypass]
             k == IF plan.dflt THEN TunnelDefault(b) ELSE b
             r == [rt EXCEPT !.up = TRUE, !.fp = plan, !.wg = Endpoints(plan), !.bypass = plan.bypass]
             s == [k |-> k, r |-> r]
  <2>1. /\ b \in KernelType /\ b.bypass = kernel.bypass \cup plan.bypass
        /\ b.default = kernel.default /\ SameForwarding(b, kernel)
    BY <1>2, <1>3 DEF KernelType, SameForwarding
  <2>2. /\ k \in KernelType /\ k.bypass = b.bypass /\ SameForwarding(k, b)
        /\ k.default \in {b.default, b.default \cup {"tunnel"}}
    BY <1>1, <2>1 DEF KernelType, TunnelDefault, SameForwarding
  <2>3. /\ r \in RuntimeType /\ r.up = TRUE /\ r.bypass = plan.bypass /\ r.orig = rt.orig
        /\ r.out4 = rt.out4 /\ r.out6 = rt.out6 /\ r.was4 = rt.was4 /\ r.was6 = rt.was6
        /\ r.waspf = rt.waspf
    BY <1>2, <1>3 DEF RuntimeType
  <2>4. Return(s)
    BY <1>6 DEF StartWindows, AddBypass
  <2> HIDE DEF b, k, r
  <2>5. s \in PairType /\ s.k = k /\ s.r = r
    BY <2>2, <2>3 DEF PairType
  <2>6. Explained(kernel, rt, Noted)
    BY <1>2 DEF Settled
  <2>7. Explained(k, r, Noted)
    BY <1>1, <1>4, <1>6, <2>1, <2>2, <2>3, <2>6 DEF Explained, SameForwarding
  <2>8. Steady(r)
    BY <1>1 DEF Steady
  <2> HIDE DEF s
  <2>9. Settled(s, Noted)
    BY <1>2, <2>5, <2>7, <2>8 DEF Settled
  <2> QED BY <1>1, <2>4, <2>9, ChangeFail
<1>7. CASE StartWindowsFails
  <2> DEFINE ka == DropBypass(kernel, plan.bypass)
             kb == AddBypass(kernel, plan.bypass)
             a == [Here EXCEPT !.k = DropBypass(@, plan.bypass)]
             b == [Here EXCEPT !.k = AddBypass(@, plan.bypass)]
  <2>1. Fail(a) \/ FailForgetting(b) \/ Fail(Here)
    BY <1>7 DEF StartWindowsFails
  <2>2. /\ ka \in KernelType /\ kb \in KernelType
        /\ ka.bypass \subseteq kernel.bypass /\ ka.default = kernel.default
        /\ SameForwarding(ka, kernel)
    BY <1>2, <1>3 DEF KernelType, DropBypass, AddBypass, SameForwarding
  <2>3. a = [k |-> ka, r |-> rt] /\ b = [k |-> kb, r |-> rt]
    BY DEF Here
  <2> HIDE DEF ka, kb, a, b
  <2>4. a \in PairType /\ b \in PairType /\ a.k = ka /\ a.r = rt /\ b.r = rt
    BY <1>2, <2>2, <2>3 DEF PairType
  <2>5. Explained(ka, rt, Noted)
    BY <1>2, <2>2 DEF Settled, Explained, SameForwarding
  <2>6. Settled(a, Noted) /\ Steady(rt)
    BY <1>2, <2>4, <2>5 DEF Settled
  <2>7. CASE Fail(a) \/ Fail(Here)
    BY <1>1, <1>2, <2>6, <2>7, ChangeFail
  <2>8. CASE Die(b)
    BY <1>1, <2>4, <2>8, ChangeDie
  <2>9. CASE Finish(b) /\ Forget(b)
    BY <1>1, <2>4, <2>6, <2>9, ChangeForget
  <2> QED BY <2>1, <2>7, <2>8, <2>9 DEF FailForgetting
<1> QED BY <1>5, <1>6, <1>7

(* After a repair, a change is an orphan or a bypass route that the repair  *)
(* could not delete and the file still lists.                               *)
LEMMA RepairExplained ==
  ASSUME TypeInv, RouteInv, ChangeInv, RepairSavedNetworkState, pc = "down",
         UNCHANGED <<os, before, orphans>>
  PROVE  /\ Explained(kernel', NewRuntime, orphans \cup FileRoutes')
         /\ file' \in {file, NoFile}
<1>1. /\ kernel \in KernelType /\ file \in FileType /\ rt = NewRuntime
      /\ os # "macos" => file = NoFile
  BY DEF TypeInv, MachineInv, OutsideInv
<1>2. Explained(kernel, NewRuntime, orphans \cup RememberedIn(file))
  BY <1>1 DEF ChangeInv
<1>3. /\ NewRuntime.bypass = {} /\ NewRuntime.out6 = FALSE /\ NewRuntime.out4 = "none"
      /\ NewRuntime.was4 = "none" /\ NewRuntime.was6 = "none" /\ NewRuntime.waspf = "none"
      /\ NewRuntime.orig = FALSE /\ NewRuntime.up = FALSE
  BY DEF NewRuntime
<1>4. RememberedIn(NoFile) = {} /\ (file' = NoFile => FileRoutes' = {})
  BY DEF RememberedIn, FileRoutes
<1>5. ASSUME NEW k \in KernelType, NEW X, Explained(k, NewRuntime, X)
      PROVE  RepairLegacy(k) \in KernelType /\ Explained(RepairLegacy(k), NewRuntime, X)
  <2> DEFINE l == RepairLegacy(k)
  <2>1. /\ l \in KernelType /\ l.bypass = k.bypass /\ l.default = {"underlay"}
        /\ l.rules \subseteq k.rules /\ (l.fwd4 => k.fwd4) /\ l.fwd6 = k.fwd6 /\ l.pf = k.pf
    BY <1>5 DEF RepairLegacy, KernelType, UnderlayDefault, WithoutRules
  <2> HIDE DEF l
  <2>2. Explained(l, NewRuntime, X)
    BY <1>5, <2>1 DEF Explained
  <2> QED BY <2>1, <2>2 DEF l
<1>6. CASE os # "macos"
  <2>1. UNCHANGED <<kernel, file>> /\ file = NoFile
    BY <1>1, <1>6 DEF RepairSavedNetworkState
  <2> QED BY <1>2, <1>4, <2>1
<1>7. CASE os = "macos" /\ file = NoFile
  <2>1. kernel' = RepairLegacy(kernel) /\ file' = NoFile
    BY <1>7 DEF RepairSavedNetworkState
  <2>2. Explained(kernel', NewRuntime, orphans \cup {})
    BY <1>1, <1>2, <1>4, <1>5, <1>7, <2>1
  <2> QED BY <1>4, <2>1, <2>2
<1>8. CASE os = "macos" /\ file # NoFile
  <2>1. PICK failed \in IF MayFail("repair") THEN SUBSET (kernel.bypass \cap file.bypass) ELSE {{}} :
          /\ kernel' = RepairSaved(kernel, failed)
          /\ file' = IF failed = {} THEN NoFile ELSE file
    BY <1>8 DEF RepairSavedNetworkState
  <2>2. failed \subseteq kernel.bypass \cap file.bypass
    BY <2>1
  <2> DEFINE b == (kernel.bypass \ ManagedRoutes) \cup failed
             d == IF file.orig THEN {"underlay"} ELSE kernel.default
             u == IF file.waspf # "none" THEN {} ELSE kernel.rules
             f == kernel.pf /\ file.waspf # "off"
             g == IF file.was4 = "none" THEN kernel.fwd4 ELSE file.was4 = "on"
             t == [kernel EXCEPT !.bypass = b, !.default = d, !.rules = u, !.pf = f, !.fwd4 = g]
             X == orphans \cup FileRoutes'
  <2>3. /\ b \in SUBSET Hosts /\ d \in SUBSET {"underlay", "tunnel"}
        /\ u \in SUBSET {"v4", "v6"} /\ f \in BOOLEAN /\ g \in BOOLEAN
    BY <1>1, <2>2 DEF KernelType
  <2>4. RepairSaved(kernel, failed) \in {t, RepairLegacy(t)}
    BY DEF RepairSaved
  <2>5. /\ \A h : <<"bypass", h>> \in RememberedIn(file) => h \in file.bypass
        /\ <<"missing", "underlay">> \in RememberedIn(file) => file.orig
        /\ <<"default", "tunnel">> \notin RememberedIn(file)
        /\ <<"rules", "v4">> \in RememberedIn(file) => file.waspf # "none"
        /\ <<"rules", "v6">> \notin RememberedIn(file)
        /\ <<"forward", "v4">> \in RememberedIn(file) => file.was4 = "off"
        /\ <<"forward", "v6">> \notin RememberedIn(file)
        /\ <<"pf", TRUE>> \in RememberedIn(file) => file.waspf = "off"
    BY <1>8 DEF RememberedIn
  <2>6. \A h \in b : <<"bypass", h>> \in X
    <3>1. \A h \in failed : file' = file /\ <<"bypass", h>> \in FileRoutes'
      BY <1>8, <2>1, <2>2 DEF FileRoutes
    <3>2. \A h \in kernel.bypass \ ManagedRoutes : <<"bypass", h>> \in orphans
      BY <1>2, <1>3, <2>5 DEF Explained, ManagedRoutes
    <3> QED BY <3>1, <3>2
  <2>7. /\ "v4" \in u => <<"rules", "v4">> \in X
        /\ "v6" \in u => <<"rules", "v6">> \in X
    BY <1>2, <1>3, <2>5 DEF Explained
  <2>8. "underlay" \in d /\ "tunnel" \notin d
    BY <1>1, <1>3, <1>8 DEF RouteInv, Routable, Tunnelled
  <2>9. /\ ~before.fwd /\ g => <<"forward", "v4">> \in X
        /\ ~before.fwd /\ kernel.fwd6 => <<"forward", "v6">> \in X
        /\ f /\ ~before.pf => <<"pf", TRUE>> \in X
    <3>1. file.was4 = "on" => before.fwd \/ <<"forward", "v4">> \in orphans
      BY <1>8 DEF ChangeInv
    <3> QED BY <1>2, <1>3, <2>5, <3>1 DEF Explained
  <2> HIDE DEF b, d, u, f, g, X
  <2>10. /\ t \in KernelType /\ t.bypass = b /\ t.default = d /\ t.rules = u /\ t.pf = f
         /\ t.fwd4 = g /\ t.fwd6 = kernel.fwd6
    BY <1>1, <2>3 DEF KernelType
  <2> HIDE DEF t
  <2>11. Explained(t, NewRuntime, X)
    BY <2>6, <2>7, <2>8, <2>9, <2>10 DEF Explained
  <2>12. Explained(kernel', NewRuntime, X)
    BY <1>5, <2>1, <2>4, <2>10, <2>11
  <2> QED BY <2>1, <2>12 DEF X
<1> QED BY <1>6, <1>7, <1>8

(* A file that replaces another: what only the old one listed is an orphan. *)
LEMMA PersistExplained ==
  ASSUME TypeInv, NEW s, Settled(s, Noted), PersistCleanup(s), UNCHANGED <<os, before>>
  PROVE  /\ Explained(s.k, s.r, orphans' \cup FileRoutes')
         /\ FileRoutes' \subseteq RememberedIn(file')
         /\ orphans \subseteq orphans'
         /\ file' # NoFile => (file'.was4 = "on" => before'.fwd \/ <<"forward", "v4">> \in orphans')
<1>1. s.k \in KernelType /\ s.r \in RuntimeType /\ OutsideInv
  BY PairFields DEF Settled, TypeInv
<1>2. Leftovers(s.k) \subseteq RememberedBy(s.r) \cup Noted
  BY <1>1, ExplainedLeftovers DEF Settled
<1>3. FileRoutes \subseteq RememberedIn(file) /\ FileRoutes' \subseteq RememberedIn(file')
  BY DEF FileRoutes, RememberedIn
<1>4. \A x \in FileRoutes : x \in RememberedIn(file') => x \in FileRoutes'
  <2>1. \A h : <<"bypass", h>> \in RememberedIn(file') => file' # NoFile /\ h \in file'.bypass
    BY DEF RememberedIn
  <2>2. \A h : file' # NoFile /\ h \in file'.bypass => <<"bypass", h>> \in FileRoutes'
    BY DEF FileRoutes, NoFile
  <2>3. \A x \in FileRoutes : \E h : x = <<"bypass", h>>
    BY DEF FileRoutes
  <2> QED BY <2>1, <2>2, <2>3
<1>5. orphans' = orphans \cup ((Leftovers(s.k) \cap RememberedIn(file))
                               \ (RememberedBy(s.r) \cup RememberedIn(file')))
  BY DEF PersistCleanup
<1>6. Leftovers(s.k) \subseteq RememberedBy(s.r) \cup (orphans' \cup FileRoutes')
  BY <1>2, <1>3, <1>4, <1>5 DEF Noted
<1>7. Explained(s.k, s.r, orphans' \cup FileRoutes')
  BY <1>1, <1>6, ExplainedLeftovers
<1>8. file' # NoFile => (file'.was4 = "on" => before'.fwd \/ <<"forward", "v4">> \in orphans')
  <2>1. file' # NoFile => os = "macos" /\ file' = CleanupState(s.r)
    BY <1>1 DEF PersistCleanup, OutsideInv
  <2>2. file' # NoFile => file'.was4 = s.r.was4
    BY <2>1 DEF CleanupState
  <2> QED BY <1>5, <2>1, <2>2 DEF Settled, Steady
<1> QED BY <1>3, <1>5, <1>7, <1>8

LEMMA ChangeSession ==
  ASSUME TypeInv, RouteInv, ChangeInv, Next, ~Apply
  PROVE  ChangeInv'
<1>1. /\ Here \in PairType /\ Here.k = kernel /\ Here.r = rt
      /\ kernel \in KernelType /\ rt \in RuntimeType /\ OutsideInv
      /\ os = "windows" => Bare(rt)
  BY HereType DEF TypeInv, MachineInv
<1>2. CASE PeerChanges \/ Reload \/ PauseOrResume \/ HandshakeChanges \/ Refresh
  <2>1. /\ UNCHANGED <<os, before, kernel, rt, file, orphans>>
        /\ pc = "idle" /\ pc' \in {"idle", "plan"}
    BY <1>2 DEF PeerChanges, Reload, PauseOrResume, HandshakeChanges, Refresh, Quiet, Update
  <2>2. Explained(kernel, rt, Noted)'
    BY <2>1 DEF ChangeInv, Explained, Noted, FileRoutes
  <2> QED BY <2>1, <2>2 DEF ChangeInv, Steady
<1>3. CASE NatPunch
  <2>1. Settled(StopTunnel(Here), Noted)
    BY <1>1, <1>3, SettledHere, SettledStop DEF NatPunch
  <2> QED BY <1>3, <2>1, ChangeGo DEF NatPunch
<1>4. CASE Tick
  <2>1. /\ pc = "idle" /\ PersistCleanup(Here) /\ UNCHANGED <<os, before, kernel, rt, pc>>
    BY <1>4 DEF Tick, World
  <2>2. Settled(Here, Noted)
    BY <2>1, SettledHere
  <2>3. /\ Explained(kernel, rt, orphans' \cup FileRoutes') /\ orphans \subseteq orphans'
        /\ file' # NoFile => (file'.was4 = "on" => before'.fwd \/ <<"forward", "v4">> \in orphans')
    BY <1>1, <2>1, <2>2, PersistExplained
  <2>4. Explained(kernel, rt, Noted)'
    BY <2>1, <2>3 DEF Explained, Noted
  <2>5. Steady(rt)'
    BY <2>1, <2>3 DEF ChangeInv, Steady
  <2> QED BY <2>1, <2>3, <2>4, <2>5 DEF ChangeInv
<1>5. CASE Start \/ RepairNetwork
  <2>1. /\ RepairSavedNetworkState /\ UNCHANGED <<os, before, rt, orphans>>
        /\ pc = "down" /\ pc' \in {"plan", "down"} /\ rt = NewRuntime
    BY <1>5 DEF Start, RepairNetwork, World, TypeInv, MachineInv
  <2>2. /\ Explained(kernel', NewRuntime, orphans \cup FileRoutes')
        /\ file' \in {file, NoFile}
    BY <2>1, RepairExplained
  <2>3. Explained(kernel, rt, Noted)'
    BY <2>1, <2>2 DEF Explained, Noted
  <2>4. FileRoutes' \subseteq RememberedIn(file')
    BY DEF FileRoutes, RememberedIn
  <2>5. orphans \cup FileRoutes' \subseteq orphans' \cup RememberedIn(file')
    BY <2>1, <2>4
  <2>6. Explained(kernel', NewRuntime, orphans' \cup RememberedIn(file'))
    BY <2>2, <2>5, ExplainedGrows
  <2>7. Explained(kernel, rt, orphans \cup RememberedIn(file))'
    <3>1. RememberedIn(file)' = RememberedIn(file')
      BY DEF RememberedIn
    <3> QED BY <2>1, <2>6, <3>1 DEF Explained
  <2>8. Steady(rt)'
    BY <2>1 DEF ChangeInv, Steady
  <2>9. file' # NoFile => (file'.was4 = "on" => before'.fwd \/ <<"forward", "v4">> \in orphans')
    BY <2>1, <2>2 DEF ChangeInv
  <2> QED BY <2>1, <2>3, <2>7, <2>8, <2>9 DEF ChangeInv
<1>6. CASE Shutdown
  <2> DEFINE s == StopTunnel(Here)
  <2>1. /\ pc = "idle" /\ kernel' = s.k /\ rt' = s.r /\ PersistCleanup(s)
        /\ pc' = "down" /\ UNCHANGED <<os, before>>
    BY <1>6 DEF Shutdown, Keep
  <2>2. Settled(s, Noted)
    BY <1>1, <2>1, SettledHere, SettledStop
  <2> HIDE DEF s
  <2>3. /\ Explained(s.k, s.r, orphans' \cup FileRoutes') /\ orphans \subseteq orphans'
        /\ FileRoutes' \subseteq RememberedIn(file')
        /\ file' # NoFile => (file'.was4 = "on" => before'.fwd \/ <<"forward", "v4">> \in orphans')
    BY <2>1, <2>2, PersistExplained
  <2>4. Explained(kernel', rt', orphans' \cup RememberedIn(file'))
    BY <2>1, <2>3, ExplainedGrows
  <2>5. Explained(kernel, rt, orphans \cup RememberedIn(file))'
    <3>1. RememberedIn(file)' = RememberedIn(file')
      BY DEF RememberedIn
    <3> QED BY <2>1, <2>4, <3>1 DEF Explained
  <2>6. Steady(rt)'
    BY <2>1, <2>2, <2>3 DEF Settled, Steady
  <2> QED BY <2>1, <2>3, <2>5, <2>6 DEF ChangeInv
<1>7. CASE Crash
  BY <1>1, <1>7, ChangeDie DEF Crash, World
<1> QED BY <1>2, <1>3, <1>4, <1>5, <1>6, <1>7 DEF Next

LEMMA ChangeInit == Init => ChangeInv
<1> SUFFICES ASSUME Init PROVE ChangeInv
  OBVIOUS
<1>1. /\ kernel.bypass = {} /\ kernel.rules = {} /\ kernel.default = {"underlay"}
      /\ kernel.fwd4 = before.fwd /\ kernel.fwd6 = before.fwd /\ kernel.pf = before.pf
      /\ rt = NewRuntime /\ pc = "down" /\ file = NoFile
  BY DEF Init
<1>2. /\ NewRuntime.out6 = FALSE /\ NewRuntime.out4 = "none"
      /\ NewRuntime.was4 = "none" /\ NewRuntime.was6 = "none" /\ NewRuntime.waspf = "none"
  BY DEF NewRuntime
<1>3. Explained(kernel, rt, orphans \cup RememberedIn(file))
  BY <1>1 DEF Explained
<1> QED BY <1>1, <1>2, <1>3 DEF ChangeInv, Steady

LEMMA ChangeStep == TypeInv /\ RouteInv /\ ChangeInv /\ [Next]_vars => ChangeInv'
<1> SUFFICES ASSUME TypeInv, RouteInv, ChangeInv, [Next]_vars PROVE ChangeInv'
  OBVIOUS
<1>1. CASE UNCHANGED vars
  <2>1. UNCHANGED <<os, before, kernel, rt, file, orphans, pc>>
    BY <1>1 DEF vars
  <2>2. RememberedIn(file)' = RememberedIn(file) /\ FileRoutes' = FileRoutes
    BY <2>1 DEF RememberedIn, FileRoutes
  <2>3. Noted' = Noted
    BY <2>1, <2>2 DEF Noted
  <2>4. pc # "down" => Explained(kernel, rt, Noted)'
    BY <2>1, <2>3 DEF ChangeInv, Explained
  <2>5. pc = "down" => Explained(kernel, rt, orphans \cup RememberedIn(file))'
    BY <2>1, <2>2 DEF ChangeInv, Explained
  <2> QED BY <2>1, <2>4, <2>5 DEF ChangeInv, Steady
<1>2. CASE Apply
  BY <1>2, ChangePlan, ChangeDevice, ChangeBypass, ChangeInterface, ChangeForward, ChangeWindows
     DEF Apply
<1>3. CASE Next /\ ~Apply
  BY <1>3, ChangeSession
<1> QED BY <1>1, <1>2, <1>3 DEF Next

LEMMA ChangeImplies == TypeInv /\ ChangeInv => ChangesAreUndone
<1> SUFFICES ASSUME TypeInv, ChangeInv PROVE ChangesAreUndone
  OBVIOUS
<1>1. kernel \in KernelType /\ rt \in RuntimeType /\ OutsideInv
  BY DEF TypeInv, MachineInv
<1>2. FileRoutes \subseteq RememberedIn(file)
  BY DEF FileRoutes, RememberedIn
<1>3. Explained(kernel, rt, orphans \cup RememberedIn(file))
  <2>1. Noted \subseteq orphans \cup RememberedIn(file)
    BY <1>2 DEF Noted
  <2> QED BY <2>1, ExplainedGrows DEF ChangeInv
<1>4. NothingForgotten
  <2>1. Leftovers(kernel) \subseteq RememberedBy(rt) \cup (orphans \cup RememberedIn(file))
    BY <1>1, <1>3, ExplainedLeftovers
  <2> QED BY <2>1 DEF NothingForgotten
<1>5. ASSUME os = "macos", pc = "idle", file = CleanupState(rt)
      PROVE  Leftovers(DropDevice(Here).k) \subseteq RememberedIn(file) \cup orphans
  <2> DEFINE k == DropDevice(Here).k
             X == orphans \cup RememberedIn(file)
  <2>1. Here \in PairType /\ Here.k = kernel
    BY HereType
  <2>2. k \in KernelType /\ k = [kernel EXCEPT !.default = @ \ {"tunnel"}]
    BY <2>1, DropDeviceEffect, PairFields
  <2>3. /\ k.default = kernel.default \ {"tunnel"} /\ k.bypass = kernel.bypass
        /\ SameForwarding(k, kernel)
    BY <1>1, <2>2 DEF KernelType, SameForwarding
  <2>4. /\ rt.out6 = FALSE /\ rt.was6 = "none" /\ (rt.out4 # "none" => rt.waspf # "none")
    BY <1>5 DEF ChangeInv, Steady
  <2>5. /\ \A h \in rt.bypass : <<"bypass", h>> \in X
        /\ rt.orig => <<"missing", "underlay">> \in X
        /\ rt.was4 = "off" => <<"forward", "v4">> \in X
        /\ rt.waspf # "none" => <<"rules", "v4">> \in X
        /\ rt.waspf = "off" => <<"pf", TRUE>> \in X
    <3>1. CASE file = NoFile
      <4>1. ~rt.orig /\ rt.bypass = {} /\ rt.was4 = "none" /\ rt.waspf = "none"
        BY <1>5, <3>1 DEF CleanupState, NoFile
      <4> QED BY <4>1
    <3>2. CASE file # NoFile
      <4>1. /\ file.bypass = rt.bypass /\ file.orig = rt.orig /\ file.was4 = rt.was4
            /\ file.waspf = rt.waspf
        BY <1>5, <3>2 DEF CleanupState
      <4> QED BY <3>2, <4>1 DEF RememberedIn
    <3> QED BY <3>1, <3>2
  <2> HIDE DEF k, X
  <2>6. Explained(kernel, rt, X)
    BY <1>3 DEF X
  <2>7. Explained(k, NewRuntime, X)
    <3>1. NewRuntime.bypass = {} /\ NewRuntime.orig = FALSE
      BY DEF NewRuntime
    <3> QED BY <2>3, <2>4, <2>5, <2>6, <3>1 DEF Explained, SameForwarding
  <2>8. RememberedBy(NewRuntime) = {}
    BY DEF RememberedBy, NewRuntime
  <2>9. Leftovers(k) \subseteq X
    BY <1>1, <2>2, <2>7, <2>8, NewRuntimeType, ExplainedLeftovers
  <2> QED BY <2>9 DEF k, X
<1>6. SavedIsEnough
  BY <1>5 DEF SavedIsEnough
<1> QED BY <1>4, <1>6 DEF ChangesAreUndone

(* Whatever fails in an update, a stop or a repair, and whenever the        *)
(* process dies: every change to the machine is known to the running        *)
(* process or to the cleanup file, and on macOS the file alone is enough    *)
(* once a tick has written it; the exceptions are in orphans                *)
(* (CliTunnelRuntime::stop, macos_network_cleanup_state,                    *)
(* repair_saved_network_state).                                             *)
THEOREM HostChangesAreUndone == Spec => []ChangesAreUndone
<1>1. Spec => [](TypeInv /\ RouteInv /\ ChangeInv)
  <2>1. Init => TypeInv /\ RouteInv /\ ChangeInv
    BY TypeInit, RouteInit, ChangeInit
  <2>2. TypeInv /\ RouteInv /\ ChangeInv /\ [Next]_vars => (TypeInv /\ RouteInv /\ ChangeInv)'
    BY TypeStep, RouteStep, ChangeStep
  <2> QED BY <2>1, <2>2, PTL DEF Spec
<1> QED BY <1>1, ChangeImplies, PTL
=============================================================================
