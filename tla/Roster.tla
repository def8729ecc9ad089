------------------------------- MODULE Roster -------------------------------
(***************************************************************************)
(* Membership of one network: the participants and admins every node keeps *)
(* in its config, the admin-signed rosters admins send each other and the  *)
(* members, invites and join requests.                                     *)
(*                                                                         *)
(* A node keeps its config three times: the daemon's memory (app), the     *)
(* config file, and, while a CLI command or the GUI edits, the copy it     *)
(* loaded.  Each copy is written back whole.                               *)
(*                                                                         *)
(* A roster goes to the members it names, so a message needs no recipient. *)
(* It may be lost (never received), delayed, reordered or received again:  *)
(* msgs only grows.                                                        *)
(***************************************************************************)
EXTENDS Integers, FiniteSets

CONSTANTS
  Nodes,
  Founder,          \* the admin that created the network
  Members0,         \* participants of the network at the start
  Editors,          \* nodes whose users edit the roster
  Promotable,       \* nodes an edit may make an admin
  Importers,        \* nodes whose users import an invite
  Requesters,       \* nodes that send join requests
  SaveMayFail,      \* may writing the config file fail?
  Skew,             \* how far a node's clock is ahead
  MaxFuture,        \* MAX_SHARED_ROSTER_FUTURE_SECS
  MaxTime, MaxEdits \* bounds of the model

ASSUME RosterAssumption ==
  /\ Founder \in Nodes /\ Members0 \subseteq Nodes
  /\ Editors \subseteq Nodes /\ Promotable \subseteq Nodes
  /\ Importers \subseteq Nodes /\ Requesters \subseteq Nodes
  /\ SaveMayFail \in BOOLEAN /\ Skew \in [Nodes -> Nat]
  /\ MaxFuture \in Nat /\ MaxTime \in Nat \ {0} /\ MaxEdits \in Nat

VARIABLES
  now,       \* time; current_unix_timestamp() of n is now + Skew[n]
  mem,       \* app, in the daemon of each node
  disk,      \* the config file of each node
  cli,       \* the copy an edit in progress works on
  reload,    \* nodes whose daemon was asked to reload
  msgs,      \* rosters published so far
  invites,   \* admin lists of the invites handed out so far
  edits,     \* history: the rosters that edits of admins produced
  named      \* history: whose user named whom an admin

vars == <<now, mem, disk, cli, reload, msgs, invites, edits, named>>

Config == [joined : BOOLEAN, participants : SUBSET Nodes, admins : SUBSET Nodes,
           updated_at : Nat, inbound : SUBSET Nodes]
RosterMsg == [from : Nodes, participants : SUBSET Nodes, admins : SUBSET Nodes,
              signed_at : Nat]

NoConfig == [joined |-> FALSE, participants |-> {}, admins |-> {},
             updated_at |-> 0, inbound |-> {}]

Clock(n) == now + Skew[n]
Larger(a, b) == IF a >= b THEN a ELSE b

MembersOf(cfg) == cfg.participants \union cfg.admins

-----------------------------------------------------------------------------
(* NetworkConfig *)

(* Fault: the timestamp is only the clock's. *)
StampClockOnly(cfg, n) ==
  IF n \in cfg.admins THEN [cfg EXCEPT !.updated_at = Clock(n)] ELSE cfg

(* note_network_roster_local_change: an admin's edit gets a newer stamp. *)
Stamp(cfg, n) ==
  IF n \in cfg.admins
  THEN [cfg EXCEPT !.updated_at = Larger(Clock(n), @ + 1)] ELSE cfg

(* ensure_defaults drops the join requests of participants; without admins  *)
(* a network falls back to its own node.                                    *)
Normalized(cfg, n) ==
  [cfg EXCEPT !.inbound = @ \ cfg.participants,
              !.admins = IF cfg.joined /\ @ = {} THEN {n} ELSE @]

AddParticipant(cfg, n, x) == Stamp([cfg EXCEPT !.participants = @ \union {x}], n)

RemoveParticipant(cfg, n, x) ==
  Stamp([cfg EXCEPT !.participants = @ \ {x}, !.admins = @ \ {x}], n)

AddAdmin(cfg, n, x) == Stamp([cfg EXCEPT !.admins = @ \union {x}], n)
RemoveAdmin(cfg, n, x) == Stamp([cfg EXCEPT !.admins = @ \ {x}], n)

(* What one edit of n's user can make of cfg. *)
Edited(cfg, n) ==
  {AddParticipant(cfg, n, x) : x \in Nodes}
    \union {RemoveParticipant(cfg, n, x) : x \in {y \in Nodes : cfg.admins # {y}}}
    \union {AddAdmin(cfg, n, x) : x \in Promotable}
    \union {RemoveAdmin(cfg, n, x) : x \in {y \in cfg.admins : cfg.admins # {y}}}

(* Fault: every member publishes, not only the admins. *)
PublishesAnyMember(cfg, n) == cfg.joined /\ MembersOf(cfg) \ {n} # {}

(* publish_active_network_roster: only an admin publishes, to somebody; the *)
(* publisher adds itself to the participants, and a roster that was never   *)
(* stamped is signed with the current time.                                 *)
Publishes(cfg, n) == cfg.joined /\ n \in cfg.admins /\ MembersOf(cfg) \ {n} # {}

RosterOf(cfg, n) ==
  [from |-> n, participants |-> cfg.participants \union {n}, admins |-> cfg.admins,
   signed_at |-> IF cfg.updated_at > 0 THEN cfg.updated_at ELSE Clock(n)]

Published(cfg, n) == IF Publishes(cfg, n) THEN msgs \union {RosterOf(cfg, n)} ELSE msgs

-----------------------------------------------------------------------------
(* The CLI and the GUI: load, edit, save, ask the daemon to reload *)

CliLoad(n) ==
  /\ n \in Editors /\ cli[n] = NoConfig /\ disk[n].joined
  /\ Cardinality(edits) <= MaxEdits
  /\ cli' = [cli EXCEPT ![n] = Normalized(disk[n], n)]
  /\ UNCHANGED <<now, mem, disk, reload, msgs, invites, edits, named>>

(* maybe_reload_running_daemon: the request may fail, and is not repeated. *)
AskReload(n) == reload' = reload \union {n} \/ (SaveMayFail /\ UNCHANGED reload)

(* update_active_network_roster; it may also publish what it saved. *)
CliSave(n) ==
  /\ cli[n].joined
  /\ \E cfg \in Edited(cli[n], n) :
       /\ disk' = [disk EXCEPT ![n] = Normalized(cfg, n)]
       /\ msgs' \in {msgs, Published(cfg, n)}
       /\ edits' = IF n \in cfg.admins THEN edits \union {RosterOf(cfg, n)} ELSE edits
       /\ named' = named \union ({n} \X (cfg.admins \ cli[n].admins))
  /\ cli' = [cli EXCEPT ![n] = NoConfig]
  /\ AskReload(n)
  /\ UNCHANGED <<now, mem, invites>>

(* active_network_invite_code names the admins and no participants. *)
CreateInvite(n) ==
  /\ disk[n].joined /\ disk[n].admins # {} /\ Importers # {}
  /\ invites' = invites \union {disk[n].admins}
  /\ UNCHANGED <<now, mem, disk, cli, reload, msgs, edits, named>>

(* apply_network_invite_to_active_network: a new network starts without a   *)
(* stamp, a known one gains the admins of the invite.                       *)
Imported(cfg, admins) ==
  IF cfg.joined THEN [cfg EXCEPT !.admins = @ \union admins]
  ELSE [NoConfig EXCEPT !.joined = TRUE, !.admins = admins]

ImportInvite(n, admins) ==
  /\ n \in Importers
  /\ disk' = [disk EXCEPT ![n] = Imported(@, admins)]
  /\ AskReload(n)
  /\ UNCHANGED <<now, mem, cli, msgs, invites, edits, named>>

-----------------------------------------------------------------------------
(* The daemon *)

(* The daemon starts again or is asked to reload: the file is loaded and,   *)
(* once connected, the roster is published.                                 *)
Reload(n) ==
  /\ n \in reload
  /\ mem' = [mem EXCEPT ![n] = Normalized(disk[n], n)]
  /\ reload' = reload \ {n}
  /\ msgs' \in {msgs, Published(mem'[n], n)}
  /\ UNCHANGED <<now, disk, cli, invites, edits, named>>

Restart(n) ==
  /\ mem[n] # Normalized(disk[n], n)
  /\ mem' = [mem EXCEPT ![n] = Normalized(disk[n], n)]
  /\ UNCHANGED <<now, disk, cli, reload, msgs, invites, edits, named>>

(* After a reconnect to everyone, after a Hello or Announce to its sender.  *)
Publish(n) ==
  /\ Publishes(mem[n], n)
  /\ msgs' = Published(mem[n], n)
  /\ UNCHANGED <<now, mem, disk, cli, reload, invites, edits, named>>

(* app.save writes the whole of the daemon's memory. *)
Saved(n) ==
  disk' = [disk EXCEPT ![n] = Normalized(mem'[n], n)] \/ (SaveMayFail /\ UNCHANGED disk)

(* Fault: the sender is not looked up among the admins. *)
AcceptableFromAnyone(n, m) ==
  /\ mem[n].joined
  /\ m.signed_at <= Clock(n) + MaxFuture
  /\ m.signed_at > mem[n].updated_at

(* apply_admin_signed_shared_roster takes m. *)
Acceptable(n, m) ==
  /\ mem[n].joined
  /\ m.signed_at <= Clock(n) + MaxFuture
  /\ m.from \in mem[n].admins
  /\ m.signed_at > mem[n].updated_at

(* Fault: the participants are added to the known ones. *)
AppliedMerged(cfg, n, m) ==
  [cfg EXCEPT !.participants = (@ \union m.participants) \ {n}, !.admins = m.admins,
              !.updated_at = m.signed_at, !.inbound = @ \ m.participants]

(* What apply_admin_signed_shared_roster makes of the config. *)
Applied(cfg, n, m) ==
  [cfg EXCEPT !.participants = m.participants \ {n}, !.admins = m.admins,
              !.updated_at = m.signed_at, !.inbound = @ \ m.participants]

(* persist_shared_network_roster, then, once reconnected, a publish; when   *)
(* the save fails the roster stays applied in memory and nothing follows.   *)
ReceiveRoster(n, m) ==
  /\ n \in (m.participants \union m.admins) \ {m.from}
  /\ Acceptable(n, m)
  /\ mem' = [mem EXCEPT ![n] = Applied(@, n, m)]
  /\ Saved(n)
  /\ msgs' \in {msgs} \union (IF disk' = disk THEN {} ELSE {Published(mem'[n], n)})
  /\ UNCHANGED <<now, cli, reload, invites, edits, named>>

(* record_inbound_join_request of r, who knows n as an admin. *)
ReceiveJoinRequest(n, r) ==
  /\ r \in Requesters \ {n} /\ disk[r].joined /\ n \in disk[r].admins
  /\ mem[n].joined /\ r \notin mem[n].participants
  /\ mem' = [mem EXCEPT ![n].inbound = @ \union {r}]
  /\ Saved(n)
  /\ UNCHANGED <<now, cli, reload, msgs, invites, edits, named>>

Tick ==
  /\ now < MaxTime
  /\ now' = now + 1
  /\ UNCHANGED <<mem, disk, cli, reload, msgs, invites, edits, named>>

-----------------------------------------------------------------------------
(* At the start the founder has created the network, and its first roster   *)
(* has reached the first members.                                           *)
Config0(n) ==
  IF n \in Members0 \union {Founder}
  THEN [joined |-> TRUE, participants |-> (Members0 \union {Founder}) \ {n},
        admins |-> {Founder}, updated_at |-> 1, inbound |-> {}]
  ELSE NoConfig

Init ==
  /\ now = 1
  /\ mem = [n \in Nodes |-> Config0(n)] /\ disk = mem
  /\ cli = [n \in Nodes |-> NoConfig]
  /\ reload = {} /\ msgs = {} /\ invites = {}
  /\ edits = {RosterOf(Config0(Founder), Founder)} /\ named = {}

Next ==
  \/ Tick
  \/ \E n \in Nodes :
       \/ CliLoad(n) \/ CliSave(n) \/ CreateInvite(n)
       \/ \E admins \in invites : ImportInvite(n, admins)
       \/ Reload(n) \/ Restart(n) \/ Publish(n)
       \/ \E m \in msgs : ReceiveRoster(n, m)
       \/ \E r \in Nodes : ReceiveJoinRequest(n, r)

(* Daemons reconnect and answer every Hello with the roster; a roster that  *)
(* keeps being published is received; a reload that was asked for happens.  *)
Fairness ==
  \A n \in Nodes :
    /\ WF_vars(CliSave(n)) /\ WF_vars(Reload(n)) /\ WF_vars(Publish(n))
    /\ WF_vars(\E m \in msgs : ReceiveRoster(n, m))

Spec == Init /\ [][Next]_vars
FairSpec == Spec /\ WF_vars(Tick) /\ Fairness

-----------------------------------------------------------------------------
(* Type correctness of the configs and messages; a roster is signed by one  *)
(* of the admins it names.                                                  *)
TypeOK ==
  /\ now \in 1 .. MaxTime
  /\ mem \in [Nodes -> Config] /\ disk \in [Nodes -> Config] /\ cli \in [Nodes -> Config]
  /\ reload \subseteq Nodes /\ msgs \subseteq RosterMsg
  /\ invites \subseteq SUBSET Nodes /\ edits \subseteq RosterMsg
  /\ named \subseteq Nodes \X Nodes
  /\ \A m \in msgs : m.from \in m.admins

SameRoster(a, b) ==
  a.signed_at = b.signed_at /\ a.admins = b.admins /\ MembersOf(a) = MembersOf(b)

(* Whatever is lost, reordered, republished by other admins or edited at    *)
(* the same time, every roster in circulation is, stamp, admins and members *)
(* alike, one that an admin's edit produced: rosters are passed on whole    *)
(* and never merged.                                                        *)
RostersComeFromEdits == \A m \in msgs : \E e \in edits : SameRoster(m, e)

(* Nobody becomes an admin by itself: a user may edit the local config and  *)
(* name itself an admin, but as long as no other node's user has named it,  *)
(* no other node's daemon takes it for one, except where the user imported  *)
(* an invite that names it.                                                 *)
NamedByOthers(x) == \E n \in Nodes \ {x} : <<n, x>> \in named
NoSelfPromotion ==
  \A x \in Nodes \ {Founder} : ~NamedByOthers(x)
    => \A n \in Nodes \ (Importers \union {x}) : x \notin mem[n].admins

(* While one admin edits and no edit is lost, a stamp stands for one roster *)
(* in whatever order the copies arrive: nodes that compare nothing but      *)
(* stamps cannot settle on different rosters.                               *)
StampIdentifiesRoster ==
  \A m1, m2 \in msgs : m1.signed_at = m2.signed_at => SameRoster(m1, m2)

(* With one admin, and no edit lost, everyone its roster names ends up with *)
(* exactly that roster, whatever was lost or reordered on the way.          *)
Converged(n) ==
  /\ mem[n].updated_at = mem[Founder].updated_at
  /\ mem[n].admins = mem[Founder].admins
  /\ MembersOf(mem[n]) \union {n} = MembersOf(mem[Founder]) \union {Founder}
Converges ==
  <>[](\A n \in MembersOf(mem[Founder]) : mem[n].joined => Converged(n))

(* docs/protocol.md:231: signed_at must be newer than the local stored      *)
(* roster timestamp.  The stored timestamp never goes back.                 *)
StoredStampNeverGoesBack ==
  [][\A n \in Nodes : disk'[n].updated_at >= disk[n].updated_at]_vars
=============================================================================
