---------------------------- MODULE Roster_proofs ----------------------------
(***************************************************************************)
(* Theorems about the rosters of a network, for any nodes, editors, clocks *)
(* and number of edits.                                                    *)
(***************************************************************************)
EXTENDS Roster, TLAPS

(* Who an edit may ever make an admin. *)
Eligible == Promotable \union {Founder}

(* A config somebody joined with has admins, all of them eligible: an edit  *)
(* cannot remove the last one, and neither an invite nor a roster is empty. *)
AdminsOK(cfg) == cfg.admins \subseteq Eligible /\ (cfg.joined => cfg.admins # {})

(* What an admin's copy says is what some edit said. *)
FromEdit(E, cfg, n) ==
  cfg.joined /\ n \in cfg.admins =>
    /\ cfg.updated_at > 0
    /\ \E e \in E : /\ e.signed_at = cfg.updated_at /\ e.admins = cfg.admins
                        /\ MembersOf(e) = MembersOf(cfg)

CopiesOK(E, f) ==
  f \in [Nodes -> Config] /\ \A n \in Nodes : AdminsOK(f[n]) /\ FromEdit(E, f[n], n)
(* A roster in circulation was signed by an admin it names, and says what an *)
(* edit said.                                                                *)
RosterOK(E, m) ==
  /\ m \in RosterMsg /\ m.from \in m.admins /\ m.admins \subseteq Eligible
  /\ \E e \in E : SameRoster(m, e)

EditInv ==
  /\ TypeOK
  /\ CopiesOK(edits, mem) /\ CopiesOK(edits, disk) /\ CopiesOK(edits, cli)
  /\ \A m \in msgs : RosterOK(edits, m)
  /\ \A i \in invites : i # {} /\ i \subseteq Eligible

(* Nodes that import invites are never admins: the roster of an admin who   *)
(* imports one is made of the invite.                                       *)
ImportersApart == Importers \intersect Eligible = {}

-----------------------------------------------------------------------------
(* The operators on configs. *)

LEMMA ClockType == ASSUME TypeOK, NEW n \in Nodes PROVE Clock(n) \in Nat /\ Clock(n) > 0
BY RosterAssumption DEF TypeOK, Clock

(* Normalizing changes nothing that a roster is made of. *)
LEMMA NormalizedKeeps ==
  ASSUME NEW cfg \in Config, NEW n \in Nodes, AdminsOK(cfg)
  PROVE  /\ Normalized(cfg, n) \in Config
         /\ Normalized(cfg, n).joined = cfg.joined
         /\ Normalized(cfg, n).participants = cfg.participants
         /\ Normalized(cfg, n).admins = cfg.admins
         /\ Normalized(cfg, n).updated_at = cfg.updated_at
<1> DEFINE new == [cfg EXCEPT !.inbound = @ \ cfg.participants]
<1>1. Normalized(cfg, n) = new
  BY DEF AdminsOK, Normalized, Config
<1> QED BY <1>1 DEF Config

LEMMA NormalizedFine ==
  ASSUME NEW E, NEW cfg \in Config, NEW n \in Nodes, AdminsOK(cfg), FromEdit(E, cfg, n)
  PROVE  AdminsOK(Normalized(cfg, n)) /\ FromEdit(E, Normalized(cfg, n), n)
BY NormalizedKeeps DEF AdminsOK, FromEdit, MembersOf

LEMMA StampKeeps ==
  ASSUME TypeOK, NEW cfg \in Config, NEW n \in Nodes
  PROVE  /\ Stamp(cfg, n) \in Config
         /\ Stamp(cfg, n).joined = cfg.joined /\ Stamp(cfg, n).admins = cfg.admins
         /\ n \in cfg.admins => Stamp(cfg, n).updated_at > 0
<1>1. Larger(Clock(n), cfg.updated_at + 1) \in Nat /\ Larger(Clock(n), cfg.updated_at + 1) > 0
  BY ClockType DEF Larger, Config
<1> QED BY <1>1 DEF Stamp, Config

(* Whatever a user edits, the config keeps an admin, and an admin's edit has *)
(* a stamp.                                                                  *)
LEMMA EditedKeeps ==
  ASSUME TypeOK, NEW old \in Config, NEW n \in Nodes, old.joined, AdminsOK(old),
         NEW cfg \in Edited(old, n)
  PROVE  /\ cfg \in Config /\ cfg.joined /\ AdminsOK(cfg)
         /\ n \in cfg.admins => cfg.updated_at > 0
<1>1. ASSUME NEW c \in Config, c.joined, c.admins \subseteq Eligible, c.admins # {}, cfg = Stamp(c, n)
      PROVE  /\ cfg \in Config /\ cfg.joined /\ AdminsOK(cfg)
             /\ n \in cfg.admins => cfg.updated_at > 0
  BY <1>1, StampKeeps DEF AdminsOK
<1>2. ASSUME NEW x \in Nodes, cfg = AddParticipant(old, n, x)
      PROVE  \E c \in Config : c.joined /\ c.admins \subseteq Eligible /\ c.admins # {} /\ cfg = Stamp(c, n)
  <2> DEFINE c == [old EXCEPT !.participants = @ \union {x}]
  <2>1. c \in Config /\ c.joined /\ c.admins = old.admins
    BY DEF Config
  <2>2. cfg = Stamp(c, n)
    BY <1>2 DEF AddParticipant
  <2> QED BY <2>1, <2>2 DEF AdminsOK
<1>3. ASSUME NEW x \in Nodes, old.admins # {x}, cfg = RemoveParticipant(old, n, x)
      PROVE  \E c \in Config : c.joined /\ c.admins \subseteq Eligible /\ c.admins # {} /\ cfg = Stamp(c, n)
  <2> DEFINE c == [old EXCEPT !.participants = @ \ {x}, !.admins = @ \ {x}]
  <2>1. c \in Config /\ c.joined /\ c.admins = old.admins \ {x}
    BY DEF Config
  <2>2. cfg = Stamp(c, n)
    BY <1>3 DEF RemoveParticipant
  <2> QED BY <1>3, <2>1, <2>2 DEF AdminsOK
<1>4. ASSUME NEW x \in Promotable, cfg = AddAdmin(old, n, x)
      PROVE  \E c \in Config : c.joined /\ c.admins \subseteq Eligible /\ c.admins # {} /\ cfg = Stamp(c, n)
  <2> DEFINE c == [old EXCEPT !.admins = @ \union {x}]
  <2>1. c \in Config /\ c.joined /\ c.admins = old.admins \union {x}
    BY RosterAssumption DEF Config
  <2>2. cfg = Stamp(c, n)
    BY <1>4 DEF AddAdmin
  <2> QED BY <2>1, <2>2 DEF AdminsOK, Eligible
<1>5. ASSUME NEW x \in Nodes, old.admins # {x}, cfg = RemoveAdmin(old, n, x)
      PROVE  \E c \in Config : c.joined /\ c.admins \subseteq Eligible /\ c.admins # {} /\ cfg = Stamp(c, n)
  <2> DEFINE c == [old EXCEPT !.admins = @ \ {x}]
  <2>1. c \in Config /\ c.joined /\ c.admins = old.admins \ {x}
    BY DEF Config
  <2>2. cfg = Stamp(c, n)
    BY <1>5 DEF RemoveAdmin
  <2> QED BY <1>5, <2>1, <2>2 DEF AdminsOK
<1>6. old.admins \subseteq Nodes
  BY DEF Config
<1> QED BY <1>1, <1>2, <1>3, <1>4, <1>5, <1>6 DEF Edited

(* The roster of an admin's copy says what the copy says. *)
LEMMA RosterSays ==
  ASSUME TypeOK, NEW cfg \in Config, NEW n \in Nodes, n \in cfg.admins, cfg.updated_at > 0
  PROVE  /\ RosterOf(cfg, n) \in RosterMsg
         /\ RosterOf(cfg, n).from = n
         /\ RosterOf(cfg, n).admins = cfg.admins
         /\ RosterOf(cfg, n).signed_at = cfg.updated_at
         /\ MembersOf(RosterOf(cfg, n)) = MembersOf(cfg)
BY DEF RosterOf, RosterMsg, Config, MembersOf

(* Publishing a copy that comes from an edit. *)
LEMMA PublishedFine ==
  ASSUME TypeOK, NEW E, NEW cfg \in Config, NEW n \in Nodes, AdminsOK(cfg), FromEdit(E, cfg, n),
         NEW m \in Published(cfg, n)
  PROVE  m \in msgs \/ RosterOK(E, m)
<1>1. CASE ~Publishes(cfg, n)
  BY <1>1 DEF Published
<1>2. CASE Publishes(cfg, n)
  <2>1. cfg.joined /\ n \in cfg.admins /\ cfg.updated_at > 0
    BY <1>2 DEF Publishes, FromEdit
  <2>2. \E e \in E : SameRoster(RosterOf(cfg, n), e)
    BY <2>1, RosterSays DEF FromEdit, SameRoster
  <2>3. Published(cfg, n) = msgs \union {RosterOf(cfg, n)}
    BY <1>2 DEF Published
  <2> QED BY <2>1, <2>2, <2>3, RosterSays DEF AdminsOK, RosterOK
<1> QED BY <1>1, <1>2

(* One copy changes, or none, and edits are only added. *)
LEMMA CopyFine ==
  ASSUME NEW E, NEW F, E \subseteq F, NEW f, NEW g, CopiesOK(E, f),
         \/ g = f
         \/ \E n \in Nodes, cfg \in Config :
               g = [f EXCEPT ![n] = cfg] /\ AdminsOK(cfg) /\ FromEdit(F, cfg, n)
  PROVE  CopiesOK(F, g)
<1>1. \A n \in Nodes : AdminsOK(f[n]) /\ FromEdit(F, f[n], n)
  BY DEF CopiesOK, FromEdit
<1> QED BY <1>1 DEF CopiesOK

(* The invariant of the next state, put together. *)
LEMMA TogetherFine ==
  ASSUME EditInv, edits \subseteq edits', edits' \subseteq RosterMsg, now' \in 1 .. MaxTime,
         reload' \subseteq Nodes, invites' \subseteq SUBSET Nodes, named' \subseteq Nodes \X Nodes,
         CopiesOK(edits', mem'), CopiesOK(edits', disk'), CopiesOK(edits', cli'),
         \A m \in msgs' : m \in msgs \/ RosterOK(edits', m),
         \A i \in invites' : i # {} /\ i \subseteq Eligible
  PROVE  EditInv'
<1>1. \A m \in msgs' : RosterOK(edits', m)
  BY DEF EditInv, RosterOK
<1>2. TypeOK'
  BY <1>1 DEF TypeOK, CopiesOK, RosterOK
<1> QED BY <1>1, <1>2 DEF EditInv

-----------------------------------------------------------------------------
LEMMA EditInit == Init => EditInv
<1> SUFFICES ASSUME Init PROVE EditInv
  OBVIOUS
<1>1. \A n \in Nodes : /\ Config0(n) \in Config /\ AdminsOK(Config0(n))
                       /\ Config0(n).joined => Config0(n).admins = {Founder} /\ Config0(n).updated_at = 1
  BY RosterAssumption DEF Config0, NoConfig, Config, AdminsOK, Eligible
<1>2. edits = {RosterOf(Config0(Founder), Founder)} /\ Founder \in Nodes
  BY RosterAssumption DEF Init
<1>3. Config0(Founder).joined
  BY DEF Config0
<1> DEFINE e == RosterOf(Config0(Founder), Founder)
<1>4. e \in RosterMsg /\ e.signed_at = 1 /\ e.admins = {Founder}
      /\ MembersOf(e) = MembersOf(Config0(Founder))
  BY <1>1, <1>2, <1>3 DEF RosterOf, RosterMsg, Config, MembersOf
<1> HIDE DEF e
<1>5. \A n \in Nodes : FromEdit(edits, Config0(n), n)
  <2> SUFFICES ASSUME NEW n \in Nodes, Config0(n).joined, n \in Config0(n).admins
               PROVE  FromEdit(edits, Config0(n), n)
    BY DEF FromEdit
  <2>1. n = Founder
    BY <1>1
  <2> QED BY <1>1, <1>2, <1>4, <2>1 DEF FromEdit, e
<1>6. NoConfig \in Config /\ AdminsOK(NoConfig) /\ \A n \in Nodes : FromEdit(edits, NoConfig, n)
  BY DEF NoConfig, Config, AdminsOK, FromEdit
<1>7. CopiesOK(edits, mem) /\ CopiesOK(edits, disk)
  BY <1>1, <1>5 DEF Init, CopiesOK
<1>8. CopiesOK(edits, cli)
  BY <1>6 DEF Init, CopiesOK
<1>9. TypeOK
  BY <1>2, <1>4, <1>7, <1>8, RosterAssumption DEF Init, TypeOK, CopiesOK, e
<1> QED BY <1>7, <1>8, <1>9 DEF Init, EditInv

(* A user saves an edit: if the user is an admin, the edit is one of edits. *)
LEMMA CliSaveFine ==
  ASSUME EditInv, NEW n \in Nodes, CliSave(n)
  PROVE  EditInv'
<1>1. cli[n] \in Config /\ cli[n].joined /\ AdminsOK(cli[n]) /\ TypeOK
  BY DEF CliSave, EditInv, CopiesOK
<1>2. PICK cfg \in Edited(cli[n], n) :
         /\ disk' = [disk EXCEPT ![n] = Normalized(cfg, n)]
         /\ msgs' \in {msgs, Published(cfg, n)}
         /\ edits' = IF n \in cfg.admins THEN edits \union {RosterOf(cfg, n)} ELSE edits
         /\ named' = named \union ({n} \X (cfg.admins \ cli[n].admins))
  BY DEF CliSave
<1>3. /\ cfg \in Config /\ cfg.joined /\ AdminsOK(cfg)
      /\ n \in cfg.admins => cfg.updated_at > 0
  BY <1>1, EditedKeeps
<1>4. FromEdit(edits', cfg, n) /\ edits \subseteq edits' /\ edits' \subseteq RosterMsg
  BY <1>1, <1>2, <1>3, RosterSays DEF FromEdit, TypeOK
<1>5. Normalized(cfg, n) \in Config /\ AdminsOK(Normalized(cfg, n))
      /\ FromEdit(edits', Normalized(cfg, n), n)
  BY <1>3, <1>4, NormalizedKeeps, NormalizedFine
<1>6. CopiesOK(edits', mem')
  BY <1>4, CopyFine DEF EditInv, CliSave
<1>7. CopiesOK(edits', disk')
  <2>1. CopiesOK(edits, disk) /\ disk' = [disk EXCEPT ![n] = Normalized(cfg, n)]
    BY <1>2 DEF EditInv
  <2> QED BY <1>4, <1>5, <2>1, CopyFine
<1>8. NoConfig \in Config /\ AdminsOK(NoConfig) /\ FromEdit(edits', NoConfig, n)
  BY DEF NoConfig, Config, AdminsOK, FromEdit
<1>9. CopiesOK(edits', cli')
  BY <1>4, <1>8, CopyFine DEF EditInv, CliSave
<1>10. \A m \in msgs' : m \in msgs \/ RosterOK(edits', m)
  BY <1>1, <1>2, <1>3, <1>4, PublishedFine
<1>11. now' \in 1 .. MaxTime /\ reload' \subseteq Nodes /\ invites' = invites
  BY <1>1 DEF CliSave, AskReload, TypeOK
<1>14. named' \subseteq Nodes \X Nodes
  <2>1. \A x \in cfg.admins : x \in Nodes
    BY <1>3 DEF Config
  <2> QED BY <1>1, <1>2, <2>1 DEF TypeOK
<1>12. \A i \in invites' : i # {} /\ i \subseteq Eligible
  BY <1>11 DEF EditInv
<1>13. invites' \subseteq SUBSET Nodes
  BY <1>1, <1>11 DEF TypeOK
<1> QED BY <1>4, <1>6, <1>7, <1>9, <1>10, <1>11, <1>12, <1>13, <1>14, TogetherFine

(* A user imports an invite: the user's node is not one of its admins. *)
LEMMA ImportInviteFine ==
  ASSUME EditInv, ImportersApart, NEW n \in Nodes, NEW admins \in invites, ImportInvite(n, admins)
  PROVE  EditInv'
<1> DEFINE cfg == Imported(disk[n], admins)
<1>1. /\ TypeOK /\ admins # {} /\ admins \subseteq Eligible /\ admins \subseteq Nodes
      /\ disk[n] \in Config /\ AdminsOK(disk[n]) /\ n \notin Eligible
  BY DEF EditInv, TypeOK, CopiesOK, ImportInvite, ImportersApart
<1>2. /\ cfg \in Config
      /\ cfg.admins = IF disk[n].joined THEN disk[n].admins \union admins ELSE admins
  BY <1>1 DEF Imported, NoConfig, Config
<1>3. AdminsOK(cfg) /\ FromEdit(edits, cfg, n)
  BY <1>1, <1>2 DEF AdminsOK, FromEdit
<1>4. disk' = [disk EXCEPT ![n] = cfg]
  BY DEF ImportInvite
<1> HIDE DEF cfg
<1>5. edits' = edits /\ mem' = mem /\ cli' = cli /\ msgs' = msgs /\ invites' = invites
      /\ now' = now /\ named' = named
  BY DEF ImportInvite
<1>6. CopiesOK(edits', disk')
  BY <1>2, <1>3, <1>4, <1>5, CopyFine DEF EditInv
<1>7. reload' \subseteq Nodes
  BY <1>1 DEF ImportInvite, AskReload, TypeOK
<1> QED BY <1>1, <1>5, <1>6, <1>7, TogetherFine DEF EditInv, TypeOK

(* A daemon takes a roster: what it now holds is what the roster says. *)
LEMMA ReceiveRosterFine ==
  ASSUME EditInv, NEW n \in Nodes, NEW m \in msgs, ReceiveRoster(n, m)
  PROVE  EditInv'
<1> DEFINE cfg == Applied(mem[n], n, m)
<1>1. /\ TypeOK /\ mem[n] \in Config /\ mem[n].joined /\ AdminsOK(mem[n])
      /\ RosterOK(edits, m) /\ m.signed_at > mem[n].updated_at
  BY DEF EditInv, CopiesOK, ReceiveRoster, Acceptable
<1>2. m \in RosterMsg /\ m.from \in m.admins /\ m.admins \subseteq Eligible
  BY <1>1 DEF RosterOK
<1>3. /\ cfg \in Config /\ cfg.joined /\ cfg.admins = m.admins
      /\ cfg.updated_at = m.signed_at /\ cfg.participants = m.participants \ {n}
  BY <1>1, <1>2 DEF Applied, Config, RosterMsg
<1>4. cfg.updated_at > 0
  BY <1>1, <1>2, <1>3 DEF Config, RosterMsg
<1>5. AdminsOK(cfg)
  BY <1>2, <1>3 DEF AdminsOK
<1>6. FromEdit(edits, cfg, n)
  <2> SUFFICES ASSUME n \in cfg.admins PROVE FromEdit(edits, cfg, n)
    BY DEF FromEdit
  <2>1. MembersOf(cfg) = MembersOf(m)
    BY <1>3 DEF MembersOf
  <2> QED BY <1>1, <1>3, <1>4, <2>1 DEF FromEdit, RosterOK, SameRoster
<1>7. mem' = [mem EXCEPT ![n] = cfg] /\ edits' = edits /\ cli' = cli
      /\ now' = now /\ reload' = reload /\ invites' = invites /\ named' = named
  BY DEF ReceiveRoster
<1>8. mem'[n] = cfg
  BY <1>1, <1>7 DEF TypeOK
<1> HIDE DEF cfg
<1>9. Normalized(cfg, n) \in Config /\ AdminsOK(Normalized(cfg, n))
      /\ FromEdit(edits, Normalized(cfg, n), n)
  BY <1>3, <1>5, <1>6, NormalizedKeeps, NormalizedFine
<1>10. disk' = [disk EXCEPT ![n] = Normalized(cfg, n)] \/ disk' = disk
  BY <1>8 DEF ReceiveRoster, Saved
<1>11. CopiesOK(edits', mem') /\ CopiesOK(edits', disk')
  <2>1. CopiesOK(edits', mem')
    BY <1>3, <1>5, <1>6, <1>7, CopyFine DEF EditInv
  <2>2. CopiesOK(edits', disk')
    BY <1>7, <1>9, <1>10, CopyFine DEF EditInv
  <2> QED BY <2>1, <2>2
<1>12. msgs' = msgs \/ msgs' = Published(cfg, n)
  BY <1>8 DEF ReceiveRoster
<1>13. \A x \in msgs' : x \in msgs \/ RosterOK(edits', x)
  BY <1>1, <1>3, <1>5, <1>6, <1>7, <1>12, PublishedFine
<1> QED BY <1>1, <1>7, <1>11, <1>13, TogetherFine DEF EditInv, TypeOK

(* A daemon notes a join request: no part of a roster changes. *)
LEMMA ReceiveJoinRequestFine ==
  ASSUME EditInv, NEW n \in Nodes, NEW r \in Nodes, ReceiveJoinRequest(n, r)
  PROVE  EditInv'
<1> DEFINE cfg == [mem[n] EXCEPT !.inbound = @ \union {r}]
<1>1. TypeOK /\ mem[n] \in Config /\ AdminsOK(mem[n]) /\ FromEdit(edits, mem[n], n)
  BY DEF EditInv, CopiesOK
<1>2. /\ cfg \in Config /\ cfg.joined = mem[n].joined /\ cfg.admins = mem[n].admins
      /\ cfg.updated_at = mem[n].updated_at /\ cfg.participants = mem[n].participants
  BY <1>1 DEF Config
<1>3. mem' = [mem EXCEPT ![n] = cfg] /\ edits' = edits /\ cli' = cli /\ msgs' = msgs
      /\ now' = now /\ reload' = reload /\ invites' = invites /\ named' = named
  BY DEF ReceiveJoinRequest
<1>4. mem'[n] = cfg
  BY <1>1, <1>3 DEF TypeOK
<1> HIDE DEF cfg
<1>5. AdminsOK(cfg) /\ FromEdit(edits, cfg, n)
  BY <1>1, <1>2 DEF AdminsOK, FromEdit, MembersOf
<1>6. Normalized(cfg, n) \in Config /\ AdminsOK(Normalized(cfg, n))
      /\ FromEdit(edits, Normalized(cfg, n), n)
  BY <1>2, <1>5, NormalizedKeeps, NormalizedFine
<1>7. disk' = [disk EXCEPT ![n] = Normalized(cfg, n)] \/ disk' = disk
  BY <1>4 DEF ReceiveJoinRequest, Saved
<1>8. CopiesOK(edits', mem')
  BY <1>2, <1>3, <1>5, CopyFine DEF EditInv
<1>9. CopiesOK(edits', disk')
  BY <1>3, <1>6, <1>7, CopyFine DEF EditInv
<1> QED BY <1>1, <1>3, <1>8, <1>9, TogetherFine DEF EditInv, TypeOK

(* Loading the file, into the daemon or into an edit. *)
LEMMA LoadedFine ==
  ASSUME EditInv, NEW n \in Nodes, NEW f, CopiesOK(edits, f)
  PROVE  /\ Normalized(disk[n], n) \in Config
         /\ AdminsOK(Normalized(disk[n], n)) /\ FromEdit(edits, Normalized(disk[n], n), n)
         /\ CopiesOK(edits, [f EXCEPT ![n] = Normalized(disk[n], n)])
<1>1. disk[n] \in Config /\ AdminsOK(disk[n]) /\ FromEdit(edits, disk[n], n)
  BY DEF EditInv, CopiesOK
<1>2. /\ Normalized(disk[n], n) \in Config
      /\ AdminsOK(Normalized(disk[n], n)) /\ FromEdit(edits, Normalized(disk[n], n), n)
  BY <1>1, NormalizedKeeps, NormalizedFine
<1> QED BY <1>2, CopyFine

LEMMA EditStep == EditInv /\ ImportersApart /\ [Next]_vars => EditInv'
<1> SUFFICES ASSUME EditInv, ImportersApart, [Next]_vars PROVE EditInv'
  OBVIOUS
<1>0. TypeOK
  BY DEF EditInv
<1>1. CASE Tick
  <2>1. now' \in 1 .. MaxTime
    BY <1>0, <1>1, RosterAssumption DEF Tick, TypeOK
  <2> QED BY <1>0, <1>1, <2>1, TogetherFine DEF Tick, EditInv, TypeOK
<1>2. ASSUME NEW n \in Nodes, CliLoad(n) PROVE EditInv'
  <2>1. CopiesOK(edits', cli')
    BY <1>2, LoadedFine DEF CliLoad, EditInv
  <2> QED BY <1>0, <1>2, <2>1, TogetherFine DEF CliLoad, EditInv, TypeOK
<1>3. ASSUME NEW n \in Nodes, CliSave(n) PROVE EditInv'
  BY <1>3, CliSaveFine
<1>4. ASSUME NEW n \in Nodes, CreateInvite(n) PROVE EditInv'
  <2>1. disk[n].admins # {} /\ disk[n].admins \subseteq Eligible /\ disk[n].admins \subseteq Nodes
    BY <1>4 DEF CreateInvite, EditInv, CopiesOK, AdminsOK, Config
  <2> QED BY <1>0, <1>4, <2>1, TogetherFine DEF CreateInvite, EditInv, TypeOK
<1>5. ASSUME NEW n \in Nodes, NEW admins \in invites, ImportInvite(n, admins) PROVE EditInv'
  BY <1>5, ImportInviteFine
<1>6. ASSUME NEW n \in Nodes, Reload(n) PROVE EditInv'
  <2>1. CopiesOK(edits', mem')
    BY <1>6, LoadedFine DEF Reload, EditInv
  <2>2. mem'[n] = Normalized(disk[n], n)
    BY <1>0, <1>6 DEF Reload, TypeOK
  <2>3. \A m \in msgs' : m \in msgs \/ RosterOK(edits', m)
    BY <1>0, <1>6, <2>2, LoadedFine, PublishedFine DEF Reload, EditInv
  <2> QED BY <1>0, <1>6, <2>1, <2>3, TogetherFine DEF Reload, EditInv, TypeOK
<1>7. ASSUME NEW n \in Nodes, Restart(n) PROVE EditInv'
  <2>1. CopiesOK(edits', mem')
    BY <1>7, LoadedFine DEF Restart, EditInv
  <2> QED BY <1>0, <1>7, <2>1, TogetherFine DEF Restart, EditInv, TypeOK
<1>8. ASSUME NEW n \in Nodes, Publish(n) PROVE EditInv'
  <2>1. mem[n] \in Config /\ AdminsOK(mem[n]) /\ FromEdit(edits, mem[n], n)
    BY DEF EditInv, CopiesOK
  <2>2. \A m \in msgs' : m \in msgs \/ RosterOK(edits', m)
    BY <1>0, <1>8, <2>1, PublishedFine DEF Publish
  <2> QED BY <1>0, <1>8, <2>2, TogetherFine DEF Publish, EditInv, TypeOK
<1>9. ASSUME NEW n \in Nodes, NEW m \in msgs, ReceiveRoster(n, m) PROVE EditInv'
  BY <1>9, ReceiveRosterFine
<1>10. ASSUME NEW n \in Nodes, NEW r \in Nodes, ReceiveJoinRequest(n, r) PROVE EditInv'
  BY <1>10, ReceiveJoinRequestFine
<1>11. CASE UNCHANGED vars
  BY <1>0, <1>11, TogetherFine DEF vars, EditInv, TypeOK
<1> QED
  BY <1>1, <1>2, <1>3, <1>4, <1>5, <1>6, <1>7, <1>8, <1>9, <1>10, <1>11 DEF Next

LEMMA EditAlways == ASSUME ImportersApart PROVE Spec => []EditInv
<1>1. Init => EditInv
  BY EditInit
<1>2. EditInv /\ [Next]_vars => EditInv'
  BY EditStep
<1> QED BY <1>1, <1>2, PTL DEF Spec

(* Whatever is edited, lost, reordered, reloaded or not saved, configs and  *)
(* rosters are well formed, and a roster is signed by an admin it names     *)
(* (publish_active_network_roster, apply_admin_signed_shared_roster).       *)
THEOREM RosterTypeCorrect == ASSUME ImportersApart PROVE Spec => []TypeOK
<1>1. EditInv => TypeOK
  BY DEF EditInv
<1> QED BY <1>1, EditAlways, PTL

(* With any number of editors and clocks, every roster in circulation is,   *)
(* stamp, admins and members alike, one that an admin's edit produced       *)
(* (note_network_roster_local_change, apply_admin_signed_shared_roster),    *)
(* provided that nobody who may be an admin imports an invite.              *)
THEOREM RostersAreEdits == ASSUME ImportersApart PROVE Spec => []RostersComeFromEdits
<1>1. EditInv => RostersComeFromEdits
  BY DEF EditInv, RosterOK, RostersComeFromEdits
<1> QED BY <1>1, EditAlways, PTL

-----------------------------------------------------------------------------
(* Who is taken for an admin without having been named by anybody else.     *)

(* Nobody but x itself, and importers, has x among the admins in f. *)
OwnOnly(x, f) == \A n \in Nodes \ (Importers \union {x}) : x \notin f[n].admins

(* Only x itself says that x is an admin. *)
SelfInv ==
  \A x \in Nodes \ {Founder} : ~NamedByOthers(x) =>
    /\ OwnOnly(x, mem) /\ OwnOnly(x, disk) /\ OwnOnly(x, cli)
    /\ \A m \in msgs : x \in m.admins => m.from = x

LEMMA OwnOnlyChanged ==
  ASSUME NEW x, NEW f, OwnOnly(x, f), NEW n \in Nodes, NEW cfg, n \in DOMAIN f,
         n \notin Importers /\ n # x => x \notin cfg.admins
  PROVE  OwnOnly(x, [f EXCEPT ![n] = cfg])
BY DEF OwnOnly

(* An importer is no admin and publishes nothing; everybody else has x      *)
(* among its admins only if it is x.                                        *)
LEMMA PublishedSelf ==
  ASSUME TypeOK, ImportersApart, NEW x, NEW n \in Nodes, NEW cfg \in Config, AdminsOK(cfg),
         n \notin Importers /\ n # x => x \notin cfg.admins,
         \A m \in msgs : x \in m.admins => m.from = x,
         NEW m \in Published(cfg, n), x \in m.admins
  PROVE  m.from = x
<1>1. CASE ~Publishes(cfg, n)
  BY <1>1 DEF Published
<1>2. CASE Publishes(cfg, n)
  <2>1. n \in cfg.admins /\ n \notin Importers
    BY <1>2 DEF Publishes, AdminsOK, ImportersApart
  <2>2. RosterOf(cfg, n).from = n /\ RosterOf(cfg, n).admins = cfg.admins
    BY DEF RosterOf
  <2> QED BY <1>2, <2>1, <2>2 DEF Published
<1> QED BY <1>1, <1>2

LEMMA SelfInit == ASSUME ImportersApart PROVE Init => SelfInv
<1> SUFFICES ASSUME Init, NEW x \in Nodes \ {Founder}
             PROVE  /\ OwnOnly(x, mem) /\ OwnOnly(x, disk) /\ OwnOnly(x, cli)
                    /\ \A m \in msgs : x \in m.admins => m.from = x
  BY DEF SelfInv
<1>1. \A n \in Nodes : x \notin Config0(n).admins /\ x \notin NoConfig.admins
  BY DEF Config0, NoConfig
<1> QED BY <1>1 DEF Init, OwnOnly

(* One step, for one x. *)
LEMMA SelfStep == EditInv /\ SelfInv /\ ImportersApart /\ [Next]_vars => SelfInv'
<1> SUFFICES ASSUME EditInv, SelfInv, ImportersApart, [Next]_vars,
                    NEW x \in Nodes \ {Founder}, ~NamedByOthers(x)'
             PROVE  /\ OwnOnly(x, mem') /\ OwnOnly(x, disk') /\ OwnOnly(x, cli')
                    /\ \A m \in msgs' : x \in m.admins => m.from = x
  BY DEF SelfInv, OwnOnly
<1> DEFINE Goal == /\ OwnOnly(x, mem') /\ OwnOnly(x, disk') /\ OwnOnly(x, cli')
                   /\ \A m \in msgs' : x \in m.admins => m.from = x
<1>1. named \subseteq named'
  BY DEF Next, Tick, CliLoad, CliSave, CreateInvite, ImportInvite, Reload, Restart, Publish,
         ReceiveRoster, ReceiveJoinRequest, vars
<1>2. ~NamedByOthers(x)
  BY <1>1 DEF NamedByOthers
<1>3. /\ OwnOnly(x, mem) /\ OwnOnly(x, disk) /\ OwnOnly(x, cli)
      /\ \A m \in msgs : x \in m.admins => m.from = x
  BY <1>2 DEF SelfInv
<1>4. /\ TypeOK /\ DOMAIN mem = Nodes /\ DOMAIN disk = Nodes /\ DOMAIN cli = Nodes
      /\ \A n \in Nodes : /\ mem[n] \in Config /\ AdminsOK(mem[n])
                          /\ disk[n] \in Config /\ AdminsOK(disk[n])
                          /\ cli[n] \in Config /\ AdminsOK(cli[n])
  BY DEF EditInv, CopiesOK
<1>5. ASSUME NEW n \in Nodes
      PROVE  /\ n \notin Importers /\ n # x => x \notin Normalized(disk[n], n).admins
             /\ Normalized(disk[n], n) \in Config /\ AdminsOK(Normalized(disk[n], n))
  BY <1>3, <1>4, NormalizedKeeps DEF OwnOnly, AdminsOK
<1>6. CASE Tick
  BY <1>3, <1>6 DEF Tick
<1>7. ASSUME NEW n \in Nodes, CliLoad(n) PROVE Goal
  <2>1. OwnOnly(x, cli')
    BY <1>3, <1>4, <1>5, <1>7, OwnOnlyChanged DEF CliLoad
  <2> QED BY <1>3, <1>7, <2>1 DEF CliLoad
<1>8. ASSUME NEW n \in Nodes, CliSave(n) PROVE Goal
  <2>1. PICK cfg \in Edited(cli[n], n) :
           /\ disk' = [disk EXCEPT ![n] = Normalized(cfg, n)]
           /\ msgs' \in {msgs, Published(cfg, n)}
           /\ named' = named \union ({n} \X (cfg.admins \ cli[n].admins))
    BY <1>8 DEF CliSave
  <2>2. cfg \in Config /\ AdminsOK(cfg)
    BY <1>4, <1>8, EditedKeeps DEF CliSave
  <2>3. n \notin Importers /\ n # x => x \notin cfg.admins
    BY <1>3, <2>1 DEF OwnOnly, NamedByOthers
  <2>4. Normalized(cfg, n).admins = cfg.admins
    BY <2>2, NormalizedKeeps
  <2>5. OwnOnly(x, disk')
    BY <1>3, <1>4, <2>1, <2>3, <2>4, OwnOnlyChanged
  <2>6. \A m \in msgs' : x \in m.admins => m.from = x
    BY <1>3, <1>4, <2>1, <2>2, <2>3, PublishedSelf
  <2>7. OwnOnly(x, cli')
    <3>1. x \notin NoConfig.admins
      BY DEF NoConfig
    <3>2. cli' = [cli EXCEPT ![n] = NoConfig]
      BY <1>8 DEF CliSave
    <3> QED BY <1>3, <1>4, <3>1, <3>2, OwnOnlyChanged
  <2> QED BY <1>3, <1>8, <2>5, <2>6, <2>7 DEF CliSave
<1>9. ASSUME NEW n \in Nodes, CreateInvite(n) PROVE Goal
  BY <1>3, <1>9 DEF CreateInvite
<1>10. ASSUME NEW n \in Nodes, NEW admins \in invites, ImportInvite(n, admins) PROVE Goal
  <2>1. OwnOnly(x, disk')
    BY <1>3, <1>4, <1>10, OwnOnlyChanged DEF ImportInvite
  <2> QED BY <1>3, <1>10, <2>1 DEF ImportInvite
<1>11. ASSUME NEW n \in Nodes, Reload(n) PROVE Goal
  <2>1. mem' = [mem EXCEPT ![n] = Normalized(disk[n], n)] /\ mem'[n] = Normalized(disk[n], n)
    BY <1>4, <1>11 DEF Reload
  <2>2. OwnOnly(x, mem')
    BY <1>3, <1>4, <1>5, <2>1, OwnOnlyChanged
  <2>3. \A m \in msgs' : x \in m.admins => m.from = x
    BY <1>3, <1>4, <1>5, <1>11, <2>1, PublishedSelf DEF Reload
  <2> QED BY <1>3, <1>11, <2>2, <2>3 DEF Reload
<1>12. ASSUME NEW n \in Nodes, Restart(n) PROVE Goal
  <2>1. OwnOnly(x, mem')
    BY <1>3, <1>4, <1>5, <1>12, OwnOnlyChanged DEF Restart
  <2> QED BY <1>3, <1>12, <2>1 DEF Restart
<1>13. ASSUME NEW n \in Nodes, Publish(n) PROVE Goal
  <2>1. n \notin Importers /\ n # x => x \notin mem[n].admins
    BY <1>3 DEF OwnOnly
  <2>2. \A m \in msgs' : x \in m.admins => m.from = x
    BY <1>3, <1>4, <1>13, <2>1, PublishedSelf DEF Publish
  <2> QED BY <1>3, <1>13, <2>2 DEF Publish
<1>14. ASSUME NEW n \in Nodes, NEW m \in msgs, ReceiveRoster(n, m) PROVE Goal
  <2> DEFINE cfg == Applied(mem[n], n, m)
  <2>1. m.from \in mem[n].admins /\ m \in RosterMsg /\ m.from \in m.admins /\ m.admins \subseteq Eligible
    BY <1>14 DEF ReceiveRoster, Acceptable, EditInv, RosterOK
  <2>2. cfg \in Config /\ cfg.admins = m.admins
    <3>1. mem[n] \in Config
      BY <1>4
    <3> QED BY <2>1, <3>1 DEF Applied, Config, RosterMsg
  <2>3. n \notin Importers /\ n # x => x \notin cfg.admins
    BY <1>3, <2>1, <2>2 DEF OwnOnly
  <2>4. AdminsOK(cfg)
    BY <2>1, <2>2 DEF AdminsOK
  <2>5. mem' = [mem EXCEPT ![n] = cfg] /\ mem'[n] = cfg
    BY <1>4, <1>14 DEF ReceiveRoster
  <2> HIDE DEF cfg
  <2>6. Normalized(cfg, n).admins = cfg.admins
    BY <2>2, <2>4, NormalizedKeeps
  <2>7. OwnOnly(x, mem')
    BY <1>3, <1>4, <2>3, <2>5, OwnOnlyChanged
  <2>8. disk' = [disk EXCEPT ![n] = Normalized(cfg, n)] \/ disk' = disk
    BY <1>14, <2>5 DEF ReceiveRoster, Saved
  <2>9. OwnOnly(x, disk')
    BY <1>3, <1>4, <2>3, <2>6, <2>8, OwnOnlyChanged
  <2>10. msgs' = msgs \/ msgs' = Published(cfg, n)
    BY <1>14, <2>5 DEF ReceiveRoster
  <2>11. \A y \in msgs' : x \in y.admins => y.from = x
    BY <1>3, <1>4, <2>2, <2>3, <2>4, <2>10, PublishedSelf
  <2> QED BY <1>3, <1>14, <2>7, <2>9, <2>11 DEF ReceiveRoster
<1>15. ASSUME NEW n \in Nodes, NEW r \in Nodes, ReceiveJoinRequest(n, r) PROVE Goal
  <2> DEFINE cfg == [mem[n] EXCEPT !.inbound = @ \union {r}]
  <2>1. cfg \in Config /\ cfg.admins = mem[n].admins /\ cfg.joined = mem[n].joined
    BY <1>4 DEF Config
  <2>2. mem' = [mem EXCEPT ![n] = cfg] /\ mem'[n] = cfg
    BY <1>4, <1>15 DEF ReceiveJoinRequest
  <2> HIDE DEF cfg
  <2>3. n \notin Importers /\ n # x => x \notin cfg.admins
    BY <1>3, <2>1 DEF OwnOnly
  <2>4. AdminsOK(cfg)
    BY <1>4, <2>1 DEF AdminsOK
  <2>5. Normalized(cfg, n).admins = cfg.admins
    BY <2>1, <2>4, NormalizedKeeps
  <2>6. OwnOnly(x, mem')
    BY <1>3, <1>4, <2>2, <2>3, OwnOnlyChanged
  <2>7. disk' = [disk EXCEPT ![n] = Normalized(cfg, n)] \/ disk' = disk
    BY <1>15, <2>2 DEF ReceiveJoinRequest, Saved
  <2>8. OwnOnly(x, disk')
    BY <1>3, <1>4, <2>3, <2>5, <2>7, OwnOnlyChanged
  <2> QED BY <1>3, <1>15, <2>6, <2>8 DEF ReceiveJoinRequest
<1>16. CASE UNCHANGED vars
  BY <1>3, <1>16 DEF vars
<1> QED
  BY <1>6, <1>7, <1>8, <1>9, <1>10, <1>11, <1>12, <1>13, <1>14, <1>15, <1>16 DEF Next

(* Nobody becomes an admin by itself: whatever a node writes into its own   *)
(* file and publishes, no other node's daemon takes it for an admin unless  *)
(* another user has named it (apply_admin_signed_shared_roster asks whether *)
(* the sender is a known admin), except where an invite names it.           *)
THEOREM NobodyPromotesItself == ASSUME ImportersApart PROVE Spec => []NoSelfPromotion
<1>1. Init => SelfInv
  BY SelfInit
<1>2. EditInv /\ SelfInv /\ [Next]_vars => SelfInv'
  BY SelfStep
<1>3. SelfInv => NoSelfPromotion
  BY DEF SelfInv, OwnOnly, NoSelfPromotion
<1> QED BY <1>1, <1>2, <1>3, EditAlways, PTL DEF Spec

-----------------------------------------------------------------------------
(* The stamps of a single editor.                                           *)

(* Only the founder edits; it imports no invite, and there are no join      *)
(* requests, for which its daemon would write over an edit.                 *)
OneEditor ==
  /\ Editors \union Promotable \subseteq {Founder}
  /\ Founder \notin Importers /\ Requesters = {}

(* No edit has a later stamp than the founder's file, which an edit under   *)
(* way starts from, and no two edits have one stamp.                        *)
StampInv ==
  /\ \A e \in edits : e.signed_at <= disk[Founder].updated_at
  /\ cli[Founder].joined => cli[Founder].updated_at = disk[Founder].updated_at
  /\ \A e1, e2 \in edits : e1.signed_at = e2.signed_at => SameRoster(e1, e2)

(* An admin's edit has a later stamp than what it started from. *)
LEMMA EditedLater ==
  ASSUME TypeOK, NEW old \in Config, NEW n \in Nodes, NEW cfg \in Edited(old, n), n \in cfg.admins
  PROVE  cfg.updated_at > old.updated_at
<1>1. ASSUME NEW c, c.updated_at = old.updated_at, cfg = Stamp(c, n), DOMAIN c = DOMAIN old
      PROVE  cfg.updated_at > old.updated_at
  <2>1. cfg.admins = c.admins
    BY <1>1 DEF Stamp
  <2>2. cfg.updated_at = Larger(Clock(n), old.updated_at + 1)
    BY <1>1, <2>1 DEF Stamp, Config
  <2> QED BY <2>2, ClockType DEF Larger, Config
<1>2. ASSUME NEW x, cfg = AddParticipant(old, n, x)
      PROVE  cfg.updated_at > old.updated_at
  <2> DEFINE c == [old EXCEPT !.participants = @ \union {x}]
  <2> QED BY <1>1, <1>2 DEF AddParticipant, Config
<1>3. ASSUME NEW x, cfg = RemoveParticipant(old, n, x)
      PROVE  cfg.updated_at > old.updated_at
  <2> DEFINE c == [old EXCEPT !.participants = @ \ {x}, !.admins = @ \ {x}]
  <2>1. c.updated_at = old.updated_at /\ DOMAIN c = DOMAIN old
    BY DEF Config
  <2>2. cfg = Stamp(c, n)
    BY <1>3 DEF RemoveParticipant
  <2> HIDE DEF c
  <2> QED BY <1>1, <2>1, <2>2
<1>4. ASSUME NEW x, cfg = AddAdmin(old, n, x)
      PROVE  cfg.updated_at > old.updated_at
  BY <1>1, <1>4 DEF AddAdmin, Config
<1>5. ASSUME NEW x, cfg = RemoveAdmin(old, n, x)
      PROVE  cfg.updated_at > old.updated_at
  BY <1>1, <1>5 DEF RemoveAdmin, Config
<1> QED BY <1>2, <1>3, <1>4, <1>5 DEF Edited

LEMMA StampInit == Init => StampInv
<1> SUFFICES ASSUME Init PROVE StampInv
  OBVIOUS
<1>1. Founder \in Nodes
  BY RosterAssumption
<1>2. disk[Founder].updated_at = 1 /\ cli[Founder].joined = FALSE
  BY <1>1 DEF Init, Config0, NoConfig
<1>3. \A e \in edits : e = RosterOf(Config0(Founder), Founder) /\ e.signed_at = 1
  BY <1>1 DEF Init, RosterOf, Config0
<1> QED BY <1>2, <1>3 DEF StampInv, SameRoster

LEMMA StampStep == EditInv /\ StampInv /\ OneEditor /\ [Next]_vars => StampInv'
<1> SUFFICES ASSUME EditInv, StampInv, OneEditor, [Next]_vars PROVE StampInv'
  OBVIOUS
<1>1. /\ TypeOK /\ DOMAIN disk = Nodes /\ DOMAIN cli = Nodes /\ Founder \in Nodes
      /\ \A n \in Nodes : /\ disk[n] \in Config /\ AdminsOK(disk[n])
                          /\ cli[n] \in Config /\ AdminsOK(cli[n])
  BY RosterAssumption DEF EditInv, CopiesOK
<1>2. Eligible = {Founder}
  BY DEF OneEditor, Eligible
<1>3. ASSUME edits' = edits, disk'[Founder] = disk[Founder], cli'[Founder] = cli[Founder]
      PROVE  StampInv'
  BY <1>3 DEF StampInv, SameRoster, MembersOf
<1>4. CASE Tick
  BY <1>3, <1>4 DEF Tick
<1>5. ASSUME NEW n \in Nodes, CliLoad(n) PROVE StampInv'
  <2>1. edits' = edits /\ disk' = disk /\ cli' = [cli EXCEPT ![n] = Normalized(disk[n], n)]
    BY <1>5 DEF CliLoad
  <2>2. cli'[Founder] = cli[Founder] \/ cli'[Founder].updated_at = disk[Founder].updated_at
    BY <1>1, <2>1, NormalizedKeeps
  <2> QED BY <2>1, <2>2 DEF StampInv, SameRoster, MembersOf
<1>6. ASSUME NEW n \in Nodes, CliSave(n) PROVE StampInv'
  <2>1. PICK cfg \in Edited(cli[n], n) :
           /\ disk' = [disk EXCEPT ![n] = Normalized(cfg, n)]
           /\ edits' = IF n \in cfg.admins THEN edits \union {RosterOf(cfg, n)} ELSE edits
    BY <1>6 DEF CliSave
  <2>2. /\ cfg \in Config /\ cfg.joined /\ AdminsOK(cfg) /\ cli[n].joined
        /\ cli' = [cli EXCEPT ![n] = NoConfig]
        /\ n \in cfg.admins => cfg.updated_at > 0
    BY <1>1, <1>6, EditedKeeps DEF CliSave
  <2>3. CASE n # Founder
    <3>1. n \notin cfg.admins
      BY <1>2, <2>2, <2>3 DEF AdminsOK
    <3> QED BY <1>1, <1>3, <2>1, <2>2, <2>3, <3>1
  <2>4. CASE n = Founder
    <3>1. n \in cfg.admins
      BY <1>2, <2>2, <2>4 DEF AdminsOK
    <3> DEFINE e == RosterOf(cfg, n)
    <3>2. e.signed_at = cfg.updated_at /\ edits' = edits \union {e}
      BY <1>1, <2>1, <2>2, <3>1, RosterSays
    <3> HIDE DEF e
    <3>3. cfg.updated_at > disk[Founder].updated_at
      BY <1>1, <2>2, <2>4, <3>1, EditedLater DEF StampInv
    <3>4. disk'[Founder].updated_at = cfg.updated_at /\ cli'[Founder].joined = FALSE
      BY <1>1, <2>1, <2>2, <2>4, NormalizedKeeps DEF NoConfig
    <3>5. /\ cfg.updated_at \in Nat /\ disk[Founder].updated_at \in Nat
          /\ \A o \in edits : o.signed_at \in Nat /\ o.signed_at <= disk[Founder].updated_at
      BY <1>1, <2>2 DEF Config, TypeOK, RosterMsg, StampInv
    <3>6. \A o \in edits : o.signed_at < e.signed_at
      BY <3>2, <3>3, <3>5
    <3>7. \A o \in edits' : o.signed_at <= disk'[Founder].updated_at
      BY <3>2, <3>3, <3>4, <3>5
    <3>8. \A o1, o2 \in edits' : o1.signed_at = o2.signed_at => SameRoster(o1, o2)
      <4> SUFFICES ASSUME NEW o1 \in edits', NEW o2 \in edits', o1.signed_at = o2.signed_at
                   PROVE  SameRoster(o1, o2)
        OBVIOUS
      <4>1. CASE o1 \in edits /\ o2 \in edits
        BY <4>1 DEF StampInv
      <4>2. CASE o1 = e /\ o2 = e
        BY <4>2 DEF SameRoster
      <4>3. (o1 \in edits => o1.signed_at \in Nat) /\ (o2 \in edits => o2.signed_at \in Nat)
        BY <3>5
      <4> QED BY <3>2, <3>5, <3>6, <4>1, <4>2, <4>3
    <3> QED BY <3>4, <3>7, <3>8 DEF StampInv, SameRoster, MembersOf
  <2> QED BY <2>3, <2>4
<1>7. ASSUME NEW n \in Nodes, CreateInvite(n) PROVE StampInv'
  BY <1>3, <1>7 DEF CreateInvite
<1>8. ASSUME NEW n \in Nodes, NEW admins \in invites, ImportInvite(n, admins) PROVE StampInv'
  <2>1. n # Founder
    BY <1>8 DEF ImportInvite, OneEditor
  <2> QED BY <1>1, <1>3, <1>8, <2>1 DEF ImportInvite
<1>9. ASSUME NEW n \in Nodes, Reload(n) PROVE StampInv'
  BY <1>3, <1>9 DEF Reload
<1>10. ASSUME NEW n \in Nodes, Restart(n) PROVE StampInv'
  BY <1>3, <1>10 DEF Restart
<1>11. ASSUME NEW n \in Nodes, Publish(n) PROVE StampInv'
  BY <1>3, <1>11 DEF Publish
<1>12. ASSUME NEW n \in Nodes, NEW m \in msgs, ReceiveRoster(n, m) PROVE StampInv'
  <2>1. n # Founder
    BY <1>2, <1>12 DEF ReceiveRoster, EditInv, RosterOK
  <2> QED BY <1>1, <1>3, <1>12, <2>1 DEF ReceiveRoster, Saved
<1>13. ASSUME NEW n \in Nodes, NEW r \in Nodes, ReceiveJoinRequest(n, r) PROVE StampInv'
  BY <1>13 DEF ReceiveJoinRequest, OneEditor
<1>14. CASE UNCHANGED vars
  BY <1>3, <1>14 DEF vars
<1> QED
  BY <1>4, <1>5, <1>6, <1>7, <1>8, <1>9, <1>10, <1>11, <1>12, <1>13, <1>14 DEF Next

(* While one admin edits, and no join request makes its daemon write over   *)
(* an edit, a stamp stands for one roster (note_network_roster_local_change *)
(* makes it newer than the last, however little time passes between two).   *)
THEOREM StampsIdentifyRosters == ASSUME OneEditor PROVE Spec => []StampIdentifiesRoster
<1>1. ImportersApart
  BY DEF OneEditor, ImportersApart, Eligible
<1>2. Init => StampInv
  BY StampInit
<1>3. EditInv /\ StampInv /\ [Next]_vars => StampInv'
  BY StampStep
<1>4. EditInv /\ StampInv => StampIdentifiesRoster
  BY DEF EditInv, StampInv, RosterOK, StampIdentifiesRoster, SameRoster
<1> QED BY <1>1, <1>2, <1>3, <1>4, EditAlways, PTL DEF Spec
=============================================================================
