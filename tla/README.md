# A TLA+ development for nostr-vpn

nostr-vpn is a mesh VPN: WireGuard tunnels between the members of a network,
with Nostr relays as the signaling channel. This directory holds TLA+ modules
of the parts of it that carry state across time (who is a member, how a peer is
reached, which relay leases exist, what the daemon changed on its machine, which
processes run and obey whom), the TLC configurations that check them on
small instances and TLAPS proofs of every safety property. Paths below are
relative to `src/crates/` unless they say otherwise.

    tlc -workers 2 -config RelayOperatorAlloc.cfg MCRelayOperator.tla
    tlapm RelayOperator_proofs.tla

`PROJECT.json` lists components, runs, hazards and theorems, and for every
definition the source lines it stands for. For each property it also names a
faulty variant of one definition (marked "Fault:" in the modules) under which
TLC finds that property violated.

## 1. Inventory

### Membership and rosters
*Source:* `nostr-vpn-core/src/{config,network_roster}.rs`,
`nostr-vpn-cli/src/network_signaling.rs`, the roster arms of `session_runtime.rs`.
*State:* per network participants, admins, `shared_roster_updated_at`, inbound
join requests; kept in the daemon's memory, in the config file and, during an
edit, in the CLI's or GUI's copy. *Operations:* add/remove participant or
admin, create and import invites, send and record join requests, publish and
apply a signed roster, save, reload, restart. *Interaction:* rosters go over
Nostr to the members they name; CLI and daemon share the config file and a
control file. *Hard:* several writers of one file, rosters lost, late or out of
order, clocks that disagree, failing writes. *Correct when:* a roster is
authoritative only if an admin made it, everybody ends with the last one, and
nothing stored goes back.

### Peer presence, path book, peer cache, tunnel
*Source:* `nostr-vpn-core/src/{presence,paths,control}.rs`, `main.rs` and
`session_runtime.rs` of `nostr-vpn-cli`. *State:* the active and known
announcements of a peer and when it was last seen; the endpoints it may be
reached at with their source and the times they were announced, chosen and
proven; the current endpoint; the WireGuard peer; the cache file. *Operations:*
every arm of the daemon's loop: signals, announce, heartbeat, network change,
state, pause, resume, start. *Hard:* the same tunnel is re-planned by nine
callers from slightly different announcements, hole punching stops it under
way, time passes between any two arms, a restart works from old data.
*Correct when:* a path that works is kept, a granted relay gets its turn, an
ended one does not, and nothing is installed for a peer that is gone.

### Relay fallback client
*Source:* `nostr-vpn-cli/src/relay_runtime.rs`, `main.rs:2206-2697`,
`session_runtime.rs`. *State:* pending requests, the active session and the
standby queue of each participant, failure cooldowns per participant and relay,
the provider verification book. *Operations:* request rounds with probing,
grants, rejections, reconciliation with WireGuard, pruning, pause. *Hard:*
answers come late, twice or never; leases, request timeouts, verification
timeouts and cooldowns run at once. *Correct when:* a lease serves one peer, a
session is verified only by its own handshakes, cooling-down relays are left
alone, and standbys take over.

### Public relay operator
*Source:* `nostr-vpn-relay/src/bin/nvpn-udp-relay.rs` and `nvpn_udp_relay/`.
*State:* active sessions, port allocator, socket pairs with their leg tasks,
counters, state file. *Operations:* allocation and probe requests, forwarding
with a byte budget and a token bucket, expiry, the state writer, exit, restart.
*Hard:* limits are checked before awaits and recorded after them; the session
entry, the sockets and the grant end by different clocks; crashes. *Correct
when:* no port is in two leases, a grant is backed by its sockets for as long
as it says, limits, budget and rate hold, and every lease ends.

### Host network: routes, exit node, forwarding
*Source:* `CliTunnelRuntime` and the platform code in `nostr-vpn-cli/src/main.rs`,
`platform_routing.rs`, `macos_network.rs`, `windows_tunnel.rs`. *State:* the
machine's default route, bypass routes, forwarding flags and firewall rules; the
memory of one process of what it changed; on macOS the file
`daemon.cleanup.json`. *Operations:* an update of the tunnel, which is a row of
commands to the operating system, stop, repair, the once-a-second write of the
file. *Hard:* every command may fail, the process may die between two of them,
the next process starts on a machine that is not as it was. *Correct when:* what
was changed is remembered until it is taken back, and the default route is in
the tunnel only when that works.

### Daemon processes, commands, service
*Source:* `nostr-vpn-cli/src/{daemon_runtime,session_runtime,service_management,
macos_service,main}.rs`. *State:* processes, the unit of the service manager and
the files through which daemons and `nvpn` commands talk: control file, result,
staged configuration, configuration, state. *Operations:* start, stop, pause,
resume, reload, apply-config, service install and uninstall, the daemon's start,
loop and shutdown, the service manager's restarts. *Hard:* all of it is read and
written by processes that do not wait for each other; a request may be read half
written, be meant for another process, or be waited for in vain. *Correct when:*
there is one daemon at a time, no daemon obeys a request made of its
predecessor, and an enabled service comes back.

### Android session
*Source:* `nostr-vpn-gui/src-tauri/src/android_session*.rs`, `android_vpn.rs`, the
Kotlin plugin and `VpnService`. *State:* backend thread, session task, tunnel
tasks, pending start of the plugin, the service and its messages under way.
*Operations:* start, reload and stop of the app, signals, replacing the tunnel,
revocation by the system. *Hard:* three programs that wait for each other, and
answers that come after the wait for them is over. *Correct when:* the tunnel is
what was announced, the reported state is true, and a stop ends everything.

### Desktop GUI backend
*Source:* `nostr-vpn-gui/src-tauri/src/{lib,backend_service,backend_configuration,
daemon_runtime,tauri_commands,service_status,gui_launch,peer_state}.rs`. *State:* a
copy of the configuration and the last answers of `nvpn status` and `nvpn service
status`. *Operations:* every command of the page, each a row of calls. *Hard:* the
copy is written whole over a file the daemon writes, too, and the choice how to
connect is made from an old look at daemon and service. *Correct when:* a command
that reports success did what it says, an edit reaches the daemon, and the record
of a join request is true.

### The rest
- *Daemon session loop* (`session_runtime.rs`): one `select!` loop, so arms are
  atomic with respect to each other. Its effects on the books above are actions
  of the modules; start, control file and shutdown are DaemonControl; its
  connection state machine is planned (section 2).
- *Nostr signaling, service signaling, node records, join requests*: encrypted
  messages to one recipient; modelled as channels that lose, delay and repeat.
- *NAT discovery, punching, reflector*: socket I/O. What a punch does to the
  tunnel is modelled, the packet exchange is not.
- *WireGuard runtime*: boringtun is external; installing a peer is modelled.
- *Config bootstrap*: modelled as far as membership and apply-config go.
- *Not modelled:* Magic DNS, diagnostics, cryptography, web UI, the test relay,
  the iOS packet tunnel, the updater: I/O, views, pure tables, or (iOS) a second
  loop that would repeat AndroidSession. `PROJECT.json` gives each reason.

## 2. Plan

| # | Module | Composes / refines | State |
|---|--------|--------------------|-------|
| 1 | RelayOperator, RelayOperator_proofs | | done |
| 2 | RelayLease | the promise of an operator; RelayOperator implements it (proved in RelayOperator_proofs) | done |
| 3 | RelayClient, RelayClient_proofs | | done |
| 4 | Roster, Roster_proofs | | done |
| 5 | PeerPaths, PeerPaths_proofs | | done |
| 6 | HostNetwork, HostNetwork_proofs | | done |
| 7 | DaemonControl, DaemonControl_proofs | daemons, commands and service manager through files | done |
| 8 | AndroidSession, AndroidSession_proofs | session task, tunnel tasks, plugin and service through messages | done |
| 9 | GuiBackend, GuiBackend_proofs | the app with daemon, service and other clients | done |
| 10 | DaemonSession | the connection state machine: relay_connected, the service connection, backoff, the signaling client's replacement | planned |
| 11 | RelayFallback | RelayClient on RelayLease, with operator restarts | planned |

Every safety property of the runs is proved (section 6). Worth proving next: that
the services a client holds leases of keep them (RelayFallback, which would use
`PromisesKept`), and what DaemonSession will promise about the connection.
New questions are to be put into existing runs where their bounds allow.

## 3. Modules

Everywhere: one action per request, arm or handler, including every call it
makes that changes state; time is an integer that other actions may overtake by
any amount, so timers fire late; whatever arrives from outside is a choice.

### RelayOperator
The main task handles one request at a time, and its awaits are visible: `main`
is `recv`, `publish` (sockets bound, grant not published) or `note` (published,
not recorded).

| Variable | Code |
|---|---|
| `active`, `served`, `forwarded` | `RelayRuntimeState` |
| `pairs` | the two sockets of a lease, `SessionState` and who holds the `Arc`s: main, and the two leg tasks |
| `next_port` | `RelayPortAllocator::next_port` |
| `disk` | the counters in the state file |
| `grants` | grants published, with the process (`boot`) that made them |

`BindLegs` binds (with the two scans of `bind_pair`), `PublishGrant` or
`GrantPublishFails` follows, then `NoteSession` spawns. `ForwardPacket`,
`DropOverBytes` and `DropRateLimited` are the legs with `allow_forward`;
`note_forwarded_bytes` after the send is part of the same step. `Crash` stands
for any exit. Expiry is kept in seconds and in ticks, as the code keeps
`expires_at` and `deadline`.

### RelayClient
All books are the record `c`, because the handlers take them by `&mut`.
`AnnounceTick` is the announce arm (pruning, probing, a round of requests),
`StateTick` the state arm with `reconcile_active_relay_sessions`. `grants` only
grows, so a grant may arrive again at any time. Which provider is asked first
is left open: the latency ranking orders the candidates but excludes none.
Participants interact only through the provider book, so the loops of the code over
participants are written as one function of each participant's own part of the
books, and the provider book as what its relays' failures add up to: the order in
which a loop comes to them makes no difference. Participants are finitely many, and
the clock starts at 1, because the code takes 0 for "never".

### Roster
`mem`, `disk` and `cli` are the three copies of a node's config; `CliLoad` and
`CliSave` are the two ends of an edit, between which the daemon may write the
file, too. `ReceiveRoster` is the whole handler with its save, which may fail
after memory changed. `msgs` only grows: a roster not received is lost. Any
user may edit the local config; an edit of somebody who is no admin carries no
new stamp. `edits` and `named` (whose user named whom an admin) are history. Left out: names, aliases,
`signed_by`, invites older than version 3, more networks than one.

### PeerPaths
One daemon and one peer. `presence` is the `PeerPresenceBook` entry, `tunnel`
holds the path book entry, the endpoint last installed, WireGuard's own view
and which relays were ever sent to, `lease` is the daemon's own relay session
(`RelayClient` says how it comes and goes), `cache` the cache file.
`Apply` is `CliTunnelRuntime::apply`: record successes, refresh the book, rank
and choose, install. It is a set of states, because equally ranked candidates
are in hash order and because changes for other peers reinstall this one
(`OtherPeers`). `NatPunch` stops the tunnel and applies the bare announcement.
WorkingPathKept excepts an observed endpoint that becomes an announced one (its
observed entry leaves the book), an endpoint old enough to be pruned and a restart,
and lets a punch, which plans twice, end at a tie: its first choice worked later than
both, and has left the book in between. TurnedToForAReason asks for a reason in the
state after the step, or for a trial begun before it, in the tunnel or in the cache.
Left out: errors of the WireGuard socket, several local endpoints, removal of
participants. Routes and the exit node are HostNetwork.

### RelayLease
The operator seen by the peers: `leases` are pairs of ports held until an
instant, `promises` are what grants told the requesters. `Take`, `Promise`,
`Release` and `Reset` are all that may happen to them. `RelayOperator` maps a
bound socket pair to a lease (`HeldLeases`) and a grant of the running process to
a promise (`Promises`, seconds turned into ticks); `ImplementsLease` is the
refinement. Request queue, limits, `Arc` owners, leg tasks, session table,
pruning, packets and the state file map to stuttering or to one of those steps:
the second of two leg tasks to end is a `Release`, any end of the process a
`Reset`.

### HostNetwork
`kernel` is the machine, `rt` the memory of one process (`CliTunnelRuntime`),
`file` the cleanup file. An update is the row of steps in `pc`, from resolving
routes through the interface, bypass routes, default route and forwarding, in the
order of the platform, with the early return or the rollback that the code has at
each; a crash may fall between any two, and a command may fail where `Fallible`
says so. `orphans` is a history variable of what a step lost sight of. It names
the exceptions of `ChangesAreUndone`: what changed since the file was last
written when the process dies, the IPv6 forwarding flag and rules when an
ip6tables rule fails (`main.rs:3905`), and the bypass routes of a Windows start
that fails after them. A repair may fail, too (`repair` of `Fallible`, in the run on
macOS): the daemon starts all the same, and what it could not take back is then
listed nowhere but in the file. Linux and Windows have no cleanup file, so a crash
there leaves what does not go with the device.

### DaemonControl
A process goes `check`, `load`, `clear`, `run`, then through `took`, `handle` and
`report` for each request, and `stop`. Writing `daemon.control` is two steps, open and
fill, and so is taking it, read and remove; `control.fds` is who still holds the
file open, so that filling a removed file goes nowhere. `known` (in the file, the
client and the process) is history: which processes existed when the request was
begun. Commands give up waiting at any moment. On Unix a command of root signals,
a user's writes a stop request; on Windows every command does.
`Terminated` is SIGTERM, with the default action until the loop installs its
handler. The pid file is left out: on Unix it adds nothing to the process list.

### AndroidSession
`mgr` is the backend thread, which blocks; `session` the session task by await;
`tunnel` the tunnel tasks; `intents` the messages under way to the service's
thread, delivered in order; `reply` what a start of the plugin came to. A plan
gives each peer one of its announced endpoints and the routes left for it. Which
endpoint the path book prefers is PeerPaths' subject and a choice here.

### GuiBackend
`todo` is what the running command still has to do under the backend's mutex, one
call per step: save locally or through the daemon, reload, sync, start, install.
`FailStep` ends a command as the code's `?` does. Others (daemon, service manager,
a terminal) act between any two steps; `foreign` and `tainted` are history, so
that success is judged only when nobody acted since the look it rests on.

## 4. Runs

| Run | Bounds | Shows |
|---|---|---|
| operator_alloc | 5 ports, 2 request ids, 2 requesters, 2 requests, 5 half-seconds, 2 processes | LimitsRespected, GrantHonoured, LeaseEnds, ImplementsLease |
| operator_forward | 3 ports, 1 recorded lease at a time, 2 requests, 2 sources, packets of 1 and 2, budget 4, rate 2/s, 4 half-seconds, 2 processes, leg errors | PortsExclusive, TotalsWithinBudget, RateBound, CountersNeverGoBack |
| client | 1 participant, 2 relays with leases of 1 and 2 s, 2 leases, 3 s | VerifiedOverOwnLease, PauseForgetsRequests, LeaseUsedOnce, CooldownRespected |
| roster_sync | 3 nodes, 2 editors one of whose clocks is ahead, an importer, join requests, failing saves, a new edit may begin as long as there is one stamped roster (MaxEdits) | RostersComeFromEdits, NoSelfPromotion |
| roster_converge | 3 nodes, 1 editor, 3 edits, 3 s, fairness | StampIdentifiesRoster, Converges |
| peer_paths | 1 public endpoint, a relay of each side ending at 3 s, 2 announcements, 5 outside events, 3 s, hole punching, other peers | WorkingPathKept, RelayTried, TurnedToForAReason |
| peer_paths_restart | 2 public endpoints, 1 own relay, 4 outside events, 3 s, pauses and restarts, no hole punching | InstalledIsKnown, RestartReusesProvenPath |
| host_network | 3 platforms, 2 peers, one of which moves and is an exit node, 3 or 4 fallible commands per platform, 2 events, 1 failure, 1 crash, 3 of them in all (MaxTotal) | ChangesAreUndone, DefaultRouteGuarded |
| daemon_control | 2 process slots, 2 clients, 2 commands out of 8, 1 fault, Unix and Windows | AtMostOneDaemon, OldRequestsIgnored, ServiceKeepsRunning |
| android_session | 2 peers, 3 announcements, 3 tunnel tasks, 2 starts or stops, 3 signals, 1 fault | TunnelMatchesPeers, ReportIsTrue, StopCompletes |
| gui_backend | macOS and Windows, 1 person, 2 commands of the app, 1 trouble (a failing step or an act of others), 2 s | SessionAsAsked, EditsReachDaemon, JoinRequestRecord |

`TypeOK` of each module is checked in its first run.

*Why the bounds are enough.* Timeouts are scaled to at most 3 units, so
that each can expire before and after every other event of a run, and timers
may fire late by any amount. Requests
keep their order (a retry before the request times out, verification before
both). The online grace is 0 in RelayClient, where it only delays requests, and
the cache of paths ends before that of peers in PeerPaths, so that a restore can
drop one and keep the other. Three or five ports are whole pairs and one over:
a pair can be lapsed with its sockets still bound, and the next scan goes round the end of the range.
Two packet sizes against a budget of 4 and a rate of 2 reach the budget from
below and exactly, and fill the bucket beyond one packet. Two leases of
different lengths give an active session and a standby that outlives it. Two
announcements are enough for an older one after a newer one. Properties about
two parties (two leases, two rosters, two endpoints) have at least two of each.
`MaxEvents` bounds what comes from outside in PeerPaths; the daemon's own arms
are not bounded. In HostNetwork three troubles are an update, a failing command
and a crash in any order, with any number of the daemon's own steps between
them; the failing commands are those after which the code has something to take
back. Two commands and one fault in DaemonControl are a command that overtakes
another, while the service manager restarts as often as it likes. Two commands
and one trouble in GuiBackend are a command that finds what another left, or an
act of others in its middle.

Deadlock is not checked where the system may stop: in roster_sync (a network from
which everybody was removed, at the end of the clock), daemon_control (nothing
runs and the commands are used up) and android_session (stopped, and the bounds
used up).

### A run that finds a disagreement
**roster_stored**: `docs/protocol.md:231`, a roster must be newer than the stored
one. A join request makes the daemon save its memory over an edit it has not
reloaded yet (`main.rs:5054`): the stored stamp goes back.

### Met while modelling, without a run of their own
These are in the modules, and the properties are stated so that they hold with
them. "cli" stands for `nostr-vpn-cli/src`.

- `docs/protocol.md:318` has relay sessions queue standbys. When the announce arm
  comes first it drops the expired session (cli `session_runtime.rs:912`), and
  reconciliation promotes only for sessions still there: the standby waits unused.
- `docs/protocol.md:179`, invites are not authority. An admin who imports an
  invite signs its bare admin list with the present time (cli
  `network_signaling.rs:480`), and members would take it over.
- `docs/protocol.md:127`, a live relay before stale direct paths. A success has no
  age in the selection (`nostr-vpn-core/src/paths.rs:353`): a direct path that
  once worked outranks the relay granted because it went silent, until the relay
  has a handshake or the entry is pruned.
- A request written while a daemon starts is removed unread (cli
  `session_runtime.rs:628`), one that is read half written is dropped; its client
  takes the removal for an acknowledgement either way.
- `rename_network` and `request_network_join` of the GUI save without a reload; a
  rejected `update_settings` leaves the edits before the rejected one in the copy.
- On Android a replan stops the tunnel and starts it again: a start that is
  refused or times out ends the session, and so does one peer's announcement of
  an endpoint that does not parse.
- The exceptions of `ChangesAreUndone` (HostNetwork above).
- A daemon whose repair fails on macOS logs it and goes on (cli
  `session_runtime.rs:37`, `:607`), and its first write of the cleanup file replaces
  the one that was kept for another try (cli `daemon_runtime.rs:755`).
- A user may name itself an admin of its own copy; as soon as two nodes may be
  promoted, one of them may then name the other. `NoSelfPromotion` therefore speaks of
  nodes whom nobody else has named.

## 5. Fairness

LeaseEnds, Converges, ServiceKeepsRunning, StopCompletes and JoinRequestRecord
(its second half) are liveness properties.
- *LeaseEnds*: weak fairness of the clock, of a publish (which completes or
  fails), of what follows it, and of the leg tasks' timers: Tokio polls every
  ready task, and a publish returns, with or without an error. None for
  requests, packets, the state writer, failures or crashes.
- *Converges*: weak fairness of finishing an edit, of the reload it asks for,
  of publishing, which daemons do on every connection and in answer to every
  Hello, and of the receipt of a roster that keeps being published. Single
  rosters may all be lost. It is stated for one admin: with two, a CLI edit
  overwritten by the daemon or two edits in one second leave nodes apart until
  the next edit, which no document rules out. A removed member is not sent the
  roster that removes it and is not spoken of.

- *ServiceKeepsRunning*: weak fairness of each process's own steps (the loop
  ticks every second, whatever it waits for) and of the service manager's restart
  (`Restart=always`, `KeepAlive`). Nothing makes anybody run a command, and a
  command may be slow for ever. Windows is excluded: its service starts with
  `sc start` and at boot only.
- *StopCompletes*: weak fairness of the backend thread, the session task, each
  tunnel task that was told to stop, and the service's messages. None for
  signals, requests or faults. A session that ended with an error is excluded
  (`broken`): its tunnel task is dropped, not stopped, and moves packets on.
- *JoinRequestRecord*: weak fairness of the running command's next step and of
  the page's tick. That the inviting admin answers is the premise.

## 6. Proofs

`RelayOperator_proofs` proves for all constants that satisfy the module's
assumptions:

| Theorem | Inductive invariant |
|---|---|
| `TypeCorrect`: []TypeOK | TypeInv = TypeOK and no bucket was refilled in the future; without that a refill could take bytes away and leave Nat |
| `PortsAreExclusive`: []PortsExclusive | PortInv adds that the main task itself holds the sockets of the request it works on: otherwise they might be released between bind and spawn |
| `LimitsAreRespected`: []LimitsRespected | LimitInv adds that there is room for one more, in total and for this requester, from the check to the recording: between them entries are only pruned |
| `GrantsAreHonoured`: []GrantHonoured, assuming LegErrors = FALSE | GrantInv ties expires_at to the deadline and has the sockets bound until the deadline; that expires_at in seconds ends first is arithmetic (GrantInvImplies). A receive error ends a leg early: then it is not true, and not meant |
| `BindingIsSticky`: BindingSticky | type correctness and the effect of a leg step |
| `PersistedTotalsMonotonic`: CountersNeverGoBack | the file is never ahead of memory while the process runs |
| `TotalsAreWithinBudget`: []TotalsWithinBudget | BudgetInv: what was forwarded, and what the running leases may still forward, is paid for by the sessions counted; and neither memory nor the state file exceeds that. A lease is counted before its legs start, and the sum over all ports is needed because the legs of many leases forward between two counts. The sums are functions of the port, of which one exists (`PortSums`): a step changes one summand and so the sums from its port on (`SumsChange`), and no induction is needed |
| `RateIsBounded`: []RateBound | RateInv: bytes let through and bytes left in the bucket are together at most the burst it was opened with and what was earned until its last refill. Refills are truncated: that truncated refills never add up to more than the truncated whole is `DivSum` |

Each rests on one step lemma with a case per action. The assumptions are those
named in RelayOperator: a valid port range that holds twice the session limit
(`relay_port_range` refuses others; PortsAreExclusive needs it for the scan),
positive limits and times.

Leases of `RelayLease` never overlap (`LeasesStayApart`) and, where they do not
break early, every promise is kept (`PromisesStayKept`, with the end of a promise
no later than its lease's). By the refinement both hold of the operator's sockets
and grants: `LeasesApart` and `PromisesKept` (assuming LegErrors = FALSE). The
theorem `OperatorImplementsLease` of `RelayOperator_proofs` is the refinement: the
initial states agree, and each step of the operator, in a state that satisfies
RefInv, is a step of RelayLease or leaves leases and promises alone. RefInv is
TypeInv and PortInv with two facts: `expires_at` is the second the deadline falls
in, so that a promise ends no later than its lease, and no grant is of a process
that has not started, so that a restart brings no old promise back. PortInv is
needed so that the main task's sockets are still held when their grant is
published. It holds with and without leg errors (MayBreak).

`DaemonControl_proofs` proves for any numbers of processes, clients, commands and
faults:

| Theorem | Inductive invariant |
|---|---|
| `TypeCorrect`: []TypeOK, with the service's process one that exists | TypeInv adds the clients' type, that only commands that ask the daemon something write its control file, and that a daemon reports only on requests of clients |
| `OneDaemon`: []AtMostOneDaemon | itself with TypeInv: only `Check` makes a daemon, and it saw nothing else in the process list |
| `RequestsAreNew`: []OldRequestsIgnored | KnownInv: every process past its start is known to the request on disk and to every client that still holds that file open. A client whose file was removed at the start no longer holds the one on disk, which is why dropping requests at the start is enough |

`Roster_proofs` proves, for any nodes, clocks and numbers of edits:

| Theorem | Inductive invariant |
|---|---|
| `RosterTypeCorrect`: []TypeOK; `RostersAreEdits`: []RostersComeFromEdits | EditInv: in all three copies of every node's config a joined network has admins, all of them eligible, and what an admin's copy says is what some edit said; every roster was signed by an admin it names |
| `NobodyPromotesItself`: []NoSelfPromotion | SelfInv: whom nobody else has named, nobody else has among its admins in memory, file or edit under way, importers aside, and only its own rosters name it. Those are refused, because their sender is no admin of the receiver |
| `StampsIdentifyRosters`: []StampIdentifiesRoster, for a single editor | StampInv: no edit has a later stamp than the editor's file, from which any edit under way starts, so that its stamp will be a new one |

All assume ImportersApart, that nobody who may be an admin imports an invite: an
admin that does signs a roster made of the invite, which no edit made. OneEditor
adds that nobody else edits and that there are no join requests, for which the
daemon would write over an edit (roster_stored). The runs have the same
restrictions.

`RelayClient_proofs` proves, for any participants, operators, leases, timeouts and
bounds:

| Theorem | What ClientInv says for it |
|---|---|
| `ClientTypeCorrect`: []TypeOK | the books are typed. What a filter leaves of a standby queue is a queue: every set of positions can be enumerated in order (`Enumerable`, proved by the least position for which it could not), and SelectSeq leaves such an enumeration |
| `VerifiedSessionsWereHeard`: []VerifiedOverOwnLease | SessionFine: a verified session's lease was heard over, and not before it was granted; the endpoint of a handshake is a lease that was heard over |
| `PausedRequestsStayForgotten`: []PauseForgetsRequests | PendingFine and Backs: every request still pending, and the request behind every session and queued lease, is of since the last pause |
| `NoLeaseTwice`: []LeaseUsedOnce | Backs and Apart: a session or queued lease has a grant whose request is no longer pending, grants have leases of their own, and within a participant's books every lease occurs once |
| `CooldownsHold`: CooldownRespected | QueueFine: a queued lease whose request is as recent as now is behind an active session or a cooldown, so that a promotion does not make a request look new; CooldownFine bounds the cooldowns |

Each part of ClientInv is about one participant's slice of the books, and one lemma
per handler says what it makes of a slice (`SliceShrinks` and those after it).

`PeerPaths_proofs` proves, for any endpoints, leases, announcements, timeouts and
numbers of events:

| Theorem | Argument |
|---|---|
| `SetUpOnlyWhenKnown`: []InstalledIsKnown | KnownInv adds that a paused session knows no announcement, and that a cache file holds one of the peer's. A hole punch applies another announcement than the known one; it is fine because there is a known one whenever there is an active one |
| `PathsTypeCorrect`: []TypeOK | TypeInv: the tunnel is Sound, that is, its current endpoint is one the book tracks, the installed one is it or there is no current one, an entry's source is one its endpoint can have, and without an installed endpoint WireGuard has heard nothing; the cache has only tracked endpoints of an announcement the peer made |
| `LiveRelayTried`: RelayTried | with nothing proven and the delay over, the ranking leaves the live relay alone in front: each of its classes is a lemma |
| `TurnsForAReason`: TurnedToForAReason | through each of up to three plans of a step, the current endpoint is one of before or has a reason in the announcements and leases of the step (`CurrentHasReason`) |
| `WorkingPathIsKept`: WorkingPathKept | a chain through the plans of a step: after each, the endpoint in use before is still in use, or its success is lost for good, or it was observed and is now announced, or a better one stands in its place or has been lost since (`Standing`, `Settled`). `Planned` says why nothing is gained on the way: no plan records a success that was not heard of at the start |
| `RestartReuses`: RestartReusesProvenPath | `Stays`: the restored current endpoint worked and is kept under the announcement restored with it, so replan, prune and punch choose it or one that worked later |

`HostNetwork_proofs` proves, for any peers, hosts, plans, platforms, failing commands
and numbers of crashes:

| Theorem | Inductive invariant |
|---|---|
| `HostTypeCorrect`: []TypeOK | TypeInv adds what each platform and each place of an update leaves untouched: no process, no memory; Windows keeps no route or forwarding of its own |
| `HostDefaultRouteGuarded`: []DefaultRouteGuarded | RouteInv says for each place of the update what the default route rests on: on Linux the tunnel's route is instead of the underlay's, elsewhere beside it; from the planning on the plan has an exit node and bypass routes for all its endpoints; on macOS the bypass routes remembered exist. Without the places it is not inductive: while an update is under way kernel and plan disagree |
| `HostChangesAreUndone`: []ChangesAreUndone | ChangeInv: every difference to the machine before is remembered by the running process, in the cleanup file of one that is gone, or an orphan. It needs that a process never takes its own change for the state it found (`Steady`), and that bypass routes a failed repair left are still in the file |

`AndroidSession_proofs` proves, for any peers, announcements, tasks and faults:

| Theorem | Inductive invariant |
|---|---|
| `TunnelIsPlanned`: []TunnelMatchesPeers | TunnelInv says, for each place of the session task, what is to follow: from the stop of the old tunnel to the start of the new one the plan fits what is known, because no signal is handled in between; in the loop the fingerprint is that of the tunnel, so that keeping it is right |
| `AndroidTypeCorrect`: []TypeOK | TunnelInv, with the types of app, service and session, where a row of messages holds one DESTROY at most |
| `ReportStaysTrue`: []ReportIsTrue | ReportInv: a session that was told to stop, or is on its way out, is one its manager waits for, so no report of it comes after the manager's last word |

`GuiBackend_proofs` proves, for any people, platforms, failing steps and numbers of
commands and troubles:

| Theorem | Inductive invariant |
|---|---|
| `GuiTypeCorrect`: []TypeOK | TypeInv: TypeOK and the clock in its range |
| `SessionIsAsAsked`: []SessionAsAsked; `EditsReach`: []EditsReachDaemon | ProgramInv, about the row of steps the command still has to do: it gives for each mark in the row (`connected`, `edited`, ...) which steps may lead to it and what holds at each of them, unless others acted: the backend sees the daemon as it is, or daemon, file or copy already are as the mark will say. A step that starts or ends a daemon is followed by a look at it with nothing that can fail in between; a failing step leaves only what follows the catch, where there are no marks. The properties alone speak of the last step only |
| `RequestsWereSent`: []RequestWasSent | itself, with TypeInv |

A row is any sequence of steps. What a step does to the marks behind it is a lemma
about two states and two rows (`SavedMarks`, `ReloadedMarks`, ...), used for each
action; commands are covered by their rows (`EditRow`, `ListenRows`, ...) and by
`JoinedGoes`: a row with marks may be followed by any row without.

*Only model-checked:* the liveness properties LeaseEnds, Converges,
ServiceKeepsRunning, StopCompletes and the second half of JoinRequestRecord (liveness
is beyond the prover).

## 7. What is not covered

Address and port *values* (which external address is announced), texts and
statistics; timings finer than the order of events; crashes in the middle of a
file write (`fs::write` of the config is one step; of the control file it is
two); errors of the WireGuard socket in the middle of a reinstall; the network of
a daemon changing while it has relay sessions; several LAN routes and the
interface's addresses; unit texts, file copying and the updater; LAN pairing,
aliases, tray and windows of the app; the iOS packet tunnel. Properties of real
time, such as how long a failover takes, are not stated.
