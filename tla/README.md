# A TLA+ model of MCGate

MCGate is a reverse proxy for Minecraft servers: it accepts TCP connections,
reads the handshake, finds the route of the requested host, and either answers
a status ping or relays a login to one of the route's backends.  Next to that it
forwards UDP (plain ports, and voice chat that follows a player's login),
reloads its configuration while it runs, meters routes, and records sessions.

Little of this is hard on a straight path.  What is hard is that everything is
shared: connection tasks, file watchers, the console, the HTTP API, tickers and
writer threads meet in process-wide maps, counters and files, each under a lock
of its own that is dropped before the next `await` or the next lock.  The
modules here keep those steps apart and ask what survives their interleavings.

Paths of Rust files below are relative to the crate's sources, `src/src/`; `resources/`,
`tests/` and `plan.md` are beside them in the repository.

## The system's parts

| Part | Source | Module | |
|---|---|---|---|
| Accept loop, guards, pre-login phase | `net/server.rs`, `net/flood_control.rs`, `net/connection_guard.rs` | `Admission`, `SlotPool`, `AdmissionProofs` | modelled, proved |
| Automatic bans | `net/ip_ban.rs` | `IpBanList`, `AddressTables` | modelled |
| Connection rates per address | `net/flood_control.rs` | `ConnectionRates`, `AddressTables` | modelled |
| Login, relay, player registry | `net/server.rs`, `state.rs` | `Sessions`, `SessionsProofs` | modelled, proved |
| Status ping and its cache | `net/server.rs`, `net/ping_cache.rs`, `state.rs` | `StatusPing`, `StatusPingProofs` | modelled, proved |
| Route traffic metrics | `state/route_metrics_store.rs` | `RouteMetrics`, `RouteMetricsProofs` | modelled, proved |
| Connection tracker | `state/connection_tracker.rs` | `ConnectionTracker`, `TrackerProofs` | writer and restarts, not what is stored; proved |
| Hot reload, route editing | `state/app_state.rs`, `config/loader.rs`, `config/editor.rs`, `net/api.rs` | `ConfigReload` | modelled |
| UDP forwards, voice relay | `udp/*.rs` | `UdpRelay`, `UdpRelayProofs` | modelled, proved |
| DNS cache | `net/dns_cache.rs` | `DnsCache`, `DnsCacheProofs` | modelled, proved |
| Backend order, route choice | `net/backend_selector.rs`, `state.rs`, `config.rs` | `Routing` | modelled |
| Host patterns, backend templates | `config/host_pattern.rs` | `HostPattern` | modelled |
| Framed reads | `net/buffered_stream.rs`, `protocol/varint.rs`, `protocol/handshake.rs` | `Framing`, `Packets` | modelled |
| PROXY headers | `protocol/proxy_protocol_tcp.rs`, `protocol/proxy_protocol_datagram.rs` | `Framing` | lengths and refusals, not the address inside |
| Message markup | `protocol/text_format.rs` | `Markup` | modelled |
| Stats logger | `state/stats_logger.rs`, `state.rs` | `StatsLogger`, `StatsLoggerProofs` | writer and restarts, not what is stored; proved |
| Logging | `logging.rs` | `Logging` | queue, rolling and archiving; not formats and levels |
| Console | `console.rs` | `Sessions`, `ConfigReload`, `RouteMetrics`, `AddressTables` | the commands that change state |
| Startup, shutdown | `main.rs` | `Sessions`, `ConnectionTracker`, `StatsLogger`, `Logging` | kicks, the writers' stop, the archiving of the old log |
| Packets, NBT, compression | `protocol/*.rs` | `Packets` | the handshake only; the others are encoders without state |
| Config schema, messages, durations | `config.rs`, `config/messages.rs`, `config/duration.rs` | | not modelled: parsing without state |
| Backend pinger, API read side | `net/backend_pinger.rs`, `net/api.rs` | | not modelled: render snapshots |
| Client ping, network info, version, launcher | | | not modelled: output and system calls only |

How they meet: `server::run` spawns a task per connection.  `handle_connection`
passes the bans, the global slots, the rate windows and the pre-login slots
(`Admission`), then hands over to `handle_status` (`StatusPing`) or
`handle_login` (`Sessions`).  The bytes of all these reads come through one buffer
(`Framing`).  Both find the route of the host, fill in its backends and put them
in order (`HostPattern`, `Routing`).  A login resolves its backend through the DNS
cache (`DnsCache`), counts bytes into the route's counter (`RouteMetrics`), registers
its address for voice (`UdpRelay`), and at its end hands a record to the tracker
(`ConnectionTracker`).  `AppState::set_config` (`ConfigReload`) swaps the
configuration under all of them; `ConnectionTracker`, `StatsLogger` and `UdpRelay`
see a reload as their own `apply`.  `Admission` and `AddressTables` share `IpBanList` and
`ConnectionRates` as operators on the two tables.

## Modules

A lock's critical section, an atomic instruction, a system call or an `await` is
one step; everything between two of them belongs to the step before.  A task is
a program counter and the values it carries from step to step.  Data is cut down
to what the properties tell apart.

**Addresses, IpBanList, ConnectionRates.**  The maps of `ip_ban.rs` and
`flood_control.rs` and one operator per method, from the table before the call
to the table after it (each method holds one mutex).  Time is a parameter.

**AddressTables** puts these operators under a clock and their callers: `Check`
is `is_banned`, `Violation` `record_violation`, `Ban` and `Unban` the console's
commands, `TryAcquire` the rate limiter, `SweepBans` and `SweepRates` the
periodic sweeps.  Two history variables remember violations and admissions.

**SlotPool** is the abstract specification of a cap: holders come one at a time
while there is room and each leaves once.

**Admission** follows `handle_connection` by its early returns: `Accept`,
`CheckPeerBan`, `AcquireGlobal`/`UndoGlobal` (the `fetch_add` and the `fetch_sub`
of a refused attempt), `CheckRate`, `ReadHeader`, `CheckClientBan`,
`AcquirePreLogin`, `ReadHandshake`, `ReadStatusRequest`, `ReadLoginStart`,
`RefuseLogin`, `TimeOut`, `RecordViolation`, and the drops of the two RAII
guards.  The configuration is a snapshot taken at accept, as in the code;
`Reload` changes the one in force.

**Sessions** takes over at the Login Start: dialling the backends in turn,
`SniffFrame` (the login answers that `sniff_backend_login` parses for
encryption and compression), `BeginRelay` (session made and listed), the
`select!` loop as `Read`/`Written`/`PeerCloses`/`RunAction`/`Injected`, and the way out
(`Close`, `Unlist`).  `Notify::notify_waiters` keeps no permit, so `Notify` wakes
only a task parked in `select!`, and `Read` drops the wake-up: `select!` drops
the losing future.  `wire` is what the client's decoder expects, kept apart from
what the session believes.  The strategy's order of backends is any order.

**StatusPing** is `handle_status`: cache, down marks, dial slots, the last-known
response at the dial cap, `wait_for_status_slot`, and what a dial's end stores.

**RouteMetrics** is one metered route: relays count and mark (`Count`, `Mark` are
two atomics), flushes swap the dirty flag, load, open the temporary, write it
and rename it, with failures of the disk and crashes in between.  A file is an
inode, because a writer that has it open keeps it through a rename.

**ConnectionTracker** is `record`, the writer thread (`Receive`, `WriteBatch`,
`LeaveLoop`, `Drain`) and the life cycle (`Apply`, `Take`, `Tell`, `Join`, `Adopt`,
`Spawn`, `OpenFails`, `Install`, `Shutdown`), for any number of threads that apply
configurations.  An `Install` that finds another writer in `inner` replaces it; the
senders dropped with it end that writer as the signal would.

**ConfigReload** has the two files, their watchers, the API's mutation with its
validation through a temporary file, `fs::write` as truncation and filling,
`set_config` lock by lock, and a connection that finds its route's index in the
configuration of its accept (`AcceptConn`) and its runtime under that index later
(`LookUpRuntime`).  A route is a number; a file is a set of routes.

**UdpRelay** is one machine for the plain forward, the voice relay, and the voice
relay behind a proxy: the receiving task from `Receive` to the spawned reader,
the logout hook and the reaper as closers, the routing entries with their
reference counts, the idle sweep and the reload of the caps.

**DnsCache** is `resolve`, `refresh_async`, `warm` and the idle sweep between its
two locks.  The resolver is external: it answers with an address or a failure
within `LookupMax`.

**HostPattern** has `match_host` as the code computes it (the table of suffix
matches, then one greedy pass), `substitute_params`, and beside them what a match
is: a layout of the pattern over the text, the greediest of them all.  Lower case
may be longer than the character it is made from, as that of U+0130 is; the code
matches the lowered host and slices the host itself, and a slice beyond it panics.

**Routing** follows a connection from the host name to its dials: `Dispatch` picks
the route and begins `order_backends`, `Compare` is one comparison of the sort
(the keys are the live counts and latencies, read anew each time), `Connect`,
`Ping`, `Failover`, `FromCache` and `Disconnect` are what feeds the next order.
The standard library sorts slices of up to twenty elements by insertion; what it
does with an inconsistent order of more backends is not modelled.  The round-robin
counter is an integer of `Width` bits that wraps.

**Framing** is one connection's byte stream: `read_exact_more` for the PROXY
header, `fill_more`, `read_handshake`, `read_frame` and `poll_read` over one
buffer.  Bytes are bytes: VarInts, lengths and the handshake are encoded and
parsed as in the code (**Packets** has the encoders); only signatures and v1 families are told by one byte.

**Markup** takes markup token by token through `legacy_codes_to_tags`,
`parse_nodes`, flattening, gradients and the two writers, and reads their output
back as a client shows it.  A token can be a `<` or a `>` alone: the code takes what is
between the two for a tag.  `Meaning` says, without building a tree and without the
code's `apply_tag` or its interpolation, which style each character should have.

**StatsLogger** is the writer thread (`Wake`, `Log`) and the life cycle it shares with
the tracker.

**Logging** is the console's bounded queue (`Offer`, `CountDrop`, `PrintLine`,
`PrintNotice`), the rolling file (`WriteLine` to `Reopen`, with `WriteFails`, `ShiftFails` and `RollFails`), and the
archiving of the previous log (`Start` to `Prune`), with crashes at any step.

Definitions named `M_...` are variants of the definition that follows them, each
a plausible slip in that code.  Every property below is violated by the variant
`PROJECT.json` names for it, so each can fail.

## Runs

`cd tla; tlc -config <cfg> <module>` reproduces each.  Every module has one
invariant of its types; it is left out of the lists below.

Three runs (`client`, `shared`, `writers`) check several components that
share no state.  A variable `part`, chosen at the start, says which of them a
behaviour is about, and the others stand still: the state space is the sum of the
parts', not their product, and each part has its own constants and properties.

### admission (`MCAdmission`, `FairSpec`)
Two tasks of one address; reloads between a direct deployment with a global cap
of one, a direct one with a per-address cap of one and no global one, and a proxied
one with a per-address cap of one.
- `SlotsExact` (`SlotAccounting` and `SlotsHaveOwners`): the counters are exactly the slots held
  (and refused attempts about to be undone); each slot has an owner that is
  between its guard and its return.
- `GlobalCapHolds`, `PreLoginCapHolds`: both guards refine `SlotPool`, although
  the global one overshoots and corrects itself.
- `SilentClientsLeave`: with a login timeout a silent client leaves the
  pre-login phase.

### sessions (`MCSessions`, `FairSpec`)
Two logins, one backend, commands, and a limit that comes and goes.
- `BooksBalance`: a backend's active count is the number of logins connected; and
  registry and live relays agree, as long as two logins do not share an identity.
- `InjectedFramingMatches`: after a successful sniff, a kick or transfer packet
  fits the client's stream.  Without one the code assumes no compression.
- `OverLimitEnds`: under a limit that stays exceeded every identified player is
  out in the end, whatever notifications are lost, unless a peer that does not read or
  answer holds the task in a dial, a sniff or a write.

### session_relogin, session_kick_lost: findings
- `ConnectedAreListed` fails: a player logs in again before the old task has
  ended, and the old task's `player_sessions().remove(uuid)`
  (`net/server.rs:573`) takes the new session out of the registry.
- `KickEnds` fails: a kick that finds the relay in a `write_all`, or loses the
  `select!` to a read, has no effect (`net/server.rs:778`), though the console
  reports the player as kicked and `main.rs` relies on it at shutdown.  It fails even
  under `PeersReadSpec`, where every write to a peer ends.

### client (`MCClient`)
What a client meets.  Addresses: two over tables that track one, two `autoBan`
policies in turn.  Frames: logins and statuses with and without a PROXY header
of either version, and streams that are malformed in one way each, cut by the
network anywhere.  Patterns: every pattern against every host of up to three
characters over a letter, its capital, a capital whose lower case is two characters,
and the dot, and hosts over the length limit (three here, 255 in the code).  Status: two
pings, for two protocol versions, one dial slot, a cache of two.  Markup: every text of up to
four of fifteen tokens.
- `BansJust`: a ban rests on enough violations inside one window since the last
  ban (restarts, expiry and the sweep never let one count twice), and only time or
  `unban` ends a ban in force.
- `AtMostTwiceTheRate`: any stretch of one window's length lets at most twice the
  limit pass.
- `ReadAsSent`: what was handed out, what is buffered and what is to come are the
  bytes sent, in order; a well-formed client's handshake and frames are read as
  sent and it is never given up, unless a fill brings more bytes than a handshake
  may have behind it.
- `BufferBounded`: a framed reader holds at most a packet and a chunk, except
  behind a length that never ends, which `read_frame` takes for an incomplete one
  (`net/buffered_stream.rs:78`) until the deadline.
- `GreedyMatch`: `match_host` finds a match exactly when there is one, and captures
  what a greedy regex would; of a host that lower case lengthens, only that there is a
  match.
- `AnsweredForProtocol`: no client sees a status answered for another version.
- `PingsAnswered`: every ping comes to its answer, the fallback or nothing to say.
- `RendersMarkup`: the JSON component shows what the markup means, well-formed or
  not; texts with a hex colour that panics are left out.

`TypesOK` includes the address tables' size caps, the dial cap, the response cache's
backstop, and that dial slots taken are dials in flight.  Durations are positive: a console ban of
zero seconds is a way to lift a ban.  A later, shorter ban may bring the end
forward; the code does so and `BansJust` does not forbid it.  The rate window is no
longer than the sweep's cutoff (ten minutes), which a configured window could
exceed.  A response is known by the request it answers, as
for a backend that echoes the client's version; the fallback status is not looked
at.  Frames, patterns and markup come to rest, so their ends stutter.

### proxy_header, legacy_text: findings
- `HeaderExact` fails: the reader takes sixteen bytes before it looks at them
  (`protocol/proxy_protocol_tcp.rs:34`), and `PROXY UNKNOWN` with its line end has
  fifteen, so the first byte of the handshake goes with it.
- `LegacyRenders` fails: `to_legacy_text` writes each run's codes and no reset
  (`protocol/text_format.rs:460`), so a run with less style than the one before is
  shown in that one's.

### shared (`MCShared`)
What connections share, and what is on disk.  DNS: two hosts, two tasks, once with
room for both and once for one.  Routes: two tasks, a route of three fixed backends and one of two with a
reference, every strategy (of the longer route all but the random one).  Reload: two good
routes and one that does not load, both files
edited, both watchers, one API mutation, a connection, two edits in all.  Metrics:
one relay, two counters, resets, removal and re-adding, disk errors, crashes.  Log:
two threads, four lines, two lines to a file, two crashes.
- `MarksAreRefreshes`: a mark has a refresh behind it, and a host one refresh at a
  time, unless the sweep cleared a running one's mark.
- `FreshStays`: a fresh address is not lost, except to the caller of a then
  unknown host whose lookup fails late.
- `OrderSound`: a sort loses or doubles no backend though its keys change under
  it; left alone, it gives the order of the strategy with ties as configured.
- `RotationEven`: logins and pings together go round evenly, and an overflow of
  the counter only restarts the turn.
- `RuntimesFollowRoutes`: the runtime at an index belongs to the route there, a
  surviving route keeps its runtime, and a connection is counted in its route's
  for as long as the route stays.
- `LiveMatchesFiles`: at rest what is live is what the files say.
- `TotalsPersisted`: a clean counter's total is on disk, and no crash leaves an
  unreadable file.
- `NeverOvercounts`: nothing accounts for more than was relayed.
- `LinesKept`: a logged line can be read back until the retention limits reach it,
  over failing rolls, crashes and archives begun twice.

`TypesOK` includes the DNS cache's size cap.

The reload properties are stated until two reloads overlap: nothing serialises
them, and the older may be stored last.  After a failed load the new messages stay
in force with the old routes, which `LiveMatchesFiles` exempts.  A connection in
whose pre-login phase runtimes are stored pairs an old index with new runtimes
(`net/server.rs:202`), which `RuntimesFollowRoutes` exempts.  The console's `reload`
takes the same steps as the messages watcher and has no thread of its own in this
instance.  `TotalsPersisted` is stated until two flushes of one counter overlap: an
operator's reset and the ticker may flush at once through one temporary file, and
then an open temporary is renamed into place, or older values over newer ones.
`LinesKept` names four ways in which lines are lost: a roll reads `latest.log` and
truncates it later without holding the file's lock in between (`logging.rs:390`), two
rolls may overlap, the error of a rename is ignored and the file that stayed overwritten
(`logging.rs:363`), and a line that cannot be written is gone.

### mutation_corrupts: finding
`FileStaysValid` (only an edit by hand makes the file unloadable) fails with two
API mutations: they validate through the same
`yml.tmp-validate` (`config/editor.rs:131`), so one validates the other's text
and writes its own.  The run may stop once its edits are used up, so deadlock is
not checked.

### writers (`MCWriters`)
The two database writers.  Sessions: two records, a queue of one, batches of one.
Each with two generations of writers and two threads that apply configurations or shut
down at the same time.
- `NoneForgotten`: what the channel took is queued at a live writer, in its batch,
  written, or reported lost.
- `NoneAdrift`, `StatsNoneAdrift`: a writer that runs is the one in `inner`, is in the
  hands of a thread that will stop or install it, or has its stop signal; and the one in
  `inner` is at work without that signal, so that no record is sent to one that may not
  look again.
- `RecordsSettle`: what was taken is written or reported lost in the end.
- `AppliesEnd`: whoever applies a configuration comes back from the join.

### two_writers: finding
`OneWriter` fails: the comparison with the current configuration, the stop and the start
are critical sections of their own (`state/connection_tracker.rs:95`).  Of two threads
that apply at the same time both find `inner` empty and both start a writer.  Two run
on one database until the second `Install` drops the first one's senders, although the
file speaks of "A single dedicated writer thread" that "owns the one
`rusqlite::Connection` for the file's lifetime" (`state/connection_tracker.rs:10-12`).

### udp_relay (`MCUdpRelay`)
All three kinds of relay; two clients of one address, two players, two proxy
sources, caps that a reload exchanges.
- `CountsExact`: per-address slots are those of sessions that took one, each with
  somebody who will give it back; an entry's references are its players, until the
  idle sweep drops it under them.
- `SessionsCapped`: inserting a session keeps to the caps it was admitted under, of
  this relay: each compares `maxSessions` with its own table.
- `ViaMatches`: a proxy's source leads to a live session that replies there.
- `NothingOutlives`: a logout leaves neither sessions nor blocked readers, except
  for a session being set up at that moment (`raced`).

Caps per address are positive here.  With zero a session gives back a slot it
never took.

## Where documentation and comments disagree with the code

The runs with findings show six places where the code does not do what is written beside
it.  In other places the text is wrong, or too broad, and the properties state what
the code does; a reader of the text should know.

- `resources/default-config.yml:81-82` has `maxConnectionsPerIp` "Ignored when proxyProtocol
  is on" and effective "on (re)start" only.  The code caps by the client's address from the
  PROXY header and takes the cap from the configuration in force at accept
  (`net/server.rs:152-163`); `tests/e2e.rs:304` asks for that, and `plan.md:150` tells why.
  `PreLoginCapHolds` is about the code's cap, with and without a proxy.
- `resources/default-config.yml:172` has `maxSessions` "across all UDP paths combined".
  The forward (`udp/proxy.rs:121`) and the voice relay (`udp/voice_relay.rs:233`) each compare
  it with their own sessions, so that the total is bounded by it times the number of
  relays.  `SessionsCapped` is about one relay.
- `resources/default-config.yml:209` says that a full queue "drops the oldest-pending record".
  `try_send` refuses the newest (`state/connection_tracker.rs:80`), as that file's header
  says.  `NoneForgotten` is about records the queue took, which stay in it.
- `net/dns_cache.rs:31-32` says that past the cap "new hostnames still resolve, they just
  aren't cached".  The test does not ask whether the host has an entry already, so at the
  cap a refresh is not stored either (line 150) and a stale entry stays until the idle
  sweep makes room.  `FreshStays` is about entries that have not expired.
- `state/app_state.rs:20-24` says of the runtimes that a reload "currently just recreates an
  empty map".  `set_config` carries them over (lines 89-106), which `RuntimesFollowRoutes`
  is about.
- `config/host_pattern.rs:29-30` says that captures "preserve the original case of
  `hostname`".  They are cut at the lowered host's places: if lower case is longer, they
  are other pieces of the host, or the cut is beyond it and `match_host` panics.
  `GreedyMatch` leaves these captures out.
- `protocol/text_format.rs:130` says "never panic or reject startup".  `parse_hex` cuts six
  bytes in three (line 55) and panics if a cut falls inside a character.  `RendersMarkup`
  leaves such texts out.
- `logging.rs:354-355` says "nothing overwrites a not-yet-moved file".  A rename that fails
  is ignored and the next one overwrites the file.  `LinesKept` gives its lines up.

## Bounds

| Run | Bounds | Why they suffice for the question |
|---|---|---|
| admission | 2 tasks, clock 1, 2 attempts | every shared step can fall between two of the other task; the proofs lift it to any number |
| client, bans and rates | clock 4, 2 reports, 2 connections per window; bans and rates are separate behaviours, since they share nothing but the clock | longer than both windows and both bans; one table slot for two addresses forces the fail-open paths |
| client, patterns | length 3 | two `*` with text between, before and after them |
| sessions | 2 tasks, 1 backend | a relay and one that interferes; the dial loop goes round by failing |
| client, frames | limits of 6 to 20 bytes, chunk 18 | every limit is met and exceeded by some stream; a chunk holds several packets |
| client, status | clock 1, 1 poll | time to live zero: one tick expires an entry or a mark |
| client, markup | 4 tokens | a tag in a tag, its end and a text; a gradient with an end and a text after it |
| shared, DNS | clock 4, 2 lookups, 1 or 2 entries | one full life of an entry: fresh, stale, idle, gone; a caller and a refresh; a host that finds no room |
| shared, routes | 2 tasks, counter of 3 bits, clock 1 | one sorts while the other changes a key; the counter overflows; a tick expires a reading |
| shared, reload | 2 edits | an edit that meets another's reload |
| shared, metrics | 2 bytes, 2 counters | one byte before and one after a flush; one counter dropped while another is made |
| shared, log | 4 lines, 2 crashes, 1 archive kept, 2 rolls kept | two rolls, and two archives of which one is pruned; a third roll, which would drop one, is not reached |
| writers | 2 records, 2 appliers, 2 writers | one more record than the queue and than a batch; every step of a stop and a start between two of another thread's |
| udp_relay | 2 session objects | one closing while its successor is set up |

Symmetry is used only in runs without liveness.

## Fairness

- `Admission`: weak fairness of a task's internal steps (tokio polls a ready
  task) and of its deadline timer.  None for clients, backends or relays.
- `Sessions`: weak fairness of the steps a task takes by itself (the start of a relay,
  its close, its removal from the registry).  None of dials, sniffs and writes: a
  `write_all` has no timeout, and the sniff's timer starts again with every byte of the
  client.  Strong fairness of the ticker finding a relay parked, and of the
  disconnect branch: `select!` polls its branches in random order, and a relay that reads
  parks again after every write.  `session_kick_lost` adds that writes to peers end
  (`PeersReadSpec`), so that its counterexample is not a peer that does not read.
- `StatusPing`, in `MCClient`: weak fairness of a task's steps up to its answer.  All of
  them are under timeouts (the reads of the client, the dial, what is sent to and read from a
  backend, the wait for a slot).  None of what follows: the writes to the client
  (`net/server.rs:270, 282, 290, 309, 323`) have no timeout.
- `ConnectionTracker` and `StatsLogger`, in `MCWriters`: weak fairness of the
  writers' and the appliers' threads; a statement on the database ends, with or
  without success, and a lock is left.

`KickEnds` is refuted under stronger fairness than makes `OverLimitEnds` hold.
The difference is the code's: the ticker comes again, the console does not.

## Proofs

`AdmissionProofs` proves, for any finite sets of tasks and addresses, any
configurations and any table sizes (the `ASSUME`s of `Addresses`, `IpBanList`,
`ConnectionRates` and `Admission`, which say only that and the types):

| Theorem | Statement |
|---|---|
| `TypeCorrect` | `Spec => []TypeOK` |
| `SlotsAccounted` | `Spec => []SlotsExact` |
| `GlobalCapRefines` | `Spec => GlobalCapHolds`, the two-step guard is a `SlotPool` |
| `PreLoginCapRefines` | `Spec => PreLoginCapHolds`, one pool per address |
| `BansInForceHold` | `PositiveBans` implies `Spec => BansHold`: a ban in force ends by time or by `unban` |

None of `TypeOK`, `SlotAccounting` and `SlotsHaveOwners` is inductive alone.  That a counter stays a natural
number needs `SlotAccounting` (a decrement happens only where a slot is counted);
that an acquisition adds a new holder, and a drop removes one, needs
`SlotsHaveOwners` (a task at the guard owns nothing); and every step needs the
types.  Their conjunction `IInv` is.  `OffenderOps` and `RateOps` say what the
tables' operators keep; `TablesStep` does the variables that slots do not depend
on; one lemma per operation on slots (`AcquireGlobalAccounts`, `UndoGlobalAccounts`,
`DropGlobalAccounts`, `AcquirePreLoginAccounts`, `ReleasePreLoginAccounts`) does
the cardinalities; `AccountsStep` and `OwnersStep` go through the actions.  For
the refinements `GlobalPoolStep` and `PreLoginPoolStep` map each step to an
acquisition, a release or a stutter; that an acquisition finds room follows from
`count = |globalHeld \cup Undoing|`, since the refused attempts in `count` only
make the test stricter.  `BansInForceHold` rests on `BanOps`, that each operation on the
table, of whichever address, leaves a ban in force; `PositiveBans`, no configured ban
and no console ban of zero seconds, is needed because a second ban replaces the first
one's end: one of zero seconds lifts it.

`SessionsProofs` proves, for any finite set of connections and any players, backends,
logins and frames (`SessionsAssumption`):

| Theorem | Statement |
|---|---|
| `SessionTypes` | `Spec => []TypeOK` |
| `ConnectionsCounted` | `Spec => []ActiveIsLive`: a backend's count is its live logins |
| `EntriesHaveLogins` | `Spec => []EntriesAlive`: a registry entry is of a login that has not ended |
| `BooksAlwaysBalance` | `DistinctIdentities` implies `Spec => []BooksBalance` |
| `InjectionsFit` | `Spec => []InjectedFramingMatches` |

`Base` is the invariant that needs no hypothesis.  A count can only be kept exact
where a connected login has a backend (`BackendKnown`), and an injected packet's
framing only if what the session learned while sniffing is kept until it is used
(`FramingLearned`).  The registry is exact only under `DistinctIdentities`, no two
tasks with the same player: without it `session_relogin` shows how a task's end
removes another one's entry, and `ListedStep` is where the hypothesis is used.
What remains without it is `EntriesAlive`.

`TrackerProofs` proves, for any records, writers, configurations, queue and batch
sizes (`TrackerAssumption`):

| Theorem | Statement |
|---|---|
| `NothingForgotten` | `Spec => []NoneForgotten` |
| `WritersGuided` | `Spec => []NoneAdrift` |

Both hold for any number of threads that apply configurations at the same time.
`NoneForgotten` becomes inductive with `SendersServed` (a writer is told to stop, or
loses its sender, only when it is neither in `inner` nor about to be put there, and no two
threads hold the same one, so whoever sends finds one that will look at its channel
again) and `BatchesSettled` (a batch is emptied only after it was written or reported).
`SendersServed` is also what keeps `Guided`, the second theorem's invariant: a writer
that leaves `inner` is in the hands of the thread that took it, or has lost its senders
to the one that replaced it.

`StatusPingProofs` proves, for any number of pings, any backends, hosts and protocol
versions and any caps (`StatusAssumption`):

| Theorem | Statement |
|---|---|
| `StatusTyped` | `Spec => []TypeOK`, with the dial cap and the cache's backstop |
| `DialSlotsExact` | `Spec => []DialsCounted`: slots taken are dials in flight |
| `StatusMatchesProtocol` | `Spec => []AnsweredForProtocol` |

That a client sees an answer for its own version is a fact about where the answer was
found, several steps before it is shown: `CacheSound` says it of what is cached under a
key, `Served` of what a task carries.  `DialsBound` counts the dials; the cap follows
because a dial begins only where the count is below it.

`UdpRelayProofs` proves, for any finite sets of clients, players and sessions, any
proxies and any caps (`UdpAssumption`):

| Theorem | Statement |
|---|---|
| `RelayTyped` | `Spec => []TypeOK` |
| `FlowsMatch` | `Spec => []ViaMatches` |
| `SessionsEndTogether` | `Spec => []NothingOutlives` |
| `LoginsCounted` | `Spec => []RefsCounted`: an entry counts its logins |
| `CountsAreExact` | `AllCounted` implies `Spec => []CountsExact` |
| `InsertionsCapped` | `AllCounted` implies `Spec => SessionsCapped` |

The invariant follows a session from the receiving task that sets it up, through the
table, to the closer that ends it: `SetUp` (until it is inserted nobody else knows it),
`Listed` (a listed session is its client's and alive), `ClosedOnce` (a session being
closed is listed no more, has one closer, and is dead once its slot is given back),
`Owned` (every slot taken is still owed by one of the three).  `Hooked` and `Watched` are
the same for a login's end and for a session's reader; they stop at `raced`, the logout
that meets a session being set up.  Each action has a lemma; what it does not touch is
kept by `Frames`.  Without a hypothesis a per-address count is only bounded by the slots
taken (`SlotsBound`), because a session admitted under a cap of zero takes none and gives
one back.  `AllCounted`, no cap of zero per address, is the configuration in which the
code counts every session; under it `Exact` is inductive: counts are equal, and between
the check of a cap and the insertion the receiving task, which alone inserts, finds the
room it saw (`RoomLeft`, `WithinIpCap`).

`RouteMetricsProofs` proves, for any relays, counters and amounts of traffic, provided
`None` is not an inode:

| Theorem | Statement |
|---|---|
| `MetricsTyped` | `Spec => []TypeOK` |
| `TrafficNeverOvercounted` | `Spec => []NeverOvercounts` |
| `TotalsOnDisk` | `Spec => [](CleanIsPersisted /\ FileIsWhole)` |

`Bounded` says of every place a total can be in, a flush's and the temporary's included,
that it is at most what was relayed; it needs nothing else and holds however flushes
overlap.  The other two theorems are about histories without an overlap, where `Flushing`
gives the flusher at work the disk to itself.  `Whole` says that only it has the
temporary open, and that before the rename the temporary holds what it loaded.  `Kept`
says that the route's total is on disk, on its way there, or due to be flushed again
because the dirty flag is set or a relay is about to set it: after a failed write the
flag is set again, and what is counted after the swap is marked after it.

`DnsCacheProofs` proves, for any finite set of hosts, any number of tasks and any times to
live (`DnsConstants`: they are numbers, and `None` is not an entry):

| Theorem | Statement |
|---|---|
| `CacheTyped` | `Spec => []TypeOK`, with the size cap |
| `RefreshesMarked` | `Spec => []MarksAreRefreshes` |
| `FreshAddressesStay` | `Spec => FreshStays` |

`Marked` strengthens the second: a refresh whose mark the sweep has not taken still has
it, so another one of its host does not begin.  `Young`, no address is good for longer
than the time to live from now, makes a refresh never shorten an entry's life.

`StatsLoggerProofs` proves, for any writers, configurations and any number of threads
that apply them (`StatsConstants`: `None` is no writer and no configuration):

| Theorem | Statement |
|---|---|
| `StatsTyped` | `Spec => []TypeOK` |
| `StatsGuided` | `Spec => []NoneAdrift` |

The argument is that of the tracker: `Served` says who may hold a writer that has no signal,
`Guided` that every other one has it.

Before they were proved, these invariants were checked with TLC on the instances of
the runs.

Model-checked only:

- liveness (`SilentClientsLeave`, `OverLimitEnds`, `PingsAnswered`, `RecordsSettle`,
  `AppliesEnd`), which is out of the prover's reach;
- what rests on recursion or on folds over data, for which the prover has no induction:
  `ReadAsSent`, `BufferBounded`, `RendersMarkup`, `GreedyMatch`, and, of `AddressTables`, `AtMostTwiceTheRate` and
  the first half of `BansJust`, whose histories are filtered sequences (the second half,
  that a ban holds, is proved of `Admission`);
- `RotationEven`, which is about remainders and powers of two of any size, arithmetic the
  SMT solver does not decide;
- `RuntimesFollowRoutes` and `LiveMatchesFiles`, which rest on a sorted set of routes: that
  a finite set has a sorted sequence at all, with the same elements and each once, takes
  an induction over its size;
- `OrderSound` and `LinesKept`: nothing is known to stand in the way of a proof, and none
  has been written.

## What the model leaves out

- Bytes inside a relay.  Where a backend's packet ends inside a read is not kept,
  so an injected packet that lands in the middle of one is not seen.
- Activity times of UDP sessions: the reaper may close any session that is not
  being set up.
- Two acknowledged API mutations that read the same file: the second write drops
  the first one's route (`net/api.rs:186`).  The passing run has one mutation.
- The addresses inside PROXY headers and datagrams, and the NBT and compression
  encoders, whose state is one call.
- What the two databases hold: the rows of a snapshot, which are read under several locks
  (`state.rs:329`), retention, and the counters of queued and dropped records.
- Traffic between the last flush and a shutdown, which flushes no counters.
- One direction of traffic stands for both in `RouteMetrics`.

`PROJECT.json` lists every hazard met while reading the code, with the
properties that would catch it or why none does.

## Plan

The order followed so far was outside in: admission, sessions, status, then
persistence and reload, UDP and DNS, then the byte level (frames, markup,
patterns) and the remaining writers.  What is left:

1. **Proofs** of `ConfigReload` (`RuntimesFollowRoutes`, `LiveMatchesFiles`) with what
   sorting a set of routes gives as a hypothesis that TLC evaluates.  The invariant has
   to follow a job through `set_config`.
2. **A shared life cycle** for the two writer threads: an abstract specification
   (every worker is held, installed or told to stop) that both refine.
3. **Packet boundaries in a relay**, to see an injection in the middle of a packet.
