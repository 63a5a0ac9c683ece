# Konet, verified

Konet is a self-hosted realtime server (Elixir, Phoenix channels) with binary
voice frames, floor control, presence, a replay buffer and webhooks, with
client SDKs in JavaScript, Go and Python and a command line tool that runs the
server in Docker. This directory holds TLA+ models of
its concurrent parts, TLC configurations that check them on small instances, and
proofs, checked by TLAPS, of what holds for every instance.

Server paths below are relative to `src/konet-server/lib/`, the others to
`src/`. `PROJECT.json` maps every definition to the lines it models.

    tlc -workers 2 -config MCFloor_safe.cfg MCFloor     # a run
    tlapm Floor_proofs.tla                              # the proofs of a module

## 1. The system

### Components

| Component | State it keeps | Operations | Model |
|---|---|---|---|
| Floor control, `konet/floor.ex` | ETS row per topic; monitors (`refs`, `topics`), sweep timer | acquire, release, monitor/demonitor casts, DOWN, sweep, init after a crash | `Floor`, against `FloorLock` |
| Binary mode, `konet/binary_mode.ex` | ETS bag of members and modes; monitors | claim, DOWN, init | `BinaryMode`, against `TopicMode` |
| Room channel, `konet_web/room_channel.ex` | one process per member and topic: where it is in its handler, its cached mode | join, after_join, broadcast, floor events, binary frames, terminate | split over `Room`, `Floor`, `BinaryMode` |
| Channel registry, `konet/channel_registry.ex` | ETS count per room | joined/left casts, occupied/vacated events | `Room`, against `Occupancy` |
| History, `konet/history.ex` | ETS buffer per room, newest first | record, replay, sweep | `Room` |
| Webhooks, `konet/webhooks.ex` | timers, mailbox, a bounded pool of tasks | emit, attempt, retry, give up | `Webhooks`, against `Delivery` |
| Supervision, `konet/application.ex`, `konet/tables.ex` | the tables themselves | restart a worker | crash and restart actions of the four modules above |
| JavaScript SDK, `sdk/js/src/client.ts`, `channel.ts` | socket, timers, reconnection; channels with their joins; send buffer | connect, disconnect, subscribe, unsubscribe, send; every callback | `JsClient` |
| REST API and Studio broadcast, `konet_web/controllers/admin_controller.ex`, `konet_web/live/studio/broadcast_live.ex` | none | broadcast, then record | `Room` |
| Go SDK, `sdk/go/konet.go`, `channel.go`, `binary.go` | socket, status, two loops; channels with their joins and the Go channels their callers wait on; binary frames | Connect, Disconnect, Subscribe, Unsubscribe, Send, SendBinary, request; read loop, heartbeat, reconnection, rejoin | `GoClient`, `GoChannel`, `GoMedia` with `GoBinary` |
| Command line tool, `konet-cli` | `konet.config.toml`, the container `konet-server` | init, keys generate, start, stop, upgrade | `KonetCli` |
| Rate limiter, metrics, keys (`konet/rate_limiter.ex`, `metrics.ex`, `auth.ex`) | counters, a gauge by monitors, the secrets | check, cleanup; track; rotate | not modelled |
| Python SDK (`sdk/python`) | as JavaScript, with tasks | as JavaScript | not modelled |
| Presence, log buffer, user socket, views, React Native shim, conformance suite | see `PROJECT.json` | | not modelled |

### How they interact

Every channel member is a process. Acquiring and releasing the floor is done **by
that process**, in several ETS operations; the `Konet.Floor` process (the
*arbiter* below) is only told, by casts, whom to watch. The registry and the
replay buffer hear of everything by casts too. A mode is claimed in a call.
Webhooks are emitted by whoever has news, and sent by tasks of a pool. The
supervisor restarts a worker alone (`one_for_one`); the tables belong to
`Konet.Tables`, so a crash costs a worker its mailbox, timers and monitors, and
not its rows. Calls to a process that is down exit; casts are lost silently.
Clients reach a channel over a WebSocket that may fail at any time, silently too.
In the Go SDK the application's goroutines, the read loop, the heartbeat loop and
one goroutine per rejoin share a client under `c.mu` and each channel under its
own `mu`; nothing is held across a write, a dial or a wait. The commands of the
CLI share only the file and the Docker daemon, without any lock.

### What is hard, and what makes each part correct

* **Floor.** Check and act are separate ETS operations of different processes,
  casts of different processes overtake each other, the arbiter can crash
  between any two steps, and a member can die at any of them. Correct: one
  holder per topic, who keeps the floor until it lets go; every holder is watched;
  the sweep never stops; a release ends only its own hold; the backend hears of
  each hold and its end.
* **Binary mode.** A member caches what it was granted, so the grant must stay
  true through deaths, crashes and refusals. Correct: no cached mode is stale,
  the ceiling holds, the refused leave no trace, the dead are forgotten.
* **Room.** Counts by casts, a subscription that precedes the replay, and a
  buffer written by a process that lags. Correct: counts and the
  occupied/vacated events are right; nothing is missed between replay and live.
* **Webhooks.** Retries race late processing and crashes. Correct: what counts as
  delivered was, each event is tried as configured and settles.
* **JavaScript client.** Callbacks of old sockets, replies to superseded joins,
  timers left running, calls in the middle of a reconnection. Correct: the
  reported status is true, a channel that counts as joined is known to the
  server, messages go where their join went, subscriptions settle, dead sockets
  are replaced.

* **Go client and channel.** Connect and Disconnect race the reconnection, and
  each wait can end by an answer, by the loss of the socket or by its context.
  Correct: one pair of loops; an unanswered heartbeat closes only the socket it
  was sent on; a reconnection ends in a word to the application; a joined channel
  was confirmed on the socket in use; each waiter is answered or released, once;
  a joining channel has a goroutine at work on that join.
* **Go binary frames.** Sizes are one byte, and whether a frame has a sender in
  front depends on a mode that another goroutine stores. Correct: decoding
  inverts Phoenix's encoding and refuses the rest; handlers hear what was sent.
* **CLI.** Commands can fail or be killed between any two system calls and can
  overlap. Correct: a start clears away what the last one left; keys match their
  secret; what runs has the secrets of the file; whatever went wrong before, a
  start that is left alone ends with a server that agrees with the file.

`PROJECT.json` lists 40 hazards with their lines and the properties about them.
Where the code has a race that it loses, the property exempts exactly that case
by a history variable, and the hazard has no property or a note: `exposed`
(`Floor`), `disturbed` and `late` (`Room`), `doubled` (`JsClient`), `stranded`
and `unanswered` (`GoChannel`), `early` (`GoMedia`), `raced` and `lost`
(`KonetCli`). Section 3 lists these cases; beyond them the properties hold.

## 2. The modules

### Floor, FloorLock

`Floor` is the arbiter together with the channel processes that drive it. An
action is one step between two points where another process can run: an ETS
operation, a cast with the webhook after it, a broadcast. `pc[p]` says where in
its handler process `p` is.

| Code | Actions |
|---|---|
| `handle_in("konet:floor_acquire")`, `Floor.acquire/3`, `do_acquire` | `Press`, `InsertNew`, `CastMonitor`, `ReadHolder`, `AnnounceHolder` |
| `handle_in("konet:floor_release")`, `terminate/2`, `Floor.release/2` | `Release`, `Terminate`, `Lookup`, `Delete`, `CastDemonitor`, `AnnounceFree` |
| a binary frame, `may_send_binary?/1` and `broadcast_from!` | `CheckFrame`, `SendFrame` |
| `handle_cast` of `{:monitor, ...}` and `{:demonitor, ...}` | `HandleMonitor`, `HandleDemonitor` |
| `handle_info` of `:DOWN` and `:sweep` | `HandleDown`, `HandleSweep`, then `RemoveRow` and `AnnounceRemoval` per row |
| a crash, `init/1` | `Crash`, `Restart`, `Rebuild` per row |
| exit signals, time | `Kill`, `DownArrives`, `Ripen`, `SweepTimer` |

`mailbox` is the arbiter's, in order; a DOWN is flushed with its monitor. A *hold*
is the tenure of one row; its number stands for the row's two timestamps, and
`ripe` for "at least `max_hold_ms` old". `exposed` is a history variable: the
holds whose watch was undone by a cast that came too late or a process that died
before its own cast. `said` is the holder announced last.

`FloorLock` is the abstract promise: a topic is free or held by one user, passes
from hand to hand only through being free, and is freed eventually. `Floor`
implements it with `holder[t]` the user in the row (`LockSafe`, `LockLive`).

### BinaryMode, TopicMode

One action per handler of the process, except that `claim` is two, `Accept` and
`Watch`, since the process can crash between recording a member and answering
it. `Refuse` has both refusals. `Members` reads as the code does: rows of live
processes, the others deleted on the way. `Current` is a set: which row of the
bag comes first is not specified. `Restart` and `Rebuild` are `init/1`.

`TopicMode` is the abstract promise, as the members see it: the first to enter
fixes the mode, whoever enters later has the same, it is forgotten with the last
to leave, and a multiplex topic admits nobody beyond the ceiling. `BinaryMode`
implements it (`ModeSafe`) with `member[t]` the processes that joined and
`mode[t]` the mode they have cached: `Watch` enters, the death of a joined
process leaves, and everything else, a crash and the rebuilding included, is a
stutter. Any change of a mode under a member breaks it, and so do two modes at
once and a member too many.

### Room, Occupancy

The life of a member from `join/3` to `terminate/2` or a kill, the registry, the
replay buffer, and the REST broadcast with its order of delivering before
recording. The two mailboxes are sets with per-sender order, all that the
runtime guarantees between several senders. The webhook of a count is a step of
its own (`Emit`), because it may raise and take the registry down. `disturbed`,
`gone` and `late` are history variables: rooms about which a cast or an event was
lost, messages lost with the buffer's process or swept, and messages that were
not yet recorded when a member was replayed to.

`Occupancy` is the abstract promise to a backend that follows a room by
`channel_occupied` and `channel_vacated` alone: from each change between empty
and occupied to the event that tells it, nobody else is counted in or out. `Room`
implements it (`OccupancySafe`) with `inside[r]` the members whose `joined` was
handled and whose `left` was not, and `told[r]` the event announced last; a
disturbed room is out of the promise for good. Repeating an event is a stutter
there; that no event is repeated is `BackendKnowsOccupied`.

### Webhooks, Delivery

An event is in one place at a time: a task of the pool, a timer, the mailbox, or
settled. The receiver is external: it may process a request late, answer it,
refuse it or never see it. A retry's timer sends to the registered **name**, so
it outlives the process; it is lost when it fires while nobody owns that name.

`Delivery` is the abstract promise about an event: its outcome, once settled, is
final; it is "delivered" only after a copy was processed; each attempt is
processed once at most, perhaps after the outcome. `Webhooks` implements it
(`DeliverySafe`) with `outcome[e]` read from the place the event is in and
`copies[e]` the attempts whose request was processed. A pool that crashes fails
several events in one step (`Fail` of a set).

### JsClient

A JavaScript callback runs to its end, so an action is a whole callback or a
whole call of the application with everything it calls: `Connect`, `Disconnect`,
`CheckConnection`, the timers `ReconnectTimer`, `HeartbeatTick`,
`HeartbeatDeadline`, the socket's `OnOpen`, `OnClose`, `OnMessage`, and
`Subscribe`, `Unsubscribe`, `Send`. `strays` is an interval whose handle was
overwritten and that nobody can stop; `link[s]` is a socket's state as the
browser sees it, with `silent` for one that looks open and is dead. The Phoenix
server is external (`TakeJoin`, `TakeLeave`, `CloseLeft`, `ChannelCrash`): it
answers a second join of a topic before it closes the first. `accepted` and
`doubled` are history variables.

### GoClient

An action is a critical section of `c.mu`, a dial, a read that ends or a select.
`caller[p]` is where a goroutine of the application is in `Connect` (`Connect`,
`Dial`, `Adopt`, `Spawn`) or `Disconnect` (`Disconnect`, `Detach`, `Shut`); the
loops that one `Connect` spawns share a number, their *life*, which is also the
context that `stop` cancels. `reader[l]` is in `readLoop` (`Top`, `Pick`,
`ReadFails`, `HeartbeatReply`) or in `reconnect` (`DropConn`, `Backoff`,
`Redial`, `AdoptRedial`, `Announce`); `beater[l]` in `heartbeatLoop` (`Tick`,
`SendProbe`, `Unanswered`, `BeaterEnds`). `link[s]` is what a socket is: open,
silent, lost or closed. `aimed` and `doubled` are history variables.

### GoChannel

One channel among the goroutines of the application, the read loop and one rejoin
per socket. An action is a critical section of the channel's `mu`, a write, or a
wait that ends. `replies` is the map of that name and `box[r]` what was put in
the Go channel of reference `r`: a reply, or `closed`. The first `Connect` has
returned. Phoenix is external, as in `JsClient`: its socket process (`TakeJoin`,
`TakeLeave`, `TakePush`) only forwards a push to the channel process, which holds
it in `inbox[s]` and answers it later (`AnswerPush`), unless it crashes, is
replaced or leaves first (`Forsake`); without a channel the socket answers the
push itself. `accepted`, `twice`, `stranded` and `unanswered` are history
variables; `stranded` are the goroutines that wrote after `socketClosed` had
marked the channel and before the socket was let go of, and `unanswered[s]` the
pushes that were lost with their channel process on a socket that is still open:
their answer never comes, and nobody releases them. `WaitersReleased` exempts
both, the second for as long as the socket is open (`Forsaken`).

### GoBinary, GoMedia

`GoBinary` is `binary.go` as functions on sequences of bytes, with the size of a
byte a parameter. `GoMedia` sends frames of one client through the server's
`stamp/2` to the read loop of another (`SendBinary`, `Read`, `Heard`), beside the
goroutine that stores the confirmed mode (`Confirm`) and a lost socket, and feeds
the decoder every frame of `Framed` and every string of `Stray`. `MediaAssumption`
says that these are bytes, that the frames of `Framed` are well formed, and that a
sender's id fits its stamp, as `sender_prefix/2` demands at the join.

### KonetCli

An action is one system call or one Docker request. `shell[p]` is the command of
a terminal, with the config it has loaded and the id of the container it has
found; `Kill` ends it anywhere. `file` is absent, a config or garbled: saving
truncates first and writes later (`Truncate`, `Encode`), and each may fail: a
failed `os.Create` changes nothing, and a failed `Encode`, which writes its
buffer in one go, leaves the file empty. A secret is a number and
a key pair is the number of the secret that signed it. Docker is external: a
container whose server dies is restarting, one that is running or restarting is
not removed, and one that was created may not start, its port being taken. An
upgrade is the decision to run the install script or not, and the pull of the
server image after it; which `konet` the script replaces is left out (section 5).
`raced`, `alone`, `lost` and `refused` are history variables; `alone` is the shell
whose last command began while no other ran and beside which nothing has happened
since.

### How the modules compose

`Floor` contains the half of the room channel that touches the floor, and `Room`
the half that touches the registry and the buffer: the two share no state in the
code except the life of the member's process, which each models with its own
kills and terminations. The mode a member claims only decides whether it joins,
which both leave open (`Refuse`, and members that never press). A product would
have no interaction that the two do not have, and is not checked.
`JsClient` meets the server at its wire: join, leave, broadcast, close and error
frames, whose server end is modelled only as far as a client can tell.
`GoClient` and `GoChannel` are two views of one client: the first has the sockets
and loops without channels, the second one channel with the part of the read loop
and the reconnection that touches it (`Mark`, `Drop`, `Redial`). They meet in
`socketClosed`, called in the order of `reconnect` and `Disconnect`, and in the
rejoin goroutine. `GoMedia` takes the join state as given and has only what the
modes do to frames.

## 3. The runs

| Run | Module, configuration | Distinct states | Shows |
|---|---|---|---|
| `floor_safe` | `MCFloor`, `_safe` | 1.1 million | two members who press, release, leave and are killed, one crash of the arbiter, holds that expire: `LockSafe`, monitors and sweep consistent, every holder watched, a live member keeps the floor (`HoldsEndDuly`), the backend told |
| `floor_live` | `_live` | 265 000 | `LockLive`: under fairness every hold ends; `DeadHoldersFreed`: a killed member's by its monitor, without the sweep |
| `floor_cutoff` | `_cutoff` | violation | `ReleasesOnlyOwnHold` |
| `binary_mode` | `MCBinaryMode` | 256 000 | three members in one topic and one in another, either mode, ceiling 2, one crash: `ModeSafe`, no trace of the refused, every member watched, and `DeadForgotten` under fairness |
| `room` | `MCRoom` | 1 million | two members (one may be killed) and a REST request, three messages, a buffer of 2, one crash: counts, events, `OccupancySafe`, replay, and `EmptyRoomVacated` |
| `webhooks` | `MCWebhooks` | 156 000 | two events, a pool of one, three attempts, two crashes: `DeliverySafe`, tries as configured, and `EveryEventSettles` |
| `js_client` | `MCJsClient` | 271 000 | one topic, up to three sockets, two upsets (lost or silent sockets, crashed channels, disconnects), four calls: all properties with liveness |
| `go_client` | `MCGoClient` | 132 000 | two goroutines that call `Connect` and `Disconnect`, two pairs of loops, four sockets, three upsets (lost and silent sockets, late replies), two attempts: all properties with liveness |
| `go_channel` | `MCGoChannel` | 165 000 | two goroutines with three calls, two sockets, one upset (a lost socket, a crashed channel, a context that ends): all properties with liveness |
| `go_rejoin` | `_rejoin` | violation | `LeftStaysLeft` |
| `go_media` | `MCGoMedia` | 89 000 | frames of every kind with fields from empty to the largest, every string of up to six bytes, two pushes over two topics in either mode, two sockets: `DecodesExactly`, `HeardAsSent` |
| `cli` | `MCKonetCli` | 1 million | two terminals, four commands that may fail anywhere, two upsets (kills, deaths of the server, hand-made changes): the name is free, the keys match, what runs has the file's secrets, and `StartRecovers` |

### Disagreements found

Two runs end in a counterexample to something a comment of the code says.

1. **`floor_cutoff`** (`floor.ex:117`; says otherwise at 110-112). `release/2`
   looks up its row and deletes *by topic*. If the sweep removes the hold in
   between and somebody else acquires, that one is cut off.
2. **`go_rejoin`** (`channel.go:524`; 118-119). `rejoin` reads `wantsJoin` under
   one lock and `Subscribe` sets it under another: an `Unsubscribe` in between is
   undone, and the channel the application left is joined again.

The models have these steps too, and TLC shows the case for a property of a line
or two; they are kept as notes and not as runs.

* A demonitor cast that overtakes the monitor cast of the next holder leaves that
  holder unwatched (`floor.ex:120`, against 19-21). `HoldersWatched` exempts
  these holds by `exposed`, and the sweep is what ends them.
* Two devices of one user in a topic may release one hold twice: the second
  deletes the next hold of the first, which keeps no event of its own
  (`floor.ex:117`, against 46-53). `BackendToldOfEveryHold` is checked and proved
  for one process per user.
* A holder that dies while the arbiter is down is dropped by `init/1` without a
  release event or announcement (`floor.ex:158`, against 46-48).
* `init/1` lists the rows first and deletes by topic later: a holder that releases
  and dies in between costs the next one, alive, the floor (`floor.ex:158`). The
  sweep deletes by topic as well (229-233). Until a hold expires or the arbiter
  crashes, a live member loses the floor only by its own release, given one process
  per user (`HoldsEndDuly`).
* The announcement that the floor is free can come after the next holder's own
  (`room_channel.ex:195`, against 172-175).
* Only `terminate/2` counts a member out, and a killed process does not run it
  (`room_channel.ex:311`, against `webhooks.ex:9`). A crash of the registry loses
  the casts in its mailbox (`channel_registry.ex:32`). The counts of such rooms
  are wrong from then on, and `CountsRight`, `BackendKnowsOccupied` and
  `OccupancySafe` exempt them by `disturbed`.
* A message that was delivered and is not yet in the replay buffer when a member
  joins misses it both ways: while the cast to the buffer is under way, and for
  the REST API between its two steps (`admin_controller.ex:51`). `NoGap` exempts
  it by `late`.
* `connect()` during a pending reconnection of the JavaScript client leaves its
  channels joined on a socket that is no longer read (`client.ts:81`, against
  222-225); `JoinedIsKnown` and `SendsLand` exempt it by `doubled`. The Go client
  does the same, and leaves the first socket open beside (`konet.go:169`).
* `Connect` after the client gave up, or after `Disconnect`, spawns no reader, or
  one that ends at once (`konet.go:156`, against "starts the read loop", 153). A
  dial that ends after `Disconnect` is adopted and announced (`konet.go:514`).
* A failed `Connect` leaves the reported status at "connecting" (`konet.go:162`).
* A join or request written between `socketClosed` and the loss of `c.conn` waits
  until its context ends, and its channel stays joining (`konet.go:476-482`,
  against `channel.go:498-500`); `WaitersReleased` exempts it by `stranded`.
* A request whose channel process crashes, is replaced or leaves before it has
  answered waits as long as the socket is open, and for ever if its context has
  no deadline: `phx_error` and `phx_close` set the state and release no waiter
  (`channel.go:585-590`, with `request`, 462-493). No comment claims otherwise;
  `WaitersReleased` exempts it by `Forsaken`.
* A late "ok" makes a channel joined that `phx_error` has just ended, and a late
  error of an abandoned join errors a newer one (`channel.go:248`). `phx_close`
  and `phx_error` are not compared with the present join, in Go
  (`channel.go:586-590`) and in JavaScript (`channel.ts:366`). `Unsubscribe` while
  joining leaves the server a member (`channel.go:274`, `channel.ts:177`).
* Binary frames that are read before `Subscribe` has stored the mode come with
  their sender prefix as data (`channel.go:542`, against 85-89); `HeardAsSent`
  exempts them by `early`. (A `Subscribe` whose context ends before it takes the
  reply stores no mode at all; `GoMedia` has no contexts.)
* A CLI killed, or failing, between creating and writing the config leaves an
  empty file, which loads: `start` generates a `secret_key_base` for it and runs
  with an empty `jwt_secret`, and `init` says the file exists (`config.go:124`). A container that is restarting is not "running" to `find`, so
  a start tries to remove it and is refused, and a stop says nothing runs
  (`docker.go:187`).
* A webhook retry that finds the pool full is dropped (`webhooks.ex:78`); the
  module doc of `webhooks.ex` (33-37) is more pessimistic about a crash than the
  code, whose timers survive it.

### Bounds, and why they are enough

Every bound is a constant named `Max...`, `Limit`, `Sends`, or the size of a set.

* Two members suffice for the floor: each of its races is between a hold that
  ends and the next one. `MaxHolds = 2` gives one hold and its successor;
  `MaxCrashes = 1` allows a crash at every point, and the restart after it at
  every later one. Two references are as many as one topic can use at a time.
  `MaxAttempts = 2` has a first, a middle and a last attempt. Topics do not
  interact except through the arbiter's mailbox and through `work`, the rows it
  goes through, so one topic is checked; the proofs cover any number.
* Mode: three members against a ceiling of two make it full and exceed it; the
  second topic shows that rows are told apart.
* Room: one sender with two messages, another with one, and a buffer of two: the
  buffer overflows, both orders across senders occur, and so does each relation
  of a message to the replay. One crash hits either worker.
* Webhooks: a pool of one is full with the second event; three attempts have a
  first, a middle and a last; two crashes take the process and the pool in
  either order.
* JavaScript: three sockets are a first, a reconnection and the second socket of
  a `connect()` beside it; one attempt of reconnection makes the client give up; four calls
  are enough to subscribe, send, leave and subscribe again. Upsets count only
  what the world does to the client, and a false alarm of its own heartbeat; the
  number of heartbeats and of timer ticks is not bounded.
* Go client: two calls are every pair of `Connect` and `Disconnect`, at every
  point of each other and of the loops; four sockets are one or two connects with
  a reconnection each and one more; three upsets make a socket silent, lose it,
  and let a reply come late. Ticks are not bounded.
* Go channel: three calls on two sockets have a join that is superseded, left or
  abandoned and one that follows it, with a request beside; the second socket has
  the rejoin. `MaxRefs` has one reference for each call and each rejoin.
* Go frames: `ByteMax` is 2 for 255, so that a field of four bytes is too long
  and its size wraps to that of its own prefix, another topic of the instance.
  Every case of the code compares sizes with each other or with `ByteMax` only.
* CLI: four commands are init, keys, start and any fourth, or two starts and two
  stops; two containers are an old and a new one; five secrets are two pairs and
  the one that `start` adds. Two upsets and overlapping commands leave every
  mixture of file and container that `StartRecovers` starts from.

Deadlock is checked for the floor, which can always press or sweep again. It is
off elsewhere, where every process may have died, each event may have settled,
or the application or the terminals may have nothing left to do.

### Fairness

Weak fairness throughout, and only of what the runtime drives.

* `Floor`: every handler that has started is continued (`Continue`), the arbiter
  serves its mailbox and is restarted, timers fire, exit signals arrive. Nothing
  makes a member press, release, or leave. `LockLive` has the premise that time
  passes (a hold may ripen); a hold is otherwise ended by its holder alone.
* `BinaryMode`: the process serves and is restarted.
* `Room`: the registry serves and is restarted.
* `Webhooks`: timers fire, the process handles retries, a request ends at the
  latest with its timeout, crashed parts are restarted.
* `JsClient`: timers fire, a socket that is being made opens or fails, a lost one
  reports it, frames arrive and are served. Nothing makes the application do
  anything, and `visibilitychange` or `online` events are not assumed to come.
* `GoClient` and `GoChannel`: goroutines are scheduled, timers fire, dials end, a
  read of a closed socket returns, an open socket's server answers. No context
  need ever end and nothing makes the application call.
* `GoMedia` and `KonetCli` assume none: their properties are safety.

The restart intensity (10 in 10 s) is outside the model: `MaxCrashes` stays
below it, and beyond it the node goes down, tables and all.

## 4. The proofs

All theorems hold for any number of topics, processes, users, messages, sockets,
and any value of the bounds. They assume only `ConstAssumption` of their module
(types of the parameters, and that the null values are not ordinary ones; for the
frames `ByteAssumption` and `MediaAssumption`; TLC
evaluates them in every run), and the library's theorems on sequences and finite
sets; `ToldCorrect` and `HoldsCorrect` have `OneDevice` as a hypothesis of their own.

| Module | Theorems | Along what invariant |
|---|---|---|
| `Floor_proofs` | `TypeCorrect`, `ImplementsLock`, `MonitorsCorrect`, `WatchCorrect`, `SweepCorrect`, `DisconnectCorrect`, `HoldsCorrect`, `ToldCorrect` | `TypeOK` is inductive: control states carry the data they rely on. Each step maps to `Take`, `Free` or a stutter of `FloorLock`. For the watch, `IInv`: that a holder is watched cannot be carried from step to step alone, since a cast not yet handled, a row in `work`, and a DOWN that has been queued each stand for a watch. `IInv` = `TypeOK`, `MonitorsAgree`, `WatchOK` (the above, said of mailboxes), that a row is in its process's topic and a process about to demonitor has none (`RowsOK`), that `work` has one job per topic and is empty between messages (`WorkOK`), and what a crash leaves and a restart has not rebuilt (`DownOK`). For `ToldCorrect`, `TInv`: every event not yet sent belongs to a row in the table or to a process about to send it (`EventsOK`), and a process about to erase a row has looked up that row, its own (`ReleaseOK`). Both hold until the arbiter removes a row or a process is killed, and assume `OneDevice`: a user has one process in a topic. For `HoldsCorrect`, which lets processes be killed and the arbiter remove rows of the dead: whoever is about to erase a row looked it up and it is its own, and the row that the arbiter is about to remove is the one it read (`LastingOK`), a dead process's (`DisconnectsOnlyTheDead`). |
| `BinaryMode_proofs` | `TypeCorrect`, `CacheCorrect`, `WatchCorrect`, `RefusalCorrect`, `CeilingCorrect`, `ImplementsMode` | `IInv`: the rows of a topic agree on a mode (`OneMode`), every joined or just accepted process has its row and no refused or queued one has (`RowsOK`), and `MembersWatched`; the ceiling from it by lemmas on cardinality. For `ImplementsMode`: all who have joined a topic cached one mode (`ModeIsJoined`), so only `Watch` and the death of a joined process change what the members see; a process that `Watch` lets in had its row, and the ceiling of the rows bounds the joined by an injection (`RoomFor`). |
| `Room_proofs` | `TypeCorrect`, `CountsCorrect`, `BackendCorrect`, `ImplementsOccupancy`, `ReplayCorrect`, `GapCorrect` | `CInv`: casts are those of processes in the right state (`CastsOK`), a `left` follows its `joined` (`LeavesFollow`), and the pending event is about a room whose count has just changed (`EmitOK`). `ImplementsOccupancy` adds that whatever else happens moves nobody in or out (`NobodyMoves`) and that a handler only runs when the last event told the truth (`ReportedTruth`): each step is then `Enter`, `Leave`, `Tell`, `Lose` or a stutter. For the replay, `RInv`: what is in the mailbox of Konet.History is newer than what has left it (`RecordsOK`), a buffer is newest first and older than the mailbox (`BufferOK`), and what was handled is in the buffer, unless newer messages filled it (`Kept`); then what a member has of `said` follows a step at a time (`HeardAll`). |
| `Webhooks_proofs` | `TypeCorrect`, `DeliveryCorrect`, `RetriesCorrect`, `ImplementsDelivery` | `WInv`: the attempts made fit the place the event is in (`AttemptsOK`): fewer than `Retries` wherever another may follow, all of them once it is given up. The number of processed copies follows from the attempt numbers they bear. `ImplementsDelivery` needs `RequestsOK`: a request under way has not been processed and is of an attempt that began. |
| `JsClient_proofs` | `TypeCorrect`, `StatusCorrect`, `JoinedCorrect`, `SendsCorrect` | `SInv`: there is a socket exactly while the client connects or is connected, and a client closed by the user has no timer running. `JoinInv`: until `connect()` doubles a reconnection, one socket at most has life in it and it is `this.ws`; every acceptance on the wire is of a join the server holds or whose end follows on the same wire; every message under way was sent under a join accepted there. |
| `GoClient_proofs` | `TypeCorrect`, `LoopsCorrect`, `ProbesCorrect`; of the frames `FramingCorrect`, `FramesCorrect` | `SpawnsOK`: until the first `Disconnect` at most one call is about to spawn loops, `started` is set from then on, and no loops were spawned before. `ProbeOK`: no probe is pending while there is no socket. `AttemptsOK`: a dial is one of the attempts that `reconnect` may still make. The frames: `MediaInv`: the modes that the receiver holds or has been handed are the server's (`ModesAgree`), and a frame is on the wire only if it carries something sent and the receiver knows the mode of its topic, or reads the reply to its join first (`WireOK`). That the decoder inverts the encoder follows from lemmas about cutting up a sequence that was put together from a header and five pieces (`EncodedDecodes`) and putting together one that was cut up (`DecodedEncodes`). |
| `GoChannel_proofs` | `TypeCorrect`, `AnsweredCorrect`, `AwaitedCorrect`, `JoinedCorrect` | `RefsOK`: a reference is one goroutine's, and its Go channel is empty while it is registered. `JoinOK`: the Go channel of the present join was not closed. `WireOK`: the present join's reference is in no other frame than its own, and an "ok" for it is on a socket where the server accepted it. `ConfirmedOK`: an "ok" that was handed over for it came on the socket in use. What a channel process holds and will answer is on the wire as well (`WireOK`). `StartedOK`: a socket not opened yet has no rejoin. |
| `KonetCli_proofs` | `TypeCorrect`, `KeysCorrect`, `NameCorrect`, `RunsCorrect`, `RecoversCorrect` | `KeysOK`: configs in hand match too. `NameOK`: a command that is about to create, and that no other overlapped, has a free name; commands count as not overlapped (`Sole`) while none ever did, or when this one has been alone since it began (`Alone`: then no other is under way). `HeldOK`: what a container, the file and a command hold, whoever else runs (a command past the secret check has one). `AgreeOK`: while commands ran alone and no file was lost, the file, the container and the config in hand agree up to where the command is. `SettledOK`: so they do for a start that is alone, from the moment it has loaded the file, whatever came before. |

Each was first checked by TLC as an invariant of the run of its module. A step
proof has one lemma per action, and the theorem combines them with `PTL`. Every
safety property of the passing runs is stated by one of these theorems.
`CacheFresh`, `Ceiling`, `DeliveredWasProcessed` and `DisconnectsOnlyTheDead` are
proved and not runs' properties: `ModeSafe`, `DeliverySafe` and `HoldsEndDuly`
say what they come to.

**Only model-checked.** Liveness (`LockLive`, `DeadHoldersFreed`, `DeadForgotten`,
`EmptyRoomVacated`, `EveryEventSettles`, `SubscribeSettles`,
`ReconnectionSettles`, `WaitersReleased`, `DeadSocketReplaced`): the prover does
not do liveness under fairness, nor ENABLED. Nothing here declares a RECURSIVE operator.

## 5. What is not modelled, and why

* Cryptography and formatting: tokens, signatures, TLS, JSON.
* `authorized?`, size limits and the throttle of refusals: decisions on one
  request that change no modelled state; a join may be refused at any time.
* Presence and PubSub are Phoenix's. A broadcast reaches the subscribers of its
  node in one step; clustering is not configured in this repository.
* The death of `Konet.Tables` or of the node: every row and every socket goes
  with it, and the system is at its initial state.
* Time is not measured. `ripe`, `stale`, and the timers say only that a moment has
  come, in any order the code does not exclude.
* Of the JavaScript SDK: `request()`, replies to single sends, the binary codec and
  the presence map. Of the Go SDK: the registration of handlers, the reports of
  refused binary frames, and the map of channels, which only grows under `c.mu`.
* Of the CLI: the commands that only read or make one request; which release
  or image a network answers with; and the binary that an upgrade replaces.
  `install.sh` writes to a directory of its own choice (117-126, 202-210), not to
  the executable that ran the upgrade, and refuses managed directories itself
  (95-114). Whether `upgrade.go` runs it at all is a decision of one process on what
  one network answers, and is left open in `Upgrade`.
* A Docker request that fails for a reason other than the state of the container
  ends its command where a kill would, and is not an action of its own.
* `Floor` hands the reports of an acquisition and of a release over to the
  webhooks in the step of the cast; what becomes of them there, a drop by the
  full pool included, is `Webhooks`.
* `GoClient.Shut` is `stop()`, `socketClosed` of every channel and `conn.Close`
  in one step (`konet.go` 207-217); `GoChannel` has the part of it that a channel
  sees, and no property of `GoClient` looks between them.
* The Python SDK, whose client is the JavaScript one with tasks, the rate limiter,
  metrics and key rotation: see the plan.
* The conformance suite: a sequence of calls and expectations, without a state of
  its own.

## 6. The plan

Done, in order of importance: `Floor` with `FloorLock`, `BinaryMode` with
`TopicMode`, `Room` with `Occupancy`, `Webhooks` with `Delivery`, `JsClient`,
`GoClient`, `GoChannel`, `GoMedia` with `GoBinary`, `KonetCli`, the twelve runs
and the theorems above.

Left to model:

1. **`PyClient`**, `sdk/python`: tasks that race at each `await`; a second
   `connect()` starts a second set of loops (`client.py` 136-146).
2. **`Metrics`** (a gauge that a crash resets with sockets open, `metrics.ex` 61),
   **`RateLimiter`** (a burst over a window's end; the cleanup beside callers),
   and **`Keys`** (a rotation that is in force before it is persisted).
3. A *session* that is joined or not, as the abstract specification that the
   channels of `JsClient`, `GoChannel` and `PyClient` implement.

Left to prove: the refinement of item 3, for `GoChannel` first, and what comes
with the modules of items 1 and 2.
