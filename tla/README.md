# A TLA+ model of tailnetd and tnet

`tailnetd` is a daemon with one shared `Backend` behind a tokio mutex. Everything that
changes the node (LocalAPI connections, the SIGHUP loop, the always-on reconnect timer,
boot) takes that mutex, but a bring-up cannot hold it: the engine handshake takes seconds.
So each bring-up is split into locked sections (`begin_up`, `finish_up`) with an unlocked
handshake between them, and the same holds for rebuilds and reloads. Around it stand tasks
with loops of their own (captive portal, link monitor, serve supervisor, suggestions, port
mapping), a server that must not lend the lock to a call that may not return, a process that
must not leave its routes on the host, and `tnet`, whose commands are sequences of requests
that can stop anywhere. These modules are about what can happen in those gaps.

## Inventory

| Part | State | Operations | What is hard | Module |
|---|---|---|---|---|
| `Backend` (`src/src/ipn/mod.rs`) | prefs, current profile, engine handle, lifecycle generation, `has_node_key`, exemption, reconnect cell | `begin_up`, `finish_up`, `begin_set`, `apply_config`, `down`, `logout`, `activate_profile`, `reset_to_empty_profile`, `delete_profile` | early returns that leave the node half way; caches of what is on disk | `Backend` |
| State directory (`ipn/profile.rs`, `prefs.rs`, key file) | per profile `prefs.json`, node key; current-profile pointer; `profiles.json` | written inside the methods above, read by `Backend::load` | several files, no transaction; a crash between two writes | `Backend`, `Drivers` |
| Drivers (`drive_up`, `drive_set`, `drive_reload_config`, `rebuild_running_device`) | the `PendingUp` they hold across the handshake | sequences of locked sections | any command may run in the gap; decisions go stale | `Drivers`, `Node` |
| Always-on (`ipn/alwayson.rs`, `reconnect_loop`) | exemption, armed timer, the loop's copy | gate, arm, cancel, claim, reconnect | a timer racing a switch or a connect | `Drivers`, `Policy` |
| Policy (`ipn/syspolicy.rs`, `exitnodepolicy.rs`, `conffile.rs`) | registered sources, overrides, `--config` source | merge, reconcile, gates, reload | a pin that one of many paths to the device forgets | `Policy` |
| Watch streams (`server.rs`) | receivers, what the client was told | `stream_watch`, `stream_notify` | parking on a change that was already missed | `Watch` |
| LocalAPI server (`server.rs`, `auth.rs`, `localapi.rs`) | connections, two pools of permits, stop permit | accept, read, authorise, dispatch, stream, drain | an arm that keeps the lock over an engine call; stalled clients | `LocalApi` |
| `tailnetd` (`bin/tailnetd.rs`, `hostreap.rs`, `socks5.rs`, `httpproxy.rs`, `debugserver.rs`) | boot stage, host routes and DNS key, listeners | boot, reap, select, signals, drain, teardown, `--cleanup` | a kill or signal at every point; the exit status the unit acts on | `Daemon`, `Launch`, `Proxies` |
| Serve and funnel (`ipn/serve.rs`, lanes in `ipn/mod.rs`, `tnet serve`) | one stored config per profile, armed ports, accept loops | read-modify-write, validate, re-arm, restore | two writers; a rename; a supervisor behind the store | `Serve` |
| Captive portal (`ipn/captive.rs`) | timer, warning | gate, probe, record | a verdict computed without the lock | `Captive` |
| Link monitor, suggestions (`ipn/linkmon.rs`, `ipn/diag.rs`) | baseline, published suggestion | poll, rebind, recompute, publish | a task that outlives its device or profile | `DeviceTasks`, `Linkmon` |
| `debug portmap` (`portmap.rs`) | observations, held mapping, attempt slot; leases on the gateway | probe, attempts, close, log pump | an attempt that outlives its run; a network that moves | `Portmap` |
| `tnet` (`bin/tnet.rs`) | none shared | one script per subcommand | a refusal, lost answer, death or interrupt half way | `Tnet` and its scripts |

What makes each correct: no engine runs that the current profile, key on disk and intent
do not call for; files and caches agree after any failure or crash; a decision taken under
one lock is still true when it is acted on under the next; what an administrator pins holds
on the device; what is stored is what runs; a process leaves nothing behind; what a command
reports is what happened; every task finishes. `PROJECT.json` lists the hazards behind these,
each at its line.

## Modules

The lifecycle:

- **`Backend.tla`** has no variables. Each method of `Backend` is a function from the backend
  record (and the state-directory record) to what the method leaves behind, under the method's
  own name. A method that can stop half way takes a parameter `stop`, the early return it takes,
  so that a failed write leaves exactly the fields assigned before it.
- **`Drivers.tla`** extends it with the tasks: `be` is the backend behind the mutex, `disk` the
  state directory, `pc[t]` where task `t` is between two locked sections, `pending[t]` the
  `PendingUp` (later the built engine) it holds. One action is one locked section, or the
  unlocked handshake (`BuildDevice`), the unlocked shutdown of a superseded engine
  (`ShutdownOrphan`), boot (`AutoStart`) or a crash and restart (`Crash`).
- **`Node.tla`** is the promise: one engine at a time, started only on the current profile and
  the key on disk, neither of which changes until it has stopped. `Promise` in `Drivers.tla`
  is the refinement mapping and `KeepsPromise` the claim.
- **`Watch.tla`** extends `Drivers` with one watching connection. `conn` is where the stream is and
  what its client has been told; `engine` is the installed engine's `DeviceState` cell, which moves
  by itself. A bare watch runs `stream_watch`, a masked one `stream_notify`; the request's bits are
  `conn.mask`. The lifecycle receiver is the last generation seen (`conn.life`), the engine's state
  receiver and bus are `conn.queue`, and `conn.bus` separates a bus whose task was spawned from one
  that has read the engine, because only the second announces a transition.
- **`DriversProofs.tla`**, **`WatchProofs.tla`** hold the proofs about them; each later part has its
  own: **`LocalApiProofs`**, **`DaemonProofs`** (which also holds those about `Captive` and
  `DeviceTasks`, the loops that the process runs), **`PolicyProofs`**, **`ServeProofs`**,
  **`PortmapProofs`**, **`TnetProofs`**.

The server and the process:

- **`Requests.tla`**, **`Responses.tla`** are the vocabulary of the LocalAPI: the request variants
  grouped by what they ask for, which need write access (`auth.rs`), which reply variants the daemon
  answers with and which the client reads as an answer.
- **`LocalApi.tla`** is the server. `server` is the accept loop, `conn[c]` a handler together with
  its client's end, `lock` the backend mutex, `node` the little of the backend that the handlers'
  order can disturb. Each request runs the way its arm does: constant, brief under the lock, held
  from beginning to end, an engine call on a cloned handle with the lock released, an engine call
  that takes the lock again to publish, a driver with its two guards, or a stream. Two requests ask
  the engine with the lock in hand and no deadline, `logout` for the deregistration and `set` for its
  live setters: that is the place `asking`, which ends when the engine answers (`EngineHears`), if it
  does.
- **`Launch.tla`** holds the decisions of the command line and environment (refusals, the environment
  file, the `--tun` list, listen addresses, `--config`), **`Proxies.tla`** how one request to a proxy
  or the debug server is answered, and **`Daemon.tla`** the process under its packaged unit: `stage`
  is where `run()` is, or what the unit does after it; `routes`, `dns` and `missed` are the host's;
  `api`, `dial` and `listening` the connections and listeners; `starts` counts and names the
  processes. What a bring-up does to the backend is in `Drivers`; here it is an engine that is up
  or not. `stop_device` ignores how the graceful shutdown went and skips it while an off-lock call
  holds another handle, so `EngineDown` may leave routes and DNS key in place; the process is then
  in `missed`, and the engine let go may undo what it did when its last handle is dropped.

The tasks around the backend:

- **`Policy.tla`** is the merged system policy over the prefs: a policy file as a function from keys
  to JSON values with its all-or-nothing validation, every pinned pref, the exit-node and always-on
  exemptions, the auth-key gate, and each command, reload, profile switch, reconnect and boot with
  the reconcile point it passes. `tasks` is what `set` and `reload-config` still have to do after
  they gave the lock back.
- **`Serve.tla`**: `store` is each profile's `serve-config.json`, `client[c]` a `tnet serve` or
  `tnet funnel` between its read and its write (a foreground one until it restores), `sup` the
  supervisor task with its accept loops, `engine` the web ports the device serves, with the name and
  the profile they were armed under. Arming may fail, the clear after it may fail too and is then only
  warned about (`sup.warned`), and an accept loop that has no listener ends for good (`LoopEnds`).
- **`Linkmon.tla`** says which addresses count; **`Captive.tla`** is the captive-portal loop (sleep,
  probe without the lock, record) and **`DeviceTasks.tla`** the link monitor and the suggestion
  tasks of one device, which `finish_up` spawns and `stop_device` aborts.
- **`Portmap.tla`** is one `debug portmap` run, apart from the backend: `run` is the task, `st` the
  client's locked state, `att[n]` the background attempts `maybe_start_mapping` spawns, `conn` the
  pump and its operator, `grants` what exists on the gateways, `net` the datagrams. Each step is one
  locked section or one await.

The client:

- **`Scripts.tla`** defines the step language: ask, try, tolerate, stream, refuse, return, fail, effect,
  confirm, loops, each under conditions on *facts*. A refusal is the client's own judgement, wherever in
  the command it comes; a failure is what the daemon or the host reports. **`NodeCommands`**, **`ToolCommands`** and
  **`HostCommands`** write every subcommand of `tnet` as such a script, under the name of its
  function. **`Tnet.tla`** runs one: `inv` is the invocation, `wire` its round trip, `daemon` what the
  daemon has done and whether it lives, `host` the effects outside it. A fact is found out where a
  step asks for it and stays as it is.

The `MC*` modules instantiate them for TLC. A definition marked "mutant" is a plausible fault of the
definition it is named after, against which a property is tested; nothing else uses it.

### Abstractions

- A node key is a number, 0 for an absent file; a fresh mint takes the next number.
- In `Backend`, prefs are intent (`want_running`, `logged_out`, `has_logged_in`) plus settings, split
  as the code treats them: *live* ones an engine setter can change in place and *fixed*
  ones baked into the engine `Config`. A fixed value in `BadFixed` passes `begin_up`'s and
  `begin_set`'s own validation and is refused by `build_config`. In `Policy` prefs are the named
  fields a policy can pin. A config's auth key is assumed to resolve in `Backend`; in `Policy` it
  may not.
- An engine is the `PendingUp` it was built from: generation, profile, key, settings.
- A locked section is atomic. A crash inside one is the section failing at that point (`stop`)
  followed by `Crash`.
- `Faults` says which operations may fail in a run of `Drivers`: prefs writes, key removal, profile
  files, the host checks of `begin_up`, the live setters. The other modules name a bound on failures.
- In `Watch` an engine is its connection state; the netmap part of a frame is carried data. The
  bus never overflows (the engine drops frames at 128 without telling anyone, which
  `stream_notify`'s doc states); the policy and suggestion feeds are left out.
- In `Portmap` an address is the gateway it belongs to, UPnP can only be discovered (as in the code),
  and time is the choice of when a deadline passes or a lease ages. The gateway follows RFC 6886 and
  RFC 6887: a NAT-PMP mapping belongs to the internal port, a PCP one to its nonce. The program
  makes one probe and sets one port per client, so `note_network_down`, a second port and the epoch
  check, which can only fire on a later probe, have no step.
- In `Drivers` the policy is constant; a running daemon cannot see another (a source captures its
  file when it is registered), and `Policy` changes it between starts.
- In `Captive` time is counted in ticks that keep the order of the code's intervals; which endpoint
  is probed, over which region, is the endpoint's answer.
- In `Daemon` the tun pref changes by flag only, and an engine is its routes and its DNS key; the
  text of `netstat` and `scutil` is the set of routes and the owner of the key. What the engine undoes
  when its last handle is dropped late is external: any part of its routes and the one key.
- In `LocalApi` what a live `set` asks for is one question to the engine, though the code may ask
  several in a row; the wait is the same.
- In `Policy` an edit is a function from the prefs it names to their values, and `named @@ prefs` lays
  it over what was there; a config file or an edit never names `has_logged_in` (`PolicyAssumption`).
- In `Serve`, `EditsAssumption` says which forms an edit of the command line can have.
- In `Tnet` an answer is its variant; what is printed is left out. The connections of
  `cert --serve-demo` and of the web page are served one at a time.

## Runs

| Run | Instance | Checks |
|---|---|---|
| `lifecycle` | 2 connections, 2 profiles, always-on with override by reason, every fault but the live setters, SIGHUP, 1 crash | `AttemptGuard` (an attempt that nothing superseded is safe to install), `DeviceOnCurrentProfile`, `DeviceKeyOnDisk`, `DeviceIsWanted`, `LoggedOutKeyGone`, `KeyCacheAgrees`, `PointerAgrees`, `AlwaysOnHolds`, and `KeepsPromise`, the refinement of `Node` |
| `fair` | 1 connection issuing up, down, logout, set and reload-config, with good and refused settings, SIGHUP, reconnect timer, 1 crash, `FairSpec` | `TypeOK`, `TasksFinish`, `ReconnectHappens` |
| `streams` | 1 connection issuing up, set, down, logout, 1 watcher with each of four masks, an engine alternating between two states, `WatchSpec` | `StatusIsCurrent`, `NotifyStateIsCurrent`, `PrefsAreCurrent` (a stream that nothing will wake again has told its client what stands), `StatusIsDelivered` |
| `requests` | 2 connections, owner and stranger, 10 requests that stand for the ways an arm runs, 2 general permits and 1 stream permit, 2 bring-ups | `StreamsLeaveRoom`, `StopIsEarned` (a stop asked for by the API was acknowledged to someone who may ask), `LockIsNeverStuck` (a waiting handler gets the lock if the engine answers what it is asked under it) |
| `commands` | every subcommand with every combination of its flags, 1 round of each loop, 1 death of the daemon | `RefusedTouchesNothing`, `NothingHalfDone`, `SuccessIsReal`, `SecretGatesALock` |
| `process` | 14 command lines and machines, 2 starts, 1 kill, 1 SIGHUP, 1 connection, 1 dial, `FairSpec` | `LeavesNothing`, `HostIsOurs`, `VerbRestarts`, `TermEnds` |
| `system` | 2 profiles, 4 policy files (one invalid), 4 config files (one half good), 5 edits, 3 commands over 2 starts | `PolicyOnDevice` (no path to the device escapes a pin), `PolicyKeyEnrolsOnly` (the policy's key never registers an enrolled node again) |
| `config` | 2 clients, 2 profiles, 2 names, 2 ports, 9 edits, a config an older build left, 2 commands, 1 rename, 1 stop | `ServesWhatIsStored`, `OffIsOff`, `RestoreIsTaken` |
| `portal` | 2 networks, 6 changes, 1 failing read, `FairSpec` | `WarningIsCurrent` (no verdict is recorded on a node that has recovered), `WarningClears` |
| `tasks` | 2 profiles, 3 networks, 1 client, 3 commands, 2 changes, 1 failure, `FairSpec` | `PathIsFollowed`, `RecomputeIsOurs` |
| `mapping` | 1 `debug portmap` run, 2 gateways, 2 attempts, four `--type` values, `Spec` with fairness | `GrantsAreAccounted` (a mapping the client took is held or released in a way the gateway honours), `HeldIsFromLastGateway`, `SlotMatchesAttempt`, `RunFinishes` |
| `rebuild_race` | 2 connections, 1 profile | `RebuildNeverStartsNode`, which is violated: a `down` between a rebuild's preflight and its `begin_up` is undone, since `begin_up` sets `want_running` |

The largest passing runs are `commands` (2.4 million distinct states) and `config` (0.8 million);
`process` (0.4 million) and `requests` (0.2 million) are slower for their liveness properties.

The bounds limit commands, faults and changes: none starts once its bound is reached, while what was
started goes on to its end. That is why most configurations switch deadlock checking off: with its
commands used up a node rests, an invocation of `tnet` ends, a daemon that exited stays off. `portal`
keeps it on: its loop never rests.

Why they are enough:

- `lifecycle`, `fair`: generation 4 is an attempt, a second that supersedes it, and a third operation
  across both; a supersede, the longest chain the guards relate, takes two. The two connections are
  interchangeable and reduced by symmetry.
- `streams`: two engine states tell a told state from a stale one, and a bus queue of two holds an
  initial frame and a transition behind it. The properties speak of a *settled* stream: parked, every
  receiver seen, so only a new event moves it. That is where a missed wake shows. There is one profile
  and neither reload-config nor failing writes, since each of these changes what a watcher should know
  without waking it (see below). A masked watcher gets no frame for a `down`: the engine's bus ends and
  the device-less arm sends nothing, which is why `NotifyStateIsCurrent` speaks of a running engine.
- `requests`: two handlers are one that waits and one it waits for; one stream permit of two
  connections is the smallest pool that a stream could fill and must not. Every other request runs as
  one of the ten does.
- `commands`: an invocation is alone with its daemon, so the instance is complete but for second rounds
  of loops and second deaths.
- `process`: the second start meets what the first left, a kill's remains included; of the machines, the
  three that start differ in platform, listener, tun list and config, the others are each one way to be refused.
- `system`: a policy, an edit that meets it and a reload or switch behind it are three commands; the
  second boot is under another policy file.
- `config`: two edits are the lost update and the re-arm over a running one; with the rename between
  them the same port is armed under two names.
- `portal`: a portal that comes, is found, and goes while a probe is out takes four changes; six leave
  room for the node to be stopped and started.
- `tasks`: `None` to one profile's device, away and to the other's is three commands.
- `mapping`: two attempts are the renewal and what it renews; two gateways the network and the one
  before it; of the `--type` values, `pmp` is left out because the default `""` already prefers NAT-PMP.

### Fairness

- `Drivers` (`FairSpec`): weak fairness of each task's next step, because the tokio runtime polls a
  ready task and the mutex is fair, and `Device::new` returns by its own timeouts with an engine
  or an error (both outcomes stay open); of the reconnect loop, whose sleep ends; and of
  `auto_start`, which `main` awaits. None of commands, faults or crashes.
- `Watch`: of the stream's steps; none for commands, the engine or the client.
- `LocalApi`: weak fairness of the accept loop and of each handler's own steps; strong fairness of
  taking the lock, because tokio's mutex is a FIFO queue. None of engine calls, handshakes, streams or
  clients. A handler that waits for one of these does not hold the lock, except `logout` and a live `set`
  that ask the engine under it: `LockIsNeverStuck` has as its hypothesis that each such question is
  answered, and says that nothing else can keep the lock. The hypothesis is a real one: until the node is
  Running the engine processes no mailbox (`ipn/mod.rs:5238-5243`).
- `Portmap`: of the run, the attempts (their deadlines included) and the pump; none of the gateway, the
  network or the operator.
- `Captive`: the sleep ends, the probe is bounded by its timeout, the lock is fair. `DeviceTasks`: the
  monitor's sleep ends and the engine answers a rebind. None of the host or the node in either.
- `Daemon`: of the process's own steps (the drain's deadline is one of them), of the SIGHUP loop and the
  bring-up it awaits, of the handshake deadline of a dial, and of the unit (`ExecStopPost`,
  `Restart=on-failure`). None of clients, signals or the far end of a dial.
- `Tnet`, `Serve` and `Policy` are checked for safety only: an invocation may wait for its user or its
  daemon for ever, and the supervisor and the policy have no deadline of their own.

## Seen while modelling

Places where the code does something other than a comment says, or where a natural property is false.
Each was found by stating the property and reading TLC's counterexample, unless it is marked *read*;
`rebuild_race` is kept as a run, the rest are recorded here.

Lifecycle:

- *The key cache agrees with the disk* when `build_config` refuses: it creates the key file and then
  fails; `has_node_key` stays false (`ipn/mod.rs:4574` before 4587).
- *A reload with `Enabled:false` stops the node*: while an `up` is in its handshake it stops nothing and
  supersedes nothing (`ipn/mod.rs:6678`, 1854).
- *The reconnect brings up the profile that was disconnected*: a switch between the claim and its
  bring-up makes it the other one (`ipn/mod.rs:620`).
- *A force-reauth supersedes*: one that fails after its wipe does not, and an older attempt comes up on
  the wiped key (`ipn/mod.rs:4451`, before the bump).
- *An `initial_status` watch misses no transition*: an `up` that completes between the lifecycle
  subscription and the first `device_handle` starts a second epoch on the same engine, whose bus has no
  initial frame (`server.rs:1138`).
- *The device runs the stored config; a rebuild keeps the tunnel; a bring-down matches the intent*: each
  holds with one client only. A live `set` while an `up` is in its handshake is persisted and never
  applied (`ipn/mod.rs:4185`); `drive_reload_config`'s bring-down may stop a node an `up` has since
  started (`ipn/mod.rs:1897`); a rebuild's preflight may check settings a `set` then replaces
  (`ipn/mod.rs:1704`).
- *The reconnect timer is armed only while disconnected, and never extended*: false once reload-config
  is among the commands, which restores `want_running` and leaves the timer (`ipn/mod.rs:2870`).
- *A running node keeps its control server unless forced*: two concurrent `up`s pass the control-URL
  guard one after the other (`server.rs:2434-2446`), which `drive_up` reads under another lock.
- *Read*: `reconcile_on_reload` reads the intent and brings the node up under a second lock
  (`bin/tailnetd.rs:1179`); a superseded attempt whose handshake failed still persists
  (`ipn/mod.rs:1638`); clones from `device_handle()` outlive `stop_device`, so `Arc::into_inner` yields
  nothing and that engine runs on without a graceful shutdown (`ipn/mod.rs:6494-6511`, 5216-5231).

Server:

- *What is asked under the lock is a quick round trip* (`server.rs:2195-2198`, `ipn/mod.rs:4201-4205`):
  `Backend::logout` awaits `dev.logout()` under the lock without a timeout (`ipn/mod.rs:5138`), in any
  state of the device. In NeedsLogin the engine processes no mailbox (`ipn/mod.rs:5238-5243`, the reason
  why `status` does not ask it), so a logout then holds the lock, and with it every other request, until
  the node is authorised. With an answer assumed only while the node is Running (weak fairness of
  `node.running /\ EngineHears(c)`), TLC finds the logout that waits for ever; the live setters of `set`
  have the same shape.

Streams: `activate_profile` never ticks `prefs_tx` (`ipn/mod.rs:3505`; the field's doc at 2354 lists
`switch`); reload-config on a stopped node (`apply_config`, `ipn/mod.rs:6602-6612`), and a `begin_up`
that fails after setting `want_running` and before its bump (`ipn/mod.rs:4595`), change the derived
status without waking a status watcher. These are the hypotheses of `PrefsAreTold` and `StatusIsTold`.

Policy and config file:

- *A permitted exit-node override holds until it is given up*: `rebuild_running_device`
  (`ipn/mod.rs:1709-1714`) passes through `begin_up`, which resets it; the doc at
  `ipn/exitnodepolicy.rs:98-101` names other ways it ends.
- *A reload-config that fails changes nothing*: `conffile.rs:736` can fail after the prefs were mutated
  from 653 on; the docs at `conffile.rs:505-511` say all or nothing.

Serve and tasks:

- *A foreground serve can always put the old config back*: the comment at `ipn/mod.rs:6238-6240` says
  that a refusal the stored config already carries must not block "a foreground `tnet serve` restoring
  that config", but `set_serve_config` compares with the config stored *now*, which is the foreground
  one. Serve 443, rename the node (its web entry now stands under the old name, so the port is refused
  for having no web config), serve 443 in the foreground and interrupt it: the refusal is new compared
  with the foreground config, and the restore is refused. `RestoreIsTaken` excepts exactly this, a
  refusal on the very port that was served.
- *A stale web serve is always torn down*: the fail-closed clear may fail as the arming did, which is
  logged and nothing more (`ipn/mod.rs:4930-4937`); the old config is then served until the next round
  or the device's end. `ServesWhatIsStored` excepts the warned round, and holds it to the same profile and
  device. An accept loop without a listener (`ipn/mod.rs:653-667`) is not started again either.
- *A funnel splices to the backend the web lane serves*: `web_proxy_backend` (`ipn/serve.rs:80-101`)
  prefers the legacy `tcp_forward` and takes any name's entry for the port, where its doc (65-78) says
  the web lane's precedence.
- *A failed rebind is retried*: the monitor takes the new snapshot as its baseline first
  (`ipn/mod.rs:122-128`); a path change between the engine's bind and the monitor's first snapshot is
  never rebound either.
- *A published suggestion is of the profile in force*: true of the recompute task, false of a client's
  own question, which publishes after the reset of a switch (`ipn/mod.rs:5833`, 5896-5899), or after the
  allow-list excluded it.
- *Read*: the captive loop takes an unreadable signal for a healthy one, and probes for the
  steady one (IP forwarding off) once, however long it stays.
- A NAT-PMP grant whose address half never arrives is forgotten when the attempt times out
  (`portmap.rs:1917`). A renewal over the other protocol replaces the old mapping without releasing it
  (`portmap.rs:2057`), which takes a run suspended past the ten-minute trust window between a store and
  its hook; the model assumes no run is.

Process:

- *READY means the socket is bound*: `bin/tailnetd.rs:690-694` notifies before the bind at 744, against
  the comment at `packaging/systemd/tailnetd.service:23`.
- *The teardown takes the host state back*: its result is dropped, a timeout included
  (`ipn/mod.rs:6502`), and it is skipped while an off-lock call holds another handle (6508-6516).
  `LeavesNothing` excepts these exits. The DNS key is one per host: an engine let go this way that is
  dropped after its successor came up takes the successor's key with it, which `HostIsOurs` excepts.
- *Handlers are drained*: a SIGTERM that a proxy's arm takes first, or a proxy that cannot bind, ends the
  `select!`, and the server is dropped in the middle of its drain with the socket left (`server.rs:291`).
- *Read*: a SIGTERM during boot ends the process without a teardown; the comment of `run_cleanup` says a
  SIGHUP re-creates the socket, and it does not (`bin/tailnetd.rs:804-811`); a second daemon takes a live
  socket over and unlinks it at its end; the arm that closes the streams on SIGHUP
  (`bin/tailnetd.rs:757-761`) is out of tokio's reach; the HTTP proxy's `into_inner` drops bytes already
  buffered behind the head.

Client:

- *What is refused changed nothing*: `cert` judges the file name it derives (`bin/tnet.rs:8865`) and the
  paths it was given (8896) after the daemon has issued the certificate, the key's path after the public
  half was put in place. `RefusedTouchesNothing` says for `cert` that no key is written.
- *A success had an answer*: `debug portmap`, `status --watch` and `debug watch-ipn` take the end of the
  connection for the end of the stream (`bin/tnet.rs:4533-4537`), so a daemon that dies before its first
  frame is an exit 0 without output; a frame of another kind is a warning (4550). They promise no write.

Client, *read*: `tnet install` copies itself and not the daemon to the path the unit starts; the
kubeconfig is truncated and then written (`bin/tnet.rs:15529`), a certificate and its key one after the
other (`bin/tnet.rs:8943`).

## Proofs

All of it for any sets of profiles, connections, settings, commands, faults, gateways, ports, networks
and policy files, and any bounds. The named assumptions: `BackendAssumption` (the defaults are members of their
sets, policy values are Boolean), `DriversAssumption` (the two loops are not connections; bounds are
naturals), `WatchAssumption` (masks and engine states are ones that exist, no write fails while someone
watches, `None` is no number), `PolicyAssumption` and `EditsAssumption` (see Abstractions),
`TnetAssumption` (what is invoked is a subcommand), and the size and membership assumptions of the other
modules; those of `Captive` and `DeviceTasks`, which are instantiated, stand as hypotheses of their theorems. TLC evaluates each of them in a run.

### The lifecycle

`DriversProofs` first states, method by method, a type lemma, an effect lemma (what the method does to the
generation, the profile, the engine, the key and the intent) and a lemma that the method keeps the
backend in agreement with the state directory. The rest of it uses only those.

- `TypeCorrect`: `Spec => []TypeOK`.
- `AttemptsAreGuarded`, `EngineOnCurrentProfile`, `EngineKeyOnDisk`, `EngineIsWanted`,
  `DaemonKeepsPromise`. `DeviceOnCurrentProfile` is not inductive: `finish_up` installs whatever
  the attempt was begun with, so the invariant must speak of the attempts in flight, which is
  `AttemptGuard`. It in turn needs the engine to belong (`DeviceGuard`) and boot to be quiet
  (`BootGuard`: nothing runs before `auto_start`, whose bring-up does not check the generation
  against other tasks). `IInv` is their conjunction with `TypeOK`. Every action is shown to be in one
  of five classes (`Undisturbed`, `Supersedes`, `Begins`, `Installs`, `Restarts`), and each class keeps
  the guards (`ClassKeepsGuards`) and is a step or a stutter of `Node` (`ClassKeepsPromise`).
- `PointerNeverParts`, `AlwaysOnIsKept`, `CacheNeverInvents`, `LogoutLeavesNoKey`, `CacheIsExact`: the
  backend and its files. Every method is a function of the pair of the two, so what must hold is a
  predicate on pairs: `Agree` (the pointer, the policy or its exemption, no cached key without a file),
  `Exact` (the cache says exactly whether there is a key) and `Gone` (no key beside a recorded logout,
  on disk or in the prefs the next write will save, which is the strengthening). `Keeps` says that a
  change of the pair preserves all three; it is transitive, so a method that stops half way is the
  composition of what it got done.

Hypotheses, each there because TLC refutes the statement without it: `EngineKeyOnDisk` and
`DaemonKeepsPromise` exclude force-reauth and `EngineIsWanted` reload-config (the counterexamples
above). `LogoutLeavesNoKey` and `CacheIsExact` exclude the two commands that rebuild a running engine,
set and reload-config: a rebuild's preflight calls `build_config`, which creates a key file for whatever
profile is current by then, a logged-out one too. `CacheIsExact` also excludes refused settings.

### The streams

`WatchersOnlyWatch` says that `WatchSpec => Spec`, so the invariants above hold beside a watcher.
`NotifyStateIsTold`, `StatusIsTold` and `PrefsAreTold` are about a settled watcher; the invariant must
say of every place in the two loops what the client still has coming. `WatchInv` says that a connection
has seen no generation still to come and holds a bus or queue only with an engine (`Past`); that with
its lifecycle mark current and its epoch derived it listens to the installed engine (`Listens`: the
second bump of `finish_up`); that the newest frame queued is the engine's state, or with none queued
that state was told (`FramesTold`, `StatusTold`); when the owed snapshot is still due (`Owing`); and that
without an engine the status told stands (`DownTold`), and the prefs told do, or a tick or a front-load
is on its way (`PrefsTold`). What a task may do behind the stream's back is one lemma (`TaskMoves`):
either the generation moves and an engine found afterwards carries the old one, or it stays and so does
any engine left. `StatusIsTold` excludes reload-config and refused settings, `PrefsAreTold` the commands
that switch profiles: without these TLC refutes them. `NotifyStateIsTold` needs no such hypothesis.

### The server and the process

- `StreamsStayInTheirPool`, `ConnectionsStayInTheirPool`: the permits and the handlers stay within
  their bounds; a permit is held exactly while a streaming request is in hand (`Fit`), and a step moves
  one connection, so each count moves by at most one where room was checked.
- `LockOnlyInSections` (`LockIsAccountedFor`): the backend lock is held exactly by the one handler in a
  locked section, waiting for the engine in it or not; only `logout` and `set` wait, and the device they
  asked is the installed one until the answer. This is the safety half of `LockIsNeverStuck`, which stays
  with TLC. It needs that a handler that asks was given a device (`node.dev`), which only a step under the
  lock replaces.
- `StopsAreEarned`: only a caller that may write was ever told that the daemon stops; it is `Fit`'s
  clause on the reply that makes it inductive.
- `ExitLeavesNothing`, `EngineOwnsHost`. `HostInv` ties the host's routes and DNS key to the engine of
  the living process, or to one whose shutdown failed or was skipped (`HostFollowsEngine`), says in which stages an engine, or a task that could raise
  one, may exist, and that past the reaper nothing older is left than what it failed to remove.
- `WarningsAreCurrent`, an action property of the captive-portal loop: the step that records a verdict
  reads the gate again, and a signal it cannot read hides an impairment and never invents one
  (`UnreadHides`, which needs that the gate's choice among the impaired signals always exists).
- `RecomputedIsOurs`, an action property of the suggestion task. `DeviceInv` says that the task, while it
  exists, works for the installed device, that this device is the current profile's, and that the answer
  it holds is of that profile's tailnet or none; before `finish_up` there is no device, hence no task.

### Policy, serve, port mapping

- `NoPathEscapes`, `PolicyKeyNeverEnrolsAgain`. A device is built from the config of an attempt begun
  earlier and changed in place by `set`, so `PolicyInv` says that the attempt in flight obeys the policy
  as the device does (`Obedient`), that a standing exit-node override was allowed and names a node
  (`Earned`, which a config reload and an edit that names no node must keep), and that while a bring-up
  with the policy's key is out neither the prefs nor their file records a login (`Enrolling`). Prefs are
  `Whole`: a pin on a missing field would pin nothing. The second theorem assumes `~Whole(None)`: a file
  that is absent is not a set of prefs.
- `RunsWhatIsStored`, `OffTurnsOff`, `RestoreIsNotBlocked`; the last two are action properties.
  `ServesWhatIsStored` needs that a supervisor past its load works from what is stored now
  (`Supervised`), and that what the device serves was armed under the current profile, a failed clear
  included; the restore needs that what a foreground serve published is an edit of what it puts
  back (`Holds`), and the removal that funnel keys carry only names the node has had (`IsConfig`).
- `TypeCorrect`, `SlotIsNeverLeaked`, `HeldIsCurrent`, `NothingIsLeftBehind` of `Portmap`. The argument
  rests on the slot: one attempt runs at a time (`Slot`), so only that attempt and `close` touch what the
  client knows of its gateway between a request and its grant (`Asking`, `Holding`); datagrams and grants
  carry the gateway and protocol they were asked with (`Sent`, `Issued`), and a request is granted at
  most once (`Once`).

### The client

`RefusalsTouchNothing`, `CommandsAreWhole`, `SuccessIsNeverClaimed`, `SecretsFollowTheirLock`, each for
every subcommand with any arguments, any number of rounds of its loops and of deaths of the daemon. They
are facts about the scripts as much as about the interpreter, so `TnetProofs` has three parts.

- An algebra of scripts: what holds of one step, of two scripts in a row, of a guarded script, of a loop
  and of a block that ends the invocation. The notions are that no step of one kind comes after one of
  another, unless an end lies between them that a run which took the first cannot get past (`Apart`);
  that no loop takes a step of a kind (`Steady`); that a round trip is one that cannot be skipped
  (`Includes`) or comes before every step of a kind (`Leads`). A step whose conditions contradict each
  other, which the composition of guards produces, counts as absent (`Void`).
- What every script has: its refusals come before it touches anything (`Careful`), those of `cert` before
  it touches the key (`Keyed`, and it asks for no other write, `Solely`), it writes once unless it is several writes by design (`Single`), the
  secret comes after the lock, and a command cannot reach its end without the writes that its success
  stands for under the facts it met (`Keeps`). Every writing command promises its writes, but for
  `debug portmap`, `web` and a demo of `cert`, which end in success without. `TableFine` says so of all 65 entries of the table.
- The interpreter. `TnetInv` (theorem `KeepsToItsScript`) says that a round trip is the one of the step
  the invocation is at (`OnTheWire`); that behind it no end was met and every round trip that cannot be
  skipped is done (`Passed`), as is a write whose success is on its way back (`Done`); and that whatever
  was done was done by a step already taken or in the body of a loop being gone round, whose conditions
  on the arguments hold (`Traced`). None of the four properties is inductive without these: whether a
  refusal comes too late depends on which steps may have been taken, and a loop goes back over them.

Each inductive invariant was first checked by TLC on its run's instance.

### Only model-checked

- Every liveness property (`TasksFinish`, `ReconnectHappens`, `StatusIsDelivered`, `LockIsNeverStuck`,
  `RunFinishes`, `WarningClears`, `PathIsFollowed`, `VerbRestarts`, `TermEnds`): out of the
  prover's reach.
- `RebuildNeverStartsNode`, which is false.

## Not modelled

- The doctor, IP forwarding checks, route parsing, hardening, durations, feature knobs and debug mode:
  parsers, formatters and one-shot host checks without state of their own. `begin_up`'s host checks are
  the gate fault of `Drivers`.
- Wire encodings, field layouts and rendering, in the LocalAPI, in `portmap.rs` and in `tnet`.
- The reports of `ipn/diag.rs` (netcheck, ping, whois, Taildrop): reads of the engine. That they run off
  the lock is in `LocalApi`.
- The policy and suggestion feeds of `stream_notify`, and the netmap part of a frame.
- The mapping of each pref onto the engine's `Config`, and the contents of unit files, archives and
  signatures that the installer and `update` handle.

## Plan

Every invariant and every action property that a passing run checks is proved. What is left:

1. The policy and suggestion feeds of `stream_notify`, as further receivers of `Watch`.
2. The hazards that `PROJECT.json` lists without a property: they are gaps between two locked sections
   that the code leaves open on purpose or by oversight (see "Seen while modelling"), and streams that end
   early. When one of them is closed in the code, the property it refutes today becomes one to check and
   prove.
3. With a prover for `ENABLED` and fairness, the liveness properties, `LockIsNeverStuck` first: its safety
   half is `LockOnlyInSections`.
