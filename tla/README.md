# TLA+ models of seamless-workflow

This directory holds a specification of the parts of `seamless_workflow/` that keep state between
threads: the reactive engine of a `Context`, the controller that serializes everything that is done
to it, the edits of cells and the conversions they depend on, the references that keep contents
alive, the mounts that tie cells to files, the server that shares them over HTTP, and the browser
client of that server. Each module is a translation of the Python code;
TLC checks it on small instances, and TLAPS proves the type invariant, the dataflow invariant
and the invariants of the ledger of the engine for every instance.

## 1. The system

A `Context` is a graph of cells, transformers and connections. Users assign cells, code and pins
from any thread; the Context computes what follows from that, as transformations on a side loop,
and keeps cells in step with files, browser clients and widgets.

| part | source | state | operations | talks to |
|---|---|---|---|---|
| controller | `controller.py` | queue, `accepting`, `stopped`, `failure` | `enqueue`/`submit`/`notify`/`call`, `_drain`, poison, `begin_close`, `stop` | executes every message of all other parts, one at a time (a *turn*) |
| waits | `ingress.py`, `runtime_api.py` | `_barriers`: futures and predicates | `_install_wait`, `_withdraw_wait`, `_check_barriers`, `_wait`, `_wait_async` | controller; states of the nodes |
| Context core | `context.py` | the graph, `_revisions`, `_effects`, `_closing` | edits of cells, code, pins, connections, config; `prune`, `clear_exception`, `set_graph`, `close` | runs ledger, mounts, facts |
| reactive engine | `reactive.py`, `scheduler.py` | the ledger: current and held runs of a node, generations, hold deadlines | `_derive_transformer`, `_suspend`, `_expire_run`, `_transformation_started/_finished` | side loop, timers |
| side loop | `sidework.py` | tasks, leases | submit, cancel, close | posts results to the controller |
| facts and jobs | `context.py` | `_facts`, `_jobs`: projections, keyed by content | `_demand`, `_accept_fact` | side loop |
| config publication | `context.py` | configuration with a revision | `_publish_config` | edits |
| mount sessions | `attachments/runtime.py`, `policy.py`, `session.py`, `api.py` | one `MountSession` for a mounted cell: what is believed of the file, the delivery pending and the one in flight, errors, detector | attach, observe, sense, request, dispatch, acknowledge, wake up, detach | service; cells |
| file system service | `attachments/fs/service.py` | registrations with a serial queue and the last fingerprint read | broker, poll, deliver (write, compare, replace), cleanup | files; posts to the controller |
| references | `context.py`, `reactive.py` | tables of who claims which checksum: roots, pins, code, modules, results, held runs | acquired and released by every setter, load, deletion and close | the checksums of seamless-core |
| shares | `attachments/share/` | HTTP and WebSocket server with one registry for all Contexts; held and reattaching shares | PUT, GET, broadcast, hold, reattach | the session protocol of the mounts |
| share client | `attachments/share/static/seamless-client.js` | an entry for every key: value, marker, edits that wait, readings and writes under way | snapshot and update, GET, PUT, `set`, reconnection | the server, over a websocket and over HTTP |
| widgets, traitlets | `attachments/widget.py`, `traitlet.py`, `output_widget.py` | a registration with a notebook widget for its disk | as above | the session protocol |
| graph data, handles, serialization, configuration, diagnostics | `graph.py`, `views.py`, `builder_state.py`, `serialization.py`, ... | data classes, and objects that prepare arguments | no protocol | controller |

What is hard here:

* Everything a user does is a message; between the message and its consequence any other message
  may be executed. A run that was started for an input that has since changed comes back late.
* A run that an edit has overtaken is *held* for a while, since the edit may be undone. It can be
  reinstated, evicted by other runs, expire, lose its reason to be held, or be pruned.
* `close()` runs on its caller's thread beside the controller, and a failure inside the engine
  (*poison*) ends service at any moment, while callers wait.
* A file has other writers. What a session believes of the file is always old news, its own
  writes are asynchronous, may fail, and must not overwrite what nobody has looked at; and the cell
  changes at the same time.
* Waits, `mount()` and `close()` depend on messages and timers that others must send.

What makes each part correct, in a sentence: *engine* - a complete node shows the result of its
present inputs, every demanded run is alive and none is leaked; *controller* - every call is
answered once and truthfully, also at the end; *mounts* - cell and file agree when nothing is
under way, no unseen edit is lost, and everybody who waits is answered; *facts, edits* - an answer is
used only for the content that it was computed from, and an edit computed from an old root is not
committed over a newer one; *references* - what is listed is held exactly once; *shares* - a name
answers with the Context that owns it; *share client* - the page ends with the last value of the server.

## 2. The modules

| module | what it is |
|---|---|
| `Runs` | the reactive engine: derivation, ledger, executions, hold timers, waits, close |
| `MCRuns` | two transformers in a chain, for TLC |
| `Runs_proofs` | theorems about `Runs`: types and dataflow |
| `RunsLedger_proofs` | theorems about `Runs`: the ledger, the executions behind it, the holds |
| `RequestService` | what the callers of a Context may rely on (abstract) |
| `Controller` | queue, callers, waits, poison, close; implements `RequestService` |
| `MCController` | for TLC |
| `Controller_proofs` | theorems about `Controller`: waits, barriers, the refinement |
| `Mount` | a cell mounted to a file: session, service, file, the user, other writers, close |
| `MCMount` | the mounts, values and edits for TLC |
| `Mount_proofs` | theorems about `Mount`: types, what was not seen is noticed and not lost, file and cell agree at rest |
| `Shares` | one namespace of the share server: routes, holds, takeovers, PUTs, and the sessions of the Contexts that own it |
| `MCShares` | for TLC |
| `Shares_proofs` | theorems about `Shares`: types, one owner, markers, held routes, accepted PUTs |
| `AtomicCell` | what threads that change one cell may rely on (abstract) |
| `Edits` | those threads, the cell, its facts and jobs; implements `AtomicCell` |
| `MCEdits` | what each of three threads may ask for |
| `Edits_proofs` | theorems about `Edits`: commits, jobs, the refinement |
| `Refholds` | the graph with every reference that the Context acquires and releases |
| `MCRefholds` | a sub-context, where its copy goes, and one path more |
| `Refholds_proofs` | theorems about `Refholds`: its invariant, types, the balance, the users' values |
| `ShareClient` | a browser page and the share server |
| `MCShareClient` | for TLC |
| `ShareClient_proofs` | theorems about `ShareClient`: announcements, replies and entries; agreement |

### Runs

State: for every transformer node its own inputs (`config`: code and literal pins as one value),
`state`, `checksum`, the `current` run (a set with at most one record), the `held` runs
(`superseded_runs`), and for the Context `gen` (`generation`), the `effects` of the turn, the
`barriers`, and outside of it the `tasks` on the side loop, the armed `timers`, and the `news` that
the controller has queued for itself. `turn = "busy"` lasts from a message to `_after_turn`;
`pending` are the nodes that `_derive_all` has still to visit in this turn.

| action | code |
|---|---|
| `Edit`, `ClearException`, `Prune`, `SetGraph`, `InstallWait` | the messages of the callers |
| `DeriveBlocked`, `DeriveKept`, `DeriveReinstated`, `DeriveLaunched` | `_derive_transformer`: an input is missing; the current run is the demanded one; a held one is; none is |
| `Supersede`, `SuspendEffects` | `ContextRuntime.supersede`, `_suspend` with eviction |
| `AfterTurn`, `AfterTurnClosing` | `_after_turn`: barriers, then effects |
| `Started`, `Complete`, `Fail`, `Vanish` | the stages of `execute` on the side loop |
| `TakeNews` | the result of a reinstated run, which `_derive_transformer` sends again |
| `Expire` | the timer of a hold and `_expire_run` |
| `CloseCall`, `BeginClose`, `FinishClose` | `close()`, `_begin_close`, `_finish_close` |

A demand key is abstract: the node's own inputs with the checksums of its sources. `Result(n, key)`
is any function, as transformations are pure. What a turn does is one action for the handler, one
for each node derived, one for the effects, since a task, a timer or the closing thread may act in
between. Connections are fixed; cells that connect transformers are not shown between them.

### Controller and RequestService

State: the `queue`, the flags of the controller, `closing`, the installed `barriers`, where each
caller is (`pc`), the `reply` to its last message, the `future` of its barrier, where the thread in
`close()` is. An edit is abstracted to whether it was `applied`. The actions follow `enqueue`
(`CallRequest`, `Withdraw`, `Event`), the three messages of a wait (`install`, the future,
`withdraw`) with timeout (`WaitOver`) and cancellation (`Abandon`), `_drain` (`Take`, `Execute...`,
`ExecuteRefused` behind a poison), `poison` (`Poison`) and the steps of `close()`.

`RequestService` is the promise to the callers: an edit is applied at most once, between call and
answer; *ok* means applied, *refused* means not applied, *error* leaves it open; nothing is applied
once the service is down. `Controller` implements it under the mapping of `Service`, in which an
answer counts as told when the reply is there or the call has ended.

### Mount

State: `disk` (the file: value, whether its bytes are not canonical, fingerprint), the queue `work`
of the registration with its `baseline` and `active` flag, the `inbox` (the messages of the service
in the controller's queue), the `session`, the armed `timer`, the `root` value of the cell, the
`effects` of the turn, where `close()` is. `unseen` is a history variable: the file is somebody
else's and no observation that the session has processed shows it.

| action | code |
|---|---|
| `Attach`, with `InitialWithValue`, `InitialWithout` | `_mount_attach`, `decide_initial` |
| `Observed`, with `Classify`, `Sense`, `Reassert` | `_mount_observed`, `classify_observation`, `_mount_sense`, `detector` |
| `Delivered`, with `Acknowledged`, `Retry` | `_mount_delivered` |
| `AfterTurn`, with `Actuate`, `Request`, `Dispatch`, `Deadline` | `_mount_after_turn`, `_mount_request`, `_mount_dispatch`, `_mount_schedule_wakeup` |
| `Tick`, `TimePasses` | `_mount_tick`; `DELIVERY_INTERVAL` and `retry_at` |
| `Edit`, `ClearError`, `ClearException`, `Unmount` | what the user does |
| `Broker`, `PollStarts`, `Read` | `_broker`, `_poll_locked`, `_read` |
| `DeliverStarts`, `Replace`, `Stamp` | `deliver`, `_atomic_write` |
| `CleanupStarts`, `Unlink` | `unregister` |
| `Foreign` | another program |
| `FlagClose`, `RefuseMessages`, `BeginClose`, `FlushOver`, `FlushTimeout`, `CloseEnds` | `close()`, `_mount_close_prepare`, `_mount_close_wait`, `_mount_close_finish` |

Abstractions. A content is a value or one of the marks `Absent` and `Invalid`. A fingerprint is a
number that nobody remembers; numbers that are forgotten are used again, so that the state space is
finite without a bound on the writes. The counters `ws` and `seq` are left out: a registration's
operations are serial and its messages are executed in order, so no observation is older than what was
processed and no acknowledgement belongs to another delivery. `young` stands for `racy_window`: a
file written less than two seconds ago is read by every poll. The model ASSUMES that of the polls,
one in 0.2 s, at least one reads the file in that window. `Instants` names the instants inside an
operation of the service, or inside a turn, at which other threads may act: a parameter, so that a run
can open a window of the code or keep it shut. It does not bind `close()`, which sets `_closing` and refuses
messages at any moment, inside a turn too.

### Shares

State: `server` (the `_Namespace`, all registrations ever made, the `records` by route, the marker
floors), the coroutines submitted to its event `loop`, where the handler of every PUT is (`puts`), the
`sessions` of the Contexts, the `inbox` of each controller, the `cell` of each route, and where each
Context is in a call under `shares._lock` or in `close()` (`op`). Time is the number of deadlines
that have `passed`; `holds` counts those given out. `shown` is a history variable.

| action | code |
|---|---|
| `Share`, `Attach`, `AttachFails`, `Release`, `Return` | `ShareHandle.__call__`: `reserve`, the turn of `_mount_attach`, its failure, `release_namespace`, `initial.result` |
| `Unshare` | `ShareHandle.unshare` |
| `LoadReserve`, `LoadCommit`, `LoadFails`, `Unload` | `_load_graph`: staged reservations, `commit_reservations` in `set_graph`, the cleanup |
| `Close`, `Refuse`, `FlushOver`, `FlushTimeout`, `HoldNamespace` | `close()`: `begin_close_namespace`, `begin_close`, the flush, `hold_namespace` |
| `Edit`, `Dispatch`, `Observed`, `Delivered`, `BeginClose` | the turns of a controller; the session protocol of `Mount`, in short |
| `Activate`, `CompleteReattach`, `Deliver`, `Unregister`, `HoldRegistration`, `BeginCloseNamespace`, `Hold`, `CloseNamespace` | the coroutines of the loop |
| `Tick`, `ExpireHolds` | the clock; one round of `_expire_holds` |
| `Arrive`, `Resume`, `PutTimeout`, `Accept`, `Send` | `_put`, cut at its awaits |

The registry is written as functions of the server (`Reserve`, `Adopted`, `Commit`, `Withdraw`,
`Completed`, ...), since `reserve` runs on a caller's thread and other coroutines call the same
helpers. A fingerprint is the `ws` of its registration, as both change together. Left out: leases,
bodies that are refused before they are installed, GET and the broadcasts, which change nothing here,
top-level routes, read-only shares.

### Edits and AtomicCell

State: the `cell` (its root producer, its celltype, what is connected to it or to a member of it),
its revision `rev`, the `facts` with whether their evaluation succeeded, the table of `jobs`, the `work`
on the side loop, the `replies` on their way, and for every caller its `request`, `pc`, the snapshot
(`base`), its attempts and its `answer`. A value is its encoding (a celltype) and the marks that writes and
connections left in it; a fact is keyed by the value, as in the code by the checksum.

| action | code |
|---|---|
| `UpdateBase`, `WaitEnds`, `CommitUpdate`, `GiveUp` | `_edit`: `_update_base`, the wait for a value, `_commit_update`, the attempts |
| `ConfigSnapshot`, `PublishConfig` | `_set_node_config`, `_publish_config` |
| `NodeSnapshot`, `CellOperation` | `_node_snapshot` and the write of a whole value, by assignment or `set()` |
| `ReplaceBlank`, `ReplaceLiteral`, `AddEdge`, `DeleteSource`, `ClearException` | turns that change the cell under the others |
| `Derive`, in every one of them | `_derive_cell` with `_demand`: facts and jobs that are no longer used go, new ones are launched |
| `Evaluate`, `Vanish`, `AcceptFact` | a task of the side loop; its cancellation; `_accept_fact` |

`AtomicCell` is the promise: a request takes effect at one point between call and answer, on the content
at that point; one at that point; one that is refused has no effect. `Edits` implements it
with the content of the cell (`Linearizable`): the commit of an edit that was computed outside of
the controller must find what its snapshot found. One kind of step is exempt: a write of a part that discards the root
of the cell, because the conversion of the root failed (`KeepsRoot`, section 5). Every other step is one of `AtomicCell`; where
no conversion fails all are (`Atomicity`). `Failing` names the evaluations that may fail.

### Refholds

State: `nodes` with the checksums of their root, pin, code, module and result; `edges`; the present `run`
and the `held` ones of every transformer; the tables `codes`, `modules`, `inputs`, `results` of what is
claimed; `refs`, the references acquired minus those released; `lapsed`, the users' values that were without
a reference in the middle of a turn. An operation is a chain of operators on a working state, in the order of
the code: `Retain` and `Release` count in its `refs`, and a release that leaves a checksum without a reference
notes it in `low`, so that the middle of a turn can be looked at without being a state; `Commit` makes
the end of the chain the next state. Every setter is an action (`CreateCell`, `AssignSource`, `SetRoot`, `ReplaceNested`,
`SetCode`, `ConnectCode`, `SetPin`, `ConnectPin`, `PublishConfig`, `CreateTransformer`, `ReplaceTransformer`, with the
failures that undo them, `Delete`, `CopySubcontext`, `SetGraph`, `ClearException`, `Prune`, `Close`),
followed by the derivation of the graph (`Derive`): what the nodes show, sources first (`Currents`), the present
run and the held ones of each transformer (`RunOf`, `HeldOf`), the inputs that edges give, the results
of held runs. The `out` of a run is None until `Finish`, its result or Failed afterwards; `Expire` ends
a hold. Tasks and timers are not shown: when a run finishes or expires is the matter of `Runs`.
`Listed` is `_refheld_checksums`.

### ShareClient

State: the `record` of every key on the server, the websocket `conn` with what is on its way, the `page`
(an entry for every key, with the reading `get` and the write `put` that are under way), the PUT requests of
entries that are gone (`stray`). `life` (restarts of the server), `known` (those before the last snapshot) and
`stale` are history variables. `stale` names the reasons why the page may show another value than the server
has: a request of the key "failed", the client "kept" its value over what it takes for a restart, or an answer
"share has no value", which carries no marker, came "late". The next reading or writing that counts clears it.

| action | code |
|---|---|
| `Connect`, `Drop`, `Restart` | `connect` and its `close` event |
| `SnapshotSent` | `_websocket`: the client is registered before its snapshot is taken |
| `Change`, `ServePut`, `ServeStray`, `Share`, `Unshare` | `_deliver`, `_put`, `_activate`, `_unregister`, with `_broadcast_update` or `_broadcast_shares` |
| `ServeGet` | `_serve` |
| `Receive`, with `InstallSnapshot`, `Updated` | `receiveMessage`, `installSnapshot`, `inspectRestartSnapshot`, `updateMetadata` |
| `Set`, `GetReturns`, `GetFails`, `PutReturns`, `PutFails`, `RefreshOver` | `setValue`, `fetchValue`, `drainWrites` |

The page is one thread: an event is an action. What is broadcast arrives in order, as the server suspends a
`send_json` only under back-pressure, which is not modelled. Everything that the page does not do itself
(other pages, the Context) is `Change`.

## 3. The runs

`tlc -workers 2 -config <cfg> <module>`; times are of two workers.

| run | checks | states, time | bounds |
|---|---|---|---|
| `runs_holds` | `NoLostRun`, `NoLeakedRun`, `HeldBounded`, `HoldKept` | 1.6 million, 30 s | one node, two graphs to begin with and to load (inputs set, inputs unset), three values, cap 2, four calls of edit, prune, retry and load; timers, failures |
| `runs_live` | `TypeOK`, `NoStaleResult`, `NoDuplicateDemand`, `WaitAnswered`, `HoldEnds`, `CloseReturns` | 104 thousand, 40 s | two nodes in a chain, two graphs to begin with, two values, cap 1, two calls of edit and wait, close at any point; timers, failures |
| `controller` | `TypeOK`, `NoStrandedWaiter`, `NoLeakedBarrier`, `AnswersTell`, `CallReturns`, `CloseReturns` | 155 thousand, 23 s | two callers, one message of the service |
| `mount_sync` | `TypeOK`, `InSyncAtRest`, `NoUnseenLoss` | 5.9 million, 75 s | every mode and authority, 56 initial situations, two edits of the cell, two of the file, no faults |
| `mount_live` | `Converges`, `MountReturns`, `CloseReturns` | 62 thousand, 85 s | modes w and rw, persistent or not, one edit, one fault of a write or of its fingerprint |
| `shares_takeover` | `TypeOK`, `MarkerNamesValue`, `OneOwner`, `HoldKeeps` | 1.0 million, 25 s | two Contexts, one route, three registrations, one PUT; all calls, no edits |
| `shares_live` | `AgreeAtRest`, `PutSafe`, `PutAnswered`, `Released` | 135 thousand, 45 s | two Contexts, one route, two registrations, one PUT, one edit; calls of share and close |
| `edits` | `TypeOK`, `CommitFits`, `NoLostJob`, `Linearizable`, `EditAnswered` | 259 thousand, 110 s | three threads with one request each, two celltypes, two attempts, every request that the code distinguishes; evaluations succeed or fail |
| `refholds` | `TypeOK`, `Balanced`, `KeptThroughout` | 146 thousand, 95 s | two checksums (symmetric), a cell and a transformer with their copies and a help cell, cap 1, three calls |
| `client` | `AgreeAtRest`, `Converges` | 2.25 million, 190 s | one key, two values, two edits on the page, one change by others, two faults of any kind |
| `runs_close_cancels` | `CloseCancels` is violated | 1 s | one node, two calls |
| `mount_revert` | `InSyncAtRest` is violated | 1 s | two edits, the second back to the first value; no faults, no other writer |

Why the bounds are enough:

* `runs_holds`: with a cap of two, a third overtaken run evicts one; four edits over three values
  make a run that is overtaken, reinstated and overtaken again, from the ends and the middle of the deque.
* `runs_live`: the second node's demand changes with the first's result, and an edit upstream may or may not
  change the demand downstream; `close()` comes at any point.
* `controller`: one caller is poisoned by its own edit while the other waits; a third caller has no
  role of its own. One message of the service is enough to be in the queue in front of or behind each other.
* `mount_sync`: two edits of either side make every order of an edit, an observation, a delivery in
  flight and one pending. With a threshold of two the detector trips and is cleared. Polls are
  queued only while fewer than `MaxInbox` messages wait, and only when they would find something: other
  polls change nothing.
* `mount_live`: one fault makes a retry, one edit makes a delivery pending behind one in flight, and
  close comes at any point of that.

* `shares_takeover`: three registrations make a route that is held, taken over, given up or replaced by
  a load, and taken again. Larger instances were tried once, without a run of their own: an edit
  besides (8.1 million states), two routes without a PUT and four registrations (4.4 million), and two PUTs with
  an edit (5.1 million, with the safety properties of `shares_live`) hold as well.
  The PUT brings the value that the cell of the second Context has, so that a PUT of the same value occurs.
* `shares_live`: a PUT that waits is woken by the successor or by the end of the hold; one edit
  meets the PUT in flight.
* `edits`: two attempts are enough for one that is spent on a wait or a conflict, and one after it; the
  code has eight. One thread edits a part, one may ask for anything, and the third changes the cell under both.
  A cell that was loaded has a conversion under way from the beginning.
* `refholds`: three calls build a transformer with a source, change it and replace, delete, copy or load; a graph
  that was loaded gives the first call a state that others would take several calls to build.
* `client`: one edit in flight and one behind it, a change that makes the second or the first a conflict, and a
  fault in any place of that, twice. Checked once, together with the inductive invariant `SyncInv`: `Blank = TRUE` (a share
  may be seen before its cell has a value) with one edit and two faults (1.23 million states) and with two edits and one fault (207
  thousand); without `Converges`: `Blank = TRUE`, two edits, two faults (9.1 million), and two keys with one fault.

In `edits`, a cell without a value that is replaced by another without a value is exempt from `CommitFits`.
`Linearizable` exempts the step that discards a root whose conversion failed: it is there in the run, and with `Atomicity` or `PartKeepsRoot`
in its place TLC finds it.
In `refholds` the constants `CopyOver` and `StaleConfig` are FALSE, so that sub-contexts are copied onto free paths and
no configuration is older than a connection of its code. The code guards against neither; with one of them TRUE `Balanced` fails.
`CloseReturns` of `mount_live` exempts a `close()` whose turn in progress has effects: these are lost, and it is in the run that they are.
Section 5 tells what happens in each case.

`CHECK_DEADLOCK FALSE` everywhere: the bounded calls run out, and a closed Context does nothing more.

In `mount_sync` the contents that edits bring are new ones, and no fault comes with a foreign edit:
otherwise `InSyncAtRest` fails, for the reasons told in section 5. The
windows between the comparison of a fingerprint and the replacement of the file are shut in it as well.
In `shares_live` the PUT brings a value of its own, and no attachment fails: otherwise `AgreeAtRest` and
`PutAnswered` fail, as section 5 tells. The PUT arrives at any moment. `PutAnswered` exempts the one that arrives while its share is being
reattached (`Stranded`): the code lets it wait for its timeout. All other properties of the run hold with it too.

### Fairness

* `Runs`: weak fairness of the controller within a turn, of executions, of queued results, of timers,
  and of a `close()` that began. A thread of each of them is always running and no step of theirs can be
  starved by another thread; callers need not call. Computations are assumed to end.
* `Controller`: weak fairness of `_drain`, of `close()` behind its flag, and of a caller whose future
  is done. Nothing makes a timeout or a cancellation happen.
* `Mount`: strong fairness of the controller, the worker, the broker, the timers, and of `close()`
  behind its flag. Strong, because the conjuncts `Quiet` and `Calm` belong to the model: they keep
  the threads from interleaving inside a step, and switch on and off without a thread of the code
  ever waiting for them. `FlushTimeout` is not fair: `CloseReturns` says that close does not need it.

* `Shares`: weak fairness of the threads inside a call, of the controllers, of each session's dispatch,
  of the event loop, of the clock, of the expiry task, and of each PUT's handler. No timeout
  (`PutTimeout`, `FlushTimeout`) is fair: what is answered is answered without them. Users need not call.
* `Edits`: weak fairness of every caller's thread behind its call and of the side loop with the controller.
  Evaluations are assumed to end, in success or failure.
* `ShareClient`: weak fairness of the reconnection timer, of the server's handlers, of the websocket, of replies,
  and of `Share`: a share that was withdrawn comes back. Nothing makes a fault happen, and there are finitely many.

## 4. What is proved

`Runs_proofs` proves, for every set of nodes, every connections (cyclic ones too, which then never
derive), every result function, every cap, any number of calls and any set of graphs that may be loaded, from
`ConstantsAssumption` and `GraphsAssumption` alone:

* `Inductive`: `Spec => []IInv`, where `IInv` strengthens type correctness;
* `TypeCorrect`: `Spec => []TypeOK`;
* `Dataflow`: `Spec => []NoStaleResult`.

`NoStaleResult` is not inductive: it says nothing of a turn in its middle, nor of results that are
still to come. `IInv` adds

* `TurnOK`: a node is derived after its sources; between turns nothing is left to be derived;
* `KeysOK`: runs, executions and messages name keys of their node and generations that were given out;
* `KeysAgree`: one generation stands for one key, in the ledger and on the side loop;
* `ResultsTrue`: a result in the ledger or in a message is `Result` of the key of its generation;
* `DerivedFresh`: all nodes that need not be derived any more in this turn are fresh.

The proof of a step goes through one lemma, `Descent`: whatever the next state holds under a
generation descends from what this state holds under it, with the same key, or is the one fresh run of a
launch with generation `gen + 1`. `KeysOK`, `KeysAgree` and `ResultsTrue` follow for all actions at
once. `DerivedFresh` is then a matter of the node that the step derives: it becomes complete only by
`Publish` with a run whose key is the demand.

`RunsLedger_proofs` proves from the same assumptions:

* `LedgerInductive`: `Spec => []LInv`, relative to `IInv`;
* `HoldsBounded`, `DemandsDiffer`, `NoExecutionLeaks`, `NoRunLost`: `Spec => []P` for `HeldBounded`,
  `NoDuplicateDemand`, `NoLeakedRun` and `NoLostRun`;
* `HoldsInductive`: `Spec => []HInv`, relative to both; `HoldsKept`: `Spec => HoldKept`; `EveryHoldTimed`: between two turns
  of an open Context each held run has its timer armed.

`NoLeakedRun` and `NoLostRun` speak of the time between two turns, when what a turn decided has been
done. `LInv` says what holds in its middle, when the ledger and the side loop differ by the effects noted so far:

* `LedgerOK`: one current run at most, not among the held ones, `Cap` held runs, all keys different;
* `ComputingOK`: a node that this turn has derived says "computing" for a run without an outcome;
* `Books`, until the Context closes and drops its effects:
  `NodesAgree` (a generation stands for one node), `EffectsOK` (what is to be launched is in the ledger, at
  a node that has been derived; what is to be cancelled is not), `NothingLeaked` (an execution is cancelled, or
  noted for it, or in the ledger) and `NothingLost` (a run without an outcome has an execution or a message, or
  one is noted).

`EffectsOK` is what makes "if record.et is not None" sound: no turn drops a run that it has launched
itself, as each node is derived once, so each run that leaves the ledger has an execution to cancel.
A generation names one run of the ledger (`OneRun`), so cancelling by generation hits no other. All steps in a turn
are instances of one shape (`BookStep`: runs of the generations `G` leave and are noted, fresh ones are
noted; `DeriveStep` for one node), and `Bookkeeping` shows once that the shape preserves `Books`. That
eviction brings the held runs back to the cap needs one that is held longest: `Oldest`, by well-foundedness.

`HInv` is about the windows of the holds: holds are numbered as they begin, no number stands for two of them, no timer has a number
that was not given out (`HoldsNumbered`), and each hold has a timer that is armed or noted to be armed (`HoldsTimed`). So a
timer that is armed never fits a hold that begins later, although it may name the same generation. `HoldsStep` is
the one shape of all steps: holds go on or end, or one begins with the next number and a timer noted. `EveryHoldTimed` is
the safety half of `HoldEnds`; that timers fire is fairness.

`Controller_proofs` proves, for every set of callers that contains neither the closer nor "nobody"
(`NamesAssumption`), and any number of messages of the side loop and the mount service
(`CallersAssumption`):

* `ControllerInductive`: `Spec => []CInv`; `ControllerTypes`: `Spec => []TypeOK`;
* `WaitersTold`, `NoBarrierLeaks`: `Spec => []P` for `NoStrandedWaiter` and `NoLeakedBarrier`;
* `ImplementsService`: `Spec => AnswersTell`, the refinement of `RequestService`.

That no barrier is left when the Context goes down depends on the order in which `close()` refuses and
sends, so on what is still queued. `CInv` therefore speaks of `Slots`, the message in its turn (slot 0) and those behind it:

* `MessagesOK`: each sender has one message on its way at most; `StagesOK`: where the sender of each
  message is, and that an edit on its way was not applied; `CallersOK`: what the others were told;
* `FlagsOK`: while messages are accepted there was no failure, no stop and no `begin_close`;
* `OrderOK`: once `begin_close` is sent every request on its way is in front of it. So when it was executed
  no request is left (`NoRequests`), none can install a barrier behind it, and `stop()` answers nobody's edit;
* `BarriersOK`: no barrier once the Context is down; who lost its barrier was told or has left; who has one
  withdraws it: its caller is still in the wait, or its withdrawal is on its way.

Every action moves the slots in one of a few ways (`Moves`), so order and stages are shown once for all of them
(`MessagesStep`, `StagesAside`, `OrderStep`), and then one lemma covers the steps of a caller
(`CallerStep`), one those of the closer (`QuietStep`) and one the execution of a message (`ExecuteStep`). In the
refinement an executed edit is `Apply`, or `Answer` when nothing was applied; a call is `Ask` or `Refuse`; a
failure and `_begin_close` are `GoDown` unless the service is down already; all else is a stutter.

`Edits_proofs` proves, for every set of callers, every requests and celltypes and any number of retries, from
`RetriesAssumption`, `TypesAssumption`, `RequestsAssumption` (requests are of the kinds the model knows)
and `NamesAssumption` (marks differ, `None` is no value):

* `EditsInductive`: `Spec => []EInv`; `EditsTypes`: `Spec => []TypeOK`;
* `CommitsFit`, `JobsKept`: `Spec => []P` for `CommitFits` and `NoLostJob`;
* `EditsLinearizable`: `Spec => Linearizable`, whatever fails: every step is one of `AtomicCell`, or of nothing it sees, but
  one that discards a root;
* `RootsKept` and `EditsAtomic`: if no conversion fails (`"convert" \notin Failing`), `Spec => PartKeepsRoot`, no step is of that kind, and
  `Spec => Atomicity`, the refinement of `AtomicCell` without exemption.

`EInv` adds where each caller is (`StageOK`), what its snapshot knows (`BaseOK`: at the same revision the
celltype is the same, or the cell was replaced by an empty one and has had no root since), that what a write
copied of the source stands beside a writer's mark (`RootOK`), and that every job is served (`JobsOK`).

* For `NoLostJob`: the derivation reads the facts it notes as used and no other (`SameView`), so dropping the unused
  ones at the end of a turn changes nothing, and `Derive` launches what is then missing (`DeriveJobs`).
  Which number a task has does not matter: a cancellation only meets keys that are no longer used.
* For `CommitFits`: comparing checksum and revision is needed together. A replacement by an empty cell counts no
  revision; but a value that shows after it is the source's alone, which is always encoded for the
  present celltype, and no snapshot of a value with the same marks was encoded otherwise (`NowOK`).
* For `Linearizable`: a complete cell shows exactly its marks (`ViewOf`), so the snapshot that still
  compares equal is the content the request takes effect on. A commit is `Apply`; if the cell showed no
  value, that needs the cell to have no root, which is `KeepsRoot` of that step; every step that does not commit leaves the
  content alone. For `RootsKept`: a cell with a root that shows nothing waits for a conversion or has one that failed
  (`FactsOK`: with sound conversions none has), and a write that waits has no snapshot (`BaseOK`).

`ShareClient_proofs` proves, for any shares and values, whether or not a share may be seen without a value,
and any number of edits, changes and faults, from `NamesAssumption` and `EntryAssumption`:

* `SyncInductive`: `Spec => []SyncInv`; `AgreesAtRest`: `Spec => []AgreeAtRest`.

`AgreeAtRest` says nothing until the last reply has come; `SyncInv` says what each thing on its way will lead to:

* `Telling`: what is announced is never ahead of the server, the last message about a share says what the server has,
  and the last snapshot lists what is shared; `Connection` and `Told`: so who has heard all of it lists the same
  shares with markers as high as the server's;
* `Bounded`: as long as the server is not restarted its markers are not exceeded by those of the page, nor by those of the
  replies that will count;
* `GoodReplies`: a reply with the server's marker has the server's value, once the page has compared itself with this server
  (`Settled`) and no withdrawal of the share is on its way;
* `Covered`: an entry with the server's marker shows the server's value, or something will still give it one: a reading
  that will count, a write or a conflict under way, an edit that waits.

Each action is one event of one entry, a step of a queue of messages, or both. So there are lemmas on what a queue tells
after a message is appended, taken or replaced by a snapshot (`AppendTells`, `TailTells`, `SnapshotTells`), one for every
operator that makes a new entry (it keeps `Fine`, the conjuncts of `EntryInv` as parameters: `WrittenFine`, `RefusedFine`,
`ReplacedFine` ...), and lemmas that combine the two for a kind of step (`PageStep`, `ServerStep`, `UpdateStep`,
`SnapshotReceived`). A marker above the server's is possible only across a restart; that the page notices, or
else keeps its value with the reason noted, is what `Compared` is about.

`Shares_proofs` proves, for any Contexts, routes and requests and any number of registrations and edits, whatever users call
and whenever PUTs arrive, from `SharesAssumption` and `ValuesAssumption` (what cells and users give are `Values`):

* `SharesInductive`: `Spec => []SharesInv`; `SharesTyped`, `OneOwnerAlways`, `MarkersName`: `Spec => []P` for `TypeOK`,
  `OneOwner` and `MarkerNamesValue`; `HoldKeepsAlways`: `Spec => HoldKeeps`;
* `WritesInductive`: `Spec => []WritesInv`; `PutSafeAlways`: `Spec => PutSafe`.

`OneOwner` depends on what is still in the loop's queue: a late coroutine could activate a registration whose Context
has lost the namespace. `SharesInv` therefore says, besides types:

* `ShownOK`: the registry fits together (`RegistryOK`: a route is given to the one public registration of it; what
  is staged was not used, and there is one of a route at most), and no marker of a route exceeds that of its record, or the floor
  that the last one left (`Top`); what has been served under that marker is what is there now (`MarkersOK`);
* `OwnerOK`: a registration that is open belongs to the owner of the namespace, unless its Context has closed, and
  then it is neither active nor being attached again; a namespace that is not active was held by a closed Context;
* `TasksOK`: which coroutines are in the queue at which stage of their Context: one at most that a caller waits for,
  one activation of a registration, and it comes behind the removals that a load submits before it;
* `SessionsOK`: which sessions are attached at which stage, and what is reserved and not attached;
* `NewOK`: until it is activated nothing has happened to a registration: no value, no message, no PUT, and every delivery
  is behind its activation;
* `RefsOK`: what coroutines, messages and PUTs speak of is there.

A step changes the registry in one of a few ways: registrations evolve and some close (`Calm`), one is reserved
(`Reserved`), some are committed (`Committed`), flags change (`SameMap`), a value is installed (`Installed`). There is one
lemma that each way keeps `ShownOK`, and one that each operator of the registry is of such a way. The steps of
the other variables are then shown in three groups: coroutines (`CoroutineStep`), calls (`ActorStep`, `AttachingStep`,
`ReservedStep`), and all that leaves the calls alone (`SettledStep`).

For `HoldKeeps`: values change only by `Installed`, of a route that is active, and one that is held is not.
For `PutSafe`: a delivery asks for the `ws` that its session knew. `WritesInv` adds that this is never the `ws` of a PUT which
is accepted and not processed: each such PUT has a `ws` of its own, no greater than that of its registration; no session
knows it and no delivery expects it before the Context takes the message of that PUT, which ends it (`MarkFits`).

`Mount_proofs` proves, for any mounts, contents, edits, foreign edits, faults, calls and instants, from
`SpecsAssumption`, `BoundsAssumption` and `ContentsAssumption` (what edits and files bring are contents; a cell has no mark
for a value):

* `MountInductive`: `Spec => []Typed`; `MountTyped`: `Spec => []TypeOK`;
* `SeenAtRest`: `Spec => [](AtRest => ~unseen)`, the second conjunct of `InSyncAtRest`;
* `FreshInductive` and `NoUnseenLossAlways`: `Spec => NoUnseenLoss`, if `Undisturbed`;
* `SyncInductive` and `InSyncAlways`: `Spec /\ NewContentsOnly => []SyncInv` and `... => []InSyncAtRest`, if `Undisturbed`.

`Undisturbed` says that nobody writes between the comparison of a fingerprint and the replacement, the stamp
or the removal that follows (`Instants` has none of `"replace"`, `"stamp"`, `"unlink"`). The file system has no
compare-and-replace, so without it the property is false (section 5); reads, turns and the poll behind a conflict
are not restricted.

`NewContentsOnly` says that every content that comes is new (`NewContents`): what the user assigns or others write is none of
those that cell, file, session and messages have (others may write an invalid content again, and the user may leave the cell
without a value); that nobody else deletes the file; and that no step of the service fails. Section 5 tells how
`InSyncAtRest` fails without each of the first and the last; the deletion only keeps the proof to files that stay once they are there, and
`mount_sync` has it as the first foreign edit. The number of edits, the modes and authorities, `clear_error()`, `unmount()`, `close()` and all interleavings are
as in `Spec`; the file may be missing at first, or hold anything.

`Typed` adds to types what the queues carry: an observation has a content, a delivery a value (`MessageOK`,
`OperationOK`); an activation is the first effect of its turn (`Waiting`); effects wait for the end of their
turn or for the flush of `close()`, and are about the delivery in flight (`EffectsWait`, `Matched`); the worker is in the middle
only of an operation that has such a stage (`WorkerOK`).

* For `SeenAtRest`: `Noticed`. As long as messages are accepted, a file that was not shown is young, so that every
  poll reads it, or an observation of its fingerprint waits.
* For `NoUnseenLoss`: `Fresh`. The fingerprint of a file that was not shown is new, and no session, no delivery and
  no acknowledgement names it; so a comparison with what a delivery expects fails, and `Guarded`: what has passed it
  is of a file that was seen. That new fingerprints are new is a lemma (`NewPrintFresh`: those that are
  remembered are finitely many).
* For `InSyncAtRest`: `SyncInv`. At rest the second conjunct gives that everything was shown; that the file is then like
  the cell depends on what every message and operation under way will find. Before the session is attached its first observation
  waits (`Prepared`); from then on until `close()` or `unmount()` (`Steady`)
  * `Order`, `Zero`: the session, the inbox and the file have contents in the order in which they were there; one content has one
    fingerprint and none comes back; only an absent file has fingerprint 0;
  * `One`: the delivery in flight is an effect, or with the service, or acknowledged, and is one;
  * `Writing`: a delivery that finds the file it expects finds what the session knows, and nothing is observed between the write and its
    acknowledgement; one that does not will end as a conflict (`Going` tells which);
  * `Novelty`: what somebody else wrote is new to the session until it was shown, so that it is never taken for the session's own write;
  * `Erring`: a sense error is about the content the session knows, or the content that ends it is awaited;
  * `Balance`: the value last taken from the cell is pending, in flight, or in the file, or there is something still to be shown,
    which decides anew.
  The steps are told apart by what they do to the order of contents: one is taken (`Takes`), one is added at the end (`Grows`), the file
  changes behind them (`Breaks`), or none of these (`SameLine`).

All turns are of one shape (`Controls`: a session that learned at most what the message at the head tells, the rest
of the inbox, more work at the end of the queue), and so are all steps of the service that do not write (`Serves`, `Shows`,
`Guards`); each action is shown once to be of its shape, and each invariant once to be kept by the shapes.

`Refholds_proofs` proves, for any paths, checksums, result function, cap, loadable sites and sub-context to copy and any
number of operations, from `PathsAssumption`, `ChecksumsAssumption` and `BoundsAssumption`, if `Regular`:

* `RefholdsInductive`: `Spec => []RefholdsInv`; `RefholdsTyped`, `BooksBalance`, `ValuesKept`: `Spec => []P` for `TypeOK`,
  `Balanced` and `KeptThroughout`.

`Regular` says that no sub-context is copied onto nodes that exist and no configuration is published from before its
code was connected (`CopyOver` and `StaleConfig` are FALSE). The code does not see to that: with either `Balanced` is false (section 5).

`Balanced` speaks of the list that `_refheld_checksums` reads off the graph, but operations keep tables: of codes, modules,
inputs and results. `RefholdsInv` therefore says of the state between two turns (`Now`)

* `Base`: the references are what the literals and the tables hold (`Balances`); the code table is that of the graph and
  a node that is gone has nothing (`NodesOK`); an edge has both its nodes, and behind a connected code no checksum is left
  (`EdgesOK`); held runs answer demands that differ from each other and from that of the present run, are no more than the cap,
  and have the result of their demand (`RunsOK`, `ResultsOK`);
* `Synced`: the module table agrees with the graph, the result table with the held runs;
* that nothing has lapsed.

`ListedTotal` shows that then the list and the tables count the same. That demands differ is needed for the results, which
the table has once for each path and demand, and the list once for each held run.

An operation hands a working state to the derivation that satisfies `Base` and, for `KeptThroughout`, is `Sunk`: a checksum that
was noted has no reference still, so that it is not among the values of the graph (`SunkSpared`); the derivation restores
`Synced` and notes no value of the users (`DeriveFacts`). There are lemmas on counting (`CountOff`: functions that differ at one place;
`CountSplit`, `CountPaired`), one for each operator that says what it does to references, notes and graph (`ReleaseFacts`,
`SyncFacts`, `ShowFacts`, `DerivedRuns`, `DeriveFacts` ...), and one for each action (`SetRootStep`, `DeleteStep` ...).

Model-checked only: every other property of section 3, in particular all liveness (out of the reach of
the prover), `AgreeAtRest` of `Shares`, which holds for the constants of its run and not for all, as section 5 tells; `InSyncAtRest` of
`Mount` where somebody else deletes the file (`mount_sync`); and that the recursion of `Currents` visits every node.

## 5. What was found

Two runs end in a violation, each of something that the documentation or the tests of the
repository say.

1. `runs_close_cancels`. `close()` sets `_closing` on its own thread before `_begin_close` is
   executed. If a turn in between takes a run out of the ledger (prune, expiry, eviction), the
   cancellation is an effect that `_after_turn` no longer executes and `_begin_close` clears, and the
   ledger no longer names the run: it is not cancelled, and the side loop waits for it.
2. `mount_revert`. A cell is set from A to B and, while B is pending or in flight, back to A.
   `_mount_after_turn` notes A in `last_synced` but requests nothing, as `session.disk` is still A. B
   is written and stays.

More disagreements with the documentation or the tests, which the models show when an exemption is taken away or a constant changed:

* Without `effects = <<>>`, `CloseReturns` of `mount_live` fails. "Explicit Context close flushes already requested persistent
  deliveries" (README.md:74-75), but in the turn that acknowledges a delivery `_mount_delivered` dispatches the pending one as an
  effect (`runtime.py:369`). If `close()` sets `_closing` before that turn ends, `_after_turn` drops the effect (`context.py:262`,
  `344`): the session stays busy with a delivery that nobody makes, the value is not written, and the flush takes its whole
  timeout. It is the cause of 1 once more.
* Without `KeepsRoot`, `Linearizable` of `edits` fails. A write of a key of a cell whose conversion *failed* starts from an empty mapping
  and discards the root that is there (`ingress.py:150`); tests/test_contract_workflow_context.py:683-685 grants the empty mapping to
  an unwired cell and wants `ValueUnavailableError` otherwise.
* With `CopyOver = TRUE` in `MCRefholds.cfg`, `Balanced` fails after two copies. `ctx.copy = ctx.sub` a second time (`context.py:3178`)
  acquires for the new nodes and never releases what the old ones held. tests/test_garbage_collection.py:95-115 expects, of one
  copy, that nothing is left.
* With `StaleConfig = TRUE`, `Balanced` fails after three calls: `_publish_config` (`context.py:375`) brings back a code checksum that a
  connection to the code has released meanwhile, as that counts no revision, and the source is deleted. The node then lists what it does
  not hold, which is what the audit of tests/test_reference_lifecycle_binding.py:121-129 reports.

Observations, likewise without a run. Of `Mount`:

* A foreign edit is sensed while an older edit is in flight. The write fails; `_mount_delivered` makes it
  pending again (`runtime.py:362`), and its retry overwrites the foreign edit. `InSyncAtRest` fails so with
  `Specs <- LiveSpecs`, `Edits <- LiveEdits`, `ForeignEdits <- OneForeign`, `Faults = {"write"}`, `MaxFaults = 1`,
  `Calls = {}`.
* With a foreign edit that repeats the content of the file (a touch, an identical rewrite, or a
  creation and deletion), `InSyncAtRest` fails: a delivery that meets it ends as a conflict, and
  the poll behind it finds the content unchanged, so nothing is requested again.
* With a cell that goes from computing to the value it had, in mode `w`, a foreign edit that was observed
  meanwhile is never reasserted: `reassert` wants a complete node, and `last_synced` is unchanged.
* With `Instants` that contain `"replace"` or `"stamp"`, `NoUnseenLoss` fails: a foreign edit
  between comparison and replacement is overwritten; one between replacement and fingerprint is taken for
  the mount's own write, and overwritten by the next delivery.
* A write whose fingerprint cannot be taken is acknowledged as an error; the next poll finds the
  mount's own file and senses it as foreign, over an edit made in between.
* The baseline of a poll is the fingerprint from before it reads (`service.py:262`). A file that is created after a fingerprint
  found none and before the read is observed; deleted again before the next poll, its absence is what the baseline
  says already, and is not polled: the session believes in a file that is gone (`Instants = {"read"}`, `ForeignEdits`
  of a deletion, a write and a deletion).
* `clear_error` replaces a forced canonical rewrite by an ordinary request, which is then dropped as
  equivalent. `InSync` does not ask for the canonical form for that reason.

Of `Shares`:

* With `Body[p]` the value that the cell has first, `AgreeAtRest` fails. The cell is edited and its delivery
  is on its way to the loop; a PUT of the value still served is accepted, which changes the fingerprint but
  not the value. The delivery ends as a conflict (`server.py:604`) and is given up
  (`runtime.py:367`), and the observation of the PUT is classified as unchanged: share and cell differ for good.
* A PUT that arrives while the successor is reattaching waits for a future of the *new* registration
  (`server.py:1114`), which `_complete_reattach` does not resolve - it resolves the predecessor's. It takes `put_timeout` and is
  answered 503 "share re-attach timed out", unless the share is held once more. No document or test promises it more, so this is the
  exemption `Stranded` of `PutAnswered` and not a finding.
* With `"fail"` in `Calls` the same holds for PUTs that wait for a route whose successor's attachment fails,
  and with `"unshare"` for one that resumes with a successor that was unshared while its Context closes.
* A load whose staged reservation outlives the hold of the namespace ends in a `KeyError` in
  `commit_reservations` (`server.py:419`); the model lets the load fail (`Committable`).
* A delivery finds its registration closed (`server.py:594`) only when a load replaces the share while an edit
  of its cell is on its way; that needs an edit besides the calls of `shares_takeover`, as in the larger
  instance of section 3, so the answer `error` is not met in the two runs.
* A PUT that is accepted while the Context closes is answered 503, and its value stays in the record
  that is held.
* Not modelled: `reserve` asks twice whether the namespace may be taken over (`server.py:243`, `377`). If its
  deadline passes in between, the registration is recorded in a namespace of the closed Context.

Of `Edits`:

* Without the exemption, `CommitFits` fails: an edit of an empty cell, prepared for one celltype, is
  committed after the cell was replaced by an empty one of another celltype (`_commit_update` compares nothing
  with nothing, and the replacement counts no revision).
* A write of the whole value is encoded for the celltype of its snapshot and recorded under the celltype at
  its commit.
* A job that is dropped and demanded again: the late answer of the first task is accepted, the second task runs for
  nobody. `NoLostJob` holds all the same.
* A change of the configuration that was prepared before pins were added or deleted, none of which counts a
  revision, loses or revives them; a revision survives the deletion of its node.

Of `Refholds`:

* A result that is overtaken is released by its node before the held run acquires it, in the same turn.
  `KeptThroughout` speaks of users' values only.
* `_replace_cell_from_builder` with a Cell as input keeps the old literal behind the new edge; if it is refused late,
  the mounts are gone and the help cell stays.

Of `ShareClient`:

* With two keys and one lost websocket (`Keys = {k, l}`, `MaxFaults = 1`) a server that was not restarted is taken for one
  that was: after the reconnection the page gets the replies of two own PUTs before the snapshot that is older than
  both, and `inspectRestartSnapshot` (seamless-client.js:138) tolerates one key only that is one behind. A value
  that others changed while the websocket was down is then kept under its new marker, and the next edit of it overwrites
  that value unseen. tests/test_share_client_restart.py:49 (`test_same_server_reconnect_rereads_auto_read_value`)
  expects the new value after a reconnection. `AgreeAtRest` exempts the key, as it does after a restart ("kept").
* The reply "share has no value" has no marker (`server.py:994`): with `Blank = TRUE` a late one replaces an edit that
  the server accepted meanwhile. `AgreeAtRest` exempts the key ("late").
* A PUT that fails in the network leaves its value on the page and, unlike a conflict, does not set
  `unresolvedDroppedChange`, so that the value is kept over a restart as well. `stale` exempts both.
* An edit made while an announced value is being read is sent with the announced marker, and overwrites a
  value that the page never showed. A restart whose markers come up to those of the page is not noticed.

## 6. Hazards without a property yet

`PROJECT.json` lists what in this code is hard to test, at its line, with the properties that
look at it. Not covered: the two clocks of a hold timer and the comparison of its deadline (`Runs` numbers the holds), `sync()` cuts,
the windows of the file system named above, a fault together with a foreign edit, the waiters of a route whose new owner fails to attach, a server that is taken
for a restarted one, and what the exemptions of `CloseReturns`, `PutAnswered`, `Linearizable` and `Balanced` leave out.

## 7. Plan

Done: 1. `Runs` with its proofs; 2. `Controller` and `RequestService`; 3. `Mount`; 4. `Shares`; 5. `Edits` with
`AtomicCell`, facts and jobs; 6. `Refholds`; 7. `ShareClient`.

Next, in this order: `SyncCut`, the cut of `sync()` over several sessions, with `Mount`'s session as its part;
deep cells with several members in `Edits`; the widgets' session as an instance of `Mount`'s.

Theorems: `InSyncAtRest` of `Mount` with deletions by others; `AgreeAtRest` of `Shares` where a PUT brings a new value and no
attachment fails.

## 8. Not modelled

* Conversions, validators, celltypes, deep cells and miswiring (`graph.py`): typing rules over data.
  In `Runs` an input is there, blocked, or unwired.
* Directories, compression and size limits of mounts: other contents for the same protocol. Two
  registrations for one path: `reserve` refuses them if one of them writes.
* Widgets and traitlets: the session protocol of `Mount` with another disk.
* HTTP, OpenAPI and MIME: formatting.
* `inotify` hints (`fs/native.py`): they make a poll come earlier.
* The remaining handles, serialization, configuration proxies, logs: they keep no state of the protocol.
* Reads of values with a budget, and the materialisation jobs behind them: they change nothing.
