# A verification model of trpc-go-utils

trpc-go-utils is a set of Go packages around tRPC-Go: configuration that follows its
source, a file as such a source, clients that are replaced when their configuration
changes, service discovery through a MySQL table, metrics written to the log, error
codes carried in responses, and helpers for goroutines, panics, logs and plugins. This
directory holds TLA+ modules for the parts of it where goroutines, timers and external
processes interleave, TLC configurations that check them on small instances, and TLAPS
proofs of what matters most for every instance.

Paths are relative to the repository's root, `src/` here.

## Inventory

| component | state it keeps | operations | status |
|---|---|---|---|
| `config`: `Watch`, `Bind`, dispatcher | per key a `watchAndDispatcher`: lock, `started`, `watchErr`, notifiers; three goroutines and four channels per call | `Watch`, `Bind`, `NewNotify`, `DoWatch`, `watch`, `writeToChan` | modelled |
| `config/file`: file source | cache and listener per key; inotify watch; a channel of ten | `Get`, `Watch`, the listener's loop | modelled |
| `client/buffer` | one `clientContext` per client name; goroutines that sleep and close | `GetClient` | modelled |
| `naming/mysql` | table rows; per server `nodes` and a heartbeat; per client process a cache of nodes | `Register`, `Deregister`, heartbeat, `Select`, `Report` | partly |
| `config/etcd` | trpc's global configuration, which it rewrites | `RegisterClientProvider`, `doWatch`, `updateClientYAML` | modelled |
| `metrics`, `metrics/log` | counters of this minute; a channel of 1024 | `Report`, `routine`, `statisticAndLog` | partly |
| `errs` | tags of the code and message fields | `serverFilter`, `clientFilter`, `ExtractCodeMessageDigest` | partly |
| `concurrent`, `recovery` | context keys to copy | `Detach`, `DetachAndWait`, `CatchPanic` | partly |
| `client/localcache` | none of its own: an external cache behind conversions | getters, setters | partly (durations) |
| `client/gorm`, `redis`, `kafka`, `sqlx` | a `client/buffer` (gorm, redis), else none | one getter each | not modelled: forwarding |
| `log` | the nodes of loggers; the logger and trace id of a context | `With` and its like, `WithLogger`, `GetLogger`, `tracelog` filter, cloned contexts | partly |
| `plugin`, `codec` | registries filled at start-up | `Register`, `Bind` | not modelled: start-up only |

### How they interact

`config.Watch` takes a `config.KVConfig`, of which `config/file` is one and etcd another.
The source hands back a channel; one dispatcher per key copies what arrives to one
channel per caller; one goroutine per call decodes it and sends it on a second channel;
for `Bind` one more goroutine stores it in the caller's pointer. `config/etcd` is itself
such a caller. `client/gorm` and `client/redis` give `client/buffer` a function that makes
a client and one that closes it. `naming/mysql` uses its own MySQL client, reached with
`client/sqlx`; a server and a client of a service share nothing but the table.
`metrics/log` receives every metric of the process, those that the log package reports for
the lines `metrics/log` writes included. `concurrent` uses `recovery` and `log`.

### What is hard, and what makes each component correct

* **config.** Callers race to open one subscription, and opening it may fail. A response
  goes through four buffers and three goroutines, any of which may be slow. Correct means:
  one subscription per key; nothing overtakes on the way; a response that does not decode
  is skipped and stops nothing; every call returns; what is handed out arrives; a slow
  consumer does not stop the others; no change is missed.
* **config/file.** inotify merges events, the file is read after the event and may have
  changed again, an editor may truncate it first, or swap the inode. Correct means: what is
  sent was in the file and is in order; the last edit is sent; `Get` is not behind.
* **client/buffer.** Callers refresh the same client at once while the configuration
  changes, and replaced clients are closed by timers while others use them. Correct means:
  none leaked, none closed twice or early, the one handed out is for the current target.
* **naming/mysql.** Heartbeats fail or are late, servers die without deregistering,
  `Select` and `Report` write the same cache without a lock. Correct means: a live service
  stays selectable, a dead one fades, and what `Select` returns was alive recently.
* **config/etcd.** Two providers register clients and replace the same global configuration
  at the same time, and registering may fail half way. Correct means: what was refused is
  never the global configuration, an update pushed takes effect, a provider's own clients are
  registered as its last accepted update says whatever overlaps it, and clients and global
  configuration agree again after an update nobody overlapped.
* **metrics/log.** One goroutine drains a channel and, through the logger, may write to it.
  Correct means: it never waits for itself, every metric is counted in one minute, with the
  right figures, and gets into the log.
* **errs.** An error code passes through an integer field whose width the service chose.
  Correct means: the caller sees the error the handler returned, and no other.
* **concurrent, recovery.** `append` to a slice of the caller's, which several callers may
  share. Correct means: every panic is told once in each way asked for, with the context its
  task was detached with.
* **log.** Goroutines extend loggers they share, and lines are put together only when they
  are written. Correct means: a line shows its own fields and no others', and every line
  for a call bears its trace id.
* **client/localcache.** Durations are rounded to seconds with an addition that may wrap.

Each hazard is listed in `PROJECT.json` at the line where it bites.

## Modules

| module | what it is |
|---|---|
| `ConfigView` | abstract: what `Watch` and `Bind` promise a caller |
| `ConfigWatch` | package config for one key; implements `ConfigView` |
| `MCConfigWatch` | instances of it |
| `ConfigWatchProofs` | proofs about it |
| `ConfigSource` | abstract: what package config takes a source to do |
| `FileConfig`, `FileConfigProofs` | package config/file for one key; implements `ConfigSource` |
| `ClientBuffer`, `MCClientBuffer`, `ClientBufferProofs` | client/buffer for one client name |
| `NamingMySQL`, `MCNamingMySQL`, `NamingMySQLProofs` | naming/mysql for one service name |
| `MetricsLog`, `MetricsLogProofs` | metrics/log |
| `ErrToCode` | the err_to_code filter of errs, on both sides of a call |
| `EtcdClientProvider` | config/etcd: client configuration under keys of etcd |
| `Detach` | `concurrent.Detach` and recovery |
| `Logger` | log: loggers, contexts, lines |
| `LocalCacheTTL` | client/localcache: lifetimes |
| `MCHelpers` | one instance of the last five, which share no state |
| `WidthProofs` | proofs about `ErrToCode` and `LocalCacheTTL`: integers of any width |
| `ConcurrentProofs` | proofs about `Detach` and `Logger`: slices and loggers that are shared |
| `HelpersProofs` | proofs about `EtcdClientProvider`, and about `MCHelpers` as a whole |

Operators whose comment begins with *Mutant* or *Bug* are variants of the action after
them that no specification uses: each shows which slip in the code one of the properties
would notice.

### ConfigWatch (`config/config.go`, `config/config_watcher.go`)

A configuration value is a version number. The source moves to a new version (`Change`) and,
once opened, may put any version from the last one emitted to the latest on its channel
(`Emit`): it may skip and repeat but not go back. A channel of capacity one is the version it
buffers, or 0. The procedure of one call is `WatchGet` (conf.Get and the first decoding),
`NewNotify`, then `DoWatch` as three actions: finding the subscription running, or calling
`conf.Watch` with the lock held, which is an action of its own so that other calls can come
to the lock meanwhile, and its success or failure. The dispatcher is `DispatchTake`, one
`WriteToChan` or `WriteToChanFull` per notifier, `DispatchDone`; `sync.Map.Range` visits the
notifiers in any order and may or may not visit one stored meanwhile. The loop of
`writeToChan` on a full channel is `DrainFull`. `DecodeUpdate`, `SendUpdate` and
`ReceiveUpdate` are the goroutines of a call. `Decodable[c]` is the set of versions the
type and encoding of call `c` can decode. Two variables, `pushed` and `opened`, record
history for the properties.

Left out: a panic in the dispatcher goroutine, and a source that closes its channel.

### FileConfig (`config/file/*.go`)

Every state the file goes through has its own version, the ones between truncation and write
and its absence included, so that a version says what was in the file. The disk actions are
what editors do: truncate and write in place, rename away and create, rename another file
over it, unlink and create. The kernel queues an event for the watched inode or merges it
with an equal one at the end of the queue. `Watch` creates the listener once; `TakeEvent`,
`HandleChange`, `HandleRemove` and `Send` are the listener's goroutine, with the read of the
file and the blocking send as separate steps. `Get` reads the file, else the cache. A notice
of a deletion carries the empty value, written 0. Left out: reading the plugin
configuration, permissions, and events of a chmod, which the code ignores.

### ClientBuffer (`client/buffer/client_buffer.go`)

Clients are numbered in the order they are made; `made[k]` is the target client `k` was
really made for, which the code does not know: `newer` gets a name and reads the
configuration itself. One call of `GetClient` is `ReadConfig`, `Lookup`, `NewClient` or its
failure, and `Swap`; another caller may come between any two. `Swap` stores the new client and
starts the goroutine that sleeps for the replaced client's own timeout and closes it
(`Close`). A caller keeps its client until `Release`, for as long as it likes. `Tick` passes
time for sleepers and for callers, which is what the grace period is about.

### NamingMySQL (`naming/mysql/*.go`)

Time is relative: every row has an age, counted since the time stored in it up to a value
past which nothing changes; so has every cached copy. `RegisterInsert` and `RegisterStore` are the INSERT and
the store of the row's id, between which the heartbeat does not know the row;
`DeregisterLoad` and `DeregisterUpdate` the two halves of `Deregister`; `BeatPick` and
`BeatExec` those of a heartbeat, which sets the time of the row even if the row was
deregistered between them, and may fail. The time it sets was read before the statement was
sent (registry.go:176), so `BeatExec` leaves the row with any age from 0 to how long ago the
heartbeat was due (`Stamp`). `RegisterInsert` takes place when the row's first time is read:
the model has the row in the table a little earlier than the code, at an age the code's row
passes through before it is there. `Restart` is a crash: rows stay, everything else
goes. For a client process, `SelectCached` tries the cache, `Query` the table (aliveness is
computed from when `Select` began), `SelectStore` stores what was read and returns one of
it, `Fallback` is the flexible answer after a failed or empty query, and `ReportLoad` and
`ReportStore` read and write the cache around the removal of a failed address. The map that
holds the registered nodes may keep its lock while the heartbeat's UPDATE runs, so the
interleavings of the model include all those of the code. A server's address stands for its
rows: a restarted server registers the same one. `initTable` and the plugin configuration,
which run once, are left out, and so are weights and metadata, which are copied unread.

### MetricsLog (`metrics/log/*.go`)

A metric is the place it has in the order of reports. `Report` and `Send` are a goroutine
that reports, blocked while the channel is full; `TakeMetric` and `TakeTick` are the two cases
of the select in `routine`; `LogLine` is one line of `statisticAndLog`, `LogDone` its return.
The logger reports `trpc.LogQueueDropNum` from the goroutine that logs when the queue of the
asynchronous writer is full (`queueFull`): `LogLine` needs room in the channel then, unless
that name is `Skipped`. Counters carry the set of metrics they stand for, which the code
does not keep, to compare their figures with. The ticker's period is left out: a minute is
any time between two ticks. Records with dimensions are dropped by the code and left out.

### ErrToCode (`errs/*.go`)

One call: what the handler returned, `ServerFilter`, `Transport`, `ClientFilter`, each a
function of the state before, for every shape of response with up to `MaxFields` fields.
Integers are cut down as reflect does, modulo a power of two; widths are scaled so that all
codes can be enumerated. Messages are the form they have (the text alone, or with a digest). Left
out: configuring the tags, and a response that is not a pointer to a struct, which the filters
pass on as they do one without fields.

### EtcdClientProvider (`config/etcd/etcd_client.go`)

A configuration is the key it came from and its version there; `Lists` says which services
each names, `Rejected` which of them cannot be set up. `RegisterClientProvider` and
`WatchUpdate` begin `updateClientYAML` with a version `ConfigView` allows: the
first update may be older than what `Watch` returned, later ones are in order.
`RegisterClient` is one iteration of trpc's `SetupClients`, in any order; then either
`SetGlobalConfig` or, somewhere before the last one, `SetupFails`. `alone` and `mixed`
record which updates other providers overlapped. Two updates that overlap may leave clients
registered from one and the global configuration from the other, until the next update that is
alone; `InStep` says exactly that, no more. `OwnClientsKept` says what overlapping updates
never spoil: the clients that one provider alone names.

What a provider may never be given is part of the model, since config/etcd has it from package
config. `opened` is the version etcd had when `configutil.Watch` returned: that one, or an
older one, need not be pushed (finding 2). `WriteToChanFull` makes the dispatcher of the key
stuck, which may happen at any time after the subscription (finding 1: `SetupClients` is slow,
or another consumer of the key does not read); `stuck` is the version etcd had then, and
`Carried` the last one that can still come through. `LatestTakesEffect` is stated with both
exceptions. Versions that do not decode are left out here: `ConfigWatch` has them. The other sections of the global configuration, which every
provider writes back as it read them, are left out. So is the error of a `Watch` that fails, after which nothing has changed.

### Detach (`concurrent/concurrent.go`, `recovery/*.go`)

Callers in `Sharing` pass the same slice of options, and `spare` says whether its array has
room for one element more: then the element `append` writes is one variable, `slot`, for all
of them. It is read when a task panics (`CatchPanic`). The model shows that a panic may
then be told with the context of a later caller, and with no other, but is told in every way
asked for; a task without a panic tells nothing; a slice built anew for each call
(a variadic call with the options written out) has no room and is safe.

### Logger (`log/*.go`, and `concurrent` as far as it changes trace ids)

`node` is the list of all loggers ever made, each pointing to the one it was made from; a
goroutine has a logger in hand and a context, which carries a logger and a trace id.
`Serve` is the entry of a call through the server filter; `Go`, `CloneContext`, `Detach` and
`DetachAndWait` start a goroutine with a context of their own making. Whether the contexts
trpc clones keep the logger is for trpc to say: both are allowed. `Line` is what
`logStringer.String` puts into JSON and into the text before it. Note two rules of the
code that `LineIsOwn` states: nodes are read from the newest to the oldest and each
overwrites what was there, so of a key given twice the *first* value is shown; and the logger in hand
overwrites the one in the context. How values are converted to JSON or strings is left
out, and so are levels, the file and line of the caller and the stack of trace ids.

### LocalCacheTTL (`client/localcache/localcache_impl.go`)

`DurationToSec` with its wrapping sum, for every duration of `Bits` bits.

## Runs

| run | instance | states | shows |
|---|---|---|---|
| `ConfigWatch` | a Bind that cannot decode version 2, a bare Watch whose reader may stop; 3 versions; source channel of 1 | 188 k | types, order of the pipeline, one subscription, `ImplementsView`, and, with fairness, that calls return and responses arrive |
| `ConfigWatchFull` | the same | | finding: a full channel blocks the dispatcher for ever |
| `ConfigWatchGap` | one Bind, 2 versions | | finding: a change between conf.Get and conf.Watch is missed |
| `ConfigWatchRetry` | three calls, 1 version | | finding: one failed attempt to subscribe fails every later call |
| `FileConfig` | 7 states of the file, all ways to edit, 2 events in flight, channel of 1 | 22 k | `ImplementsSource`, `Get` not behind, the last edit is sent |
| `FileRename` | vim-style edits only | | finding: hot reload ends with the first of them |
| `ClientBuffer` | 2 callers, 2 targets, 2 changes, 2 clients, timeouts of 0 and of more than the cap | 412 k | no client lost, closed twice, early or never; the current target is served |
| `ClientBufferAba` | 1 caller, 2 targets, 2 changes | | finding: a client of another target stored under the current one |
| `NamingHeartbeat` | 1 server, 2 registrations, the code's 2 s and 5 s in quarters of a second | 851 k | a live service survives a lost heartbeat; a deregistered one fades |
| `NamingSelect` | 1 server, 2 registrations, 2 selectors, a life of two ticks | 1.9 M | cached copies are honest, `Select` returns nodes that were alive |
| `MetricsLog` | 2 goroutines, 2 names, 2 values, 3 metrics, channel of 1 | 37 k | every metric counted once and rightly, logged in the end; reporting never blocks for good |
| `Helpers` | codes of 4 bits in fields of 3, 4 and 6, up to 2 fields; 2 goroutines and 3 loggers; 3 detached tasks, 2 with the same options; 2 keys of etcd with 3 and 2 versions, 3 services; durations of 6 bits | 524 k | the error seen is the error returned, up to 0 and the width of the field; lines show their own fields and the trace id; panics are told as asked, in the right context; clients follow etcd, and overlapping updates leave each provider its own; lifetimes are rounded, never to none |

**Bounds.** `MaxVersion`, `MaxChanges`, `MaxClients`, `MaxRows` bound what the environment
does; they also give "eventually" its meaning, since after the last change the system must
settle. Three versions fill the pipeline of one call (holder, watcher, decoded, notify and
the dispatcher's hand cannot all differ with fewer than the two that make order visible), and
the third gets past one that cannot be decoded. A source channel of one makes it block. Seven states of the file allow two
in-place writes and an edit of the inode, in any order. Two clients and two callers are what
a race to refresh needs; two changes bring a target back. In `NamingHeartbeat` the bound is
tight: with one tick of lateness two intervals take `2*Interval + 4*Slack = 20 = Live`
ticks, and a life of 19 breaks `RegisteredIsAlive`. `NamingSelect` has one server, whose
two rows share an address; two servers with two selectors are beyond TLC, and what the second
server adds is only that `Report` keeps the other one's rows. In `MetricsLog` a channel of
one is full at once, and three metrics suffice for one in each place: being sent, in the
channel, being counted. In `ErrToCode` a field of three bits is narrower than a code, one of
six as wide as int64 is against 32 bits in the code, and all that matters of a width is that
order.

`Helpers` runs its components one at a time (`part`): none reads what another writes, so their interleavings
would only multiply the states. Three loggers are a shared one and one more for each of two
goroutines. Two tasks that share options and one that does not give `append` its three
cases, with and without room. Two keys of etcd overlap in one service and each has
one of its own. The second of the first key's three versions cannot be set up, so that a
failure comes before a success; the other key has two versions, the latter without the
service they share. With a second of four units and six bits every duration and its overflow are enumerated.

**Symmetry** is used where callers, selectors or servers are interchangeable and no liveness
property is checked.

**Deadlock** is not checked: every instance stops once its bounds are used up.

**Fairness.**
* `ConfigWatch`: goroutines that can run do run (weak fairness of the dispatcher, of the
  steps of a call that has started, of decoding and sending, and of the consumer of a
  `Bind`, config.go:47, which does nothing else). The source reports what is new, strongly
  fair because between two looks the channel may be full. Nothing forces the reader of a
  bare `Watch` to read, the source to change or a call to be made.
* `FileConfig`: the listener runs, the dispatcher receives (config_watcher.go:58 loops), and
  an edit begun is finished.
* `ClientBuffer`: time passes and a goroutine whose sleep is over closes. Nothing about callers.
* `NamingMySQL`: time passes, strongly fair as it may be held up by a step that is due, and
  server processes do what is due. Nobody has to register, deregister or select.
* `MetricsLog`: Go's select picks at random among ready cases and senders are served in
  turn, hence strong fairness of `TakeMetric`, `TakeTick` and `Send`; minutes pass. The queue of
  the log writer may stay full for ever.
* `EtcdClientProvider`: the goroutine of a provider runs. What appears *after* its subscription
  and is newer than what it has is delivered in the end *while its dispatcher is not stuck*:
  that is what `Delivered` of `ConfigWatch` gives, with the exceptions of findings 1 and 2.
  Strong, as the goroutine is busy in between and the source may repeat itself. Nobody has
  to register, and the dispatcher may get stuck at any time.
* The other parts of `Helpers` have no liveness property.

## Findings

1. `config/config_watcher.go:69`: `full` is assigned once before the loop and the value is
   never written again, so a full channel keeps the dispatcher of the key in its loop for
   ever and no caller of the key gets an update any more. The comment at line 80 says the
   old data is consumed and the newest written. (`ConfigWatchFull`)
2. `config/config.go:96`: the value is read before the subscription is opened; a change in
   between is lost until the next one. (`ConfigWatchGap`)
3. `config/config_watcher.go:44`: `watchErr` is never cleared. (`ConfigWatchRetry`)
4. `config/file/file_listener.go:113`: a rename ends the inotify watch and nothing renews
   it, so edits with vim stop the hot reload they were meant to support. (`FileRename`)
5. `client/buffer/client_buffer.go:72`: the target stored and the target of the client made
   come from two readings of the configuration. (`ClientBufferAba`)

`Delivered`, `BindFollowsSource` and so on are stated "unless the dispatcher is stuck"
where finding 1 would otherwise answer for them.

## Proofs

Each theorem is about every instance of its module: any sets of calls, readers, servers,
goroutines, names, options and so on, any bounds, widths and capacities that satisfy the
module's named `ASSUME`s. Each invariant was first checked by TLC on a run's instance. The
proofs have the same shape throughout: an inductive invariant (`IInv`, `DetachIInv`,
`LogIInv`, `ErrIInv`), a lemma per action that it is kept, `Invariance`, and what is read off
from it.

**ConfigWatch.** `PipelineOrdered` is not inductive: that what the dispatcher has in hand is
not newer than what the channel holds needs the channel itself to be in order
(`FeedOrdered`), `SingleSubscription` needs to know who holds the lock (`LockConsistent`: the
lock is held exactly by the call that is opening, and only while nothing is open), and
`ImplementsView` needs to know that every value on its way is one the call can decode
(`CallConsistent`). `IInv` is their conjunction with `TypeOK`; `Invariance` proves
`Spec => []IInv` with one step per action, `OrderPreserved`, `OneSubscription` and
`TypeCorrect` follow, and `Refinement` maps every step to a step or a stutter of
`ConfigView`: the return of `DoWatch` is `Adopt`, `ReceiveUpdate` is `Push`. `UsesSource`
looks at the other side: the steps of `ConfigWatch` seen through `latest`, `emitted`, `feed`
and `started` are those of `ConfigSource`, because only the holder of the lock opens the
source. `FileConfigProofs` shows that config/file, its notices of deletion aside, implements
`ConfigSource`; the two theorems are what joins the packages.

**ClientBuffer.** The grace period is not inductive: a client not yet closed says nothing of
how long its sleep still is. `GraceKept` says it: as long as the caller's client is stored,
the stored timeout is the one it was given with; while it sleeps, what the caller has had
it for and what is left of the sleep add up to the timeout; once closed, the caller has had
it that long. For `Swap` this needs the client replaced to be in no other place
(`Lifecycle`, with `Numbered`: only clients made are anywhere, so a new number is fresh).
`ServesCurrentTarget` needs `ReadingKept`: what a caller read is the configuration until the
next change. `Invariance` proves the conjunction, from which `TypeCorrect`,
`ClientsAccounted`, `GraceHolds` and `CurrentTargetServed` are read off.

**FileConfig.** `GetNotBehindFeed` needs to know that the cache holds what is about to be
sent and is not behind what was (`SentInOrder`), `ImplementsSource` that nothing happens
before `Watch` (`Quiet`). The mapping of the refinement is `Content`, the channel without the
notices of deletion. It is a recursive function over the channel, so `FileConfigProofs`
first proves by induction what it does to `Append` and `Tail`; then `Send` is `Emit`, or a
stutter for a notice, and `Take` is `Take` or a stutter. `FeedInOrder`, that the channel is in
the order of the file's states, comes with it (`InOrder`).

**NamingMySQL.** `RegisteredIsAlive` is proved (`StaysAlive`) from
`2*Interval + 4*Slack <= Live`: with the code's 2 s and 5 s (mysql.go:18-20) a heartbeat and
an INSERT may each be a quarter of a second late. The hypothesis is the theorem's own, not an
assumption of the module, and `NamingHeartbeat` shows that a `Live` smaller by one tick breaks
the invariant. Age alone is not inductive: `HeartbeatInTime` bounds the age a row will have at
the *end of the next heartbeat*, `Due`, by one interval after it was renewed and two after a
failure, and says that a row stored while the heartbeat was busy with its predecessor is as
good as new. `RowsOwned` keeps apart the row a server keeps alive, the one it is registering
and the one it is deregistering. `CopiesAreHonest` is inductive with the types; `FreshSelect`
needs `ListsFresh`, that what a selector read was alive when its `Select` began.

**MetricsLog.** `CountedOnce` is proved as `InOnePlace`, which names the five places one
after the other; `FiguresRight` needs, beside it, that a metric counted under a name
was reported under that name and that the batch is empty when nothing is being logged
(`CountersInOrder`). `SumOf` is a recursive function over the reports; adding one metric adds
its value, by induction.

**ErrToCode and LocalCacheTTL** (`WidthProofs`). `Outcome` says for each phase what the
response, the error and what the caller sees are. The rest is arithmetic of `%` and powers of two. The provers know
nothing of `2^n`, so it is reached through the library's theorem that a set of `n` elements
has `2^n` subsets. Two assumptions are there for the proofs, and the
code justifies them: fields have at least two bits (Go's have eight) and a second is not empty. `NoErrorAssumption` says that the value standing for nil is not an error.

**Detach** (`ConcurrentProofs`). What is in the slot of the shared array was put there by the
task itself or by one detached later (`SlotIsLater`), which together with the list of calls
(`CallsRemembered`) gives `PanicContext`. `PanicToldAsAsked` rests on a lemma about
`MergeOptions`: whatever the last option is that `Detach` appended, merging leaves in each
field the last option of its kind. For it `DetachAssumption` says that the given options are a sequence of the
five kinds of recovery/options.go.

**Logger** (`ConcurrentProofs`). A node never changes, but `LineIsOwn` speaks of fields, not of nodes.
`FieldsBehind` says that there is *one* assignment of a list of fields to every node, such
that a node has those of the node before it and one more, and that every logger in hand and
in a context stands for the fields its goroutine was given. Every step but `With` keeps that
assignment; `With` extends it by a new node. `LineIs` then computes what a line contains:
reading from newest to oldest and overwriting leaves the first value of a key, and the texts,
reversed, are in the order given.

**EtcdClientProvider** (`HelpersProofs`). `SetupStands`: a configuration that will be rejected
cannot run out of services to register. `AloneIsAlone`: while an update is alone no other
provider is in its setup and what it has registered stays. With them `GlobalWasAccepted` and
`InStep` are inductive. `OwnStay` is the same for a provider's own clients, alone or not:
what it has registered of them stays, as no version of another provider names them
(`VersionsOK`: there are no others than those within the bounds). `OwnKept` reads
`OwnClientsKept` off it.

**MCHelpers** (`HelpersProofs`). `RunsEachPart`: a behaviour of the joined specification is
one of each component's. So what is proved of the components holds there, `HelpersTypeOK`
among it, and running them one at a time hides nothing.

**Induction over data.** The library's induction theorems take an operator as a parameter,
which no installed prover can instantiate. The proofs use a first-order form of it instead:
`LeastNat`, a non-empty set of naturals has a least element (from `WFMin`), applied to the set
of counterexamples. For this `Versions`, `SumOf`, `MergeOptions`, `Texts` and `Object` are
recursive functions rather than folds or `RECURSIVE` operators.

**Only model-checked.** Liveness: `CallReturns`, `Delivered`, `LastEditIsSent`,
`ReplacedIsClosed`, `DeregisteredFades`, `ReportReturns`, `GetsLogged`, `LatestTakesEffect`.
Fairness and ENABLED are out of the provers' reach. Every invariant and action property
that a passing run checks is also proved.

## Plan

Done: the modules, `ConfigView`/`ConfigWatch` first (the centre of the system, and the one
most callers depend on), then `ConfigSource`/`FileConfig`, `ClientBuffer`, `NamingMySQL`,
`MetricsLog`, `ErrToCode`, `EtcdClientProvider`, `Detach`, `Logger`, `LocalCacheTTL`; and the
proofs of every safety property and both refinements.

Next: the safety half of the liveness properties as invariants, for example that the
dispatcher is stuck only on a full channel whose call is running, and that a replaced client
is always in the hands of a sleeping goroutine; abstract specifications of `naming/mysql` and
`metrics/log` for their callers.

## Not modelled

* `client/gorm`, `client/redis`: they hand a maker and a closer to `client/buffer`, where the
  state is. `client/kafka`, `client/sqlx`: calls to libraries. A transaction of
  `SqlxWrapper` is open until its function returns, and stays open if it panics
  (`sqlx.go:80`); that is one sequential path and needs no model.
* The typed getters and setters of `client/localcache`: type assertions around an external
  cache whose concurrency is its own.
* The wrappers of `log/log.go`, `SetLevel`, the conversion of values, and the client side of
  `tracelog`, which writes one line in a context of its own.
* `naming/mysql`: `initTable` and the plugin configuration run once, at start-up.
* `plugin`, `codec`: registration at start-up, a serializer that forwards.
