# Verification of veng

veng is a Vulkan engine for games (C++26). This directory holds TLA+ models of the parts of it where a
mistake needs several actors, an unlucky order or a crash to show, the TLC runs that check them on small
instances, and proofs of the central facts for instances of every size. Paths below are relative to the
repository's `src/`.

The models cover the slot store, the reliable network channel, the hosting of worlds for connected
players, the worlds of a local player, the worker pool, the lock-free audio channels and the reclamation of
audio voices; section 2 says what could follow. To check one:
`tlc -config MCStore_crash.cfg MCStore`, to replay a proof: `tlapm StoreProofs.tla`. `PROJECT.json` lists
the runs, the lines of code behind every definition, the hazards, and for each property a mutation of the
model that breaks it.

## 1. Inventory

Components in bold are modelled.

| Component | State | Operations | What is hard | Correct when |
|---|---|---|---|---|
| **Store** (`engine/src/Persistence/Store.cpp`) | per family: records, stem, dirty flag, interval anchor; the Writer (generation, committed files, current and queued snapshot, busy, draining, failed families, last result); the slot directory | Open, RegisterFamily, Write, Erase, EraseAll, Read, Flush, FlushAndWait, WaitForWrites, ReadFamilies, destructor | background drain on a pool, an executor that may never run, or an own thread; coalescing; failed writes; crash at any file operation; power loss; lock-free readers | a slot always opens, what a waited flush vouched for survives, nothing written is forgotten, every wait returns, a reader sees one generation |
| DerivedDataCache | blobs and an index on disk, an in-memory index | Get, Put, evict, load | crash between blob and index, several processes | a key never yields another key's bytes |
| LocalAccountStore | one account file | load, quarantine, save | crash, corruption | an account is never replaced by a fresh one because a read failed |
| SaveSlots, SessionStore, StoreCheckpoint | slot directories, an interval | list, copy, delete, tick | copying a slot that is being written | thin layers over Store |
| **Connection** (`engine/src/Net/Connection.cpp`) | per channel: local sequence, ack state, outbox, sent packets, reorder buffer, inbox | Send, Update, HandleDatagram, Receive | loss, duplication, reordering, retransmission, sequence wrap | reliable messages arrive in order, once; newest-wins messages never go back |
| Server, Client, Handshake | connection tables, provisional clients, closing list | Update, Disconnect, Deny, Remove | timeouts racing answers, zombies, repeated requests | each client sees one connect and one disconnect; a denied client learns why |
| **Host, Session** (`engine/src/Net/Host.cpp`, `Session.cpp`) | server: joins per connection, next join number, the gameplay entry a reattach is waiting to see again; client: pending requests by token, joins; the session record of each account | Join, Travel, Leave, Pump at both ends, connect with reattach, disconnect with pose capture | requests, answers and leaves crossing; a connection lost with all of that under way; a reattach a round trip long | each seat has its owner and each presence its seat, a number means one world at both ends, a travel never leaves a player nowhere, a reattach finds the pose |
| Replication, DeltaCodec, Interest | baselines per entity and connection | spawn, delta, ack, despawn | a delta against a baseline the peer has dropped | the client decodes against what the server encoded |
| Input, prediction, reconciliation | tick-indexed rings | stamp, acknowledge, replay | late and duplicated acknowledgements | replay starts at the acknowledged tick |
| Transports | sockets, fault injection | send, receive | I/O | (environment of the above) |
| **TaskSystem** (`engine/src/Task`) | job queue, active count, continuation queue, task states, workers | Submit, Then, Get, PumpMainThread, WaitForAll, ForEachWorker, RunParallel, destructor | all of it runs concurrently | each job once, each continuation once and on the main thread, no wait deadlocks |
| **SpscRing, TripleBuffer** (`engine/src/Audio/SpscRing.h`, `engine/include/Veng/Audio/TripleBuffer.h`) | slots and atomic indices | Push, Pop, Publish, FetchNewest | lock-free | no slot is touched by both sides, FIFO, newest wins |
| **AudioDevice: voices and streams** (`engine/src/Audio/AudioDevice.cpp`) | snapshots, retirement ring, deferred sources, fill thread's working set | Play, Stop, Pump, the callback | ownership passes between main thread and callback | nothing is freed while the callback may use it |
| Capture | frame pool and encoder queue | Acquire, Retire, Finish, Abort | two threads, full pool | every frame is retired once, timestamps increase |
| Profiler, trace sink | per-thread chunks, writer thread | record, flush, attach, detach | threads ending while the writer runs | no chunk lost or written twice |
| **WorldDirectory** (`engine/src/WorldDirectory.cpp`) | buckets: key, presence, members, claimed, idle stamp, dwell | Register, Resolve, AddJoin, RemoveJoin, Pin, Unpin, ReapIdle, Close | presence counted by several owners; a dwell that begins at the last departure, or at the first reap | presence is the number of holders, an idle world is reaped and no other |
| **ManagedViewports, local travel** (`engine/src/ManagedViewports.cpp`, `Application.cpp`) | each viewport's world and rebind in flight, arrivals, pins, standing and warm holds, the local session record | travel, hold, leave, restore, release, rebind, the steps of a frame | a rebind waits over frames while worlds close, reaps run and other travels supersede it | no wait is for ever, a destination is not reaped before it is shown |
| WorldRunner | worlds, pauses | open, tick, close | sequential | one thread drives it |
| InputRouter | focus stacks, claims, injected queue | push and pop focus, route, forget a world | long sequences of calls | each press and its release reach one owner |
| AssetManager | loads in flight, references, hot reload | Load, Pump, release | load finishing after release | no asset published twice |
| BindlessRegistry, Context, render graph | slots, frames in flight | allocate, release, retire | GPU lag | a slot is not reused while a frame in flight names it |
| Scene, behaviour trees, physics, reflection, GUI, text, cooker, editor, MCP | sequential data | many | little concurrency | unit tests reach it |

Interactions: worlds persist through Store (StoreCheckpoint calls Flush on an interval; the session store
opens a slot per session); Store submits its drains to TaskSystem or to an executor; Server and Client own
one Connection per peer over a Transport; Host drives Server, Client, Replication and WorldDirectory;
AudioDevice exchanges TripleBuffer snapshots and SpscRing retirements with the callback.

## 2. Plan

Order: what loses a player's data first, then what every networked world rests on, then the primitives
with no locks, then the engine's own concurrency, then the state machines above them.

| Step | Module | State |
|---|---|---|
| 1 | `SlotPromise`, `Store`, `StoreInvariant`, `StoreReader`, `StoreProofs`, `StoreReaderProofs` | built; every safety property proved, the promise included |
| 2 | `AckState`, `AckWindow`, `FifoPromise`, `Connection`, `ConnectionProofs` | built; every safety property proved, the promise included |
| 3 | `SpscRing`, `LatestValue`, `TripleBuffer`, `ChannelProofs` (with those of `AckWindow` and `StreamVoice`) | built; every safety property proved |
| 4 | `StreamVoice`, `VoiceReclaim`, `VoiceReclaimProofs` | built; every safety property proved |
| 5 | `TaskSystem`, `TaskSystemProofs` | built; every safety property proved |
| 6 | `WorldDirectory`, `Presentation`, `PresentationProofs` | built; every safety property proved: the presence count and the spared destination |
| 7 | `Host` over `WorldDirectory`, `HostProofs` | built; every safety property proved |
| 8 | `Lifecycle` (`Net/Server.cpp`, `Client.cpp`) | provisional, established and closing clients, denial, timeouts, repeated requests; abstract: each side sees at most one connect and then one disconnect |
| 9 | `Connection`, further | the newest-wins channel, closing, and a network that forgets, for the liveness of retransmission |
| 10 | `InputRouter`, `BindlessRegistry`, `Recorder`, `DerivedDataCache` | sequential machines with long histories; slot reuse against frames in flight; crash between blob and index |
| 11 | `Replication`, `Prediction`, `Assets` over `Connection` and `TaskSystem` | the largest ones, last |

Abstract specifications: `SlotPromise` (a slot: what is written, saved and vouched for), `FifoPromise` (an
ordered exactly-once channel), `LatestValue` (a cell whose reader gets the newest value); for step 8 a
connection's life as its owner sees it.

Modules compose by `EXTENDS` where they share state (`StoreInvariant` and `StoreReader` over `Store`,
`Connection` over an instance of `AckState`, `Host` and `Presentation` over the operators of
`WorldDirectory`), and by promise where they do not: `VoiceReclaim` and
`StreamVoice` take a ring for the bounded queue that `SpscRing` is shown to be, and the snapshots for the
newest-value cell that `TripleBuffer` is shown to be, and `Host` takes a connection for the ordered
exactly-once channel that `Connection` is shown to be.

## 3. The models

### Store

`Store.tla` is one slot directory, the `Store` that holds it open and the drain that persists it. The
store's thread is `pc` and `call`; the drain is `dpc`, run by whichever thread `drainer` says. An action is
a stretch under the writer's mutex or one file-system call.

| Code (`Store.cpp`) | Actions |
|---|---|
| `Open` | `Open`, `Sweep` (each file removed), `Opened` |
| `RegisterFamily`, `Write`, `Erase`, `EraseAll` | `RegisterFamily`, `Write`, `EraseAll` |
| `Flush`, `Submit` | `Flush`, `CheckIdle`, `Join`, `HandOff`, `Spawn` |
| `FlushAndWait`, `WaitForWrites`, destructor | `StartWait`, `DrainInline`, `TakeAll`, `Waited`, `Close` |
| `Drain`, `WriteGeneration` | `StartJob`, `OpenFile`, `SyncFile`, `WriteTemp`, `Rename`, `SyncDirectory`, `DeleteSuperseded`, `Settle`, `FailWrite` |
| process death, power loss | `ProcessDeath`, `PowerLoss` |

A table is abstracted to the number of its latest change: enough to tell an older copy from a newer one,
which is all that the properties ask. A file is its name, its family, that number, and whether its bytes
are synced.

*Power loss.* Operations on the directory reach the device in their order, so a loss leaves some prefix of
those since the last `SyncDirectory`: `durable` is the set of those images. A file's contents are synced
before the record names it. `SyncDirectory` (its result is ignored by the code) is taken to succeed.

*What a success vouches for.* `FlushAndWait` with nothing to write returns success at once. If the session
has committed nothing, that says nothing of what `Open` found: a process that died between its rename and
its sync may have left a commit that a power loss still undoes. `loaded` keeps the model from reading a
promise into that, and the hazard at `Store.cpp:1386` records it.

`StoreReader.tla` adds `ReadFamilies` from another thread or process: one step for each file opened, with
`image`, a history variable, the tables the record named when this attempt read it.

### Connection

`Connection.tla` is two `Connection` objects and the network between them, for the reliable ordered
channel. `Send` queues a message as one unit or as fragments, `SendDue` and `SendBare` are `Update` (new
units and any set of due ones in queue order, or a bare acknowledgement or keepalive), `HandleDatagram` is
`HandleDatagram` down to `DeliverReliable` and `AcceptUnit`. Timers are abstracted to "any unit tried
before may be due". The network is a set that only grows: a datagram may be taken never, once, again and
in any order, which is loss, duplication and reordering in one. Sequence numbers wrap at `SeqSpace`
(65536 in the code). `NetworkAssumption` (the packets and the units outstanding span less than half of the
sequence space) is what the code's comparison of sequences rests on as well.

`Starts` begins a connection just below the wrap, everything before delivered and acknowledged: a state
that a long-lived connection is in.

`AckState.tla` holds the pure operators of `AckState` (`Protocol.h`); `AckWindow.tla` drives them by one
sender's packets over jumps as wide as the half circle.

### Lock-free channels

`SpscRing.tla` and `TripleBuffer.tla` take one step for every atomic load and store, and the copy of a
payload is a step between them (word by word in the bridge, where it could tear). Acquire and release are
taken for what they promise; the ring's relaxed loads are each of an index by its own writer.

`StreamVoice.tla` is one streamed clip between the fill thread (`TopUpStream`) and the callback
(`RenderStreamChunk`), sample by sample; `StreamSpec` is its specification, which the combined module below
takes up.

`MCChannels.tla` is one model-checking module for five small models that share nothing (`SpscRing`,
`TripleBuffer`, `StreamVoice`, `VoiceReclaim`, `AckWindow`): a behaviour is of one of them, chosen at its
start.

### Voices

`VoiceReclaim.tla` is the life of a voice's source over three threads: the main thread (`AddVoice`,
`StopVoice`, `SetDriven`, and `Pump`: `Publish`, `SkipMix`, `DrainRetired`, `CollectDeferred`), the callback
or a driven pump (`StartBlock`, `MixSlot`, `EndBlock`) and the fill thread (`TakeCommand`). The rings drop
what they have no room for, as `SpscRing::Push` does when its result is ignored.

### TaskSystem

`TaskSystem.tla` is the pool: `Submit`, `Then`, `Get`, `PumpMainThread`, `WaitForAll`, `RunParallel` (from
the main thread and from a job), `ForEachWorker` and the destructor, against workers that take, run,
finish and count jobs. One action per critical section. `m_WorkAvailable` is notified one waiter at a
time, so its sleepers are explicit and `NotifyOne` chooses; the other conditions are notified of every
change of their predicate and are guards. A continuation runs on the main thread, in `RunContinuation`,
and may itself submit and register. `plan` says which of `RunParallel` and `ForEachWorker` the main thread
uses in one life of the pool. `active`, like the code's count, covers helper jobs too.

### WorldDirectory

`WorldDirectory.tla` has no state of its own: a directory is a function from live worlds to buckets, and
the operators are the calls of `WorldDirectory.cpp` on it (`Register`, `Resolve`, `Acquire` for `AddJoin`
and `Pin`, `Release` for `RemoveJoin` and `Unpin`, `ReapIdle`, `Closable` with `Drop` for `Close`). Both
owners of a directory below are built from these. The consumer's hooks are constants: `Allowed` is
`Authorize`, `Openable` the keys the factory opens, `DwellOf` the dwell its resolution names.

### Presentation

`Presentation.tla` is a process with a local player. `phase` walks through a frame in the order of
`Application::Run`; requests come at one place in it, after the pins and the reap.

| Code | Actions |
|---|---|
| `ManagedViewportSet::ApplyPendingReconfigure`, `FireWorldArrivals` | `ApplyRebinds`, `FireArrivals` |
| `SyncPresentationPins`, `ReapDirectory`, `PumpNet` | `SyncPins`, `ReapDirectory`, `EndFrame` |
| `TravelStandalone`, `LeaveStanding` | `Travel` (presenting or not, in any durability), `LeaveStanding` |
| `HoldWorldWarm`, `ReleaseWorldWarm` | the same names |
| `RestoreLocalSession`, `ReleaseLocalSession` | `Restore`, `RestoreStanding` (one recorded join), `RestoreGameplay`; `ReleaseLocalSession` |
| `RebindWorld`, `RebindWorldWhenReady`, `WorldDirectory::Close` | `RebindWorld`, `Close` |

Time is relative: the directory only ever compares an idle stamp with now, so now stays where it is and a
frame in which time passes takes one from every stamp (`Aged`). `Hosting` says whether a `ServerHost`
pumps in the process: it then reaps in `EndFrame`, and otherwise `ReapDirectory` does. Which waiting worlds
have become ready is a choice in every frame. `Saved` are the records a store may hold when an account
without an entry is restored. `reaped` is a history variable.

### Host

`Host.tla` is a `ServerHost` and the `ClientHost` of every connected account, with a reliable ordered queue
each way. An action handles one message, or makes one call.

| Code (`Host.cpp`) | Actions |
|---|---|
| server: a join request | `ServerRejoin` (a key it holds already), `ServerDeny`, `ServerGrant` |
| server: travel request, leave notice | `ServerTravel` (or silence, when the hook refuses), `ServerLeave` |
| server: a connection that ends | `ServerGoodbye`, `ServerTimeout`, both `Disconnected` with the capture of a pose |
| server: a connection that begins, `ReattachAccount` | `Connect` |
| `ReapIdleWorlds` | `ServerReap` (any idle worlds: `Presentation` has the clock) |
| client: `Join`, `Travel`, `Leave` | `AskJoin`, `AskTravel`, `AskLeave` |
| client: `Pump` | `ClientSend` (the oldest request not yet sent), `ClientHandle` (`HandleJoinAccept`, a denial, a directed travel) |
| the client goes | `Quit` (its goodbye arrives), `Cut` |

A payload is what a pose tells apart: the parameters of a travel, or the world a pose was captured in.
`Unloadable` are the keys whose world a client rejects when the accept comes (a digest that differs, a
level that fails to load). The client's join map and the server's are functions from join numbers; `been`
and `refused` are histories.

## 4. The runs

| Run | Instance | Question |
|---|---|---|
| `store_crash` | 2 families, one with a flush interval, own thread; 2 changes, 1 fault, 2 crashes | Is every directory that a crash can leave readable (`AlwaysReadable`), does it hold what was vouched for (`AckedIsDurable`), is no change forgotten over faults and coalescing (`NothingForgotten`, `CleanMeansSaved`), is a committed file never rewritten (`NeverRewritten`), does a hand-over never join the thread that has the write (`JoinNeverWaits`), does the whole implement `SlotPromise` (`Promise`)? |
| `store_calls` | 2 families, executor, 1 fault, no crash | Does a waiting call return though the executor never runs a job (`CallReturns`); does every write end if it does (`WriterSettles`)? |
| `store_reader` | own thread, 3 changes, 2 attempts | Does a reader get one generation (`ReadsOneGeneration`) and fail only when overtaken in every attempt (`FailsOnlyOvertaken`)? |
| `connection` | 2 ends, both sending a message of 1 or 2 fragments, circle of 16, starts 0 and 15, 3 packets from each | Does the pair implement `FifoPromise` (`InOrderOnce`); is a retired message at its peer (`RetiredHasArrived`); is the awaited unit never held back (`NothingStuck`)? |
| `channels` | ring of 4 over 9 items; 4 frames of 2 words; a clip of 5 through room for 3; 1 voice slot, 2 sources, rings of 2, serials to 3; a circle of 16, window of 4, 40 packets | Each channel's promise: `InOrder`, `RoomIsReal`; `FrontIsWhole`, `Newest`; `Gapless`, `Retires`; `NoUseAfterFree`, `OneOwner`, `ReapsOnlyFinished`, and, if the rings do not fill, `Reclaimed`; `Truthful`, `Complete` |
| `tasks` | 2 workers, 2 tasks, one nesting a loop of 3 ranges | Continuations kept once (`ContinuationKept`), the body untouched after the call and each worker served once (`ParallelDone`), waits that mean done (`WaitMeansDone`), every call returning (`CallsReturn`) |
| `hosting` | 2 accounts, a primary world and 2 on demand (one that clients cannot load), room for 2 worlds and 2 joins, 3 requests, 2 connections | Is presence the seats (`SeatsMatch`), is no seat left behind (`NoOrphanSeat`), does a number mean one world (`TagsAgree`), is each request answered once (`AnsweredOnce`), does only a player's own leave empty his hands (`NeverStranded`), does a pose survive the round trip (`PoseKept`)? |
| `presentation` | 2 viewports, the managed world and 2 on demand, dwells 0 and 1, 2 attempts of 2 frames, 3 requests | Is presence the holders (`PresenceExact`), is nothing reaped that is held, shown or headed for (`NeverReapedInGap`), does every rebind end (`Settles`), is every idle world reaped or taken up (`IdleReaped`)? |
| `store_unregistered`, `stream_end`, `travel`, `reap_gap` | the smallest that show it | The disagreements of section 7 |

*Bounds.* Two changes and one fault let a failed write meet a newer queued one, and two crashes let a
recovery crash again. Three generations with two attempts let a reader be overtaken once and twice. Two
fragments and three packets from each end are enough for loss with retransmission, for a duplicate, and
for acknowledgements that overtake each other; the circle of 16 wraps within the run. The ring of 4 is
filled and wrapped twice, the window of 4 slides past its width and round the circle twice and more. One
voice slot is enough for reuse and eviction, since slots meet only in the rings, which two sources and
rings of two fill; the proof covers any number. Two workers and three participants in a dispatch are
enough for a helper that starts late, for one that still works when the caller has left, and for two jobs
of `ForEachWorker` on one worker. Three requests and two connections let a travel cross a leave, an account
come back while its old connection is still counted, and two accounts meet in a world that only has room
for two; three requests of a local player let one hold, one travel and one release meet in one world, and a
restore adds up to three resolutions of its own.

*Where a behaviour may stop.* Deadlock is checked for `Store` and `StoreReader`. The other models end: the
bounds on messages, packets, items, sources, requests and connections are reached, a stream has finished, or the pool
is gone.

## 5. Fairness

- `Store`: `WF` for the submitting and the waiting call and for a drain that has begun, each a running
  thread. None for `StartJob`: an executor may never run its job (`Store.h:159`), and `CallReturns` holds
  without. `WriterSettles` assumes it in its own statement.
- `StreamVoice`: `WF` for the fill thread, which wakes every 2 ms, and for the callback, which the device
  calls for every block.
- `VoiceReclaim`: `WF` for the pump of every frame, for the callback within a block and for the fill
  thread; `SF` for the start of a block, since a driven pump of no length may skip any one of them.
  `Reclaimed` is conditional on rings that never fill, because the code loses the command or the
  retirement otherwise (a hazard at `AudioDevice.cpp:842`).
- `Presentation`: `WF` for the steps of a frame, which the loop runs one after the other, and `SF` for a
  frame in which time passes (`Time::Update` moves on, though not by a unit in every frame). None for the
  requests, nor for a world to become ready: `Settles` rests on the attempts running out.
- `Host`: none; its properties are about safety. What a client is owed after a request is in `AnsweredOnce`
  (the answer is under way), and that queues move is the transport's part.
- `TaskSystem`: `WF` for every worker and for the rest of a call the main thread is in. Nothing makes it
  begin one.

## 6. Proofs

Every safety property that a passing run checks is also a theorem. The names of the modules' invariants
are in the third column; an assumption is on the constants, and the theorem says it.

| Theorem | Says | Argument |
|---|---|---|
| `StoreProofs!TypeCorrect` | `Spec => []TypeOK` | step by step |
| `StoreProofs!SlotAlwaysReadable` | every image that a crash can leave opens | `StoreInv`: all images hold records of files that are whole; what is in flight has been written under a generation above every image's; stems are one per family. Assumes that the program registers families under distinct stems (`StemsDistinct`) and before it writes them (`RegistersFirst`): without either it is false, the second as `store_unregistered` shows |
| `StoreProofs!SubmitNeverWaits` | a hand-over joins only a thread that has left its loop | `ThreadInv`: where the write is says which thread has it, and on the store's own thread there is one job at a time. No assumption on the program |
| `StoreProofs!CommittedFilesStay` | no step rewrites a file that a record in force, or one a crash brings back, names | from `StoreInv`: a file is written under a generation above every image's |
| `StoreProofs!ChangesKept`, `CleanIsSaved`, `FlushedIsDurable` | the newest change is on disk, in memory or between; clean means saved; a vouched-for flush survives every crash | `ContentInv` adds what the files say: along the way to the disk tables only get newer (`OrderOK`), a name stands for the same content in every image (`FilesOK`), a waited flush has the writer to itself (`FlushOK`), and once this session has committed, no crash goes back before it (`DurableOK`). Both assumptions |
| `StoreProofs!StoreKeepsPromise` | the store implements `SlotPromise` | from `ContentInv`: a rename is a commit, a successful wait an acknowledgement, an end of the process or of the power an end, every other step a change or none |
| `StoreReaderProofs!OneGenerationRead`, `OvertakenReadFails` | a read is of one generation; it fails only when a later commit has collected a file it names | `ReaderInv` over `StoreInv`: what the names of the record stood for when it was read, they stand for as long as they stand for anything (`ImageOK`) |
| `ConnectionProofs!NeverStuck`, `RetiredArrives`, `DeliversInOrder` | the awaited unit is never held back; what leaves the outbox is at the peer; the pair implements `FifoPromise`, for every width of the circle and of the window, every start, any messages and fragments | `ConnInv`, below. Assumes `Answering # {}`: one end waits to be spoken to, as the server does |
| `ChannelProofs!AcksAreTrue`, `AcksAreComplete` | the window acknowledges only what has arrived, and all that arrived less than its width behind the newest, for every width and every sequence space more than twice as wide | `Compare`: less than half a turn apart, wrapped sequences compare and subtract as the counts of packets do; `AckInv`: the bits are the distances to recent packets. `JumpsAssumption` keeps packets less than half a turn apart |
| `ChannelProofs!BridgeHolds`, `NeverTorn`, `FetchesTheNewest` | the three buffers are always one for each side and one between, a front is a whole frame, and the bridge implements `LatestValue` | `BridgeInv`: the three indices are a permutation, and the fresh bit says what lies between |
| `ChannelProofs!RingHolds`, `NeverSharesASlot`, `FirstInFirstOut`, `PromisesHold` | no slot is touched from both sides, items leave in order, room promised is there | `RingInv` on the unwrapped counts; `WrapOnce`: two counts less than a capacity apart wrap to different slots |
| `ChannelProofs!NoGap` | the callback pops the clip's samples in order, none missing and none twice | `StreamInv`: the room that was counted before decoding is still there at the push, since only the fill thread takes it |
| `VoiceReclaimProofs!Reclaiming`, `NothingUsedAfterFree`, `SingleOwner`, `RetirementsAreExact` | for any number of slots, sources and ring sizes, dropped commands included | `ReclaimInv`: serials only fall from the newest to the consumed frame; a source in a frame is deferred no further back than that frame; a Remove is a source's last command; generations fall from the voice to the callback |
| `TaskSystemProofs!PoolHolds`, `WaitsAreDone` | `WaitForAll` and the destructor return only when every task has landed and no job is left, for any number of workers, tasks and ranges | `PoolInv`: `active` is the length of the queue plus the number of busy workers; a task that has not landed is queued or in a worker's hands short of its count; a worker leaves only on an empty queue, after the destructor began, and whoever submits then is a worker that has not left. Submitting needs Main outside the destructor (`Stopped`) |
| `TaskSystemProofs!ContinuationsKept` | a continuation is on its task, on the pump's queue or has run, and at one of them only | `PumpInv`: `PoolInv`, and what the pump has taken and not yet run (`Pumping`); appending and taking from a queue are counted by lemmas |
| `TaskSystemProofs!ParallelIsDone` | `RunParallel` returns when every range has run once and nobody is in its body, `ForEachWorker` when every worker has served once | `CallInv` (a job is queued or with one worker, and a helper's only once its caller has begun), `ClaimInv` (`members` is the number of participants, a claimed range has one holder, nobody leaves before the ranges are used up) and `EachInv` (the jobs of `ForEachWorker` that are unsent, queued, arriving and arrived add up to the workers, and each worker has an arrival number of its own: an injection of a finite set into itself) |
| `PresentationProofs!PresenceCounted` | a bucket's presence is the number of its local holders, for any number of worlds, keys, viewports and requests, hosting or not | `DirInv`: every bucket is well-formed and its count is its pin, standing hold and warm hold (`Sound`); a hold is under the key of its world, so a world has at most one of each kind; the directory is what the runner has open, and nothing reaped comes back, since worlds are numbered upwards. One lemma for each way a count changes (`Sound...`), one step for each action |
| `PresentationProofs!SparedInGap` | a process that hosts nobody reaps nothing shown, headed for or held (`~Hosting` is the assumption, and the run `reap_gap` shows it is needed) | `GapInv`: `DirInv`, and between the pins and the reap all that is presented is pinned, so what the reap finds without presence is neither pinned nor held |
| `HostProofs!TagsHold` | a join number names the same world on a client and on the server, for any accounts, worlds and limits, whatever crosses on the way and whichever end goes | `TagInv`: join and token numbers only grow; every request under way asks for the key its token stands for and every accept names a join of that key (`Asks`, `Answers`), while both ends still know it; nothing is under way to a connection before it begins. Needs the queues to keep their messages whole, not their order |
| `HostProofs!NoneStranded` | only a leave that the user asks for takes a client's last world | from `TagInv`: what a client handles is an accept, a denial or a directive, and an accept installs its join before it leaves another |
| `HostProofs!OneAnswerEach` | every request that is out has one message about it under way, itself or its answer | `AnswerInv`: `TagInv`, and for every token the messages both ways that are about it add up to one (`Balanced`) |
| `HostProofs!NoSeatLeftBehind` | every join the server holds for a connected client is on its way, installed or being left, unless the client cannot load its world | `SeatInv`: `AnswerInv`, and each join is in one of these places (`Placed`); by `Balanced`, an accept that is handled is the only message about its token, so handling it moves one join and loses none |
| `HostProofs!ReattachKeepsPose` | a reattach gives back the captured pose | `PoseInv`: `TagInv`, and a join that has not been resolved since the connection began remembers the pose (`Remembers`) |
| `HostProofs!DirectoryCounts` | the directory counts the joins of every account in every world | `CountInv`: `TagInv`, finitely many connections, and a count lemma for each way a set of joins changes (`Counted`) |

*The invariant of a connection.* The two ends keep no history: an acknowledged unit is forgotten on both
sides, so no formula over the variables alone says why an old header that comes again is harmless.
`ConnInv` therefore says that a history exists: for each direction the stream `s` of all units ever sent,
the number `d` of them delivered, and the packets `w` that carried them. The receiver expects unit `d + 1`
and holds later ones (`Held`); the inbox and the partial message are what accepting `d` units leaves
(`Delivered`); what has not arrived is in the outbox (`Pending`); a sequence that a window or a packet under
way acknowledges is of an earlier turn or of a packet whose unit has arrived (`Safe`, `Heard`, `Answers`).
`Limits` keeps the stream short of a turn of the ids, which is where `NetworkAssumption` enters. The one
acknowledgement of nothing, the sequence 0 of an end that has heard nothing, is harmless because the end
that answers sends an empty packet first (`First`): this is what `Answering # {}` is for, and without it
`RetiredHasArrived` is false. TLC cannot enumerate histories, so it checks the three consequences, and the
invariant is only proved.

Only model-checked: the liveness properties, which need fairness and `ENABLED` (`CallReturns`,
`WriterSettles`, `CallsReturn`, `Retires`, `Reclaimed`, `Settles`, `IdleReaped`). What a recursive function
computes on every input is proved where the steps of a machine take it one element at a time (`AcceptAll`
through `AcceptSteps`); the merges of snapshots are checked through the machines that use them.

## 7. Findings

1. `stream_end`: the callback loads `AtEnd` after its pop has failed (`AudioDevice.cpp:481`); samples pushed
   in between are never heard.
2. `store_unregistered`: a family written before any registration has an empty stem, and the flush writes
   a record that `Open` refuses.
3. `travel`: a travel request is answered with a directive to leave the connection's lowest join
   (`Host.cpp:262`, `1138`), where the comment says the presenting one. A player in a standing world who
   travels leaves that world, which also withdraws it from the session record, and keeps the seat in the
   world he came from.
4. `reap_gap`: a process that hosts reaps after the requests of a frame and before the next pins, so a
   travel into a warm world whose dwell is over loses its destination, against `Application.h:1912`.

Seen while modelling and kept as hazards: an end that has heard nothing acknowledges sequence 0 by default
(`Net/Connection.cpp:119`), so two ends that both transmit before they hear retire each other's lost packet
0 (the server of this program speaks only once spoken to, `Answering`, and there the property holds);
families of two sessions registered under one stem write a commit record that `Open` refuses; a client that
rejects an accepted world leaves its seat on the server; a warm hold outlives the world that
`WorldDirectory::Close` takes from under it; the capture of a pose asks every gameplay join and keeps the
last answer.

## 8. Not modelled

- Bytes: encodings, checksums, parsing of records, migration of a record's version, observers and capture
  hooks of a store, its lock file.
- The newest-wins channel, congestion, timeouts and the closing of a connection.
- `Host`: a client's report that it is ready and what waits for it, world data, game messages, the host's own
  joins (`AutoJoin`), travels the server starts unprompted, `CloseWorld` under its players, checkpoints of
  the records. `Presentation`: a `Place` hook of the consumer, reconfiguration of the viewport list, seats
  and overlays, a record that is removed from the store while it is cached.
- What is mixed: gains, buses, effects, spatialisation, resampling; scopes that hold or mute voices; the
  block tap.
- `TaskSystem`: a loop of none or one range (inline), a loop within a loop's body, two `ForEachWorker` at
  once (they would wait for each other; the one caller is `Context::InitializeTransferPools`), a second
  `Then` on a task (it replaces the first) and `Then` after `Get` (it sees a moved-from value).
- The components of section 1 that are not in bold: planned in section 2, or sequential, numeric or pure
  I/O, with the reason for each in `PROJECT.json`.
