# A TLA+ model of BaggageClaim

BaggageClaim is Concourse's volume manager: an HTTP server that creates,
describes, fills and destroys volumes (directory trees with metadata) on a
worker, and a client library that talks to it. This directory models the
library, the server, the repository, the drivers and the start of the process,
checks them with TLC on small instances and proves most of the safety results with
TLAPS for every size.

Paths below are relative to `src/`.

## 1. Inventory

| Part | State | Operations | Used by |
|---|---|---|---|
| Lock manager, `volume/locker.go` | a mutex; a map from handle to an entry with a count and a one-place channel | `Lock`, `Unlock` | repository |
| Repository, `volume/repository.go` | none of its own | `CreateVolume`, `DestroyVolume`, `DestroyVolumeAndDescendants`, `ListVolumes`, `GetVolume`, `SetProperty`, `GetPrivileged`, `SetPrivileged`, `StreamIn`, `StreamOut`, `StreamP2pOut`, `VolumeParent` | server |
| Filesystem, `volume/filesystem.go` | directories `init/h`, `live/h`, `dead/h`, symlinks to parents | `NewVolume`, `Initialize`, `Destroy`, `LookupVolume`, `ListVolumes`, `Parent` | repository, strategies |
| Metadata, `volume/metadata.go` | `properties.json` and `privileged.json` in each directory | load and store | filesystem |
| Strategies, `volume/*_strategy.go` | none | `Materialize`: empty, import, copy-on-write | repository |
| Drivers, `volume/driver/*` | data directories; overlay mounts; btrfs subvolumes | create, copy on write, destroy, recover | filesystem |
| Promise, `volume/promise.go` | a volume, an error, a `sync.RWMutex` | `IsPending`, `GetValue`, `Fulfill`, `Reject` | server |
| Promise list, `volume/promise_list.go` | a map from handle to promise, a mutex | add, get, remove | server |
| Server, `api/volume_server.go` | the promise list | one handler per route | clients |
| Client, `client/*` | per future: the handle | `CreateVolume` (post, wait, destroy the future), ... | users |
| Streaming, `volume/stream*.go`; P2P, `api/p2p_server.go` | none | tar and compression in and out | repository |
| UID/GID maps, `uidgid/*` | the maps of the kernel | namespacing of a tree, of tar | repository, drivers |
| Command, kernel version, `baggageclaimcmd/*`, `kernel/*` | start-up only | id maps, choice of a driver, size of the image, `Recover` | - |
| Btrfs image, `fs/btrfs.go`, `cmd/fs_mounter` | an image file, a loop device, a mount | `Create`, `Delete` | command |

**How they interact.** Every HTTP request runs in a goroutine of its own and
calls the repository directly; an asynchronous creation starts a second
goroutine that shares a promise with the handlers that check or cancel it. The
repository's only synchronisation is the lock manager, and only four operations
use it: `DestroyVolume`, `SetProperty`, `GetPrivileged` and `SetPrivileged`.
`CreateVolume` and `StreamIn` rely on what `mkdir` and `rename` refuse to do. The
file system outlives the process; locks, promises and requests do not.

**What is hard.** Requests that interleave between two file-system calls; the
lock entry that is deleted while it drains; errors of clean-up that are dropped;
a kill between two calls; a cancellation that races with the end of a creation;
retried and abandoned HTTP requests; readers that take no lock, and metadata that
is overwritten under their eyes; bulk operations on a list that changes; streams
that fail after their first byte; a start that is killed half-way and repeated. `PROJECT.json` lists each of these hazards
at its line, with the properties that cover it.

**What makes each part correct.** Lock manager: mutual exclusion per key, no
panic, no leak, no starvation. Repository: clients see an atomic store; each
directory in `init/` and `dead/` has one user; what was looked up under the lock
stays true; nothing blocks a handle for ever. Promise: settled once, read
consistently. Server and client: a future that is waited for is found, one that
is not wanted is removed, a volume that was reported stays and one that was
canceled goes. Overlay driver: every volume that is served shows its own layer on
the right ancestor, starts as its parent, and keeps its data whatever happens to
other volumes. Readers and bulk operations: what is reported was true, what is
reported as destroyed is gone. Client calls: success means that it happened, and a
failure has a reason. Start-up: the server finds the volumes it had, with a driver
that fits, and files keep their owners.

## 2. Modules

| Module | Models | Composition |
|---|---|---|
| `KeyedMutex` | what `LockManager` promises | abstract specification |
| `LockManager` | `volume/locker.go`, statement by statement | implements `KeyedMutex` |
| `LockManagerProofs` | - | theorems on `LockManager` |
| `VolumeStore` | what the repository promises: an atomic map from handles to volumes | abstract specification |
| `VolumeRepository` | repository, filesystem, metadata, strategies, naive driver, namespacing | implements `VolumeStore`; uses the lock as `KeyedMutex` describes it |
| `VolumeRepositoryProofs` | - | theorems on `VolumeRepository` |
| `Future` | what a promise is to those who share it | abstract specification |
| `Promise` | `volume/promise.go` with each `RWMutex` operation | implements `Future` |
| `PromiseProofs` | - | theorems on `Promise` |
| `VolumeServer` | asynchronous creation in server and client, the promise list | uses promises as `Future` and the repository as `VolumeStore` describe them |
| `VolumeServerProofs` | - | theorems on `VolumeServer` |
| `OverlayDriver` | `volume/driver/overlay_linux.go` below the three directories, reboots and `Recover` | relies on `InitOwned`, `DeadOwned` and `LookupStable` of `VolumeRepository` |
| `OverlayDriverProofs` | - | theorems on `OverlayDriver` |
| `UnlockedRequests` | `GetVolume`, `ListVolumes`, `VolumeParent`, `DestroyVolumeAndDescendants`, the handler `DestroyVolumes`; metadata files in blocks | others change volumes in one step each, which is `VolumeStore` |
| `UnlockedRequestsProofs` | - | theorems on `UnlockedRequests` |
| `VolumeHandlers` | the responses of `api/volume_server.go` and `api/p2p_server.go` | operators |
| `ClientCalls` | what `client/*` makes of a response | operators |
| `VolumeAPI` | every call of the library but creation, over connections that break; `StreamOut`, `StreamP2pOut` | composes `ClientCalls` and `VolumeHandlers` with a store |
| `VolumeAPIProofs` | - | theorems on `VolumeAPI` and its operators |
| `KernelVersion`, `IdMaps` | `kernel/*`, `uidgid/*` | operators |
| `BtrfsImage` | `fs/btrfs.go`, command by command | part of `Startup` |
| `BtrfsDriver` | `volume/driver/btrfs.go` | part of `Startup` |
| `Startup` | `baggageclaimcmd/*`, `cmd/fs_mounter`, restarts and reboots | composes the four above |
| `StartupProofs` | - | theorems on `Startup` and its parts |
| `MC*` | instances for TLC: symmetry sets, and values of constants that are no plain sets | - |

### LockManager

`mutex`, `locks`, `count` and `ch` are the fields of the two structs; an entry
is an address from `Entries`, so an entry that was deleted from the map and is
still referred to by a goroutine differs from its successor. `pc`, `key` and
`entry` are the goroutine's position and locals. One action is one statement
that touches shared state: `LockMutex`, `Increment` (the body of the critical
section, which ends in `mutex.Unlock`), `Send`, `UnlockMutex`, `Decrement`,
`Receive`. A goroutine calls `Unlock` only when it holds the lock, as each caller
does with `defer`. Addresses are re-used once nothing refers to them, which is
what the garbage collector guarantees.

### VolumeRepository

`init`, `live` and `dead` are the three directories. A volume directory is a
record: the two metadata files (a value or `Missing`), the owner of the files in
the data directory, and the parent link. `dead` is only a set, because nobody
reads what is in it. One action is one file-system call, or a group of calls on
a directory nobody else can reach (`Describe` stores both metadata files of
`init/h` and namespaces its data; `InitOwned` is what makes the grouping sound).
Each call finds its path anew, so a request may meet a directory that was
replaced since its lookup.

- `Start` takes a request; `FirstStep` is where its operation begins.
- `LookupParent`, `MakeInitDir`, `DriverCreate`, `LinkParent`, `Import`,
  `Describe`, `Initialize`, `Discard` are `CreateVolume` with its strategy and the
  deferred clean-up.
- `Lock`, `LookupVolume`, then `Bury` (`DestroyVolume`), `LoadProperties` and
  `StoreProperties` (`SetProperty`), `NamespaceContents` and `StorePrivileged`
  (`SetPrivileged`) or `LoadPrivileged` (`GetPrivileged`), and `Unlock`.
- `DriverDestroy` and `Cleanup` are `deadVolume.Destroy`, reached from both sides.
- `LookupTarget`, `MakeTarget`, `LoadFlag`, `NamespaceTarget`, `Extract` are
  `StreamIn`.
- With `Faults` any call may fail where the code checks an error; errors the code
  drops are dropped. With `Crashes` the process is killed and restarted at any
  point: the directories stay.

What is abstracted: contents are reduced to who owns the files (`host`, `mapped`
or `mixed`), since that is all namespacing changes; a metadata file is read and
written in one step; `os.Rename` onto an existing volume directory fails, as it
does on Linux for a directory that is not empty; failures before anything is
touched (a handle or a strategy that is not valid) have no action; a
copy-on-write request without a parent handle fails before it touches anything
and is not requested. The driver is the naive one.

### Promise

`sync.RWMutex` is external and modelled from its documentation: a caller of
`Lock` shuts new readers out at once (`Lock`) and then waits for those that are
in (`Drain`). `IsPending` and `GetValue` take the read lock (`RLock`), `GetValue`
a second time through `IsPending` (`NestedRLock`). `Fulfill` and `Reject` are one
step each between their lock and unlock.

### VolumeServer

`promises` is the list; `promise`, `creator` and `target` describe each promise
and the goroutine started for it; `vols` says whose volume a handle names;
`handler` is one record per handler goroutine, `client` and `call` one per client.
The promise, the list and the repository are atomic here, which is what their own
modules establish. A client posts, waits by checking until it gets something other
than 204, and then destroys its future, whatever the answer was. `Disconnect`
(only if `Unreliable`) breaks a connection: the handler goes on, its answer is
dropped, and the client retries or gives up. `OtherUsers` adds users who create
and destroy volumes directly. Identities of promises are re-used when nothing
refers to them.

### OverlayDriver

The driver keeps the data of a volume in `overlays/h` and mounts it on the data
path: by a bind mount, or, for a copy-on-write volume, as an overlay above the
data of its oldest ancestor; a child of a child starts with a copy of its parent's
layer. `init`, `live` and `dead` record parent links and mounts (a mount moves with
its directory), `layer` the content of one file in each layer. `creating` and
`tearing` are the directories a request is at work on; because each has one user,
a request's steps on it are single actions: `NewVolume` and `NewSubvolume` (mkdir,
driver, symlink), `Initialize`, `Discard`, `DestroyVolume` (the rename), `TearDown`
and `TearDownFails` (the driver's `DestroyVolume` and the removal of `dead/h`).
`Write` is a container, or an import, that writes. `Reboot` takes all mounts and
requests away; `RecoverBind` and `RecoverOverlay` are the two loops of `Recover`,
which end before requests are served. Children are visited in any order: the code
goes by name.

Assumptions, each a named constant or guard: consumers delete children before
parents (`Childless`, from `doc.go`); with `Reuse = FALSE` a handle is created only
when nothing is left of an earlier volume of that handle, which holds for the
unique handles Concourse generates. Deleted files, i.e. whiteouts, work
directories and a `Recover` that fails are left out.

### UnlockedRequests

`live` names the volume of a handle and `vol` has its parent link and its files;
volumes have identities, so that a handle may name two of them during a request.
One request, `req`, is served in steps while others create, change and destroy
volumes. `properties.json` is a sequence of blocks, a block being what one read of
the decoder returns: `WriteMetadataFile` overwrites the first blocks and leaves the
rest, `ReadProperties` takes one block per step of the file that `OpenProperties`
has opened, and stops where the value of the first block ends. Blocks of two values
may be an error or, by accident, any value. `privileged.json` is smaller than a
block. `Size` says how many blocks a value fills. With `Faults` a store may be cut off half-way, and a destruction fail before
or after the volume is gone. `stack` has a frame for each open call of
`DestroyVolumeAndDescendants`: its handle, what is left of its list, and, as
history, the volume it has found under the handle. `RecursionEnds` is about these
volumes and not about the handles: a proof attempt showed that with four changes by
others a handle can be destroyed and created again so that two open calls are for it,
but they are never at work on the same volume. The goroutines of `DestroyVolumes` are `DestroyOne`.
`past` is history: what was true when the request came in.

Children are deleted before their parents, and a handle is not used again while a
volume links to it (`Unlinked`, from `doc.go:23-24` and the unique handles of
Concourse). Without this a link can be made to lead back to its own volume, and the
recursion need not end.

### VolumeHandlers, ClientCalls, VolumeAPI

A response is a status, whether it is JSON, the text of an error, and a body.
`VolumeHandlers` gives each handler's response to what the repository returns and
`ClientCalls` what each method of the library makes of a response; the operators
have the names of the methods. `VolumeAPI` runs them: `Call` sends a request to a
handler goroutine (`Slots`), `Serve...` is a handler with its call of the repository,
`Respond` its response and `Return` the end of the call. `Resend` is the retrying
round tripper, for requests without a body and before the response begins; `GiveUp`
is a connection that breaks for good or a canceled context. In both cases the
first handler goes on. Streams are made step by step: `StreamLookup`,
`StreamLoadPrivileged`, `StreamStat` (each by the path), `TarCmd` (opens the
directory), `TarList`, `TarRead`, then `StreamOutEnds`, or `StreamP2pOutEnds` and `Put`,
which is the peer's `StreamIn`. An archive is the set of its files, whether it was
made in a user namespace, and whether the text of an error follows it. `seen`
collects what the volumes were during the call.

Left out: bodies that are not JSON and the 400s they get, which the library never
sends or sees; compression; more than one property name.

### Startup, BtrfsImage, BtrfsDriver, IdMaps, KernelVersion

`machine` is what the server finds: the flag `--driver`, the kernel, its modules, the
tools and the disk. `server.pc` follows `Runner`: the namespacers, `Detect`,
`CreateImage` (the choice, the size and the script), `NewDriver`, `Serve`. The script
of `fs/btrfs.go` is a program counter and one action per command or test; a command
may fail and `Kill` and `Reboot` may come between any two. `Delete` and `fs_mounter`
work on the same image while the server is down. `stored` is history: the volumes
made and not removed by hand. A file is an owner, a setuid bit and whether it is a
symbolic link; `AddFile` is tar, which runs in the user namespace of the map if the
volume is unprivileged, and `SetPrivileged` the chown of all files. `subs` and `erase`
are the subvolumes of one volume and `DestroyVolume` of the btrfs driver.

Integers: `IdMaps` has 64-bit arithmetic with `Half` in the place of 2^63, for the
wrapping sum of a map line and for the size of the image, which underflows on a disk
below 10 GiB (`Reserve`). What `losetup`, `mkfs.btrfs`, `mount`, `btrfs` and the kernel's
user namespaces do is external and taken from their manuals.

## 3. Runs

| Run | Instance | Checks | Distinct states |
|---|---|---|---|
| `lock_manager` | 3 goroutines, 2 keys, 3 entries | `MutualExclusion`, `NoPanic`, `NoLeak`, `LockGranted`, `ImplementsKeyedMutex` | 84 598 |
| `repository` | 2 requests, 1 handle, 1 property; faults and crashes | `TypeOK`, `LiveComplete`, `RequestsReturn`, `ImplementsVolumeStore` | 334 808 |
| `repository_stream` | the same with imports, copy-on-write and `StreamIn` | `InitOwned`, `DeadOwned`, `LookupStable` | 2.6 million |
| `repository_owner` | 2 requests, 2 handles; nothing fails | `OwnerMatchesFlag`, `DeadNotLeaked` | 3.4 million |
| `promise` | 3 goroutines, all methods | `NoDataRace`, `AnswersHold`, `CallsReturn`, `ImplementsFuture` | 26 415 |
| `server` | 2 clients, 2 handlers, 1 handle, 3 promises; connections break | `CanceledDestroyed`, `FulfilledStays` | 932 482 |
| `server_reliable` | the same with connections that hold, and other users | `WaitFindsFuture`, `OneCreation`, `CancelRemoves`, `FutureForgotten` | 18 188 |
| `overlay` | 4 handles, 2 contents; faults and reboots | `MountsRight`, `StartsAsParent`, `DataKept` | 397 485 |
| `unlocked` | 3 handles, 4 volumes, values of 1 to 3 blocks; faults | `StoredReadable`, `Accurate`, `BulkGone`, `RecursionEnds` | 1.8 million |
| `api` | 1 handle, 2 volumes, 2 files, 2 handlers, a peer; faults, connections break | `SuccessHappened`, `AnswerTrue`, `FailureJustified`, `StreamsWhole` | 488 448 |
| `startup` | 11 machines, 17 pairs of id maps, 2 volumes, 4 directories; faults, kills, reboots | `ServesVolumes`, `OneDevice`, `DriverFits`, `OwnersRight`, `LeafFirst` | 624 380 |
| `overlay_recover` | 3 handles | `RecoverRestores`, violated: see section 6 | - |

What they show:

- The lock manager excludes per key although a deleted entry still drains; its
  `Unlock` never panics; it keeps no entry for an idle key; nobody starves.
- Without `StreamIn` the repository is an atomic store to its clients, whatever
  fails and whenever the process is killed, and every request returns and gives
  its lock back.
- With everything, `StreamIn` included, `init/h` and `dead/h` have one user at a
  time though `CreateVolume` takes no lock, and nothing is pulled away from under
  a request that holds the lock.
- If nothing fails, a destroyed volume leaves `dead/` again, and files have the
  owner the flag calls for.
- A promise is settled once; what a call has answered stays true; and every call
  returns unless a writer comes between the two read locks of a `GetValue`.
- A creation that was reported to have succeeded is not undone by a cancellation;
  a canceled one leaves no volume.
- While connections hold, a future is found while it is waited for and removed
  afterwards.
- With unique handles, mounts are right after any mixture of creations, failures,
  destructions and reboots; a copy-on-write volume starts as its parent at any
  depth; and nothing but a write, and the copy described in section 6, changes the
  data of a live volume.
- What an in-place store leaves behind the new value is never read. The readers
  without a lock report one state of a handle that changed at most once meanwhile,
  and a list misses no volume that was there all the time.
- A bulk destruction that reports success has destroyed what was there when it
  began, whatever others did meanwhile, and its recursion ends.
- The status codes of the server and the errors of the client agree: a call that
  succeeds has had its effect, also when it was sent twice; what it says was true at
  some time during the call; and it does not fail for nothing. A stream that ends
  without an error has everything that was there all the time, and after
  `StreamP2pOut` so has the other worker.
- A start that fails or is killed after any command can be repeated: the image is
  formatted once, attached once and mounted once, and its volumes are found again.
  The driver fits the machine and the image its disk.
- Owners and modes survive any number of changes of privilege, also those of files
  that tar has extracted under the map.
- Nested subvolumes are deleted without being refused.

**Bounds.** Three goroutines are needed to have one entry draining, one in use and
one goroutine arriving; `Entries` equals the number of goroutines, so allocation
never blocks. The repository's interactions are between two requests (one moves
or rewrites what the other has looked up) on one handle: handles meet only
through a parent link, which `repository_owner` has two handles for. One property
name suffices in `repository`: two are needed to see a lost update in the
abstract store, but `LookupStable`, checked in `repository_stream`, fails as soon
as the properties a request is about to write back are stale, and the refinement
is proved for any set of names. Three callers let a reader, a writer and a waiter
meet in a promise. In `VolumeServer` each client serves one future at a time and each
abandoned request occupies a handler; two of each and three promises give a
creation that runs on after its client is gone, its successor, and a stale
cancellation. One handle suffices since nothing there relates two handles. Four volumes
give the overlay driver a chain with a root, two generations that are copied, and a
volume to create or destroy beside them; two contents tell a file from its older
version.

In `UnlockedRequests` three handles give a volume, its child and its grandchild; four
identities let one of them be replaced. `MaxChanges = 2` lets a handle go and come
back during a request; requests that read two volumes see one change (`MaxListed`),
and metadata is used at two handles (`ReadHandles`). `metadata` splits the runs into
those about metadata and those that destroy in bulk, which never look at it. Values
of one, two and three blocks leave one or two old blocks behind. In `VolumeAPI` one
call is looked at, with at most two events (`MaxEvents`: changes by others and broken
connections), which is enough to lose a volume and get another one, or to lose one
and send again; two files let an archive have one and miss the other. Handlers that
outlive their call are dropped when it returns: what they may still do, other users
do as well. In `Startup` disks lie below, at and above the reserve and the smallest
file system, kernels around 4.0, and maps have one line, two, one that wraps, and two
in the wrong order. Files are followed under the naive driver and between restarts.

**Deadlock** is checked in every run but `promise`, where the program really may stop
(section 6).

**Symmetry** (requests and handles; clients, handlers and promises; contents; files)
is used only in runs without liveness properties; no specification distinguishes
members of these sets.

## 4. Fairness

- A goroutine that can run is run: weak fairness of each goroutine's own steps.
- `sync.Mutex` hands itself to a starving waiter, `sync.RWMutex` blocks new readers
  for a waiting writer and lets readers in after it, and senders on a channel are
  queued: strong fairness of `LockMutex`, `UnlockMutex`, `Send` and, in `Promise`,
  of `Acquire`.
- In `VolumeRepository` the keyed lock is strongly fair, which is `LockGranted`.
- No fairness for new requests, failures, crashes or broken connections. In
  `VolumeServer` a client that has something to send gets to send it: its goroutine
  runs and `net/http` starts a handler.
- Critical sections end: every caller defers `Unlock`.

## 5. Proofs

All statements are for arbitrary sets of goroutines, keys, handles, names, volumes,
clients, machines and maps. Assumptions are named in the module that declares the
constants, and TLC evaluates them in the runs:

- null values are outside their sets (`NullValues`, `NullActor`, `NullDir`,
  `NullValue`, `NullCaller`, `NullOutcome`, `Nulls`, `NullIds`, `NullRecords`), the
  switches are Booleans, the operations are known ones, and the bounds are numbers;
- the goroutines of the lock manager and the handles of `UnlockedRequests` are
  finitely many (`ProcsFinite`, `FiniteHandles`);
- a value fills at least one block (`Sizes`); ids and disks are 64-bit numbers and a
  map line has at least one id (`MachinesFit`, `MapsFit`, `IdsFit`); `filepath.Walk`
  comes to a directory before what is in it (`RootFirst`, `OutsideFirst`).

Where a theorem has a hypothesis on a switch (`ASSUME ~Faults`, ...), the property is
false without it: section 6 has the counterexamples, but for those with a failing or
killed process, which are plain.

**LockManagerProofs.** `MutualExclusion` is not inductive: nothing in it relates
the entries of two goroutines. `IndInv` adds that the mutex is held exactly in the
two critical sections; a counted goroutine's entry is the one in the map; two keys
never share an entry; an entry's count is the number of its users and it has one;
and a token in a channel belongs to one goroutine, also in a deleted entry. Then
two goroutines in the critical section of one key share an entry and hence a
token. Theorems: `Invariance`, `TypeCorrect`, `MutualExclusionHolds`,
`NoPanicHolds`, `NoLeakHolds`, `Refinement`.

**VolumeRepositoryProofs.** `TypeOK`, `LockOwned`, `InitOwned`, `DeadOwned`,
`LookupStable` and `RequestServed` (a request takes only the steps of its own
operation) are inductive together (`Invariance`), with faults, crashes and `StreamIn`. The argument for
`LookupStable`: only a request with the lock removes or rewrites `live/h`'s
metadata; `Initialize` adds a directory only where there is none; `StreamIn`
touches data only, or makes a directory that was missing. `Refinement` needs two
more facts and the hypothesis that `StreamIn` is not requested: a directory that
is about to go live has the metadata of its request (`InitDescribed`), and what is
in `live/` has metadata. The hypothesis is necessary: see section 6.
Each step then maps to one operation of `VolumeStore` or to none
(lemmas `Visible` and `Invisible`). `LiveCompleteHolds` (again without `StreamIn`,
with faults and crashes) adds that the directory has its data at every step after the
driver has made it (`InitFilled`). `DeadNotLeakedHolds` is for runs in which nothing
fails or crashes, since a driver that fails, or a kill after the rename, leaves
`dead/h` behind. `OwnerMatchesFlagHolds`, under both hypotheses, follows the owner of
the files from the strategy to `Initialize` (`OwnerInit`) and through the two steps of
`SetPrivileged` (`OwnerChanging`), where the lock keeps others away.

**PromiseProofs.** `IndInv` says which locks a goroutine holds at each statement
(`ReadLocks`, `WriteLock`), that it executes the method it was called for
(`CallServed`), that at most one field is set, and that a reader past `IsPending`
knows the promise is settled (`OneOutcome`). Theorems: `Invariance`, `TypeCorrect`,
`NoDataRaceHolds`, `AnswersHoldAlways`, `Refinement`.

**VolumeServerProofs.** There are two inductive invariants. `VolumeInv`, for
connections that may break: a promise that is not yet in the list is known to its
handler only (`FreshPromise`), and the state of a creating goroutine fits that of its
promise and of its volume (`CreationsOK`); from it `CanceledDestroyedHolds`, whoever
else uses the repository, and, for `~OtherUsers`, `FulfilledStaysHolds`.
`ReliableInv`, for connections that hold and any other users: a call and its handler
are about one request (`CallsMatch`), a future is in the list until its client has
destroyed it (`FuturesKept`), and a goroutine creates a volume only while its promise
is pending and listed (`CreatorsListed`); from it `WaitFindsFutureHolds`,
`OneCreationHolds` and `CancelRemovesHolds`.

**OverlayDriverProofs.** `findRootParent` follows links up to a volume without
parent. What a recursive function computes cannot be proved by induction here, so
`OverlayInv` says that there is exactly one function that solves its equation, and
that its values are reached by following links (`Unique`); creating a volume below a
live one, and removing one nothing links to, keep this (`LinkAdded` and the lemmas
after it). The rest of `OverlayInv`: a handle has one directory (`Placed`), parents of
live volumes are live (`Linked`), and mounts are on the layer of the root (`Mounted`).
Theorems, for `~Reuse`, with faults and reboots and at any depth: `MountsRightHolds`,
`StartsAsParentHolds`, `DataKeptHolds`.

**UnlockedRequestsProofs.** `UnlockedInv` joins what the request may be doing
(`PointOK`), that volumes keep their identities (`Ids`), what the files hold
(`FilesOK`: a whole file begins with all blocks of the value stored last), what
`DestroyVolumes` is done with (`BatchOK`), that a call of
`DestroyVolumeAndDescendants` still has every doomed child on its list (`TreeOK`), and
that volumes can be ranked by age so that children, and the volumes of inner calls,
are younger (`Ranked`). When the outermost call has no doomed child left, the oldest
doomed volume other than its own would have an older doomed parent: there is none
(`NoneLeft`, from the well-foundedness of finite sets).

`AccurateInv` follows the requests that read. While a handle has not changed it is what
it was when the request came in, and a file that nobody rewrote is whole (`HistoryOK`);
the file that is open is that of the volume, if the volume changed at most once
(`OpenOK`), and what has been read of it is the beginning of the value stored last
(`GotOK`); the link of a volume that did not change leads where it led (`ChildOK`); and
what has been told of a handle the request is done with is, or was, true (`SettledOK`).
`Turned` says what a change of one handle by others leaves alone: this is where it
matters that a handle is not used again while a volume links to it, and that a new
volume is a new directory. Theorems, without any hypothesis: `StoredReadableHolds`,
`AccurateHolds`, `BulkGoneHolds`, `RecursionEndsHolds`.

**VolumeAPIProofs.** The four properties speak of a call that has returned and of what
the volumes were during it (`seen`). `ApiInv` adds that the present state is in `seen`
(`Present`), which only grows: what a handler finds when it asks the repository is then
something the call has seen, whichever of its handlers it is (`HandlersOK`), and stays
so until the call returns. For streams `StreamOK` says what a handler knows at each of
its steps: the flag was that of the volume at some time (`Flagged`), the open directory
is that of the volume or the volume has gone since (`Opened`), and what was in the
volume all the time is in the archive or still on the list, unless `tar` failed
(`Archived`). The lemmas named `...Outcome` evaluate the responses of the server and
what the library makes of them; one lemma for each handler (`...Answers`, `...Step`)
then shows that its answer is sound. Theorems, with faults and unreliable connections:
`SuccessHappenedHolds`, `AnswerTrueHolds`, `FailureJustifiedHolds`, `StreamsWholeHolds`.
They assume that the empty string (`"empty"`: a request that names none) is no
encoding the server knows (`Names`), and that an address of the right family on an interface whose
name matches the configured pattern is one at which other workers reach this one
(`Reachable`): the pattern is there for that.

**StartupProofs.** `ImageInv` says what each command of the script may rely on (no
device before `losetup`, no mount before `mount`, a file system after `mkfs`),
`ServerInv` what `Runner` has found out, `StoredInv` where the volumes are; they give
`OneDeviceHolds`, `DriverFitsHolds` (with the wrapping subtraction of the reserve) and
`ServesVolumesHolds`. `FileInv` and `MapInv` give `OwnersRightHolds`: that both maps
know the largest id is shown on a minimal counterexample among the lines of a map
(`Least`). `EraseInv`, that the walk lists outer subvolumes first and the deletion
takes the last one, gives `LeafFirstHolds`. All hold with faults, kills and reboots.

`TypeOK` and `IndInv` of `LockManager` and `Promise`, and `LockOwned` of
`VolumeRepository`, and the inductive invariants of the other proof modules, are steps
of these proofs and are not checked by a run.

**Only model-checked:** liveness (`LockGranted`, `RequestsReturn`, `CallsReturn`,
`FutureForgotten`), which the prover cannot do. Every invariant, every other action
property and every refinement of a passing run is a theorem, under the hypotheses on
switches named above.

## 6. Where the code disagrees with what it says

`overlay_recover` is a violation run: after a reboot `Recover` copies the layer of a
parent over the layer of its child again, if that parent has a parent itself, and so
undoes what was written to the child. `PROJECT.json` quotes the test it contradicts.

The others below are why a property is stated, or a run configured, as it is. Those
that name a configuration can be seen by changing it:

- `"StreamIn"` among the operations of `MCVolumeRepository.cfg` violates
  `LiveComplete`: `StreamIn` looks up `live/h`, `DestroyVolume` renames it away,
  `MkdirAll` makes it again, without metadata. The handle cannot be created after
  that, although `doc.go:18-21` says that volumes are born, exist and die.
- A creation that fails because its handle is taken cannot move `init/h` to `dead/h`
  while that handle's volume is being destroyed; the error is dropped and `init/h`
  blocks later creations. A failed import and a failed first store leave `init/h`
  behind as well.
- `GetValue` holds the read lock and asks for it again through `IsPending`; with a
  writer in between both wait for ever. `CallsReturn` excludes this (`Stuck`) and
  nothing else.
- `"StreamIn"` among the operations of `MCVolumeRepositoryOwner.cfg` violates
  `OwnerMatchesFlag`: `StreamIn` uses a privileged flag it has read without the lock
  while `SetPrivileged` changes it.
- `Unreliable = TRUE` in `MCVolumeServerReliable.cfg` violates `WaitFindsFuture`, since
  a cancellation that is sent twice names its future by the handle and removes the
  one of a later creation; `OneCreation`, since the goroutine of a canceled creation
  runs on while another client creates the same handle; and `CancelRemoves`, since a
  cancellation that passes `IsPending` just before the creation ends answers 500 and
  leaves the future in the list, although `client.go:130` says that `Destroy` removes
  it.
- `OtherUsers = TRUE` in `MCVolumeServer.cfg` violates `FulfilledStays`: a canceled
  creation destroys whatever volume its handle names by then.
- `Reuse = TRUE` in `MCOverlayDriver.cfg` violates `MountsRight`, `StartsAsParent` and
  `DataKept`: layers
  are named by handle, so a second creation of a live handle, which fails at the
  rename, removes the layer of the live volume when it is cleaned up.
- `DestroyVolume` of the client returns an error when the volume is not found, also
  for the second of two requests of which the first one had destroyed it;
  `client.go:68-69` says that it does not.
- `StreamP2pOut` answers for a missing volume as for a missing file, so that the client
  reports `ErrFileNotFound`.
- On a disk of exactly 10 GiB the image would have 0 bytes, and `mkfs` fails. On a disk
  that became smaller the image is cut off, with the volumes in it. A `Delete` that
  fails after `umount` cannot be repeated, because `umount` then fails.
- A file that belongs to the largest id becomes root's when its volume is made
  privileged, and stays so.

## 7. Not modelled, and the plan

Left out for good: generated fakes, `cp` and `robocopy`, compression and the
format of tar, routing, JSON and requests that are malformed, logging, metrics,
command-line parsing, the debug server, and the variants for other systems than
Linux, which have no namespaces, only the naive driver, and a library in the place
of `tar`. They are I/O or stateless glue; the model keeps whether they succeed.

A restart of the overlay driver without a reboot, which mounts every volume a second
time on its old mount: Linux leaves open what two overlay mounts with one upper
directory do, so that no faithful model can say what the data are. Whiteouts and a
`Recover` that fails half-way are not modelled either.

The next things worth modelling, in this order: a `Recover` that fails half-way, and
whiteouts of the overlay file system, which decide what a deletion below a parent's
layer leaves visible.

## 8. Running

    tlc -config MCLockManager.cfg MCLockManager
    tlapm LockManagerProofs.tla

and likewise for the others; `PROJECT.json` pairs each configuration with its
module.
