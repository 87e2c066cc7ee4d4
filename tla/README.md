# A formal model of vfio-sensor-bridge

TLA+ modules for the parts of vfio-sensor-bridge whose correctness depends on
the order in which threads, processes and machines act, from the kernel driver
through the host daemon to the agent in the guest and the tools beside them, the
TLC configurations that model-check them, and TLAPS proofs.

`PROJECT.json` lists the components, the runs, the source lines behind every
definition (`map`), the hazards of the code with the properties that cover
them, a mutant per checked property, and the theorems.

To repeat the work, in this directory:

    tlc -workers 2 -config MCVsbHwmon_safety.cfg MCVsbHwmon
    tlapm VsbHwmonProofs.tla
    tlapm CacheFileProofs.tla
    tlapm WireProofs.tla
    tlapm FilterProofs.tla
    tlapm PartsProofs.tla
    tlapm HostdProofs.tla
    tlapm HookRunnerProofs.tla
    tlapm AgentProofs.tla

## 1. The system

A guest agent reads hwmon sensors and sends framed JSON over virtio-serial; the
host daemon `hostd` keeps a runtime per VM and drives a kernel module through
ioctls; the module shows the sensors as hwmon devices of the host.

    agent-linux --(Hello, Schema, Sample, Heartbeat, Goodbye)--> hostd
    agent-linux <--------------(RequestResync)------------------ hostd
    hostd --(SET_SCHEMA, SET_VALUES, REMOVE_VM)--> vsb_hwmon.ko --> sysfs readers
    hostd --> persistent-vms.json (cache), hooks, status socket

### Inventory

**Kernel driver** (`kernel/vsb_hwmon.c`). State: the list `vsb_vms` of
`struct vsb_vm` under the mutex `vsb_lock`; a registered hwmon device per
object. Operations: `SET_SCHEMA` (snapshot under the lock, register without it,
commit under it, free without it), `SET_VALUES` (validate all, then store all),
`REMOVE_VM`, module init and exit, the sysfs `show` functions. Hard: the gap
between snapshot and commit; freeing while a reader is inside; error paths that
must free exactly what they built; waiting for readers who wait for the mutex.
Correct when no object leaks or is used after it was freed, a VM has one entry,
no schema overwrites an update it has not seen, values pass the limits, calls
return.

**hostd connection handlers and schema application** (`hostd/src/linux.rs`,
`runtime.rs`). State: `state` (a `VmRuntime` per VM), `hwmon_names`, the set of
active sockets, one mutex each, and a mutex around the driver. A thread per
connection reads frames and handles messages; almost every handler releases one
mutex before it takes the next. Hard: decisions that are stale when they are
carried out; failures after half of an operation; generations that restart with
the agent. Correct when the runtime describes the device in the driver,
a value reaches the sensor it was read from, and hostd ends up with what the
agent has.

**hostd heartbeat monitor and persistent sensors** (same file). The main thread
collects expired VMs under the state lock, then removes them or falls back to
their persistent sensors without it; after a restart it restores those sensors
from the cache file. Hard: a VM that comes back while it is being expired; one
VM failing in a round of several; crashes. Correct when persistent sensors are
never lost and no device is forgotten in the driver.

**hostd schema rate limiter** (same file). A window per VM, kept when the VM is
removed. Correct when it bounds the schemas of any interval and drops none
without reason.

**hostd persistent cache** (same file). A JSON file written to one temporary
name and renamed, by any thread that changed a runtime. Hard: several savers at
once share the temporary file; the last rename wins whatever it holds.

**hostd topology events and hooks** (`hooks.rs`, `runtime.rs`). State: a channel
from the handlers to one worker thread, the worker's map of merged events, the
child it runs. The worker debounces, merges per VM and runs commands one after
the other, each with a timeout. Hard: commands that hang while events of other
VMs arrive; merged events that must still explain the change. Correct when a
command is told, in bounded time and not too often, of what has changed.

**hostd status socket** (`linux.rs`, `vsbctl/src/status.rs`). Reads the runtime
under its lock, then sysfs under a path that was looked up when the runtime was
installed. Hard: the path is stale as soon as a device is registered again,
directories are reused, and `last_seen` has two meanings. Correct when it tells
the truth at the instant it reads.

**hostd configuration** (`config.rs`, `main.rs`). A TOML file read once.

**Wire protocol** (`crates/vsb-protocol`). A length and a text per frame, written
with two calls; a maximum; validation in both directions. Hard: the port drops
bytes and keeps no boundaries, and processes on both ends are replaced. Correct
when nothing is lost, repeated or refused as long as both sides stay.

**Agent main loop** (`agent-linux/src/linux.rs`). One thread with timers for
samples, heartbeats and rescans; a reader thread that passes on `RequestResync`.
Hard: everything slow happens in the thread that has to send heartbeats; a
rescan replaces the sensors without always announcing them. Correct when
generations follow the descriptors and the port is never silent for long.

**Agent sensor scan** (`sensors.rs`) and its **smartctl** and **hba sources**.
State: the sensor list with a cache per disk sensor, and two caches of
discoveries, misses included. Hard: hardware that comes and goes between two
steps of a scan; caches filled from caches. Correct when each chip is shown
once, under the right name, with a value that is not too old.

**Agent configuration and command line** (`cli.rs`, `config_edit.rs`,
`config.rs`). Each command reads the file, edits it, validates it, and writes it
through one temporary name. Hard: commands that meet, are killed or fill the
disk. Correct when the agent can load what commands leave and no edit is lost.

**vsbctl** (`vsbctl/src`). `attach` and `detach` read a VM's QEMU arguments and
write them back; `status` prints; `smoke` tests the driver. Correct when the
channel is there once or not at all, and other options are left alone.

**packaging**. Installation files and a smoke test of the driver.

### How the parts interact

- Handler threads and the main thread share `state`, `hwmon_names` and the
  driver. All ioctls go through one mutex in hostd, so the driver sees them one
  at a time; sysfs readers are independent of that.
- hostd and the agent share nothing but two byte streams. The agent does not
  learn that hostd restarted or dropped something unless it gets a
  `RequestResync`, which hostd sends on connecting and, driven by received
  messages, again every five seconds while `schema_synced` is false.
- A crash of hostd leaves the devices in the driver and the cache file.
- Handlers notify the hook worker through a channel and never wait for it. The
  status query shares the state lock, and through sysfs the devices.
- agent.toml, the cache file and the QEMU arguments are shared with whoever else
  runs a command at the same time; only the rename protects the two files.

## 2. Modules and code

| Module | Models | Kind |
|---|---|---|
| `VsbSensors` | the sensor array of a VM and the driver's helpers on it | operators |
| `VsbHwmon` | `kernel/vsb_hwmon.c` with callers, readers, module exit | specification |
| `VsbKernelApi` | the ioctls as atomic operations on a table | abstract specification |
| `Hostd` | the threads of `hostd/src/linux.rs`, the driver as an atomic table, the agents as environment | specification |
| `SchemaRate` | the limiter in `apply_schema`, with a clock | specification |
| `HookRunner` | topology events, the hook worker, its commands | specification |
| `Agent` | the agent's loop, its scan and the smartctl caches | specification |
| `Wire` | frames on the port, in either direction | specification |
| `FileStore` | names, inodes, a temporary file with a fixed name, the rename | shared operators |
| `CacheFile` | hostd's cache file, built on `FileStore` | specification |
| `ConfigEdit` | commands that edit agent.toml, built on `FileStore` | specification |
| `QmArgs` | `vsbctl attach` and `detach` | specification |
| `Status` | the status query, against installs and removals | specification |
| `Parts` | `SchemaRate`, `CacheFile`, `ConfigEdit`, `Wire`, `QmArgs`, `Status` side by side | composition |
| `MCVsbHwmon`, `MCHostd`, `MCHookRunner`, `MCAgent`, `MCParts`, `MCSchemaRate`, `MCStatus` | inputs and symmetry for TLC | instances |
| `Filter` | the elements of a sequence that are in a set, as a recursive function | operators |
| `VsbHwmonProofs`, `HostdProofs`, `HookRunnerProofs`, `AgentProofs`, `CacheFileProofs`, `WireProofs`, `FilterProofs`, `PartsProofs` | theorems | proofs |

Definitions named "Mutant" in comments are deliberate mistakes. Nothing refers
to them; replacing the definition that follows by one of them makes the
property named in `PROJECT.json` fail, which shows that the property depends on
that code.

### VsbHwmon

A thread takes one step per lock operation: taking the mutex (`LockByCaller`,
`LockByReader`), a critical section with its unlock (`SetSchemaSnapshot`,
`SetSchemaCommit`, `SetSchemaBusy`, `SetValues`, `RemoveVm`, `ExitUnlink`,
`ExitDone`, `ReadShow`), and one step for each call made without the mutex
(`SetSchemaRegister`, `SetSchemaRegisterFails`, `Unregister`, `KFree`). The
local variables `new_vm`, `old_vm` and `expected_serial` keep the code's names;
`victim` is the argument of `vsb_free_vm`. Memory is explicit: `kzalloc` picks
an object that is not `allocated`, `kfree` gives it back, so a freed object is
reused like real memory. A full `Objects` set leaves only the failing
allocation (`Rejected`). `serial` wraps at `SerialModulus`.

Labels, channels and names decide only whether a schema is accepted. A schema
is therefore the map from ids to kinds, and everything `vsb_schema_validate`
refuses is `Rejected`. `hwmon_device_unregister` is modelled from its use: it
takes attributes from new readers (`Unregister`) and returns when the readers
inside have left (the guard of `KFree`). A file of the device pins the module,
hence exit begins only when no ioctl runs.

`unseen` is a history variable that every action keeps (`CountUnseen`): `unseen[c]`
counts how often the entry of `c`'s VM was replaced since `c` looked at it, and
stays at `SerialModulus` once the serial can say nothing any more, after a
removal (it starts again at 1) or a full turn.

`VsbKernelApi` is what callers may rely on: between call and return an ioctl
takes effect at one instant. `VsbHwmon` maps `known` to the VMs on the list,
`sensors` to their arrays, and a call that has only to unregister and free to
one that is already done.

### Hostd

`handler[v]` and `main` hold a program counter and whatever the thread carries
from one critical section to the next, such as the name read before the rate
limit, the cloned `sensor_ids`, or the sensors to preserve; `work` is what
`check_heartbeats` has collected. The code's sections map to actions as follows.

| Code | Actions |
|---|---|
| `scan_sockets`, `handle_socket` | `ScanSocket`, `Connect`, `Receive`, `ReadTimeout` |
| `apply_schema` | `SchemaName`, `SchemaDrop`, `SchemaDecide`, `SchemaUpdate`, `SchemaSet`, `SchemaSetFails`, `SchemaInsert`, the save |
| `Message::Sample` | `SampleLookup`, `SampleValues`, `SampleFails` |
| `remove_vm` on Goodbye | `ByePreserve`, `ByeInstall`, `ByeInsert`, `ByeDecideRemove`, `ByeRemove`, `ByeName`, `ByeKernel`, the save |
| `check_heartbeats` | `CheckHeartbeats`, `MainInstall`, `MainInsert`, the save, `MainForgetName`, `MainRemove`, the save, `CheckDone` |
| `save_persistent_cache` | `HandlerSnapshot`, `HandlerSave`, `HandlerSaveFails`; `MainSnapshot`, `MainSave`; `RemovedSnapshot`, `RemovedSave` |
| `restore_persistent_cache` | `Restore`, `RestoreDone` |

A save takes its snapshot under the state lock and writes it after the lock has
been released, so that two saves can meet and the older snapshot win. When a
save fails, a handler ends its connection (the `?` after it), the main thread
logs it. `alone` and `spoilt` are history variables as in `CacheFile`: the save
under way has met no other, and the file may be out of date because saves met
or one failed.

A sensor list is the sequence of its sensors; a sensor's kernel id is its
position, as `apply_schema` numbers them. Values have no content beyond the
sensor they belong to; one that is out of range is the fault `"range"`. The
driver is a table from VM to name and list, each ioctl one step, which is what
`VsbHwmon` with one caller is shown to implement (`ImplementsApi`).

The agents are the environment, translated from `run_agent`: they write Hello,
Schema and Sample together at start and on a resync, a Schema with the next
generation after a rescan, Sample and Heartbeat periodically, Goodbye on
shutdown. A write needs a connected host and room in the channel. Closing the
connection loses unread messages.

Time is abstract: `Elapse(v)` says that the heartbeat timeout has passed since
the last message, possible only when the agent is silent and everything it sent
has been read.

*Faults* come from the set `Faults`, at most `MaxFaults` together: `"crash"`
(hostd restarts), `"stall"` (an agent falls silent and comes back), `"drop"`
(the limiter drops a schema), `"ioctl"` (SET_SCHEMA fails), `"range"` (a sample
is refused), `"save"` (the cache cannot be written), `"default"` (persistent defaults are refused after their schema
was installed), and `"overlap"` (an agent speaks while the main thread is acting
on its timeout). An agent that stops, crashes and starts again is not a fault
and may happen at any time.

Without `"overlap"` an agent that was silent for the whole timeout stays silent
for the moment between the expiry and the end of `check_heartbeats`. The runs
without it say what holds apart from that race; `hostd_race` shows the race.

### SchemaRate

`schema_rate` is the map of the code, `now` the clock. The decision is one
step because the code takes it under the state lock. `accepted` is a history
variable: when, and in which window, each schema was accepted.

### HookRunner

`Schema` and `Offline` are what handlers and the heartbeat check do: they change
the sensors of a VM and notify, in one step. Between the two the worker could
only be earlier; a handler and the main thread that act on one VM at once, and
could notify in the other order, are the race of `hostd_race` and are left out
here. `Offline` includes the goodbye of a VM that hostd does not know, which
notifies all the same; `Remains` is what is left of a VM that goes. `Schema` covers the cases of
`apply_schema` that notify nobody (a change `topology_events` does not see, and,
with `SaveFails`, a cache that cannot be saved). The worker's loop is `Recv`
(which opens the window), `RecvMore`, `WindowOver`, and then per VM `Pick`, per
rule `run_hook`, and `Exits` or `Kill`; `VmDone` and `BatchDone` return to the
channel. A sensor list is a map from ids to signatures, an event carries the
list it was made from, which stands for the name and count a command gets in its
environment. `Tick` is one second and happens only when the worker waits.

### Agent

`pc` is the place of the main thread in `run_agent` and the functions it calls;
`Resync`, `Sample`, `Beat`, `Rescan`, `Sleep` are the parts of one turn of the
loop, `ScanPersistent`, `ScanHwmon`, `ScanHba`, `Discover`, `Identify`, `Adopt`
those of `scan_sensors`, and `ReadLive`, `ReadDisk`, `SendSample` those of
reading and writing a sample. Each step reads the hardware as it is at that
instant: `Plug` and `Fail` change it between any two. A disk answers, keeps
smartctl busy until it is killed, or is gone; one run costs nothing, or almost
the timeout, or the timeout. Time passes only there and in `Sleep`. Values are
abstracted to what they were measured on and how long ago, so `cache` and
`found` hold ages; `ReadFails` is the read of a plugged chip that fails, and gives
the default or leaves the sensor out of the sample. An entry has a `stamp` (what the code compares with the poll
interval) and an `age` (what the measurement has), which differ when a scan fills
one cache from the other. A persistent sensor is matched only against the chips
plugged in (`Matching`): one that is configured as a disk or a controller is
taken as it is. Ids of persistent sensors, hwmon directories, disks and
controllers are assumed to differ (`AgentAssumption`). Steps that keep some of a
list's sensors use `Filter`, here as in `Hostd`. In `Hostd` the agent is only a sender of messages; what
it may send, in which order and with which generations is what `Agent` yields.

### Wire

Two writes and two reads per frame, on a channel of bytes that are dropped while
nobody is connected. A byte knows its frame and position, so that the reader can
tell a whole text from a mixture; a text is decoded if and only if it is exactly
one message's. The length is little-endian over two digits, scaled so that
a shifted reader sees a length that is too large, as it does with a u32. A text of
any length that two digits can hold may be asked for; `WriteHeader` writes
neither one that does not validate nor one longer than `MAX_FRAME_SIZE`.

### FileStore, CacheFile, ConfigEdit

Names refer to inodes and open files to inodes. `fs::write` is `OpenTmp`
(truncates what the temporary name refers to) and `WriteTmp` (writes to the
inode it opened, whatever its name is now), `fs::rename` is `RenameTmp` or
fails. `alone` and `mixed` are history variables: whether a save met another, and
whether a save alone has repaired the file since.

`CacheFile` adds the threads of hostd that change the runtime and save it, a
crash, and `run` at start, which does not start on a file it cannot parse. The
runtime is the number of its last change. `ConfigEdit` adds the commands:
`Edit` reads, edits and validates in memory, as `set`, `add` and `remove`;
`InitConfig`; kills; and an editor. `AsI64` is the cast that makes a
number beyond `i64::MAX` negative. A `Document` is a number per table and a list
of ids; what an editor leaves is any documents that can be parsed, valid or
not (a file that cannot be parsed is refused by every command). `load_config`
refuses a file of more than 1 MiB: `MaxSensors` is how many sensors fit (`Fits`).
`CacheFile` and `Hostd` look at the same saves, the one at the file, the other at
what is saved and when.

### QmArgs and Status

In `QmArgs` an option and its value are one element of `Options`, which are the
channel's and others' (`Theirs`), `qm config` and `qm set` one
step each, and other tools edit and clone in between. In `Status` the handler
and the main thread install and remove a VM's device in the code's order
(`Register`, `FindPath`, `Insert`; `Forget`, `RemoveVm`), a neighbour uses the
same directories, and a query reads the runtime and the values in two steps
under the state lock (`Unlocked` is the guard of everything that takes it).
The assumption that there are three directories says that the kernel does not
run out of them: numbers of hwmon devices have no bound.

### Parts

The components above that interact with none of the others: a variable says which
one takes steps, the others stay where they start. `Parts` gives each component's
properties their own names, so that the run `parts` and the proofs speak of the
same definitions; `MCParts` only gives values to the constants.

## 3. What the runs check

| Run | Bounds | Shows |
|---|---|---|
| `hwmon_safety` | 1 VM, 2 callers, 1 reader, 3 objects, serial mod 3 | memory, list and sysfs are consistent under every interleaving, and no update is overwritten unseen |
| `hwmon_api` | 2 VMs, 1 caller, 1 reader, 3 objects | serialised ioctls are atomic: the driver implements `VsbKernelApi`; every ioctl and every read returns |
| `hwmon_aba` | 1 VM, 2 callers | violation: see finding 1 |
| `hostd_safety` | 1 VM, 3 faults of 6 kinds, 2 generations, 3 messages | driver, runtime and cache agree between operations; after faults the agent's sensors are all in the driver |
| `hostd_two` | 2 VMs, refused defaults, a failing save | the same for VMs that share the main thread and the cache |
| `hostd_race` | 1 VM, stall and overlap | violation: see finding 2 |
| `hostd_drop` | 1 VM, one dropped schema | violation: see finding 3 |
| `hooks` | 2 VMs, 3 rules of which one is refused, 3 changes, window 2, timeout 1 | merged events explain the changes, in bounded time, once per window, and the last command knows the last sensors |
| `agent` | 4 guests of 1 or 2 sources each, samples every tick, other periods and the timeout 2 | what is shown, how old, how late; it comes to describe the hardware |
| `parts` | six components, each alone | the bounds of the limiter; whole and current files; lossless frames; sound arguments; a true status |
| `rate_sliding` | 1 VM, two windows of 3, at most 2 schemas in each | violation: see finding 4 |
| `status_online` | 1 VM and its neighbour | violation: see finding 5 |

`parts` checks `Parts`, a composition in which the components do not interact: the initial
state chooses one of them, the others stay where they start. Their states add
up, and each component keeps a specification of its own.

**Why the bounds are enough.** *hwmon*: two callers are needed for a change
between snapshot and commit, and suffice for it, since the VM is touched by one
other commit or removal; three objects hold the listed one and one per caller;
a serial modulo 3 lets it wrap and pass through 0 after a few schemas. One VM
suffices for safety because calls for different VMs meet only in the list;
`hwmon_api` has two. *Hostd*: sensor `p` is persistent and second in the list
`<< d, p >>`, so that falling back to it renumbers it; generations 1 and 2 tell
an old schema from a new one and a restarted agent from one that has rescanned;
three messages are what an agent writes at once; three faults let a crash hit
the recovery from another fault. *SchemaRate*: the clock covers two windows and
the boundary between them; four counted schemas are the limit and two drops.
*HookRunner*: two VMs are one batch whose second VM waits for the commands of
the first; three changes put one event in the batch, one in the window and one
in the channel; a rule for every kind, one for some and one that is refused for
its relative path exercise the matching.
*Agent*: a guest combines what can stand in each other's way: two chips that
match one persistent sensor and two directories, a disk that is also a persistent
sensor, a controller with a persistent sensor. More of the same would only
repeat the same steps: sources meet in the sensor list, and there two by two.
Periods of 1 and 2 let timers come apart, and a timeout as long as a poll lets
a cache expire while a disk is being waited for.
*Files*: three inodes suffice because at any time at most the file, the temporary
file and one file that lost its name while it was open are in use for two
writers; four changes or commands let two meet and two more repair or fail to.
*Wire*: five frames of two lengths: one cut, and enough after it for the
shifted reader to read a whole text as a length; a third length is too large. *QmArgs* needs no bound.
*Status*: three directories are the VM's device, its successor and the
neighbour's; a timeout of 2 has an instant before it.

**Fairness.** In `VsbHwmon` a thread inside the kernel continues (weak
fairness), a waiter on a mutex that is freed again and again gets it (strong:
the kernel's mutex hands over to waiters), and no thread has to start an ioctl
or a read. In `Hostd` the main thread and the handler threads are scheduled,
the main loop scans sockets every second, a connected agent that is up answers
a resync and sends heartbeats (strong, because connections come and go), and
while a schema is missing a received message again and again finds the five
second retry due. Nothing obliges an agent to start, to stop or to rescan; the
liveness property is about an agent that stays up. In `HookRunner` the worker
thread is scheduled and time passes (weak fairness of `Worker` and `Tick`); a
command need not exit, `Exits` is not fair. In `Agent` the one thread goes on
(weak fairness of `Step`), because smartctl is killed after its timeout. That
takes for granted that the kill ends it: `smartctl.rs` waits for the process
after the kill, and a process in uninterruptible sleep would hold the agent
there, silent, until it wakes up.

**Deadlock** is checked in every run but `parts`, where the limiter stops when its
clock ends and the files when their changes are used up.

**Properties.** Each is stated in a comment at its definition. Some deserve a
remark. `KernelMatchesState`, `NoOrphanDevice` and `CacheMatchesState` speak of
moments when no thread is between two sections of an operation on that VM:
inside an operation the code does not promise them. `NoOrphanDevice` makes an
exception once hostd has crashed: a VM without persistent sensors is then in
no file, and if it never comes back its device stays.

`EventuallyTold` holds as long as the cache can be saved. With `SaveFails` it
does not: `apply_schema` returns before it notifies. `FileIsWhole`,
`FileIsCurrent`, `AgentCanStart` and `EditsAreSerial` speak of saves that did not
meet, and of those that did once one alone has repaired the file: the shared
temporary name does not protect more. `AgentCanStart` also excepts a file longer than the 1 MiB that `load_config`
accepts: `write_doc` validates a document but does not measure it, so that adding
sensors one by one can leave such a file. `ArgsAreSound` excepts, for the options of
others, a command whose read was out of date when it wrote, and a clone, which
names its source's socket. `AgentIsTrue` in `StatusIsTrue` says that a VM called
online was heard or its defaults installed within the timeout; that the second is
not what the protocol says of the field is finding 5 (`OnlineMeansHeard`).
`FreshEnough` bounds the age of a value by one poll, plus the longer of a poll
and a timeout, plus a timeout for each disk sensor: a scan puts a discovery's
temperature, almost a poll old, or taken almost a timeout ago, into a new source
as if it had been read now, and the other disks are read before the sample is
sent. That the second term is not simply another poll was found by the proof: for
a timeout longer than two polls TLC then finds a sample that is older.
`ValuesAccepted` says that a value of a listed VM came through the limits of some
kind its id has in a schema. It does not say that the value is within the limits of
the kind it is shown as (`ValuesInRange`, which no run checks): SET_SCHEMA carries
values over by id alone (`kernel/vsb_hwmon.c:370`) and hostd numbers sensors by
position, so a sensor of another kind may start with a value outside its limits
until the next sample. `SeesUpdates` excepts a VM that was removed meanwhile, which
is finding 1, and a serial that went all the way round.

`CacheMatchesState` excepts saves that met, and one that failed, until one alone has
succeeded: the second of two renames may publish the older snapshot.
`NoMisattributedValue` is about generations, an agent's and the one before it: that
a goodbye, a timeout or a resync comes between the lookup of a sample's numbers and
their use would take an agent that speaks while it is being expired, since one
thread handles all messages of a connection. `TrueSource` and `ShownOnce` claim
nothing while chips move: the scan reads them one after the other. For a read that
fails, `TrueSource` allows the default, and `CatchesUp` wants reads that succeed
from some time on. `EventuallyInSync` wants, after an error, a crash of hostd that
follows it; without one a schema can be lost for good (finding 3). It takes for
granted that hostd does not die inside a request's frame, which the agent's reader
would not survive (`RefusedOnlyIfCut`). `AtMostTwice` is what holds of the limiter,
whose window does not slide (finding 4).

## 4. Findings

1. *A commit can replace an entry that its snapshot has not seen*
   (`hwmon_aba`). The comment at `kernel/vsb_hwmon.c:381-383` calls the serial
   check ABA-safe, but the serial restarts at 1 with every new entry.
   The structure stays consistent (`ExactlyOneOwner`, `OneEntryPerVm` hold);
   the device only starts with older values. hostd serialises its ioctls, so it
   takes a second user of the device file.
2. *An agent that comes back during its own expiry loses its registration*
   (`hostd_race`): `check_heartbeats` acts on what it collected under a lock
   that it has released.
3. *A schema dropped by the limiter is not asked for again* (`hostd_drop`),
   against the comment at `hostd/src/linux.rs:327-329`.
4. *The limiter's window does not slide* (`rate_sliding`), against the comment at
   `hostd/src/linux.rs:441-442`: bursts at the end of one window and the start of
   the next add up.
5. *A VM is called online whose agent has not been heard* (`status_online`), against
   `crates/vsb-protocol/src/lib.rs:99` and `:102`: installing persistent defaults,
   at start, after a goodbye or a timeout, stamps the runtime as seen now.

## 5. What is proved

### The driver (VsbHwmonProofs)

For every set of VMs, callers, readers, objects, accepted schemas and batches,
and every serial width of at least 2, from the assumptions named in `VsbHwmon`
(schemas map ids to kinds, batches are sequences of id and value, NULL is not
an object, the owner of a free mutex is not a thread, callers and readers
differ):

| Theorem | States |
|---|---|
| `TypeCorrect` | `Spec => []TypeOK` |
| `OwnershipTheorem` | `Spec => []ExactlyOneOwner`: no leak, no double free |
| `MemorySafety` | `Spec => []NoUseAfterFree` |
| `Uniqueness` | `Spec => []OneEntryPerVm` |
| `SysfsTheorem` | `Spec => []SysfsMatchesList` |

None of these is inductive. `Invariance` proves the strengthening `IInv`:

- *ownership* (`Pointers`, `Unlisted`, `Apart`, `Owned`): what a call builds or
  frees is allocated, not on the list, and no other call's object; every
  allocated object is listed, being built or being freed (without the last part
  a leak is not excluded, without the others a commit could list a freed
  object);
- `Devices`: listed objects are registered, registered ones allocated, and an
  object that a call builds or frees is registered exactly in the steps between
  its registration and its unregistration;
- `Keys`: `OneEntryPerVm`, and the object a call builds carries the VM the call
  was given, so that the entry a commit unlinks is the only one for that VM;
- `Unloading`: once the module is going no ioctl is inside it, and no VM is
  listed when the exit loop is over;
- `Readable`: the object of a reader is allocated.

The proof has one lemma per action, and in it one step per part that the action
disturbs. The serial plays no role in it: uniqueness follows from the commit
looking the entry up again under the lock. The serial matters for lost schemas.

### The driver's serials and values

On top of `IInv`, for the same constants:

- `SerialTheorem` (`Spec => SeesUpdates`). The invariant `Numbered` says
  that what a call is about to commit carries the serial after the one its
  snapshot saw. A step leaves the entry of a VM alone, removes it, or replaces it
  by one whose serial is the next (`Fate`); so the serial a call finds is as many
  steps after the one it saw as `unseen` counts (`Tracked`), and as long as these
  are fewer than a full turn, an equal serial means none.
- `RangeTheorem` (`Spec => []ValuesAccepted`), for schemas that may give an id any
  kinds. The invariant `Sane` says that every value of an allocated object, listed
  or not, has passed the limits of some kind of its id: objects that are being
  built receive values too, and from arrays of other schemas. `AcceptedEntries`
  takes the least entry of a batch that fails, so that an accepted batch has none.

### The driver as atomic operations

`ApiTheorem` (`Spec => ImplementsApi`), under `OneCaller`: there is one thread
that calls ioctls, which is what hostd's mutex around `KernelDevice` amounts to
(`hwmon_aba` shows what another user of the device can do). Readers, objects, VMs,
schemas and batches are any number. `Known`, `Table` and `Calls` name the
refinement mapping. The invariant `Alone` adds to `IInv` that what a call builds
is its schema, and after the snapshot its schema with the values of the entry it
will replace (`Carried`), that a call inside the driver names a VM (`Named`) and
that the exit loop runs only in a module that is going (`Exiting`). With it every
step maps to one operation of `VsbKernelApi` or to a stutter: `TableKept` covers
the steps that write unlisted objects only, `RowChanged` those that change the
entry of one VM, of which there is one by `OneEntryPerVm`. A call takes effect at
its commit, at the unlock of SET_VALUES or at the unlinking; unregistration and
kfree come after it and are stutters.

### The cache file (CacheFileProofs)

From `VersionAssumption` (texts, `Empty`, `Torn` and `None` differ), for any
number of threads, changes and inodes: `TypeCorrect`, `WholeFile`
(`FileIsWhole`) and `CurrentFile` (`FileIsCurrent`). A thread that is alone in a
save is the only one in a save (`Alone`), its descriptor refers to the
temporary file, which is never the inode of the file (`Apart`) and holds what the thread
has written so far (`Exclusive`), and its snapshot is the last state unless
another thread is about to save (`Latest`): that other thread then repairs
what the rename leaves out of date. While hostd is down nobody saves (`Down`).

### The port (WireProofs)

From `WireAssumption`, for any kinds of messages, any base and maximum and any
number of frames: `LosslessTheorem` and `RefusalTheorem`. What the assumption says
of the numbers is what a u32 gives: a text has at least one byte and a length of
two digits, and a byte of text read as the upper digit makes a length that is
refused.

The obvious argument, about the frames that were written and not yet read, breaks
when either process dies. The invariant follows the bytes instead. As long as no
frame was `cut`, every byte on its way is followed by the rest of its frame, and
that by the next frame (`Follows`, `Stream`), and the state of the reader says
where in a frame the first byte is (`Expected`); so what is read as a length
is one, and what is read as a text is one (`HeadOfStream`, `BodyOfStream`). A new
connection or a dead process throws away a prefix or all of the stream, which
keeps it. Without loss the first frame on its way is moreover the next one to be
delivered (`NextFrame`). After a cut nothing is claimed of the bytes, but a refusal
is then explained (`Ghosts`).

### Filtering a list (FilterProofs)

`Filter` is a recursive function. What it computes is shown by following it
along the indices (`UpTo`): if a claim about the first `i` elements failed for
some `i`, there would be a least one (`Least`, from the well-foundedness of `<` on
the naturals), and the step from `i - 1` excludes it. `FilterKeeps`: the result
holds exactly the elements of the sequence that are in the set. `FilterInjective`:
it repeats none that the sequence does not. `FilterType` and `FilterAll`: it
is a sequence of what it was filtered from, and the sequence itself if all are in the set.
`FilterEmpty` and `FilterAppend` say how it grows; from them follow `FilterFilter`
(filtering twice is filtering by the intersection), `FilterSame` and `FilterNone`.

### The small components (PartsProofs)

For any values of the constants that satisfy the assumptions of the components:

| Theorem | States | Inductive invariant |
|---|---|---|
| `LosslessPort`, `RefusalPort` | `PartsSpec => []Lossless`, `[]RefusedOnlyIfCut` | that of `WireProofs` |
| `WholeFileTheorem`, `CurrentFileTheorem` | `PartsSpec => []FileIsWhole`, `[]FileIsCurrent` | that of `CacheFileProofs` |
| `StartTheorem`, `SerialTheorem` | `PartsSpec => []AgentCanStart`, `[]EditsAreSerial` | `ConfigInv` |
| `ArgsTheorem` | `PartsSpec => []ArgsAreSound` | `QmInv` |
| `StatusTheorem` | `PartsSpec => StatusIsTrue` | `ToldInv` |
| `RateTypes`, `RateBound`, `DropTheorem` | `Spec => []TypeOK`, `[]AtMostTwice`, `DropIsJustified` | `IInv` |

- *The port and the cache.* `Parts` instantiates `Wire` and `CacheFile`, the proofs
  instantiate `WireProofs` and `CacheFileProofs`; `PortBehaves` and `CacheBehaves`
  show that a behaviour of the composition is one of theirs, action by action,
  and their theorems then hold of it.
- *The configuration.* `ConfigInv`: what a command will write has been validated
  (`Validated`); while nothing is mixed at most one command is under way and has
  the temporary file to itself, with its text in it before the rename
  (`ConfigAlone`, `ConfigApart`, `ConfigExclusive`); the file is what the
  commands that are done make of it, and the text of the one under way is the next
  such document (`Serial`). `Serial` is not inductive alone, because a rename
  publishes whatever the temporary name refers to.
- *The QEMU arguments.* `QmInv` says of what each command will write what
  `ArgsAreSound` says of the arguments, for a command that is not out of date with
  the others' options as they are. That a stale command keeps the channel whole
  follows from it having written all of it or nothing, whatever it read. The steps
  reduce to lemmas about filtered lists (`AttachKeeps`, `DetachKeeps`,
  `WithoutKeeps`, `AppendKeeps`).
- *The status.* `ToldInv`: `last_seen` is never later than the last message, and at
  the same time unless it stands for defaults (`SeenIsHeard`); while nothing
  clashes, one thread at a time is between two steps of an install or removal, the path it
  has found is the new device's (`UnderWay`), and when it is done so is the
  runtime's (`AtRest`).

### The rate limiter (PartsProofs)

For every limit and window: `RateTypes`, `RateBound` (`AtMostTwice`) and
`DropTheorem` (`DropIsJustified`). The invariant says of each VM that
windows start in the past (`Started`), that a schema is accepted inside its
window (`Inside`), that the last accepted schemas, as many as the current window
counts up to `Max`, are those of that window while all earlier ones belong to
windows that are over (`Current`), and that two accepted schemas `Max` apart are
in windows whose starts are at least a window apart (`Groups`). Of
`2 * Max + 1` consecutive schemas the first, the middle and the last are then
in three windows; the first was accepted before its own window ended, which is
at least a window before the last one's began. `Horizon` and
`MaxCount` only bound the model for TLC; the proof holds for any value.

### hostd (HostdProofs)

For any sets of VMs, sensors, layouts and generations, and any number of faults:

| Theorem | States | Hypotheses |
|---|---|---|
| `TypeCorrect` | `Spec => []TypeOK` | none |
| `KernelAgrees` | `Spec => []KernelMatchesState` | `NoOverlap`, `DefaultsInRange` |
| `NoOrphans` | `Spec => []NoOrphanDevice` | `NoOverlap` |
| `CacheComplete` | `Spec => []CacheMatchesState` | `NoOverlap` |
| `PersistentSensorsKept` | `Spec => PersistentSensorsStay` | `NoOverlap` |

`NoOverlap` excludes the fault of that name, `DefaultsInRange` the fault
`"default"`; all others may happen. Neither hypothesis can be dropped.
`hostd_race` shows what an agent does that speaks while it is being expired; and
if the defaults are refused after their schema was installed, hostd keeps the
old runtime for a device that has a new schema.

The invariant is `TypeOK` and, for each VM on its own, `Local(v)`:

- *who acts*: a VM that is silent, overdue or collected by the main thread has a
  handler that waits and nothing in its channel (`Quiet`, `Hushed`), the main
  thread is at a VM it has work for (`AtWork`), and nothing else runs while the
  cache is restored (`Restoring`). Almost every section releases its mutex before
  the next takes one; these conjuncts say why nobody comes in between;
- *the device*: it is what the thread in the middle of an operation is about to
  insert (`Ahead`), and otherwise what the runtime says (`Agrees`);
- *removal*: a runtime goes before its device, and a device without a runtime
  has a thread that is about to remove or to insert it, or is left from a crash
  (`Gone`);
- *stale decisions*: what was collected to be preserved and the decision not to
  install a schema again still hold (`Keeping`, `Decided`).

`CacheComplete` adds `Saved`: a snapshot on its way to the file that has met no
other is that of the state, but for VMs whose handlers are about to save (`Fresh`),
and so is the file unless it is spoilt; what is saved lists persistent sensors
only (`Whole`).

`TypeCorrect` needs only `Orderly`, the part of it that overlaps do not break. A
step of one VM leaves `Local` of the others alone (`OtherHandler` and its
companions). That two VMs share nothing but the main thread and the cache is why
two of them are enough in `hostd_two`.

### The hook worker (HookRunnerProofs)

For any number of VMs, sensors, rules and changes, any window and timeout:

| Theorem | States | Hypotheses |
|---|---|---|
| `TypeCorrect` | `TypeOK` | none |
| `EventsInTime` | `Spec => []DeliveredInTime` | none |
| `WindowsKept` | `Spec => OncePerWindow` | none |
| `ChangesExplained` | `Spec => []EventsExplainChange` | `AllTaken`, `~SaveFails` |

`EventsInTime`: `Remaining` is what the batch being run can still cost, a timeout
for each rule that is left. It falls by a second with every second, so the age of
an event in the channel plus `Remaining` stays within the cost of a batch, and
that of a pending one within two batches and the window (`Ages`). `WindowsKept`
follows from `Apart`: when the worker takes a VM's event, the command for the
VM before that is at least a window old. For `ChangesExplained` the sensors a command was told,
the event being run, the one pending, those in the channel and the
present sensors form a chain (`Ran`, `Merged`, `Queued`, `Settled`): each event
contains the difference between what comes before it and the list it carries. The
chain needs a rule for each kind that is run (`AllTaken`), since a VM whose event no rule
takes is not told, and a cache that can be saved (`~SaveFails`), since otherwise
`apply_schema` changes the sensors and notifies nobody.

### The agent (AgentProofs)

For any number of chips, disks, controllers and persistent sensors and any periods:

| Theorem | States |
|---|---|
| `TypeCorrect` | `TypeOK` |
| `EachChipOnce` | `Spec => []ShownOnce` |
| `SamplesAreTrue` | `Spec => []TrueSource` |
| `SilenceIsBounded` | `Spec => []QuietBounded` |
| `ReadingsAreFresh` | `Spec => []FreshEnough` |
| `GenerationsTellSchemas` | `Spec => GenerationFollows` |

- `Listing`: what the scan still has to do and what it has listed are apart, and
  what it has listed are sources that no other sensor has. The steps of the
  scan differ in how they keep it: persistent sensors claim their source, chips
  and disks that are claimed are left out.
- `Sent`, `Current`, `Sampled`: the schema the host has is that of the generation
  sent with it, the sensor list is the one announced unless the loop is about
  to announce it, and a sample is made of values read from that list.
- `Timed`: a turn of the loop costs at most two runs of smartctl per disk in
  the scan and one per disk sensor in a sample; `LeftDisks` and `Cardinality`
  count those still to come, and what has passed with what is to come stays
  within the bound.
- `Fresh`: the age of what a cache holds exceeds its stamp by less than the longer
  of a poll and a timeout, plus a timeout while it is being put there; reading
  the other disks adds a timeout for each (`ReadTime`).

The attempt to prove these found two errors of the model that its small runs could
not show: the bound of `FreshEnough` for timeouts longer than polls (see section
3), and a `Matching` that was not defined for a persistent sensor with a disk as
its source.

The invariants of `HostdProofs`, `HookRunnerProofs` and `AgentProofs` were first
checked by TLC as invariants of the runs `hostd_safety`, `hostd_two`, `hooks` and
`agent`; so were `ConfigInv`, `QmInv`, `ToldInv`, the invariant of the limiter and that of
`WireProofs`, with the instance of `parts`.

### What only TLC checks

Liveness under fairness is out of the prover's reach: `IoctlReturns`, `ReadReturns`,
`EventuallyInSync`, `EventuallyTold`, `CatchesUp`. `NoMisattributedValue` is
left to `hostd_safety` as well. Every other property that a passing run checks is stated
by a theorem. TLC also shows what proofs under hypotheses leave
open: that the hypotheses can hold while the interesting things happen, and, in
`hwmon_aba` and `hostd_race`, that they cannot be dropped.

## 6. Not modelled

- Data formats: the page protocol of LSI controllers and the table of their
  chips (`hba.rs`), the parsing of smartctl's text and the label templates
  (`smartctl.rs`), attribute names and wildcards in `sensors.rs`, JSON and TOML
  texts. They are functions of strings without state; what their results lead
  to (a controller answers or not, a disk is identified or not, a text decodes or
  not) is in the models.
- The layout of the ioctl structures and the numbering of channels per kind.
- Reading hostd's own configuration, once at start; the policy is a constant of
  `Hostd`, the rules one of `HookRunner`.
- The status socket itself and printing in `vsbctl` and `agent-linux`; only what
  is said of the agent and the origin of the values are modelled.
- `vsbctl smoke` and packaging: they test and install, in sequence.
- A connection attempt that fails changes nothing and is repeated: it is
  left out. A poisoned mutex (a panic while holding it) is left out.
- Whether the hwmon *name* is right after a heartbeat removal without a new
  Hello (`hostd/src/linux.rs:649`): the name is part of `Hostd`, but no property
  is about it, since the documentation does not say what should hold.

## 7. Plan

Done, in this order: the driver, because every reading passes through it and its
errors are memory errors; hostd's threads; the limiter; the hook worker; the agent;
the files; the port; the tools.

The proofs followed in the same order; the safety and action properties of all
passing runs but `NoMisattributedValue` are proved.

What would extend the models: `Hostd` with the hwmon name in its liveness
property; `Agent` in the place of `Hostd`'s environment, and `Wire` between
the two, for which the state of the parts would have to be reduced first.
