-------------------------------- MODULE Hostd --------------------------------
(***************************************************************************)
(* The host daemon hostd/src/linux.rs: the main thread (restore, socket    *)
(* scan, heartbeat check), one handler thread per VM connection, the state *)
(* they share, and the agent at the other end of each connection.          *)
(*                                                                         *)
(* A thread moves from one lock-protected section to the next in one step. *)
(* Each kernel operation is one step: hostd's ioctl mutex serialises them, *)
(* and VsbHwmon shows that serialised ioctls are atomic.  A sensor list is *)
(* the sequence of its sensors; a sensor's number in the kernel is its     *)
(* position.  What a thread carries from one section to the next is in its *)
(* record, because it may be stale by then.                                *)
(*                                                                         *)
(* Faults are drawn from a budget, so that "after the last fault" exists.  *)
(***************************************************************************)
EXTENDS Naturals, Functions, SequencesExt, Filter

CONSTANTS
  Vmids,        \* the VMs with a vm-<id>.sock in run_dir
  Layouts,      \* the sensor lists agents can report
  Persistent,   \* the sensors configured as persistent
  AgentName,    \* the hwmon name the agent sends in Hello
  DefaultName,  \* "vsb_vm_<id>", used when no name is known
  Policy,       \* heartbeat.policy
  Faults,       \* the kinds of fault that can happen
  MaxFaults,    \* how many faults happen at most
  MaxGen,       \* bound on an agent's schema generation
  MaxQueue,     \* messages in flight from an agent
  Absent        \* no entry

ASSUME HostdBounds == MaxFaults \in Nat /\ MaxGen \in Nat \ {0} /\ MaxQueue \in Nat \ {0}
ASSUME PolicyAssumption == Policy \in {"warn_only", "remove_only", "warn_then_remove"}
ASSUME FaultKinds ==
  Faults \subseteq {"crash",    \* hostd dies and is restarted
                    "stall",    \* an agent falls silent and comes back
                    "drop",     \* the rate limiter drops a schema
                    "ioctl",    \* a SET_SCHEMA fails in the kernel
                    "range",    \* a sample holds a value out of range
                    "default",  \* a persistent default is out of range
                    "save",     \* the cache file cannot be written
                    "overlap"}  \* an agent speaks while it is being expired

VARIABLES
  state,    \* VmRuntime per VM
  names,    \* hwmon_names: the name of the last Hello
  cache,    \* persistent-vms.json
  alone,    \* one save of it is under way and has met no other
  spoilt,   \* saves met or one failed, and none alone has succeeded since
  main,     \* the main thread: pc and the VM it is at
  work,     \* preserves and removals collected by check_heartbeats
  handler,  \* the handler thread of each VM
  kern,     \* the driver's device per VM
  agent,    \* the agent in each VM
  chan,     \* messages from the agent, oldest first
  resync,   \* a RequestResync the agent has not answered
  quiet,    \* last_seen is older than the heartbeat timeout
  budget,   \* how many faults may still happen
  crashed,  \* hostd has died
  erred     \* since it last started, an error ended what a thread was doing

vars == << state, names, cache, alone, spoilt, main, work, handler, kern, agent,
           chan, resync, quiet, budget, crashed, erred >>
faults == << budget, crashed, erred >>
file == << cache, alone, spoilt >>
agentVars == << agent, chan, resync >>
hostVars == << state, names, file, main, work, handler, kern >>

Off == [pc |-> "off"]
Reading == [pc |-> "read"]
Down == [mode |-> "down"]

Init ==
  /\ state = [v \in Vmids |-> Absent]
  /\ names = [v \in Vmids |-> Absent]
  /\ cache = [v \in Vmids |-> Absent]
  /\ alone = FALSE /\ spoilt = FALSE
  /\ main = [pc |-> "loop"]
  /\ work = [v \in Vmids |-> Absent]
  /\ handler = [v \in Vmids |-> Off]
  /\ kern = [v \in Vmids |-> Absent]
  /\ agent = [v \in Vmids |-> Down]
  /\ chan = [v \in Vmids |-> << >>]
  /\ resync = [v \in Vmids |-> FALSE]
  /\ quiet = [v \in Vmids |-> FALSE]
  /\ budget = MaxFaults
  /\ crashed = FALSE /\ erred = FALSE

-----------------------------------------------------------------------------
(* Helpers                                                                 *)

PersistentPart(layout) == Filter(layout, Persistent)

NameOf(v) == IF names[v] = Absent THEN DefaultName ELSE names[v]

(* A VmRuntime; its persistent sensors follow from the layout.             *)
Runtime(gen, layout, name, synced, offline) ==
  [gen |-> gen, layout |-> layout, name |-> name, synced |-> synced,
   offline |-> offline]

(* Mutant: a runtime restored from the cache counts as synchronised.       *)
NeedsResyncIfAbsent(v) == state[v] = Absent

NeedsResync(v) == IF state[v] = Absent THEN TRUE ELSE ~state[v].synced

(* A VM that check_heartbeats has to act on.                               *)
Overdue(v) == state[v] # Absent /\ ~state[v].offline /\ quiet[v]

Fault(kind) ==
  /\ kind \in Faults
  /\ budget > 0
  /\ budget' = budget - 1
  /\ crashed' = (crashed \/ kind = "crash")
  /\ erred' = (kind # "crash" /\ (erred \/ kind # "stall"))

(* save_persistent_cache.  Under the state lock it takes an entry for every *)
(* VM with persistent sensors; the file is written and renamed after the   *)
(* lock has been released.  (CacheFile takes these apart.)                 *)
Snapshot ==
  [v \in Vmids |->
     IF state[v] = Absent \/ PersistentPart(state[v].layout) = << >>
     THEN Absent
     ELSE [gen |-> state[v].gen, name |-> state[v].name,
           layout |-> PersistentPart(state[v].layout)]]

Saving == main.pc \in {"write", "last"} \/ \E v \in Vmids : handler[v].pc = "write"

BeginSave ==
  /\ alone' = ~Saving
  /\ spoilt' = (spoilt \/ Saving)
  /\ UNCHANGED cache

Save(snap) ==
  /\ cache' = snap
  /\ spoilt' = (spoilt /\ ~alone)
  /\ alone' = FALSE

SaveFails ==
  /\ Fault("save")
  /\ spoilt' = TRUE
  /\ alone' = FALSE
  /\ UNCHANGED cache

(* The handler returns: its connection closes and unread messages are lost.*)
Close(v) ==
  /\ handler' = [handler EXCEPT ![v] = Off]
  /\ chan' = [chan EXCEPT ![v] = << >>]

Goto(v, record) == handler' = [handler EXCEPT ![v] = record]

-----------------------------------------------------------------------------
(* The agent.  It writes only while the host side is connected, and writes *)
(* Hello, Schema and Sample together when it starts or is asked to resync. *)

Connected(v) == handler[v].pc \notin {"off", "connect"}

(* Without "overlap", an agent that was silent long enough to be expired   *)
(* does not speak again before the main thread is done with it.            *)
Calm(v) == "overlap" \in Faults \/ (work[v] = Absent /\ ~Overdue(v))

Hello == [type |-> "hello"]
Schema(gen, layout) == [type |-> "schema", gen |-> gen, layout |-> layout]
Sample(gen, layout) == [type |-> "sample", gen |-> gen, layout |-> layout]
Heartbeat == [type |-> "heartbeat"]
Goodbye == [type |-> "goodbye"]

Send(v, msgs) ==
  /\ Connected(v)
  /\ Len(chan[v]) + Len(msgs) <= MaxQueue
  /\ chan' = [chan EXCEPT ![v] = @ \o msgs]

AgentStart(v) ==
  /\ agent[v].mode = "down"
  /\ Calm(v)
  /\ \E l \in Layouts :
       /\ agent' = [agent EXCEPT ![v] = [mode |-> "up", gen |-> 1, layout |-> l]]
       /\ Send(v, << Hello, Schema(1, l), Sample(1, l) >>)
  /\ resync' = [resync EXCEPT ![v] = FALSE]
  /\ UNCHANGED << hostVars, quiet, faults >>

(* A resync is answered with the current generation.                       *)
AgentResync(v) ==
  /\ agent[v].mode = "up"
  /\ resync[v]
  /\ Send(v, << Hello, Schema(agent[v].gen, agent[v].layout),
                Sample(agent[v].gen, agent[v].layout) >>)
  /\ resync' = [resync EXCEPT ![v] = FALSE]
  /\ UNCHANGED << hostVars, agent, quiet, faults >>

(* A rescan that finds other sensors starts a new generation.              *)
AgentRescan(v) ==
  /\ agent[v].mode = "up"
  /\ agent[v].gen < MaxGen
  /\ \E l \in Layouts \ {agent[v].layout} :
       /\ agent' = [agent EXCEPT ![v] =
                    [mode |-> "up", gen |-> agent[v].gen + 1, layout |-> l]]
       /\ Send(v, << Schema(agent[v].gen + 1, l), Sample(agent[v].gen + 1, l) >>)
  /\ UNCHANGED << hostVars, resync, quiet, faults >>

(* Samples and heartbeats are seconds apart: hostd has read what was sent.  *)
AgentSample(v) ==
  /\ agent[v].mode = "up"
  /\ chan[v] = << >>
  /\ Send(v, << Sample(agent[v].gen, agent[v].layout) >>)
  /\ UNCHANGED << hostVars, agent, resync, quiet, faults >>

AgentHeartbeat(v) ==
  /\ agent[v].mode = "up"
  /\ chan[v] = << >>
  /\ Send(v, << Heartbeat >>)
  /\ UNCHANGED << hostVars, agent, resync, quiet, faults >>

AgentGoodbye(v) ==
  /\ agent[v].mode = "up"
  /\ Send(v, << Goodbye >>)
  /\ agent' = [agent EXCEPT ![v] = Down]
  /\ UNCHANGED << hostVars, resync, quiet, faults >>

AgentCrash(v) ==
  /\ agent[v].mode # "down"
  /\ agent' = [agent EXCEPT ![v] = Down]
  /\ UNCHANGED << hostVars, chan, resync, quiet, faults >>

AgentStall(v) ==
  /\ agent[v].mode = "up"
  /\ Fault("stall")
  /\ agent' = [agent EXCEPT ![v] = [@ EXCEPT !.mode = "stalled"]]
  /\ UNCHANGED << hostVars, chan, resync, quiet >>

AgentResume(v) ==
  /\ agent[v].mode = "stalled"
  /\ Calm(v)
  /\ agent' = [agent EXCEPT ![v] = [@ EXCEPT !.mode = "up"]]
  /\ UNCHANGED << hostVars, chan, resync, quiet, faults >>

(* The heartbeat timeout passes without a message.                         *)
Elapse(v) ==
  /\ agent[v].mode # "up"
  /\ chan[v] = << >>
  /\ handler[v].pc \in {"off", "read"}
  /\ main.pc = "loop"
  /\ ~quiet[v]
  /\ quiet' = [quiet EXCEPT ![v] = TRUE]
  /\ UNCHANGED << hostVars, agentVars, faults >>

-----------------------------------------------------------------------------
(* The handler thread: connection and reading.                             *)

(* scan_sockets finds a socket without a handler.                          *)
ScanSocket(v) ==
  /\ main.pc = "loop"
  /\ handler[v].pc = "off"
  /\ Goto(v, [pc |-> "connect"])
  /\ UNCHANGED << state, names, file, main, work, kern, agentVars, quiet, faults >>

Connect(v) ==
  /\ handler[v].pc = "connect"
  /\ Goto(v, Reading)
  /\ resync' = [resync EXCEPT ![v] = @ \/ (NeedsResync(v) /\ agent[v].mode # "down")]
  /\ UNCHANGED << state, names, file, main, work, kern, agent, chan, quiet, faults >>

(* read_frame, mark_seen and the resync retry that every message drives.   *)
Receive(v, retry) ==
  LET m == Head(chan[v]) IN
  /\ handler[v].pc = "read"
  /\ chan[v] # << >>
  /\ retry => NeedsResync(v)
  /\ chan' = [chan EXCEPT ![v] = Tail(@)]
  /\ state' = IF state[v] = Absent
              THEN state
              ELSE [state EXCEPT ![v].offline = FALSE]
  /\ quiet' = [quiet EXCEPT ![v] = FALSE]
  /\ resync' = [resync EXCEPT ![v] = @ \/ (retry /\ agent[v].mode # "down")]
  /\ Goto(v, IF m.type = "heartbeat" THEN Reading ELSE [pc |-> m.type, msg |-> m])
  /\ UNCHANGED << names, file, main, work, kern, agent, faults >>

(* The agent is silent for the read timeout, or the VM is gone and the     *)
(* socket reports the end of file.                                         *)
ReadTimeout(v) ==
  /\ handler[v].pc = "read"
  /\ chan[v] = << >>
  /\ agent[v].mode # "up"
  /\ Close(v)
  /\ UNCHANGED << state, names, file, main, work, kern, agent, resync, quiet, faults >>

HandleHello(v) ==
  /\ handler[v].pc = "hello"
  /\ names' = [names EXCEPT ![v] = AgentName]
  /\ Goto(v, Reading)
  /\ UNCHANGED << state, file, main, work, kern, agentVars, quiet, faults >>

-----------------------------------------------------------------------------
(* Schema: apply_schema                                                    *)

(* The name is read first, under the lock of hwmon_names alone.            *)
SchemaName(v) ==
  /\ handler[v].pc = "schema"
  /\ Goto(v, [pc |-> "decide", msg |-> handler[v].msg, name |-> NameOf(v)])
  /\ UNCHANGED << state, names, file, main, work, kern, agentVars, quiet, faults >>

(* Mutant: only the name is compared.                                      *)
UnchangedName(v) ==
  IF state[v] = Absent THEN FALSE ELSE state[v].name = handler[v].name

Unchanged(v) ==
  /\ state[v] # Absent
  /\ state[v].layout = handler[v].msg.layout
  /\ state[v].name = handler[v].name

(* Under the state lock: drop for the rate limit, or compare with the      *)
(* runtime to see whether the kernel has to be told.                       *)
SchemaDrop(v) ==
  /\ handler[v].pc = "decide"
  /\ Fault("drop")
  /\ Goto(v, Reading)
  /\ UNCHANGED << state, names, file, main, work, kern, agentVars, quiet >>

SchemaDecide(v) ==
  /\ handler[v].pc = "decide"
  /\ Goto(v, [handler[v] EXCEPT !.pc = IF Unchanged(v) THEN "update" ELSE "set_schema"])
  /\ UNCHANGED << state, names, file, main, work, kern, agentVars, quiet, faults >>

(* The same sensors: only the runtime is brought up to date, if it is      *)
(* still there when the lock is taken again.                               *)
SchemaUpdate(v) ==
  /\ handler[v].pc = "update"
  /\ state' = IF state[v] = Absent
              THEN state
              ELSE [state EXCEPT ![v] =
                      Runtime(handler[v].msg.gen, handler[v].msg.layout,
                              state[v].name, TRUE, FALSE)]
  /\ quiet' = [quiet EXCEPT ![v] = FALSE]
  /\ Goto(v, [pc |-> "save"])
  /\ UNCHANGED << names, file, main, work, kern, agentVars, faults >>

SchemaSet(v) ==
  /\ handler[v].pc = "set_schema"
  /\ kern' = [kern EXCEPT ![v] =
                [name |-> handler[v].name, layout |-> handler[v].msg.layout]]
  /\ Goto(v, [handler[v] EXCEPT !.pc = "insert"])
  /\ UNCHANGED << state, names, file, main, work, agentVars, quiet, faults >>

SchemaSetFails(v) ==
  /\ handler[v].pc = "set_schema"
  /\ Fault("ioctl")
  /\ Close(v)
  /\ UNCHANGED << state, names, file, main, work, kern, agent, resync, quiet >>

(* Mutant: the cache is not saved after a schema.                          *)
SchemaInsertUnsaved(v) ==
  /\ handler[v].pc = "insert"
  /\ state' = [state EXCEPT ![v] =
                 Runtime(handler[v].msg.gen, handler[v].msg.layout,
                         handler[v].name, TRUE, FALSE)]
  /\ quiet' = [quiet EXCEPT ![v] = FALSE]
  /\ Goto(v, Reading)
  /\ UNCHANGED << names, file, main, work, kern, agentVars, faults >>

SchemaInsert(v) ==
  /\ handler[v].pc = "insert"
  /\ state' = [state EXCEPT ![v] =
                 Runtime(handler[v].msg.gen, handler[v].msg.layout,
                         handler[v].name, TRUE, FALSE)]
  /\ quiet' = [quiet EXCEPT ![v] = FALSE]
  /\ Goto(v, [pc |-> "save"])
  /\ UNCHANGED << names, file, main, work, kern, agentVars, faults >>

(* Mutant: the handler saves the entry of its own VM only.                 *)
HandlerSnapshotOwn(v) ==
  /\ handler[v].pc = "save"
  /\ BeginSave
  /\ Goto(v, [pc |-> "write",
              snap |-> [u \in Vmids |-> IF u = v THEN Snapshot[v] ELSE Absent]])
  /\ UNCHANGED << state, names, main, work, kern, agentVars, quiet, faults >>

(* save_persistent_cache at the end of a schema or a goodbye; when it      *)
(* fails the connection ends.                                              *)
HandlerSnapshot(v) ==
  /\ handler[v].pc = "save"
  /\ BeginSave
  /\ Goto(v, [pc |-> "write", snap |-> Snapshot])
  /\ UNCHANGED << state, names, main, work, kern, agentVars, quiet, faults >>

HandlerSave(v) ==
  /\ handler[v].pc = "write"
  /\ Save(handler[v].snap)
  /\ Goto(v, Reading)
  /\ UNCHANGED << state, names, main, work, kern, agentVars, quiet, faults >>

HandlerSaveFails(v) ==
  /\ handler[v].pc = "write"
  /\ SaveFails
  /\ Close(v)
  /\ UNCHANGED << state, names, main, work, kern, agent, resync, quiet >>

-----------------------------------------------------------------------------
(* Sample: the mapping from sensors to numbers is cloned under the state   *)
(* lock and used under the ioctl lock.                                     *)

(* Mutant: sensors are numbered in the order the agent last sent.          *)
SampleLookupByPosition(v) ==
  /\ handler[v].pc = "sample"
  /\ IF state[v] # Absent /\ state[v].gen = handler[v].msg.gen
     THEN Goto(v, [pc |-> "values", msg |-> handler[v].msg,
                   mapping |-> handler[v].msg.layout])
     ELSE Goto(v, Reading)
  /\ UNCHANGED << state, names, file, main, work, kern, agentVars, quiet, faults >>

SampleLookup(v) ==
  /\ handler[v].pc = "sample"
  /\ IF state[v] # Absent /\ state[v].gen = handler[v].msg.gen
     THEN Goto(v, [pc |-> "values", msg |-> handler[v].msg, mapping |-> state[v].layout])
     ELSE Goto(v, Reading)
  /\ UNCHANGED << state, names, file, main, work, kern, agentVars, quiet, faults >>

(* The numbers of the sample's sensors, those the mapping does not know    *)
(* left out.                                                               *)
SampleIds(v) ==
  {i \in DOMAIN handler[v].mapping : Contains(handler[v].msg.layout, handler[v].mapping[i])}

ValuesAccepted(v) == kern[v] # Absent /\ SampleIds(v) \subseteq DOMAIN kern[v].layout

SampleValues(v) ==
  /\ handler[v].pc = "values"
  /\ ValuesAccepted(v)
  /\ Goto(v, Reading)
  /\ UNCHANGED << state, names, file, main, work, kern, agentVars, quiet, faults >>

(* ENOENT or EINVAL ends the connection, and so does a value out of range. *)
SampleFails(v) ==
  /\ handler[v].pc = "values"
  /\ \/ ~ValuesAccepted(v) /\ UNCHANGED faults
     \/ ValuesAccepted(v) /\ SampleIds(v) # {} /\ Fault("range")
  /\ Close(v)
  /\ UNCHANGED << state, names, file, main, work, kern, agent, resync, quiet >>

-----------------------------------------------------------------------------
(* install_persistent_vm_defaults: the kernel half, under one ioctl lock,  *)
(* and the runtime that is inserted afterwards.                            *)

KernelInstalls(v, name, layout) ==
  kern' = [kern EXCEPT ![v] = [name |-> name, layout |-> layout]]

InstallSucceeds(v, p) == KernelInstalls(v, p.name, p.layout) /\ UNCHANGED faults

InstallFails(v, p) ==
  \/ Fault("ioctl") /\ UNCHANGED kern
  \/ Fault("default") /\ KernelInstalls(v, p.name, p.layout)

InsertDefaults(v, p) ==
  /\ state' = [state EXCEPT ![v] = Runtime(p.gen, p.layout, p.name, FALSE, TRUE)]
  /\ quiet' = [quiet EXCEPT ![v] = FALSE]

(* Mutant: the preserved runtime starts over at generation 0.              *)
PreservedReset(v) ==
  [kind |-> "preserve", gen |-> 0, name |-> state[v].name,
   layout |-> PersistentPart(state[v].layout)]

Preserved(v) ==
  [kind |-> "preserve", gen |-> state[v].gen, name |-> state[v].name,
   layout |-> PersistentPart(state[v].layout)]

KeepsSensors(v) == state[v] # Absent /\ PersistentPart(state[v].layout) # << >>

(* Goodbye: remove_vm                                                      *)

ByePreserve(v) ==
  /\ handler[v].pc = "goodbye"
  /\ KeepsSensors(v)
  /\ state' = [state EXCEPT ![v].offline = TRUE]
  /\ Goto(v, [pc |-> "bye_install", keep |-> Preserved(v)])
  /\ UNCHANGED << names, file, main, work, kern, agentVars, quiet, faults >>

ByeInstall(v) ==
  /\ handler[v].pc = "bye_install"
  /\ \/ /\ InstallSucceeds(v, handler[v].keep)
        /\ Goto(v, [handler[v] EXCEPT !.pc = "bye_insert"])
        /\ UNCHANGED chan
     \/ InstallFails(v, handler[v].keep) /\ Close(v)
  /\ UNCHANGED << state, names, file, main, work, agent, resync, quiet >>

ByeInsert(v) ==
  /\ handler[v].pc = "bye_insert"
  /\ InsertDefaults(v, handler[v].keep)
  /\ Goto(v, [pc |-> "save"])
  /\ UNCHANGED << names, file, main, work, kern, agentVars, faults >>

(* Mutant: a goodbye removes the VM whatever sensors it has.               *)
ByeDecideRemoveAny(v) ==
  /\ handler[v].pc = "goodbye"
  /\ Goto(v, [pc |-> "bye_remove"])
  /\ UNCHANGED << state, names, file, main, work, kern, agentVars, quiet, faults >>

(* Nothing to preserve; the state lock has been released in between.       *)
ByeDecideRemove(v) ==
  /\ handler[v].pc = "goodbye"
  /\ ~KeepsSensors(v)
  /\ Goto(v, [pc |-> "bye_remove"])
  /\ UNCHANGED << state, names, file, main, work, kern, agentVars, quiet, faults >>

ByeRemove(v) ==
  /\ handler[v].pc = "bye_remove"
  /\ state' = [state EXCEPT ![v] = Absent]
  /\ Goto(v, [pc |-> "bye_name"])
  /\ UNCHANGED << names, file, main, work, kern, agentVars, quiet, faults >>

ByeName(v) ==
  /\ handler[v].pc = "bye_name"
  /\ names' = [names EXCEPT ![v] = Absent]
  /\ Goto(v, [pc |-> "bye_kernel"])
  /\ UNCHANGED << state, file, main, work, kern, agentVars, quiet, faults >>

(* Mutant: the device is left in the driver.                               *)
ByeKernelSkipped(v) ==
  /\ handler[v].pc = "bye_kernel"
  /\ Goto(v, [pc |-> "save"])
  /\ UNCHANGED << state, names, file, main, work, kern, agentVars, quiet, faults >>

ByeKernel(v) ==
  /\ handler[v].pc = "bye_kernel"
  /\ kern' = [kern EXCEPT ![v] = Absent]
  /\ Goto(v, [pc |-> "save"])
  /\ UNCHANGED << state, names, file, main, work, agentVars, quiet, faults >>

-----------------------------------------------------------------------------
(* The main thread: check_heartbeats                                       *)

(* Under the state lock: what is to be removed leaves the state here, what *)
(* is to be preserved stays and is marked.                                 *)
CheckHeartbeats ==
  LET overdue == {v \in Vmids : Overdue(v)}
      removed == {v \in overdue : Policy # "warn_only" /\ ~KeepsSensors(v)}
      kept == {v \in overdue : Policy # "warn_only" /\ KeepsSensors(v)}
  IN /\ main.pc = "loop"
     /\ overdue # {}
     /\ state' = [v \in Vmids |->
                    IF v \in removed THEN Absent
                    ELSE IF v \in overdue THEN [state[v] EXCEPT !.offline = TRUE]
                    ELSE state[v]]
     /\ work' = [v \in Vmids |->
                   IF v \in removed THEN [kind |-> "remove"]
                   ELSE IF v \in kept THEN Preserved(v)
                   ELSE Absent]
     /\ main' = [pc |-> "work", removed |-> removed # {}]
     /\ UNCHANGED << names, file, handler, kern, agentVars, quiet, faults >>

Todo(kind) == {v \in Vmids : work[v] # Absent /\ work[v].kind = kind}

MainInstall(v) ==
  /\ main.pc = "work"
  /\ v \in Todo("preserve")
  /\ \/ /\ InstallSucceeds(v, work[v])
        /\ main' = [pc |-> "insert", at |-> v, removed |-> main.removed]
        /\ UNCHANGED work
     \/ /\ InstallFails(v, work[v])
        /\ work' = [work EXCEPT ![v] = Absent]
        /\ UNCHANGED main
  /\ UNCHANGED << state, names, file, handler, agentVars, quiet >>

MainInsert(v) ==
  /\ main.pc = "insert" /\ main.at = v
  /\ InsertDefaults(v, work[v])
  /\ main' = [main EXCEPT !.pc = "save"]
  /\ UNCHANGED << names, file, work, handler, kern, agentVars, faults >>

MainSnapshot(v) ==
  /\ main.pc = "save" /\ main.at = v
  /\ BeginSave
  /\ main' = [pc |-> "write", at |-> v, removed |-> main.removed, snap |-> Snapshot]
  /\ UNCHANGED << state, names, work, handler, kern, agentVars, quiet, faults >>

(* A save that fails is logged, and the round goes on.                     *)
MainSave(v) ==
  /\ main.pc = "write" /\ main.at = v
  /\ \/ Save(main.snap) /\ UNCHANGED faults
     \/ SaveFails
  /\ work' = [work EXCEPT ![v] = Absent]
  /\ main' = [pc |-> "work", removed |-> main.removed]
  /\ UNCHANGED << state, names, handler, kern, agentVars, quiet >>

(* Removals follow the preserves.                                          *)
MainForgetName(v) ==
  /\ main.pc = "work"
  /\ Todo("preserve") = {} /\ v \in Todo("remove")
  /\ names' = [names EXCEPT ![v] = Absent]
  /\ main' = [pc |-> "unlink", at |-> v, removed |-> TRUE]
  /\ UNCHANGED << state, file, work, handler, kern, agentVars, quiet, faults >>

(* Mutant: the first removal ends the round.                               *)
MainRemoveOnce(v) ==
  /\ main.pc = "unlink" /\ main.at = v
  /\ kern' = [kern EXCEPT ![v] = Absent]
  /\ work' = [u \in Vmids |-> Absent]
  /\ main' = [pc |-> "work", removed |-> TRUE]
  /\ UNCHANGED << state, names, file, handler, agentVars, quiet, faults >>

MainRemove(v) ==
  /\ main.pc = "unlink" /\ main.at = v
  /\ kern' = [kern EXCEPT ![v] = Absent]
  /\ work' = [work EXCEPT ![v] = Absent]
  /\ main' = [pc |-> "work", removed |-> TRUE]
  /\ UNCHANGED << state, names, file, handler, agentVars, quiet, faults >>

CheckDone ==
  /\ main.pc = "work"
  /\ \A v \in Vmids : work[v] = Absent
  /\ ~main.removed
  /\ main' = [pc |-> "loop"]
  /\ UNCHANGED << state, names, file, work, handler, kern, agentVars, quiet, faults >>

(* One save follows all removals; a failure is logged.                     *)
RemovedSnapshot ==
  /\ main.pc = "work"
  /\ \A v \in Vmids : work[v] = Absent
  /\ main.removed
  /\ BeginSave
  /\ main' = [pc |-> "last", snap |-> Snapshot]
  /\ UNCHANGED << state, names, work, handler, kern, agentVars, quiet, faults >>

RemovedSave ==
  /\ main.pc = "last"
  /\ \/ Save(main.snap) /\ UNCHANGED faults
     \/ SaveFails
  /\ main' = [pc |-> "loop"]
  /\ UNCHANGED << state, names, work, handler, kern, agentVars, quiet >>

-----------------------------------------------------------------------------
(* A crash of hostd and its restart by systemd.  The kernel devices and    *)
(* the cache file survive; restore runs before any socket is scanned.  The *)
(* state starts over from the file, whatever its saves were.               *)

Crash ==
  /\ Fault("crash")
  /\ state' = [v \in Vmids |-> Absent]
  /\ names' = [v \in Vmids |-> Absent]
  /\ work' = [v \in Vmids |-> Absent]
  /\ handler' = [v \in Vmids |-> Off]
  /\ chan' = [v \in Vmids |-> << >>]
  /\ quiet' = [v \in Vmids |-> FALSE]
  /\ main' = [pc |-> "restore", todo |-> {v \in Vmids : cache[v] # Absent}]
  /\ alone' = FALSE /\ spoilt' = FALSE
  /\ UNCHANGED << cache, kern, agent, resync >>

(* One entry of restore_persistent_cache; no other thread runs yet.        *)
Restore(v) ==
  /\ main.pc = "restore" /\ v \in main.todo
  /\ names' = [names EXCEPT ![v] = cache[v].name]
  /\ \/ InstallSucceeds(v, cache[v]) /\ InsertDefaults(v, cache[v])
     \/ InstallFails(v, cache[v]) /\ UNCHANGED << state, quiet >>
  /\ main' = [main EXCEPT !.todo = @ \ {v}]
  /\ UNCHANGED << file, work, handler, agentVars >>

RestoreDone ==
  /\ main.pc = "restore" /\ main.todo = {}
  /\ main' = [pc |-> "loop"]
  /\ UNCHANGED << state, names, file, work, handler, kern, agentVars, quiet, faults >>

-----------------------------------------------------------------------------

HandlerStep(v) ==
  \/ Connect(v) \/ HandleHello(v)
  \/ SchemaName(v) \/ SchemaDrop(v) \/ SchemaDecide(v) \/ SchemaUpdate(v)
  \/ SchemaSet(v) \/ SchemaSetFails(v) \/ SchemaInsert(v)
  \/ HandlerSnapshot(v) \/ HandlerSave(v) \/ HandlerSaveFails(v)
  \/ SampleLookup(v) \/ SampleValues(v) \/ SampleFails(v)
  \/ ByePreserve(v) \/ ByeInstall(v) \/ ByeInsert(v)
  \/ ByeDecideRemove(v) \/ ByeRemove(v) \/ ByeName(v) \/ ByeKernel(v)

MainStep ==
  \/ CheckHeartbeats \/ CheckDone \/ RemovedSnapshot \/ RemovedSave \/ RestoreDone
  \/ \E v \in Vmids : \/ MainInstall(v) \/ MainInsert(v)
                      \/ MainSnapshot(v) \/ MainSave(v)
                      \/ MainForgetName(v) \/ MainRemove(v) \/ Restore(v)

AgentStep(v) ==
  \/ AgentStart(v) \/ AgentResync(v) \/ AgentRescan(v) \/ AgentSample(v)
  \/ AgentHeartbeat(v) \/ AgentGoodbye(v) \/ AgentCrash(v) \/ AgentStall(v)
  \/ AgentResume(v)

Next ==
  \/ \E v \in Vmids : \/ HandlerStep(v) \/ AgentStep(v)
                      \/ \E retry \in BOOLEAN : Receive(v, retry)
                      \/ ScanSocket(v) \/ ReadTimeout(v) \/ Elapse(v)
  \/ MainStep
  \/ Crash

Spec == Init /\ [][Next]_vars

(* Threads are scheduled; the main loop scans once a second; an agent that *)
(* is up answers a resync and keeps sending heartbeats; while a schema is  *)
(* missing the retry timer expires again and again.                        *)
Fairness ==
  /\ WF_vars(MainStep)
  /\ \A v \in Vmids :
       /\ WF_vars(HandlerStep(v))
       /\ WF_vars(\E retry \in BOOLEAN : Receive(v, retry))
       /\ SF_vars(Receive(v, TRUE))
       /\ WF_vars(ScanSocket(v))
       /\ SF_vars(AgentResync(v))
       /\ SF_vars(AgentHeartbeat(v))

FairSpec == Spec /\ Fairness

-----------------------------------------------------------------------------
(* Properties                                                              *)

Sensors == Persistent \cup UNION {Range(l) : l \in Layouts}
Names == {AgentName, DefaultName}
Gens == 1 .. MaxGen
Reports == [type : {"schema", "sample"}, gen : Gens, layout : Layouts]
Messages == [type : {"hello", "heartbeat", "goodbye"}] \cup Reports
Devices == [name : Names, layout : Seq(Sensors)]
Entries == [gen : Gens, name : Names, layout : Seq(Sensors)]
Runtimes == [gen : Gens, layout : Seq(Sensors), name : Names,
             synced : BOOLEAN, offline : BOOLEAN]
Snapshots == [Vmids -> Entries \cup {Absent}]
Keeps == [kind : {"preserve"}, gen : Gens, name : Names, layout : Seq(Sensors)]
Works == Keeps \cup [kind : {"remove"}]
Agents == [mode : {"down"}] \cup [mode : {"up", "stalled"}, gen : Gens, layout : Layouts]
Mains == [pc : {"loop"}] \cup [pc : {"restore"}, todo : SUBSET Vmids]
         \cup [pc : {"work"}, removed : BOOLEAN]
         \cup [pc : {"insert", "save", "unlink"}, at : Vmids, removed : BOOLEAN]
         \cup [pc : {"write"}, at : Vmids, removed : BOOLEAN, snap : Snapshots]
         \cup [pc : {"last"}, snap : Snapshots]
Handlers ==
  [pc : {"off", "connect", "read", "save", "bye_remove", "bye_name", "bye_kernel"}]
  \cup [pc : {"hello", "goodbye"}, msg : Messages]
  \cup [pc : {"schema", "sample"}, msg : Reports]
  \cup [pc : {"decide", "update", "set_schema", "insert"}, msg : Reports, name : Names]
  \cup [pc : {"values"}, msg : Reports, mapping : Seq(Sensors)]
  \cup [pc : {"bye_install", "bye_insert"}, keep : Keeps]
  \cup [pc : {"write"}, snap : Snapshots]

ASSUME LayoutsAssumption == \A l \in Layouts : l \in Seq(Range(l))
ASSUME AbsentAssumption ==
  Absent \notin Names \cup Runtimes \cup Devices \cup Entries \cup Works

(* The shared maps hold well-formed entries, and every thread carries what *)
(* its next step needs.                                                    *)
TypeOK ==
  /\ state \in [Vmids -> Runtimes \cup {Absent}]
  /\ names \in [Vmids -> Names \cup {Absent}]
  /\ cache \in Snapshots /\ alone \in BOOLEAN /\ spoilt \in BOOLEAN
  /\ main \in Mains
  /\ work \in [Vmids -> Works \cup {Absent}]
  /\ handler \in [Vmids -> Handlers]
  /\ kern \in [Vmids -> Devices \cup {Absent}]
  /\ agent \in [Vmids -> Agents]
  /\ chan \in [Vmids -> Seq(Messages)]
  /\ \A v \in Vmids : Len(chan[v]) <= MaxQueue
  /\ resync \in [Vmids -> BOOLEAN]
  /\ quiet \in [Vmids -> BOOLEAN]
  /\ budget \in 0 .. MaxFaults
  /\ crashed \in BOOLEAN /\ erred \in BOOLEAN

(* No thread is between two sections of an operation on VM v.              *)
AtRest(v) ==
  /\ handler[v].pc \in {"off", "connect", "read"}
  /\ work[v] = Absent
  /\ main.pc # "restore"

(* Between operations the runtime describes the device the driver has:     *)
(* every number in sensor_ids addresses the sensor it was assigned to.     *)
KernelMatchesState ==
  \A v \in Vmids : AtRest(v) /\ state[v] # Absent =>
    kern[v] = [name |-> state[v].name, layout |-> state[v].layout]

(* A running hostd leaves no device in the driver for a VM it has          *)
(* forgotten: nothing would ever remove it.  (A crash does leave one.)     *)
NoOrphanDevice ==
  \A v \in Vmids :
    AtRest(v) /\ state[v] = Absent /\ kern[v] # Absent => crashed

(* Between operations the cache file holds the persistent sensors of every *)
(* VM, so a crash loses none of them, although a snapshot is written when  *)
(* the state may have moved on.  The exception is a save that failed, or   *)
(* two that met: the older snapshot may be renamed last.  The next save    *)
(* that meets no other makes up for either.                                *)
CacheMatchesState ==
  \A v \in Vmids : AtRest(v) /\ state[v] # Absent /\ ~spoilt =>
    cache[v] = Snapshot[v]

(* README.md:95-96: hostd preserves persistent sensors across heartbeat    *)
(* timeouts.  Only a schema of the agent changes which persistent sensors  *)
(* a VM has, and as long as it has some its device stays.                  *)
PersistentSensorsStay ==
  [][\A v \in Vmids : KeepsSensors(v) =>
       \/ SchemaInsert(v) \/ SchemaUpdate(v) \/ Crash
       \/ /\ state'[v] # Absent
          /\ PersistentPart(state'[v].layout) = PersistentPart(state[v].layout)
          /\ kern[v] # Absent => kern'[v] # Absent]_vars

(* A value is written under the number of its own sensor, although a       *)
(* restarted agent counts its generations from 1 again, so that its samples *)
(* may carry the generation of an older runtime with other sensors, one    *)
(* restored from the cache or left by a goodbye included.                  *)
NoMisattributedValue ==
  [][\A v \in Vmids : SampleValues(v) =>
       \A i \in SampleIds(v) : kern[v].layout[i] = handler[v].mapping[i]]_vars

(* hostd, the driver and the agent agree on the sensors of VM v.           *)
SensorsInSync(v) ==
  /\ agent[v].mode = "up"
  /\ state[v] # Absent
  /\ state[v].synced
  /\ state[v].gen = agent[v].gen
  /\ state[v].layout = agent[v].layout
  /\ kern[v] # Absent
  /\ kern[v].layout = agent[v].layout

StaysUp(v) == <>[](agent[v].mode = "up")

(* linux.rs:327-329: after a schema it did not apply, hostd is brought back *)
(* in sync by the resync retry.  Once faults are over, the sensors of an   *)
(* agent that stays up are all in the driver and stay there.               *)
RetryBringsBack == \A v \in Vmids : StaysUp(v) => <>[]SensorsInSync(v)

(* The same after crashes and silences, and after errors that a crash      *)
(* followed (the resync on connect and its retry, linux.rs:231-284).  An   *)
(* error alone can lose a schema of an agent that counts as synchronised,  *)
(* and then nobody asks for it again.                                      *)
EventuallyInSync ==
  \A v \in Vmids : StaysUp(v) /\ <>[]~erred => <>[]SensorsInSync(v)
=============================================================================
