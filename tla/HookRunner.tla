----------------------------- MODULE HookRunner -----------------------------
(***************************************************************************)
(* Topology events and hooks: hostd/src/hooks.rs, topology_events of       *)
(* hostd/src/runtime.rs and the places of hostd/src/linux.rs that notify.  *)
(*                                                                         *)
(* Handlers change the sensors of a VM and notify; a worker thread opens a *)
(* window of Debounce seconds at the first event, merges what arrives in   *)
(* it per VM, and then runs the commands one after the other while new     *)
(* events wait in the channel.  A sensor list is the map from sensor ids   *)
(* to signatures.  The clock ticks in seconds and only when the worker     *)
(* has nothing to do at this instant: the time it takes to be scheduled,   *)
(* and the 100 ms between two looks at a child, count as nothing.          *)
(***************************************************************************)
EXTENDS Naturals, Sequences, FiniteSets, FiniteSetsExt, Functions

CONSTANTS
  Vmids,            \* the VMs
  Layouts,          \* the sensor lists agents report
  Persistent,       \* ids of the persistent sensors
  Rules,            \* the hook rules: [events, absolute]
  debounce_seconds,
  timeout_seconds,
  MaxDelay,         \* MAX_HOOK_DELAY_SECONDS, scaled
  MaxChanges,       \* bound on the schemas, goodbyes and timeouts
  SaveFails,        \* whether the cache can fail to be saved
  Absent            \* no device, no event

ASSUME HookAssumption ==
  /\ debounce_seconds \in Nat /\ timeout_seconds \in Nat
  /\ MaxDelay \in Nat \ {0} /\ MaxChanges \in Nat
  /\ SaveFails \in BOOLEAN
ASSUME VmidsAssumption == IsFiniteSet(Vmids)
ASSUME RulesAssumption == Rules \in Seq([events : SUBSET STRING, absolute : BOOLEAN])

VARIABLES
  sensors,  \* the sensors of each VM's device, as last registered
  changes,  \* how many schemas, goodbyes and timeouts there were
  queue,    \* the channel to the worker
  worker,   \* "recv", "debounce" or "run"
  left,     \* seconds until the end of the window
  pending,  \* the merged event of each VM
  current,  \* the event whose rules are being run, and the rule
  child,    \* seconds until the running command is killed
  told,     \* the sensors the last command of each VM was told of
  since     \* seconds since a VM's event was last handed to the rules

vars == << sensors, changes, queue, worker, left, pending, current, child, told,
           since >>
hostVars == << sensors, changes >>

Kinds == {"device_created", "device_removed", "sensor_added", "sensor_removed",
          "sensor_changed", "vm_offline"}

(* What stays of a VM's sensors: the persistent ones, or no device.        *)
Kept(map) == Restrict(map, DOMAIN map \cap Persistent)
Remains(map) ==
  IF map = Absent THEN Absent
  ELSE IF DOMAIN Kept(map) = {} THEN Absent ELSE Kept(map)

bounded_duration(seconds) ==
  IF seconds < 1 THEN 1 ELSE IF seconds > MaxDelay THEN MaxDelay ELSE seconds

Debounce == bounded_duration(debounce_seconds)
Timeout == bounded_duration(timeout_seconds)

(* What a schema with sensors "now" changes, compared with the runtime.    *)
topology_events(prior, now) ==
  IF prior = Absent THEN {"device_created"}
  ELSE LET both == DOMAIN prior \cap DOMAIN now
       IN {k \in Kinds :
             \/ k = "sensor_changed" /\ \E s \in both : prior[s] # now[s]
             \/ k = "sensor_added" /\ DOMAIN now \ both # {}
             \/ k = "sensor_removed" /\ DOMAIN prior \ both # {}}

(* Any of the sensors the layouts know, each with a signature.             *)
Lists ==
  LET ids == UNION {DOMAIN l : l \in Layouts}
      signatures == UNION {Range(l) : l \in Layouts}
  IN UNION {[known -> signatures] : known \in SUBSET ids}

Events == [vmid : Vmids, events : (SUBSET Kinds) \ {{}}, map : Lists \cup {Absent}, age : Nat]

(* An event whose rules are being run, up to the rule "rule".              *)
Runs ==
  [vmid : Vmids, events : (SUBSET Kinds) \ {{}}, map : Lists \cup {Absent}, age : Nat,
   rule : Nat]

ASSUME ListsAssumption == Layouts \subseteq Lists
ASSUME AbsentAssumption == Absent \notin Nat \cup Lists \cup Events \cup Runs

Event(v, evs, now) == [vmid |-> v, events |-> evs, map |-> now, age |-> 0]

Init ==
  /\ sensors = [v \in Vmids |-> Absent]
  /\ changes = 0
  /\ queue = << >>
  /\ worker = "recv" /\ left = 0
  /\ pending = [v \in Vmids |-> Absent]
  /\ current = Absent /\ child = Absent
  /\ told = [v \in Vmids |-> Absent]
  /\ since = [v \in Vmids |-> Debounce]

-----------------------------------------------------------------------------
(* hostd's threads.  A handler changes the runtime of its VM and notifies  *)
(* before it reads the next message.                                       *)

workerVars == << worker, left, pending, current, child, told, since >>

Change(v, now) ==
  /\ changes < MaxChanges
  /\ changes' = changes + 1
  /\ sensors' = [sensors EXCEPT ![v] = now]

notify(v, evs, now) == queue' = Append(queue, Event(v, evs, now))

(* apply_schema: a change that topology_events does not see, such as a new *)
(* name, registers a device and notifies nobody; and when the cache cannot *)
(* be saved apply_schema returns before it notifies.                       *)
Schema(v, now) ==
  /\ Change(v, now)
  /\ LET evs == topology_events(sensors[v], now)
     IN \/ evs # {} /\ notify(v, evs, now)
        \/ (evs = {} \/ SaveFails) /\ UNCHANGED queue
  /\ UNCHANGED workerVars

(* Goodbye or a heartbeat timeout: the persistent sensors stay, or the     *)
(* device goes when there are none.  A goodbye of a VM that has no device  *)
(* is notified all the same; a timeout finds only VMs that have one.       *)
Offline(v, event) ==
  /\ sensors[v] # Absent \/ event = "device_removed"
  /\ Change(v, Remains(sensors[v]))
  /\ notify(v, {event}, Remains(sensors[v]))
  /\ UNCHANGED workerVars

-----------------------------------------------------------------------------
(* The worker                                                              *)

(* Mutant: the kinds of the older event are lost.                          *)
MergeOverwrites(old, next) ==
  IF old = Absent THEN next ELSE [next EXCEPT !.age = old.age]

(* and_modify: the union of the kinds, the rest from the newer event.      *)
Merge(old, next) ==
  IF old = Absent THEN next
  ELSE [next EXCEPT !.events = @ \cup old.events, !.age = old.age]

(* Mutant: events of another VM than the first of the window are lost.      *)
TakeFirstVm ==
  /\ queue # << >>
  /\ queue' = Tail(queue)
  /\ LET e == Head(queue)
     IN pending' = IF \E v \in Vmids \ {e.vmid} : pending[v] # Absent
                   THEN pending
                   ELSE [pending EXCEPT ![e.vmid] = Merge(@, e)]

Take ==
  /\ queue # << >>
  /\ queue' = Tail(queue)
  /\ LET e == Head(queue)
     IN pending' = [pending EXCEPT ![e.vmid] = Merge(@, e)]

(* Mutant: the window is not opened.                                       *)
RecvAtOnce ==
  /\ worker = "recv" /\ Take
  /\ worker' = "debounce" /\ left' = 0
  /\ UNCHANGED << hostVars, current, child, told, since >>

Recv ==
  /\ worker = "recv" /\ Take
  /\ worker' = "debounce" /\ left' = Debounce
  /\ UNCHANGED << hostVars, current, child, told, since >>

RecvMore ==
  /\ worker = "debounce" /\ left > 0 /\ Take
  /\ UNCHANGED << hostVars, worker, left, current, child, told, since >>

WindowOver ==
  /\ worker = "debounce" /\ left = 0
  /\ worker' = "run"
  /\ UNCHANGED << hostVars, queue, left, pending, current, child, told, since >>

(* run_matching_hooks: the rules an event runs, in order.                  *)
Matching(evs) ==
  {r \in DOMAIN Rules : Rules[r].absolute /\ Rules[r].events \cap evs # {}}
NextRule(e) == {r \in Matching(e.events) : r > e.rule}

(* The events are handed over in the order of the map, which is arbitrary. *)
Pick(v) ==
  /\ worker = "run" /\ current = Absent /\ pending[v] # Absent
  /\ pending' = [pending EXCEPT ![v] = Absent]
  /\ current' = [vmid |-> v, events |-> pending[v].events, map |-> pending[v].map,
                 age |-> pending[v].age, rule |-> 0]
  /\ since' = [since EXCEPT ![v] = 0]
  /\ UNCHANGED << hostVars, queue, worker, left, child, told >>

run_hook ==
  /\ current # Absent /\ child = Absent
  /\ NextRule(current) # {}
  /\ current' = [current EXCEPT !.rule = Min(NextRule(current))]
  /\ child' = Timeout
  /\ told' = [told EXCEPT ![current.vmid] = current.map]
  /\ UNCHANGED << hostVars, queue, worker, left, pending, since >>

Exits ==
  /\ child # Absent
  /\ child' = Absent
  /\ UNCHANGED << hostVars, queue, worker, left, pending, current, told, since >>

(* Mutant: a command that does not react to being killed is waited for.    *)
KillWaits ==
  /\ child = 0
  /\ child' = Timeout
  /\ UNCHANGED << hostVars, queue, worker, left, pending, current, told, since >>

Kill ==
  /\ child = 0
  /\ child' = Absent
  /\ UNCHANGED << hostVars, queue, worker, left, pending, current, told, since >>

VmDone ==
  /\ current # Absent /\ child = Absent /\ NextRule(current) = {}
  /\ current' = Absent
  /\ UNCHANGED << hostVars, queue, worker, left, pending, child, told, since >>

BatchDone ==
  /\ worker = "run" /\ current = Absent /\ \A v \in Vmids : pending[v] = Absent
  /\ worker' = "recv"
  /\ UNCHANGED << hostVars, queue, left, pending, current, child, told, since >>

-----------------------------------------------------------------------------
(* Time.  Ages are counted up to the first value past the promise.         *)

(* An event waits for the batch being run, for the window it opens or      *)
(* falls into, and for the other VMs of its own batch.                     *)
Promise ==
  Debounce + (2 * Cardinality(Vmids) - 1) * Cardinality(DOMAIN Rules) * Timeout

Older(e) ==
  IF e = Absent THEN e
  ELSE [e EXCEPT !.age = IF @ > Promise THEN @ ELSE @ + 1]

(* The worker waits for a message, the end of the window or its child.     *)
Waiting ==
  \/ worker = "recv" /\ queue = << >>
  \/ worker = "debounce" /\ queue = << >> /\ left > 0
  \/ child # Absent /\ child > 0

Tick ==
  /\ Waiting
  /\ left' = IF left > 0 THEN left - 1 ELSE 0
  /\ child' = IF child = Absent THEN Absent ELSE child - 1
  /\ since' = [v \in Vmids |-> IF since[v] < Debounce THEN since[v] + 1 ELSE Debounce]
  /\ queue' = [i \in DOMAIN queue |-> Older(queue[i])]
  /\ pending' = [v \in Vmids |-> Older(pending[v])]
  /\ UNCHANGED << hostVars, worker, current, told >>

Worker ==
  \/ Recv \/ RecvMore \/ WindowOver \/ run_hook \/ Kill \/ VmDone \/ BatchDone
  \/ \E v \in Vmids : Pick(v)

Next ==
  \/ \E v \in Vmids, now \in Layouts : Schema(v, now)
  \/ \E v \in Vmids, event \in {"device_removed", "vm_offline"} : Offline(v, event)
  \/ Worker \/ Exits \/ Tick

(* The worker is scheduled and time passes; a command need not exit.       *)
Spec == Init /\ [][Next]_vars /\ WF_vars(Worker) /\ WF_vars(Tick)

-----------------------------------------------------------------------------
(* Properties                                                              *)

(* An event reaches the rules within the promised time, although commands  *)
(* run one at a time, may hang, and are killed only at their timeout: what *)
(* a batch in progress and a window can cost, and no more.                 *)
DeliveredInTime ==
  /\ \A i \in DOMAIN queue : queue[i].age <= Promise
  /\ \A v \in Vmids : pending[v] # Absent => pending[v].age <= Promise

(* README: "multiple changes within debounce_seconds produce one           *)
(* execution".  A VM's events are handed to the rules at most once per     *)
(* window, however its events arrive.                                      *)
OncePerWindow ==
  [][\A v \in Vmids : since'[v] = 0 /\ since[v] > 0 => since[v] >= Debounce]_since

(* The kinds a command is given explain the difference between the sensors *)
(* the previous command of the VM was told of and those of this one,       *)
(* although events were merged in between.                                 *)
Loss == {"device_removed", "vm_offline"}
Explains(evs, old, new) ==
  LET had == IF old = Absent THEN {} ELSE DOMAIN old
      has == IF new = Absent THEN {} ELSE DOMAIN new
  IN /\ old = Absent /\ new # Absent => "device_created" \in evs
     /\ old # Absent /\ new = Absent => evs \cap Loss # {}
     /\ has \ had # {} => evs \cap {"sensor_added", "device_created"} # {}
     /\ had \ has # {} => evs \cap ({"sensor_removed"} \cup Loss) # {}
     /\ (\E s \in had \cap has : old[s] # new[s]) =>
          \/ "sensor_changed" \in evs
          \/ /\ evs \cap ({"sensor_removed"} \cup Loss) # {}
             /\ evs \cap {"sensor_added", "device_created"} # {}

EventsExplainChange ==
  [][\A v \in Vmids :
       told'[v] # told[v] => Explains(current.events, told[v], told'[v])]_told

(* README: "hostd runs commands after device or sensor topology changes    *)
(* complete".  Once a VM's sensors stop changing, a command has been told  *)
(* of the sensors it ended up with.                                        *)
EventuallyTold == \A v \in Vmids : <>[](told[v] = sensors[v])
=============================================================================
