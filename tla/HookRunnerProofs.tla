-------------------------- MODULE HookRunnerProofs ---------------------------
(***************************************************************************)
(* Proofs about HookRunner, for any number of VMs and rules and any        *)
(* delays.                                                                 *)
(***************************************************************************)
EXTENDS HookRunner, FilterProofs, FiniteSetTheorems

TypeOK ==
  /\ sensors \in [Vmids -> Lists \cup {Absent}]
  /\ changes \in Nat
  /\ queue \in Seq(Events)
  /\ worker \in {"recv", "debounce", "run"}
  /\ left \in 0 .. Debounce
  /\ pending \in [Vmids -> Events \cup {Absent}]
  /\ current \in Runs \cup {Absent}
  /\ child \in (0 .. Timeout) \cup {Absent}
  /\ told \in [Vmids -> Lists \cup {Absent}]
  /\ since \in [Vmids -> 0 .. Debounce]

(* What the worker holds where it is: a batch only after a window, a        *)
(* command only with the event it is run for.                              *)
Phases ==
  /\ worker = "recv" => \A v \in Vmids : pending[v] = Absent
  /\ worker # "run" => current = Absent
  /\ current = Absent => child = Absent

-----------------------------------------------------------------------------
(* Time                                                                    *)

(* What the rules of one event can cost, and of a batch of all the VMs.    *)
RulesTime == Cardinality(DOMAIN Rules) * Timeout
BatchTime == Cardinality(Vmids) * RulesTime

Waits == {v \in Vmids : pending[v] # Absent}

(* What the batch being run can still cost.                                *)
Rest ==
  IF current = Absent THEN 0
  ELSE Cardinality(NextRule(current)) * Timeout + (IF child = Absent THEN 0 ELSE child)
Remaining == Cardinality(Waits) * RulesTime + Rest

QueueAge(limit) == \A i \in DOMAIN queue : queue[i].age <= limit
PendingAge(limit) == \A v \in Waits : pending[v].age <= limit

Ages ==
  /\ worker = "recv" => QueueAge(BatchTime)
  /\ worker = "debounce" =>
       /\ QueueAge(IF left = Debounce THEN BatchTime ELSE 0)
       /\ PendingAge(BatchTime + Debounce - left)
  /\ worker = "run" =>
       /\ Remaining <= BatchTime
       /\ QueueAge(BatchTime - Remaining)
       /\ PendingAge(Debounce + 2 * BatchTime - Remaining)

(* A window keeps the VMs of its batch apart from the batch before.         *)
Apart ==
  /\ worker = "debounce" => \A v \in Vmids : since[v] >= Debounce - left
  /\ worker = "run" => \A v \in Waits : since[v] >= Debounce

-----------------------------------------------------------------------------
(* What the events explain                                                 *)

(* The sensors of v the worker knows, before and with its pending event.   *)
Handed(v) ==
  IF current # Absent THEN IF current.vmid = v THEN current.map ELSE told[v]
  ELSE told[v]
Known(v) == IF pending[v] # Absent THEN pending[v].map ELSE Handed(v)

(* The events of the same VM before the i-th of the channel, those of a VM *)
(* and the sensors before an event.                                        *)
Of(v) == {i \in DOMAIN queue : queue[i].vmid = v}
First(v, i) == i \in Of(v) /\ \A j \in Of(v) : i <= j
Last(v, i) == i \in Of(v) /\ \A j \in Of(v) : j <= i
Follows(v, i, j) ==
  /\ i \in Of(v) /\ j \in Of(v) /\ i < j
  /\ \A k \in Of(v) : k <= i \/ j <= k

(* From the sensors the last command was told of, over the event being     *)
(* run, the merged event and the events in the channel, each event explains *)
(* the change to its sensors; the last one has the sensors of the VM.      *)
Ran(v) ==
  current # Absent =>
    (current.vmid = v =>
       IF current.rule = 0 THEN Explains(current.events, told[v], current.map)
       ELSE told[v] = current.map)
Merged(v) == pending[v] # Absent => Explains(pending[v].events, Handed(v), pending[v].map)
Queued(v) ==
  \A i \in DOMAIN queue :
    /\ First(v, i) => Explains(queue[i].events, Known(v), queue[i].map)
    /\ \A j \in DOMAIN queue :
         Follows(v, i, j) => Explains(queue[j].events, queue[i].map, queue[j].map)
    /\ Last(v, i) => queue[i].map = sensors[v]
Settled(v) == Of(v) = {} => Known(v) = sensors[v]

(* Every kind has a rule that takes it and that is run.                    *)
AllTaken ==
  \A k \in Kinds : \E r \in DOMAIN Rules : Rules[r].absolute /\ k \in Rules[r].events

Explained == \A v \in Vmids : Ran(v) /\ Merged(v) /\ Queued(v) /\ Settled(v)

IInv ==
  /\ TypeOK /\ Phases /\ Ages /\ Apart
  /\ AllTaken /\ ~SaveFails => Explained

-----------------------------------------------------------------------------
(* Types                                                                   *)

LEMMA Delays ==
  /\ Debounce \in Nat /\ Debounce >= 1
  /\ Timeout \in Nat /\ Timeout >= 1
BY HookAssumption DEF Debounce, Timeout, bounded_duration

LEMMA NothingIsAbsent ==
  /\ Absent \notin Nat /\ Absent \notin Lists /\ Absent \notin Events /\ Absent \notin Runs
BY AbsentAssumption

(* What is kept of a sensor list is a sensor list.                         *)
LEMMA KeptList ==
  ASSUME NEW map \in Lists
  PROVE  /\ Kept(map) \in Lists
         /\ DOMAIN Kept(map) = DOMAIN map \cap Persistent
         /\ \A s \in DOMAIN map \cap Persistent : Kept(map)[s] = map[s]
<1> DEFINE ids == UNION {DOMAIN l : l \in Layouts}
           signatures == UNION {Range(l) : l \in Layouts}
<1>1. PICK known \in SUBSET ids : map \in [known -> signatures]
  BY DEF Lists
<1>2. known \cap Persistent \in SUBSET ids
  BY <1>1
<1>3. Kept(map) \in [known \cap Persistent -> signatures]
  BY <1>1 DEF Kept, Restrict
<1>4. Kept(map) \in Lists
  BY <1>2, <1>3 DEF Lists
<1> QED BY <1>4, <1>1 DEF Kept, Restrict

LEMMA RemainsList ==
  ASSUME NEW map \in Lists \cup {Absent}
  PROVE  Remains(map) \in Lists \cup {Absent}
BY KeptList DEF Remains

LEMMA KindsOfChanges ==
  ASSUME NEW prior, NEW now
  PROVE  topology_events(prior, now) \in SUBSET Kinds
BY DEF topology_events, Kinds

LEMMA EventType ==
  ASSUME NEW v \in Vmids, NEW evs \in SUBSET Kinds, evs # {}, NEW now \in Lists \cup {Absent}
  PROVE  Event(v, evs, now) \in Events
<1>1. evs \in (SUBSET Kinds) \ {{}}
  OBVIOUS
<1> QED BY <1>1 DEF Event, Events

LEMMA MergeType ==
  ASSUME NEW old \in Events \cup {Absent}, NEW next \in Events
  PROVE  Merge(old, next) \in Events
<1>1. CASE old = Absent
  BY <1>1 DEF Merge
<1>2. CASE old # Absent
  <2>1. old \in Events
    BY <1>2
  <2>2. next.events \cup old.events \in (SUBSET Kinds) \ {{}} /\ old.age \in Nat
    BY <2>1 DEF Events
  <2>3. [next EXCEPT !.events = @ \cup old.events, !.age = old.age] \in Events
    BY <2>2 DEF Events
  <2> QED BY <1>2, <2>3 DEF Merge
<1> QED BY <1>1, <1>2

(* The head and the tail of the channel.                                   *)
LEMMA QueueEnds ==
  ASSUME NEW q \in Seq(Events), q # << >>
  PROVE  /\ Head(q) \in Events /\ Head(q) = q[1] /\ 1 \in DOMAIN q
         /\ Tail(q) \in Seq(Events)
         /\ DOMAIN Tail(q) = 1 .. (Len(q) - 1)
         /\ \A i \in 1 .. (Len(q) - 1) : Tail(q)[i] = q[i + 1] /\ i + 1 \in DOMAIN q
         /\ DOMAIN q = 1 .. Len(q) /\ Len(q) \in Nat \ {0}
OBVIOUS

LEMMA QueueAppend ==
  ASSUME NEW q \in Seq(Events), NEW e \in Events
  PROVE  /\ Append(q, e) \in Seq(Events)
         /\ DOMAIN Append(q, e) = 1 .. (Len(q) + 1)
         /\ Append(q, e)[Len(q) + 1] = e
         /\ \A i \in 1 .. Len(q) : Append(q, e)[i] = q[i]
         /\ DOMAIN q = 1 .. Len(q) /\ Len(q) \in Nat
OBVIOUS

LEMMA TakeType ==
  ASSUME TypeOK, Take
  PROVE  queue' \in Seq(Events) /\ pending' \in [Vmids -> Events \cup {Absent}]
<1> USE DEF TypeOK
<1>1. Head(queue) \in Events /\ Tail(queue) \in Seq(Events)
  BY QueueEnds DEF Take
<1>2. Head(queue).vmid \in Vmids
  BY <1>1 DEF Events
<1>3. Merge(pending[Head(queue).vmid], Head(queue)) \in Events
  BY <1>1, <1>2, MergeType
<1> QED BY <1>1, <1>2, <1>3 DEF Take

LEMMA PromiseType == Promise \in Int
<1>1. Cardinality(Vmids) \in Nat
  BY VmidsAssumption, FS_CardinalityType
<1>2. DOMAIN Rules = 1 .. Len(Rules) /\ Len(Rules) \in Nat
  BY RulesAssumption
<1>3. IsFiniteSet(DOMAIN Rules) /\ Cardinality(DOMAIN Rules) \in Nat
  BY <1>2, FS_Interval, FS_CardinalityType
<1> QED BY <1>1, <1>3, Delays DEF Promise

LEMMA OlderType ==
  ASSUME NEW e \in Events \cup {Absent}
  PROVE  /\ e # Absent => Older(e) \in Events
         /\ e = Absent => Older(e) = Absent
<1>1. CASE e = Absent
  BY <1>1 DEF Older
<1>2. CASE e # Absent
  <2>1. e \in Events /\ e.age \in Nat
    BY <1>2 DEF Events
  <2>2. (IF e.age > Promise THEN e.age ELSE e.age + 1) \in Nat
    BY <2>1
  <2>3. [e EXCEPT !.age = IF @ > Promise THEN @ ELSE @ + 1] \in Events
    BY <2>1, <2>2 DEF Events
  <2> QED BY <1>2, <2>3 DEF Older
<1> QED BY <1>1, <1>2

LEMMA NextRuleType ==
  ASSUME NEW e \in Runs, NextRule(e) # {}
  PROVE  /\ Min(NextRule(e)) \in NextRule(e) /\ NextRule(e) \in SUBSET Nat
         /\ \A r \in NextRule(e) : Min(NextRule(e)) <= r
         /\ [e EXCEPT !.rule = Min(NextRule(e))] \in Runs
<1>1. DOMAIN Rules = 1 .. Len(Rules) /\ Len(Rules) \in Nat
  BY RulesAssumption
<1>2. NextRule(e) \in SUBSET Nat
  BY <1>1 DEF NextRule, Matching
<1>3. PICK r \in NextRule(e) : \A other \in NextRule(e) : ~ (other < r)
  BY <1>2, Least
<1>4. \A other \in NextRule(e) : r <= other
  BY <1>2, <1>3
<1>5. Min(NextRule(e)) \in NextRule(e) /\ \A other \in NextRule(e) : Min(NextRule(e)) <= other
  BY <1>4 DEF Min
<1>6. [e EXCEPT !.rule = Min(NextRule(e))] \in Runs
  BY <1>2, <1>5 DEF Runs
<1> QED BY <1>2, <1>5, <1>6

LEMMA FunctionIsSequence ==
  ASSUME NEW n \in Nat, NEW S, NEW f \in [1 .. n -> S]
  PROVE  f \in Seq(S)
OBVIOUS

LEMMA TypeStep ==
  ASSUME TypeOK, Phases, [Next]_vars
  PROVE  TypeOK'
<1> USE DEF TypeOK
<1>1. ASSUME NEW v \in Vmids, NEW now \in Layouts, Schema(v, now)
      PROVE  TypeOK'
  <2>1. now \in Lists
    BY ListsAssumption
  <2>2. sensors' \in [Vmids -> Lists \cup {Absent}] /\ changes' \in Nat
    BY <1>1, <2>1 DEF Schema, Change
  <2> DEFINE evs == topology_events(sensors[v], now)
  <2>3. evs # {} => Event(v, evs, now) \in Events
    BY <2>1, KindsOfChanges, EventType
  <2>4. queue' \in Seq(Events)
    BY ZenonT(60), <1>1, <2>3, QueueAppend DEF Schema, notify
  <2> QED BY <1>1, <2>2, <2>4 DEF Schema, workerVars
<1>2. ASSUME NEW v \in Vmids, NEW event \in {"device_removed", "vm_offline"}, Offline(v, event)
      PROVE  TypeOK'
  <2> DEFINE now == Remains(sensors[v])
  <2>1. now \in Lists \cup {Absent}
    BY RemainsList
  <2>2. Event(v, {event}, now) \in Events
    BY <2>1, EventType DEF Kinds
  <2>3. Change(v, now) /\ notify(v, {event}, now) /\ UNCHANGED workerVars
    BY <1>2 DEF Offline
  <2> HIDE DEF now
  <2>4. sensors' \in [Vmids -> Lists \cup {Absent}] /\ changes' \in Nat
    BY <2>1, <2>3 DEF Change
  <2>5. queue' \in Seq(Events)
    BY <2>2, <2>3, QueueAppend DEF notify
  <2> QED BY <2>3, <2>4, <2>5 DEF workerVars
<1>3. CASE Recv
  BY <1>3, TakeType, Delays DEF Recv, hostVars
<1>4. CASE RecvMore
  BY <1>4, TakeType DEF RecvMore, hostVars
<1>5. CASE WindowOver
  BY <1>5 DEF WindowOver, hostVars
<1>6. ASSUME NEW v \in Vmids, Pick(v)
      PROVE  TypeOK'
  <2>1. pending[v] \in Events
    BY <1>6 DEF Pick
  <2>2. current' \in Runs
    BY <1>6, <2>1 DEF Pick, Events, Runs
  <2> QED BY <1>6, <2>2, Delays DEF Pick, hostVars
<1>7. CASE run_hook
  <2>1. current \in Runs
    BY <1>7 DEF run_hook
  <2>2. current' \in Runs
    BY <1>7, <2>1, NextRuleType DEF run_hook
  <2>3. current.map \in Lists \cup {Absent}
    BY <2>1 DEF Runs
  <2>4. told' \in [Vmids -> Lists \cup {Absent}]
    BY <1>7, <2>3 DEF run_hook
  <2>5. child' \in (0 .. Timeout) \cup {Absent}
    BY <1>7, Delays DEF run_hook
  <2> QED BY <1>7, <2>2, <2>4, <2>5 DEF run_hook, hostVars
<1>8. CASE Exits
  BY <1>8 DEF Exits, hostVars
<1>9. CASE Kill
  BY <1>9 DEF Kill, hostVars
<1>10. CASE VmDone
  BY <1>10 DEF VmDone, hostVars
<1>11. CASE BatchDone
  BY <1>11 DEF BatchDone, hostVars
<1>12. CASE Tick
  <2>1. left' \in 0 .. Debounce
    BY <1>12, Delays DEF Tick
  <2>2. child' \in (0 .. Timeout) \cup {Absent}
    BY <1>12, Delays, NothingIsAbsent DEF Tick, Waiting, Phases
  <2>3. since' \in [Vmids -> 0 .. Debounce]
    BY <1>12, Delays DEF Tick
  <2>4. \A i \in DOMAIN queue : Older(queue[i]) \in Events
    BY OlderType, NothingIsAbsent
  <2>5. queue' \in Seq(Events)
    <3>1. DOMAIN queue = 1 .. Len(queue) /\ Len(queue) \in Nat
      OBVIOUS
    <3>2. queue' \in [1 .. Len(queue) -> Events]
      BY <1>12, <2>4, <3>1 DEF Tick
    <3> QED BY <3>1, <3>2, FunctionIsSequence
  <2>6. \A v \in Vmids : Older(pending[v]) \in Events \cup {Absent}
    BY OlderType
  <2>7. pending' \in [Vmids -> Events \cup {Absent}]
    BY <1>12, <2>6 DEF Tick
  <2> QED BY <1>12, <2>1, <2>2, <2>3, <2>5, <2>7 DEF Tick, hostVars
<1>13. CASE UNCHANGED vars
  BY <1>13 DEF vars
<1> QED
  BY <1>1, <1>2, <1>3, <1>4, <1>5, <1>6, <1>7, <1>8, <1>9, <1>10, <1>11, <1>12, <1>13
  DEF Next, Worker

LEMMA PhasesStep ==
  ASSUME TypeOK, Phases, [Next]_vars
  PROVE  Phases'
<1> USE DEF Phases
<1>1. ASSUME NEW v \in Vmids, NEW now \in Layouts, Schema(v, now)
      PROVE  Phases'
  BY <1>1 DEF Schema, workerVars
<1>2. ASSUME NEW v \in Vmids, NEW event \in {"device_removed", "vm_offline"}, Offline(v, event)
      PROVE  Phases'
  BY <1>2 DEF Offline, workerVars
<1>3. CASE Recv \/ RecvMore \/ WindowOver \/ Exits \/ Kill \/ VmDone \/ BatchDone
  BY <1>3 DEF Recv, RecvMore, WindowOver, Exits, Kill, VmDone, BatchDone, hostVars
<1>4. ASSUME NEW v \in Vmids, Pick(v)
      PROVE  Phases'
  <2>1. pending[v] \in Events
    BY <1>4 DEF Pick, TypeOK
  <2>2. current' \in Runs
    BY <1>4, <2>1 DEF Pick, Events, Runs
  <2>3. current' # Absent
    BY <2>2, NothingIsAbsent
  <2> QED BY <1>4, <2>3 DEF Pick, hostVars
<1>5. CASE run_hook
  <2>1. current' \in Runs
    BY <1>5, NextRuleType DEF run_hook, TypeOK
  <2> QED BY <1>5, <2>1, NothingIsAbsent DEF run_hook, hostVars
<1>6. CASE Tick
  <2>1. \A v \in Vmids : pending[v] = Absent => pending'[v] = Absent
    BY <1>6, OlderType DEF Tick, TypeOK
  <2> QED BY <1>6, <2>1 DEF Tick, hostVars
<1>7. CASE UNCHANGED vars
  BY <1>7 DEF vars
<1> QED BY <1>1, <1>2, <1>3, <1>4, <1>5, <1>6, <1>7 DEF Next, Worker

-----------------------------------------------------------------------------
(* Time                                                                    *)

LEMMA RulesFinite ==
  /\ DOMAIN Rules \in SUBSET Nat /\ IsFiniteSet(DOMAIN Rules)
  /\ Cardinality(DOMAIN Rules) \in Nat
<1>1. DOMAIN Rules = 1 .. Len(Rules) /\ Len(Rules) \in Nat
  BY RulesAssumption
<1> QED BY <1>1, FS_Interval, FS_CardinalityType

LEMMA Product ==
  ASSUME NEW a \in Nat, NEW b \in Nat, NEW c \in Nat
  PROVE  /\ a * c \in Nat
         /\ a <= b => a * c <= b * c
         /\ a >= 1 => (a - 1) * c = a * c - c
OBVIOUS

LEMMA Times ==
  /\ RulesTime \in Nat /\ BatchTime \in Nat
  /\ Promise = Debounce + 2 * BatchTime - RulesTime
  /\ Vmids # {} => RulesTime <= BatchTime
<1>1. Cardinality(Vmids) \in Nat /\ (Vmids # {} => Cardinality(Vmids) >= 1)
  BY VmidsAssumption, FS_CardinalityType, FS_EmptySet
<1>2. RulesTime \in Nat
  BY RulesFinite, Delays, Product DEF RulesTime
<1>3. BatchTime \in Nat
  BY <1>1, <1>2, Product DEF BatchTime
<1>4. Vmids # {} => RulesTime <= BatchTime
  <2>1. Vmids # {} => 1 * RulesTime <= Cardinality(Vmids) * RulesTime
    BY <1>1, <1>2, Product
  <2> QED BY <1>2, <2>1 DEF BatchTime
<1>5. Promise = Debounce + 2 * BatchTime - RulesTime
  BY <1>1, RulesFinite, Delays DEF Promise, BatchTime, RulesTime
<1> QED BY <1>2, <1>3, <1>4, <1>5

(* The rules of one event cost at most RulesTime.                          *)
LEMMA RulesCost ==
  ASSUME NEW e
  PROVE  /\ IsFiniteSet(NextRule(e)) /\ Cardinality(NextRule(e)) \in Nat
         /\ Cardinality(NextRule(e)) * Timeout \in Nat
         /\ Cardinality(NextRule(e)) * Timeout <= RulesTime
<1>1. NextRule(e) \in SUBSET DOMAIN Rules
  BY DEF NextRule, Matching
<1>2. IsFiniteSet(NextRule(e)) /\ Cardinality(NextRule(e)) <= Cardinality(DOMAIN Rules)
  BY <1>1, RulesFinite, FS_Subset
<1>3. Cardinality(NextRule(e)) \in Nat
  BY <1>2, FS_CardinalityType
<1> QED BY <1>2, <1>3, RulesFinite, Delays, Product DEF RulesTime

LEMMA WaitsCost ==
  /\ IsFiniteSet(Waits) /\ Cardinality(Waits) \in Nat
  /\ Cardinality(Waits) * RulesTime \in Nat
  /\ Cardinality(Waits) * RulesTime <= BatchTime
  /\ Waits # {} => Cardinality(Waits) * RulesTime >= RulesTime
<1>1. Waits \in SUBSET Vmids
  BY DEF Waits
<1>2. IsFiniteSet(Waits) /\ Cardinality(Waits) <= Cardinality(Vmids)
  BY <1>1, VmidsAssumption, FS_Subset
<1>3. Cardinality(Waits) \in Nat /\ Cardinality(Vmids) \in Nat
  BY <1>2, VmidsAssumption, FS_CardinalityType
<1>4. Waits # {} => Cardinality(Waits) >= 1
  BY <1>2, <1>3, FS_EmptySet
<1>5. /\ Cardinality(Waits) * RulesTime \in Nat
      /\ Cardinality(Waits) * RulesTime <= BatchTime
  BY <1>2, <1>3, Times, Product DEF BatchTime
<1>6. Waits # {} => 1 * RulesTime <= Cardinality(Waits) * RulesTime
  BY <1>3, <1>4, Times, Product
<1> QED BY <1>2, <1>3, <1>5, <1>6, Times

LEMMA RemainingType ==
  ASSUME TypeOK
  PROVE  /\ Rest \in Nat /\ Remaining \in Nat
         /\ Waits # {} => Remaining >= RulesTime
<1>1. Rest \in Nat
  BY RulesCost, Delays DEF Rest, TypeOK
<1> QED BY <1>1, WaitsCost, Times DEF Remaining

LEMMA AppendAges ==
  ASSUME TypeOK, NEW e \in Events, e.age = 0, queue' = Append(queue, e)
  PROVE  \A n \in Nat : QueueAge(n) => \A i \in DOMAIN queue' : queue'[i].age <= n
<1>1. TAKE n \in Nat
<1>2. HAVE QueueAge(n)
<1>3. TAKE i \in DOMAIN queue'
<1>4. i \in 1 .. Len(queue) \/ i = Len(queue) + 1
  BY <1>3, QueueAppend DEF TypeOK
<1>5. CASE i \in 1 .. Len(queue)
  <2>1. queue'[i] = queue[i] /\ i \in DOMAIN queue
    BY <1>5, QueueAppend DEF TypeOK
  <2> QED BY <1>2, <2>1 DEF QueueAge
<1>6. CASE i = Len(queue) + 1
  <2>1. queue'[i] = e
    BY <1>6, QueueAppend DEF TypeOK
  <2> QED BY <1>1, <2>1
<1> QED BY <1>4, <1>5, <1>6

LEMMA TakeAges ==
  ASSUME TypeOK, Take
  PROVE  \A n \in Nat : QueueAge(n) =>
           /\ \A i \in DOMAIN queue' : queue'[i].age <= n
           /\ \A v \in Waits' : pending'[v].age <= n \/ (v \in Waits /\ pending'[v].age = pending[v].age)
<1>1. TAKE n \in Nat
<1>2. HAVE QueueAge(n)
<1> DEFINE e == Head(queue)
<1>3. /\ e \in Events /\ e = queue[1] /\ 1 \in DOMAIN queue /\ queue' = Tail(queue)
      /\ DOMAIN queue' = 1 .. (Len(queue) - 1)
      /\ \A i \in DOMAIN queue' : queue'[i] = queue[i + 1] /\ i + 1 \in DOMAIN queue
  BY QueueEnds DEF Take, TypeOK
<1>4. e.age <= n /\ e.vmid \in Vmids
  BY <1>2, <1>3 DEF QueueAge, Events
<1>5. \A i \in DOMAIN queue' : queue'[i].age <= n
  BY <1>2, <1>3 DEF QueueAge
<1>6. pending' = [pending EXCEPT ![e.vmid] = Merge(@, e)]
  BY DEF Take
<1>7. ASSUME NEW v \in Waits'
      PROVE  pending'[v].age <= n \/ (v \in Waits /\ pending'[v].age = pending[v].age)
  <2>1. v \in Vmids /\ pending'[v] # Absent
    BY DEF Waits
  <2>2. CASE v # e.vmid
    <3>1. pending'[v] = pending[v]
      BY <1>6, <2>1, <2>2 DEF TypeOK
    <3> QED BY <2>1, <3>1 DEF Waits
  <2>3. CASE v = e.vmid
    <3>1. pending'[v] = Merge(pending[v], e)
      BY <1>6, <2>1, <2>3 DEF TypeOK
    <3>2. CASE pending[v] = Absent
      BY <1>4, <3>1, <3>2 DEF Merge
    <3>3. CASE pending[v] # Absent
      <4>1. Merge(pending[v], e).age = pending[v].age
        BY <1>3, <3>3 DEF Merge, Events
      <4> QED BY <2>1, <3>1, <3>3, <4>1 DEF Waits
    <3> QED BY <3>2, <3>3
  <2> QED BY <2>2, <2>3
<1> QED BY <1>5, <1>7

(* A second makes everything that waits at most a second older.            *)
LEMMA TickAges ==
  ASSUME TypeOK, Tick
  PROVE  /\ DOMAIN queue' = DOMAIN queue
         /\ \A i \in DOMAIN queue : queue'[i].age <= queue[i].age + 1
         /\ Waits' = Waits
         /\ \A v \in Waits : pending'[v].age <= pending[v].age + 1
         /\ \A i \in DOMAIN queue : queue[i].age \in Nat
         /\ \A v \in Waits : pending[v].age \in Nat
<1>1. \A e \in Events : Older(e).age <= e.age + 1 /\ e.age \in Nat
  <2>1. TAKE e \in Events
  <2>2. e # Absent /\ e.age \in Nat
    BY NothingIsAbsent DEF Events
  <2>3. Older(e) = [e EXCEPT !.age = IF @ > Promise THEN @ ELSE @ + 1]
    BY <2>2 DEF Older
  <2>4. Older(e).age = IF e.age > Promise THEN e.age ELSE e.age + 1
    BY <2>3 DEF Events
  <2> QED BY <2>2, <2>4, PromiseType
<1>2. /\ queue' = [i \in DOMAIN queue |-> Older(queue[i])]
      /\ pending' = [v \in Vmids |-> Older(pending[v])]
  BY DEF Tick
<1>3. \A i \in DOMAIN queue : queue[i] \in Events
  BY DEF TypeOK
<1>4. \A v \in Vmids : pending[v] = Absent <=> pending'[v] = Absent
  BY <1>2, OlderType, NothingIsAbsent DEF TypeOK
<1>5. Waits' = Waits
  BY <1>4 DEF Waits
<1>6. \A v \in Waits : v \in Vmids /\ pending[v] \in Events
  BY DEF Waits, TypeOK
<1> QED BY <1>1, <1>2, <1>3, <1>5, <1>6

(* Where nothing is taken out of the sets Ages speaks of, it is kept.      *)
LEMMA AgesNotify ==
  ASSUME TypeOK, Ages, UNCHANGED workerVars,
         NEW e \in Events, e.age = 0, queue' = Append(queue, e)
  PROVE  Ages'
<1>1. Waits' = Waits /\ Rest' = Rest /\ Remaining' = Remaining
  BY DEF workerVars, Waits, Rest, Remaining
<1>2. \A n \in Nat : QueueAge(n) => \A i \in DOMAIN queue' : queue'[i].age <= n
  BY AppendAges
<1>3. CASE worker = "recv"
  <2>1. QueueAge(BatchTime)'
    BY <1>2, <1>3, Times DEF Ages, QueueAge, workerVars
  <2> QED BY <1>3, <2>1 DEF Ages, workerVars
<1>4. CASE worker = "debounce"
  <2> DEFINE n == IF left = Debounce THEN BatchTime ELSE 0
  <2>1. QueueAge(n) /\ n \in Nat
    BY <1>4, Times DEF Ages
  <2>2. \A i \in DOMAIN queue' : queue'[i].age <= n
    BY <1>2, <2>1
  <2>3. QueueAge(IF left = Debounce THEN BatchTime ELSE 0)'
    BY <2>2 DEF QueueAge, workerVars
  <2>4. PendingAge(BatchTime + Debounce - left)'
    BY <1>4, <1>1 DEF Ages, PendingAge, workerVars
  <2> QED BY <1>4, <2>3, <2>4 DEF Ages, workerVars
<1>5. CASE worker = "run"
  <2>1. QueueAge(BatchTime - Remaining) /\ BatchTime - Remaining \in Nat /\ Remaining <= BatchTime
    BY <1>5, Times, RemainingType DEF Ages
  <2>2. \A i \in DOMAIN queue' : queue'[i].age <= BatchTime - Remaining
    BY <1>2, <2>1
  <2>3. QueueAge(BatchTime - Remaining)'
    BY <1>1, <2>2 DEF QueueAge
  <2>4. PendingAge(Debounce + 2 * BatchTime - Remaining)'
    BY <1>5, <1>1 DEF Ages, PendingAge, workerVars
  <2> QED BY <1>5, <1>1, <2>1, <2>3, <2>4 DEF Ages, workerVars
<1> QED BY <1>3, <1>4, <1>5 DEF TypeOK

LEMMA Shrinks ==
  ASSUME NEW a \in Nat, NEW b \in Nat, NEW c \in Nat, NEW d \in {0, 1}, b + d <= a, a <= c
  PROVE  b <= c
OBVIOUS

(* While a batch is run its cost never grows, and what waits gets older    *)
(* only as the cost shrinks.                                               *)
LEMMA AgesRun ==
  ASSUME TypeOK, Ages, worker = "run", worker' = "run",
         NEW d \in {0, 1}, Remaining' \in Nat, Remaining' + d <= Remaining,
         DOMAIN queue' = DOMAIN queue,
         \A i \in DOMAIN queue : queue'[i].age <= queue[i].age + d /\ queue[i].age \in Nat,
         Waits' \subseteq Waits,
         \A v \in Waits' : pending'[v].age <= pending[v].age + d /\ pending[v].age \in Nat,
         (\A i \in DOMAIN queue : queue'[i].age \in Nat) /\ (\A v \in Waits' : pending'[v].age \in Nat)
  PROVE  Ages'
<1>1. Remaining \in Nat /\ Remaining <= BatchTime /\ BatchTime \in Nat /\ Debounce \in Nat
  BY RemainingType, Times, Delays DEF Ages
<1>2. QueueAge(BatchTime - Remaining)'
  <2>1. \A i \in DOMAIN queue : queue[i].age <= BatchTime - Remaining
    BY DEF Ages, QueueAge
  <2>2. \A i \in DOMAIN queue : queue'[i].age <= BatchTime - Remaining'
    BY <1>1, <2>1
  <2> QED BY <2>2 DEF QueueAge, BatchTime
<1>3. PendingAge(Debounce + 2 * BatchTime - Remaining)'
  <2>1. \A v \in Waits : pending[v].age <= Debounce + 2 * BatchTime - Remaining
    BY DEF Ages, PendingAge
  <2>2. \A v \in Waits' : pending'[v].age <= Debounce + 2 * BatchTime - Remaining'
    BY <1>1, <2>1
  <2> QED BY <2>2 DEF PendingAge, BatchTime
<1>4. (Remaining <= BatchTime)'
  <2>1. Remaining' <= BatchTime
    BY <1>1, Shrinks
  <2> QED BY <2>1 DEF BatchTime, RulesTime
<1> QED BY <1>2, <1>3, <1>4 DEF Ages

(* Rules and commands.                                                     *)
LEMMA PickCost ==
  ASSUME TypeOK, Phases, NEW v \in Vmids, Pick(v)
  PROVE  Remaining' \in Nat /\ Remaining' <= Remaining /\ Waits' = Waits \ {v}
<1>1. v \in Waits
  BY DEF Pick, Waits
<1>2. Waits' = Waits \ {v}
  BY DEF Pick, Waits, TypeOK
<1>3. Cardinality(Waits') = Cardinality(Waits) - 1
  BY <1>1, <1>2, WaitsCost, FS_RemoveElement
<1>4. Cardinality(Waits) \in Nat /\ Cardinality(Waits) >= 1
  BY <1>1, WaitsCost, FS_EmptySet
<1>5. Cardinality(Waits') * RulesTime = Cardinality(Waits) * RulesTime - RulesTime
  BY <1>3, <1>4, Times, Product
<1>6. Rest = 0 /\ child' = Absent
  BY DEF Pick, Phases, Rest
<1>7. Cardinality(NextRule(current')) * Timeout \in Nat
      /\ Cardinality(NextRule(current')) * Timeout <= RulesTime
  BY RulesCost
<1>8. Rest' \in Nat /\ Rest' <= RulesTime
  <2>1. Rest' = 0 \/ Rest' = Cardinality(NextRule(current')) * Timeout + 0
    BY <1>6 DEF Rest, NextRule, Matching, Timeout
  <2> QED BY <2>1, <1>7, Times
<1>9. Remaining' = Cardinality(Waits') * RulesTime + Rest'
  BY DEF Remaining, RulesTime
<1>10. Remaining = Cardinality(Waits) * RulesTime
  BY <1>6, WaitsCost DEF Remaining
<1> QED BY <1>2, <1>4, <1>5, <1>8, <1>9, <1>10, WaitsCost, Times

LEMMA RunHookCost ==
  ASSUME TypeOK, Phases, run_hook
  PROVE  Remaining' \in Nat /\ Remaining' <= Remaining /\ Waits' = Waits
<1>1. Waits' = Waits
  BY DEF run_hook, Waits
<1>2. current \in Runs /\ current # Absent /\ child = Absent /\ NextRule(current) # {}
  BY DEF run_hook, TypeOK
<1> DEFINE r == Min(NextRule(current))
<1>3. r \in NextRule(current) /\ r \in Nat /\ \A other \in NextRule(current) : r <= other
  BY <1>2, NextRuleType
<1>4. current' \in Runs /\ current' = [current EXCEPT !.rule = r]
  BY <1>2, NextRuleType DEF run_hook
<1>5. NextRule(current') = NextRule(current) \ {r}
  <2>1. current'.events = current.events /\ current'.rule = r
    BY <1>2, <1>4 DEF Runs
  <2>2. current.rule \in Nat
    BY <1>2 DEF Runs
  <2>3. NextRule(current) \in SUBSET Nat
    BY <1>2, NextRuleType
  <2>4. NextRule(current') = {x \in Matching(current.events) : x > r}
    BY <2>1 DEF NextRule
  <2>5. NextRule(current) = {x \in Matching(current.events) : x > current.rule}
    BY DEF NextRule
  <2>6. Matching(current.events) \in SUBSET Nat
    BY RulesFinite DEF Matching
  <2> HIDE DEF r
  <2> QED BY <1>3, <2>2, <2>4, <2>5, <2>6
<1>6. Cardinality(NextRule(current')) = Cardinality(NextRule(current)) - 1
  BY <1>3, <1>5, RulesCost, FS_RemoveElement
<1>7. Cardinality(NextRule(current)) \in Nat /\ Cardinality(NextRule(current)) >= 1
  BY <1>2, RulesCost, FS_EmptySet
<1>8. Cardinality(NextRule(current')) * Timeout = Cardinality(NextRule(current)) * Timeout - Timeout
  BY <1>6, <1>7, Delays, Product
<1>9. current' # Absent /\ child' = Timeout /\ child' # Absent
  BY <1>4, Delays, NothingIsAbsent DEF run_hook
<1>10. Rest = Cardinality(NextRule(current)) * Timeout + 0
  BY <1>2 DEF Rest
<1>11. Rest' = Cardinality(NextRule(current')) * Timeout + child'
  BY <1>9 DEF Rest, NextRule, Matching, Timeout
<1>12. Rest' = Rest
  BY <1>8, <1>9, <1>10, <1>11, RulesCost, Delays
<1>13. Remaining' = Remaining
  BY <1>1, <1>12 DEF Remaining, RulesTime
<1> QED BY <1>1, <1>13, RemainingType

LEMMA CommandCost ==
  ASSUME TypeOK, Phases, Exits \/ Kill \/ VmDone
  PROVE  Remaining' \in Nat /\ Remaining' <= Remaining /\ Waits' = Waits
<1>1. Waits' = Waits
  BY DEF Exits, Kill, VmDone, Waits
<1>2. Rest' \in Nat /\ Rest' <= Rest
  <2>1. CASE Exits \/ Kill
    <3>1. child # Absent /\ child \in Nat /\ child' = Absent /\ current' = current
      BY <2>1, NothingIsAbsent DEF Exits, Kill, TypeOK
    <3>2. current # Absent
      BY <3>1 DEF Phases
    <3>3. Rest = Cardinality(NextRule(current)) * Timeout + child
      BY <3>1, <3>2 DEF Rest
    <3>4. Rest' = Cardinality(NextRule(current)) * Timeout + 0
      BY <3>1, <3>2 DEF Rest, NextRule, Matching, Timeout
    <3> QED BY <3>1, <3>3, <3>4, RulesCost
  <2>2. CASE VmDone
    <3>1. current' = Absent
      BY <2>2 DEF VmDone
    <3> QED BY <3>1, RemainingType DEF Rest
  <2> QED BY <2>1, <2>2
<1> QED BY <1>1, <1>2, RemainingType, WaitsCost DEF Remaining, RulesTime

LEMMA TickCost ==
  ASSUME TypeOK, Phases, Tick, worker = "run"
  PROVE  Remaining' \in Nat /\ Remaining' = Remaining - 1
<1>1. child # Absent /\ child \in Nat /\ child > 0 /\ child' = child - 1 /\ current' = current
  BY NothingIsAbsent DEF Tick, Waiting, TypeOK
<1>2. current # Absent /\ child' # Absent
  BY <1>1, NothingIsAbsent DEF Phases
<1>3. Rest = Cardinality(NextRule(current)) * Timeout + child
  BY <1>1, <1>2 DEF Rest
<1>4. Rest' = Cardinality(NextRule(current)) * Timeout + child'
  BY <1>1, <1>2 DEF Rest, NextRule, Matching, Timeout
<1>5. Waits' = Waits
  BY TickAges
<1>6. Remaining = Cardinality(Waits) * RulesTime + Rest
  BY DEF Remaining
<1>7. Remaining' = Cardinality(Waits) * RulesTime + Rest'
  BY <1>5 DEF Remaining, RulesTime
<1> QED BY <1>1, <1>3, <1>4, <1>6, <1>7, RulesCost, WaitsCost

LEMMA AgesTake ==
  ASSUME TypeOK, Phases, Ages, Recv \/ RecvMore
  PROVE  Ages'
<1>1. Take /\ worker' = "debounce"
  BY DEF Recv, RecvMore
<1>2. \A n \in Nat : QueueAge(n) =>
        /\ \A i \in DOMAIN queue' : queue'[i].age <= n
        /\ \A v \in Waits' : pending'[v].age <= n \/ (v \in Waits /\ pending'[v].age = pending[v].age)
  BY <1>1, TakeAges
<1>3. CASE Recv
  <2>1. QueueAge(BatchTime) /\ BatchTime \in Nat /\ Waits = {} /\ left' = Debounce
    BY <1>3, Times DEF Recv, Ages, Phases, Waits
  <2>2. /\ \A i \in DOMAIN queue' : queue'[i].age <= BatchTime
        /\ \A v \in Waits' : pending'[v].age <= BatchTime
    BY <1>2, <2>1
  <2>3. QueueAge(IF left = Debounce THEN BatchTime ELSE 0)'
    BY <2>1, <2>2 DEF QueueAge, BatchTime, Debounce
  <2>4. BatchTime + Debounce - left' = BatchTime
    BY <2>1, Delays
  <2>5. PendingAge(BatchTime + Debounce - left)'
    BY <2>2, <2>4 DEF PendingAge, BatchTime, Debounce
  <2> QED BY <1>1, <2>3, <2>5 DEF Ages
<1>4. CASE RecvMore
  <2> DEFINE n == IF left = Debounce THEN BatchTime ELSE 0
             m == BatchTime + Debounce - left
  <2>1. QueueAge(n) /\ PendingAge(m) /\ n \in Nat /\ left' = left
    BY <1>4, Times DEF RecvMore, Ages
  <2>2. n <= m /\ m \in Nat
    BY Times, Delays DEF TypeOK
  <2>3. /\ \A i \in DOMAIN queue' : queue'[i].age <= n
        /\ \A v \in Waits' : pending'[v].age <= n \/ (v \in Waits /\ pending'[v].age = pending[v].age)
    BY <1>2, <2>1
  <2>4. \A v \in Waits' : pending'[v] \in Events
    BY <1>1, TakeType DEF Waits
  <2>5. \A v \in Waits' : pending'[v].age \in Nat
    BY <2>4 DEF Events
  <2>6. \A v \in Waits : pending[v].age <= m
    BY <2>1 DEF PendingAge
  <2>7. \A v \in Waits' : pending'[v].age <= m
    BY <2>1, <2>2, <2>3, <2>5, <2>6
  <2>8. QueueAge(IF left = Debounce THEN BatchTime ELSE 0)'
    BY <2>1, <2>3 DEF QueueAge, BatchTime, Debounce
  <2>9. PendingAge(BatchTime + Debounce - left)'
    BY <2>1, <2>7 DEF PendingAge, BatchTime, Debounce
  <2> QED BY <1>1, <2>8, <2>9 DEF Ages
<1> QED BY <1>3, <1>4

LEMMA AgesTick ==
  ASSUME TypeOK, TypeOK', Phases, Ages, Tick
  PROVE  Ages'
<1>1. /\ DOMAIN queue' = DOMAIN queue
      /\ \A i \in DOMAIN queue : queue'[i].age <= queue[i].age + 1
      /\ Waits' = Waits
      /\ \A v \in Waits : pending'[v].age <= pending[v].age + 1
      /\ \A i \in DOMAIN queue : queue[i].age \in Nat
      /\ \A v \in Waits : pending[v].age \in Nat
  BY TickAges
<1>2. \A i \in DOMAIN queue' : queue'[i] \in Events
  BY DEF TypeOK
<1>3. \A v \in Waits' : pending'[v] \in Events
  BY DEF TypeOK, Waits
<1>4. (\A i \in DOMAIN queue' : queue'[i].age \in Nat) /\ (\A v \in Waits' : pending'[v].age \in Nat)
  BY <1>2, <1>3 DEF Events
<1>5. worker' = worker
  BY DEF Tick
<1>6. CASE worker = "recv"
  <2>1. queue = << >>
    BY <1>6, NothingIsAbsent DEF Tick, Waiting, Phases
  <2>2. DOMAIN queue' = {}
    BY <1>1, <2>1
  <2> QED BY <1>5, <1>6, <2>2 DEF Ages, QueueAge
<1>7. CASE worker = "debounce"
  <2>1. queue = << >> /\ left > 0 /\ left \in Nat /\ left' = left - 1
    BY <1>7, NothingIsAbsent DEF Tick, Waiting, Phases, TypeOK
  <2>2. DOMAIN queue' = {}
    BY <1>1, <2>1
  <2>3. \A v \in Waits : pending[v].age <= BatchTime + Debounce - left
    BY <1>7 DEF Ages, PendingAge
  <2>4. \A v \in Waits' : pending'[v].age <= BatchTime + Debounce - left'
    BY <1>1, <1>4, <2>1, <2>3, Times, Delays
  <2>5. PendingAge(BatchTime + Debounce - left)'
    BY <2>4 DEF PendingAge, BatchTime, Debounce
  <2>6. QueueAge(IF left = Debounce THEN BatchTime ELSE 0)'
    BY <2>2 DEF QueueAge
  <2> QED BY <1>5, <1>7, <2>5, <2>6 DEF Ages
<1>8. CASE worker = "run"
  <2>1. Remaining' \in Nat /\ Remaining' + 1 <= Remaining
    BY <1>8, TickCost, RemainingType
  <2> QED BY <1>1, <1>4, <1>5, <1>8, <2>1, AgesRun
<1> QED BY <1>6, <1>7, <1>8 DEF TypeOK

LEMMA AgesUnchanged ==
  ASSUME Ages, UNCHANGED << queue, worker, left, pending, current, child >>
  PROVE  Ages'
BY DEF Ages, QueueAge, PendingAge, Remaining, Waits, Rest

LEMMA AgesStep ==
  ASSUME TypeOK, TypeOK', Phases, Ages, [Next]_vars
  PROVE  Ages'
<1>0. \A i \in DOMAIN queue : queue[i] \in Events
  BY DEF TypeOK
<1>1. \A i \in DOMAIN queue : queue[i] \in Events /\ queue[i].age \in Nat
  BY <1>0 DEF Events
<1>2. \A v \in Waits : pending[v] \in Events /\ pending[v].age \in Nat
  BY DEF TypeOK, Waits, Events
<1>3. ASSUME NEW v \in Vmids, NEW now \in Layouts, Schema(v, now)
      PROVE  Ages'
  <2> DEFINE evs == topology_events(sensors[v], now)
  <2>1. CASE UNCHANGED queue
    BY <1>3, <2>1, AgesUnchanged DEF Schema, workerVars
  <2>2. CASE evs # {} /\ notify(v, evs, now)
    <3>1. Event(v, evs, now) \in Events
      BY <2>2, KindsOfChanges, EventType, ListsAssumption
    <3>2. Event(v, evs, now).age = 0
      BY DEF Event
    <3> QED BY <1>3, <2>2, <3>1, <3>2, AgesNotify DEF Schema, notify
  <2> QED BY <1>3, <2>1, <2>2 DEF Schema
<1>4. ASSUME NEW v \in Vmids, NEW event \in {"device_removed", "vm_offline"}, Offline(v, event)
      PROVE  Ages'
  <2> DEFINE now == Remains(sensors[v])
  <2>1. now \in Lists \cup {Absent}
    BY RemainsList DEF TypeOK
  <2>2. Event(v, {event}, now) \in Events
    BY <2>1, EventType DEF Kinds
  <2>3. Event(v, {event}, now).age = 0
    BY DEF Event
  <2> QED BY <1>4, <2>2, <2>3, AgesNotify DEF Offline, notify
<1>5. CASE Recv \/ RecvMore
  BY <1>5, AgesTake
<1>6. CASE WindowOver
  <2>1. /\ worker = "debounce" /\ worker' = "run" /\ left = 0 /\ left # Debounce
        /\ current = Absent /\ UNCHANGED << queue, pending, current, child >>
    BY <1>6, Delays DEF WindowOver, Phases
  <2>2. QueueAge(0) /\ PendingAge(BatchTime + Debounce)
    BY <2>1, Times, Delays DEF Ages
  <2>3. Waits' = Waits /\ Remaining' = Remaining
    BY <2>1 DEF Waits, Remaining, Rest
  <2>4. Remaining \in Nat /\ Remaining <= BatchTime
    BY <2>1, WaitsCost DEF Remaining, Rest
  <2>5. \A i \in DOMAIN queue : queue[i].age <= BatchTime - Remaining
    BY <1>1, <2>2, <2>4, Times DEF QueueAge
  <2>6. \A v \in Waits : pending[v].age <= Debounce + 2 * BatchTime - Remaining
    BY <1>2, <2>2, <2>4, Times, Delays DEF PendingAge
  <2>7. QueueAge(BatchTime - Remaining)'
    BY <2>1, <2>3, <2>5 DEF QueueAge
  <2>8. PendingAge(Debounce + 2 * BatchTime - Remaining)'
    BY <2>1, <2>3, <2>6 DEF PendingAge
  <2>9. (Remaining <= BatchTime)'
    BY <2>3, <2>4
  <2> QED BY <2>1, <2>7, <2>8, <2>9 DEF Ages
<1>7. ASSUME NEW v \in Vmids, Pick(v)
      PROVE  Ages'
  <2>1. Remaining' \in Nat /\ Remaining' + 0 <= Remaining /\ Waits' = Waits \ {v}
    BY <1>7, PickCost, RemainingType
  <2>2. worker = "run" /\ worker' = "run" /\ queue' = queue
    BY <1>7 DEF Pick
  <2>3. \A w \in Waits' : pending'[w] = pending[w]
    BY <1>7, <2>1 DEF Pick, TypeOK, Waits
  <2> QED BY <1>1, <1>2, <2>1, <2>2, <2>3, AgesRun
<1>8. CASE run_hook \/ Exits \/ Kill \/ VmDone
  <2>1. Remaining' \in Nat /\ Remaining' + 0 <= Remaining /\ Waits' = Waits
    BY <1>8, RunHookCost, CommandCost, RemainingType
  <2>2. worker = "run" /\ worker' = "run" /\ queue' = queue /\ pending' = pending
    BY <1>8, NothingIsAbsent DEF run_hook, Exits, Kill, VmDone, Phases
  <2> QED BY <1>1, <1>2, <2>1, <2>2, AgesRun
<1>9. CASE BatchDone
  <2>1. \A i \in DOMAIN queue : queue[i].age <= BatchTime - Remaining
    BY <1>9 DEF BatchDone, Ages, QueueAge
  <2>2. \A i \in DOMAIN queue : queue[i].age <= BatchTime
    BY <1>1, <2>1, RemainingType, Times
  <2>3. QueueAge(BatchTime)'
    BY <1>9, <2>2 DEF BatchDone, QueueAge, BatchTime
  <2> QED BY <1>9, <2>3 DEF BatchDone, Ages
<1>10. CASE Tick
  BY <1>10, AgesTick
<1>11. CASE UNCHANGED vars
  BY <1>11, AgesUnchanged DEF vars, workerVars
<1> QED
  BY <1>3, <1>4, <1>5, <1>6, <1>7, <1>8, <1>9, <1>10, <1>11 DEF Next, Worker

-----------------------------------------------------------------------------
(* Windows                                                                 *)

LEMMA ApartStep ==
  ASSUME TypeOK, Phases, Apart, [Next]_vars
  PROVE  Apart'
<1>1. ASSUME UNCHANGED << worker, left, pending, since >>
      PROVE  Apart'
  BY <1>1 DEF Apart, Waits
<1>2. CASE Recv
  <2>1. worker' = "debounce" /\ left' = Debounce /\ since' = since
    BY <1>2 DEF Recv
  <2>2. \A v \in Vmids : since'[v] >= Debounce - left'
    BY <2>1, Delays DEF TypeOK
  <2> QED BY <2>1, <2>2 DEF Apart, Debounce
<1>3. CASE RecvMore
  BY <1>3 DEF RecvMore, Apart, Debounce
<1>4. CASE WindowOver
  <2>1. \A v \in Vmids : since'[v] >= Debounce
    BY <1>4, Delays DEF WindowOver, Apart, TypeOK
  <2>2. worker' = "run"
    BY <1>4 DEF WindowOver
  <2> QED BY <2>1, <2>2 DEF Apart, Waits, Debounce
<1>5. ASSUME NEW v \in Vmids, Pick(v)
      PROVE  Apart'
  <2>1. Waits' = Waits \ {v} /\ worker = "run" /\ worker' = "run"
    BY <1>5, PickCost DEF Pick
  <2>2. \A w \in Vmids \ {v} : since'[w] = since[w]
    BY <1>5 DEF Pick, TypeOK
  <2>3. \A w \in Waits' : since'[w] >= Debounce
    BY <2>1, <2>2 DEF Apart, Waits
  <2> QED BY <2>1, <2>3 DEF Apart, Debounce
<1>6. CASE BatchDone
  BY <1>6 DEF BatchDone, Apart
<1>7. CASE Tick
  <2>1. worker' = worker /\ Waits' = Waits
    BY <1>7, TickAges DEF Tick
  <2>2. \A v \in Vmids : since'[v] = IF since[v] < Debounce THEN since[v] + 1 ELSE Debounce
    BY <1>7 DEF Tick
  <2>3. CASE worker = "debounce"
    <3>1. left > 0 /\ left \in Nat /\ left' = left - 1
      BY <1>7, <2>3, NothingIsAbsent DEF Tick, Waiting, Phases, TypeOK
    <3>2. \A v \in Vmids : since'[v] >= Debounce - left'
      BY <2>2, <2>3, <3>1, Delays DEF Apart, TypeOK
    <3> QED BY <2>1, <2>3, <3>2 DEF Apart, Debounce
  <2>4. CASE worker = "run"
    <3>1. \A v \in Waits : since'[v] >= Debounce
      BY <2>2, <2>4, Delays DEF Apart, TypeOK, Waits
    <3> QED BY <2>1, <2>4, <3>1 DEF Apart, Debounce
  <2>5. CASE worker = "recv"
    BY <2>1, <2>5 DEF Apart
  <2> QED BY <2>3, <2>4, <2>5 DEF TypeOK
<1>8. CASE run_hook \/ Exits \/ Kill \/ VmDone
  BY <1>1, <1>8 DEF run_hook, Exits, Kill, VmDone
<1>9. ASSUME NEW v \in Vmids, NEW now \in Layouts, Schema(v, now)
      PROVE  Apart'
  BY <1>1, <1>9 DEF Schema, workerVars
<1>10. ASSUME NEW v \in Vmids, NEW event \in {"device_removed", "vm_offline"}, Offline(v, event)
       PROVE  Apart'
  BY <1>1, <1>10 DEF Offline, workerVars
<1>11. CASE UNCHANGED vars
  BY <1>1, <1>11 DEF vars
<1> QED
  BY <1>2, <1>3, <1>4, <1>5, <1>6, <1>7, <1>8, <1>9, <1>10, <1>11 DEF Next, Worker

-----------------------------------------------------------------------------
(* What the events explain                                                 *)

(* What explains a change still explains it with more kinds, and changes   *)
(* one after the other are explained by the kinds of both.                 *)
LEMMA ExplainsCompose ==
  ASSUME NEW e1, NEW e2, NEW a, NEW b, NEW c, Explains(e1, a, b), Explains(e2, b, c)
  PROVE  Explains(e1 \cup e2, a, c)
<1> DEFINE had == IF a = Absent THEN {} ELSE DOMAIN a
           mid == IF b = Absent THEN {} ELSE DOMAIN b
           has == IF c = Absent THEN {} ELSE DOMAIN c
           e == e1 \cup e2
           Gone == {"sensor_removed"} \cup Loss
           Added == {"sensor_added", "device_created"}
<1>1. /\ a = Absent /\ b # Absent => "device_created" \in e1
      /\ a # Absent /\ b = Absent => e1 \cap Loss # {}
      /\ mid \ had # {} => e1 \cap Added # {}
      /\ had \ mid # {} => e1 \cap Gone # {}
      /\ (\E s \in had \cap mid : a[s] # b[s]) =>
           "sensor_changed" \in e1 \/ (e1 \cap Gone # {} /\ e1 \cap Added # {})
  BY DEF Explains
<1>2. /\ b = Absent /\ c # Absent => "device_created" \in e2
      /\ b # Absent /\ c = Absent => e2 \cap Loss # {}
      /\ has \ mid # {} => e2 \cap Added # {}
      /\ mid \ has # {} => e2 \cap Gone # {}
      /\ (\E s \in mid \cap has : b[s] # c[s]) =>
           "sensor_changed" \in e2 \/ (e2 \cap Gone # {} /\ e2 \cap Added # {})
  BY DEF Explains
<1>3. a = Absent /\ c # Absent => "device_created" \in e
  BY <1>1, <1>2
<1>4. a # Absent /\ c = Absent => e \cap Loss # {}
  BY <1>1, <1>2
<1> HIDE DEF had, mid, has, Gone, Added
<1>5. has \ had # {} => e \cap Added # {}
  BY <1>1, <1>2
<1>6. had \ has # {} => e \cap Gone # {}
  BY <1>1, <1>2
<1>7. ASSUME NEW s \in had \cap has, a[s] # c[s]
      PROVE  "sensor_changed" \in e \/ (e \cap Gone # {} /\ e \cap Added # {})
  <2>1. CASE s \in mid
    <3>1. CASE a[s] # b[s]
      BY <1>1, <1>7, <2>1, <3>1
    <3>2. CASE b[s] # c[s]
      BY <1>2, <1>7, <2>1, <3>2
    <3> QED BY <1>7, <3>1, <3>2
  <2>2. CASE s \notin mid
    <3>1. e1 \cap Gone # {} /\ e2 \cap Added # {}
      BY <1>1, <1>2, <1>7, <2>2
    <3> QED BY <3>1
  <2> QED BY <2>1, <2>2
<1> QED BY <1>3, <1>4, <1>5, <1>6, <1>7 DEF Explains, had, has, Gone, Added

LEMMA ExplainsNothing ==
  ASSUME NEW a
  PROVE  Explains({}, a, a)
BY DEF Explains

(* The kinds a schema is given explain what it changes.                    *)
LEMMA SchemaExplains ==
  ASSUME NEW prior \in Lists \cup {Absent}, NEW now \in Lists
  PROVE  /\ Explains(topology_events(prior, now), prior, now)
         /\ topology_events(prior, now) = {} => prior = now
<1>1. now # Absent
  BY NothingIsAbsent
<1>2. CASE prior = Absent
  BY <1>1, <1>2 DEF topology_events, Explains
<1>3. CASE prior # Absent
  <2> DEFINE evs == topology_events(prior, now)
  <2>1. /\ "sensor_changed" \in evs <=>
             \E s \in DOMAIN prior \cap DOMAIN now : prior[s] # now[s]
        /\ "sensor_added" \in evs <=> DOMAIN now \ DOMAIN prior # {}
        /\ "sensor_removed" \in evs <=> DOMAIN prior \ DOMAIN now # {}
    BY <1>3 DEF topology_events, Kinds
  <2>2. Explains(evs, prior, now)
    BY <1>1, <1>3, <2>1 DEF Explains
  <2>3. ASSUME evs = {}
        PROVE  prior = now
    <3>1. DOMAIN prior = DOMAIN now /\ \A s \in DOMAIN now : prior[s] = now[s]
      BY <2>1, <2>3
    <3>2. prior = [s \in DOMAIN prior |-> prior[s]] /\ now = [s \in DOMAIN now |-> now[s]]
      BY <1>3 DEF Lists
    <3> QED BY <3>1, <3>2
  <2> QED BY <2>2, <2>3
<1> QED BY <1>2, <1>3

(* The kinds of a VM that goes offline explain what is left of its sensors. *)
LEMMA OfflineExplains ==
  ASSUME NEW old \in Lists \cup {Absent}, NEW event \in Loss
  PROVE  Explains({event}, old, Remains(old))
<1>1. CASE old = Absent
  BY <1>1 DEF Explains, Remains
<1>2. CASE old \in Lists
  <2>1. old # Absent /\ Kept(old) # Absent
    BY <1>2, NothingIsAbsent, KeptList
  <2>2. /\ DOMAIN Kept(old) \subseteq DOMAIN old
        /\ \A s \in DOMAIN Kept(old) : Kept(old)[s] = old[s]
    BY <1>2, KeptList
  <2> QED BY <2>1, <2>2 DEF Explains, Remains
<1> QED BY <1>1, <1>2

(* Where the channel keeps its events and the worker knows what it knew,   *)
(* the channel still explains what it did.                                 *)
LEMMA QueuedKept ==
  ASSUME NEW v \in Vmids, Queued(v), Settled(v),
         DOMAIN queue' = DOMAIN queue,
         \A i \in DOMAIN queue : /\ queue'[i].vmid = queue[i].vmid
                                 /\ queue'[i].events = queue[i].events
                                 /\ queue'[i].map = queue[i].map,
         sensors'[v] = sensors[v], Known(v)' = Known(v)
  PROVE  Queued(v)' /\ Settled(v)'
<1>1. Of(v)' = Of(v)
  BY DEF Of
<1>2. \A i \in DOMAIN queue : First(v, i)' = First(v, i) /\ Last(v, i)' = Last(v, i)
  BY <1>1 DEF First, Last
<1>3. \A i, j \in DOMAIN queue : Follows(v, i, j)' = Follows(v, i, j)
  BY <1>1 DEF Follows
<1>4. Queued(v)'
  BY <1>2, <1>3 DEF Queued
<1> QED BY <1>1, <1>4 DEF Settled

(* A handler that notifies adds the last event of its VM.                  *)
LEMMA NotifyQueued ==
  ASSUME TypeOK, NEW v \in Vmids, Queued(v), Settled(v), NEW e \in Events, e.vmid = v,
         Explains(e.events, sensors[v], e.map), sensors'[v] = e.map,
         queue' = Append(queue, e), Known(v)' = Known(v)
  PROVE  Queued(v)' /\ Settled(v)'
<1> DEFINE n == Len(queue) + 1
<1>1. /\ DOMAIN queue = 1 .. (n - 1) /\ DOMAIN queue' = 1 .. n /\ n \in Nat \ {0}
      /\ queue'[n] = e
      /\ \A i \in 1 .. (n - 1) : queue'[i] = queue[i]
  BY QueueAppend DEF TypeOK
<1> HIDE DEF n
<1>2. Of(v)' = Of(v) \cup {n} /\ Of(v) \subseteq 1 .. (n - 1)
  BY <1>1 DEF Of
<1>3. ASSUME NEW i \in DOMAIN queue', First(v, i)'
      PROVE  Explains(queue'[i].events, Known(v)', queue'[i].map)
  <2>1. CASE i = n
    <3>1. Of(v) = {}
      BY <1>1, <1>2, <1>3, <2>1 DEF First
    <3>2. Known(v) = sensors[v]
      BY <3>1 DEF Settled
    <3> QED BY <1>1, <2>1, <3>2
  <2>2. CASE i # n
    <3>1. i \in DOMAIN queue /\ First(v, i) /\ queue'[i] = queue[i]
      BY <1>1, <1>2, <1>3, <2>2 DEF First
    <3> QED BY <3>1 DEF Queued
  <2> QED BY <2>1, <2>2
<1>4. ASSUME NEW i \in DOMAIN queue', NEW j \in DOMAIN queue', Follows(v, i, j)'
      PROVE  Explains(queue'[j].events, queue'[i].map, queue'[j].map)
  <2>1. i \in Of(v) /\ i \in DOMAIN queue /\ queue'[i] = queue[i]
    BY <1>1, <1>2, <1>4 DEF Follows
  <2>2. CASE j = n
    <3>1. Last(v, i)
      BY <1>1, <1>2, <1>4, <2>1, <2>2 DEF Follows, Last
    <3>2. queue[i].map = sensors[v]
      BY <2>1, <3>1 DEF Queued
    <3> QED BY <1>1, <2>1, <2>2, <3>2
  <2>3. CASE j # n
    <3>1. j \in DOMAIN queue /\ queue'[j] = queue[j]
      BY <1>1, <2>3
    <3>2. Follows(v, i, j)
      BY <1>1, <1>2, <1>4, <2>1, <2>3, <3>1 DEF Follows
    <3> QED BY <2>1, <3>1, <3>2 DEF Queued
  <2> QED BY <2>2, <2>3
<1>5. ASSUME NEW i \in DOMAIN queue', Last(v, i)'
      PROVE  queue'[i].map = sensors'[v]
  <2>1. i = n
    BY <1>1, <1>2, <1>5 DEF Last
  <2> QED BY <1>1, <2>1
<1>6. Queued(v)'
  BY <1>3, <1>4, <1>5 DEF Queued
<1>7. Settled(v)'
  BY <1>2 DEF Settled
<1> QED BY <1>6, <1>7

LEMMA NotifyQueuedOther ==
  ASSUME TypeOK, NEW v \in Vmids, Queued(v), Settled(v), NEW e \in Events, e.vmid # v,
         sensors'[v] = sensors[v], queue' = Append(queue, e), Known(v)' = Known(v)
  PROVE  Queued(v)' /\ Settled(v)'
<1> DEFINE n == Len(queue) + 1
<1>1. /\ DOMAIN queue = 1 .. (n - 1) /\ DOMAIN queue' = 1 .. n /\ n \in Nat \ {0}
      /\ queue'[n] = e
      /\ \A i \in 1 .. (n - 1) : queue'[i] = queue[i]
  BY QueueAppend DEF TypeOK
<1> HIDE DEF n
<1>2. Of(v)' = Of(v) /\ Of(v) \subseteq DOMAIN queue
  BY <1>1 DEF Of
<1>3. \A i \in Of(v) : i \in DOMAIN queue /\ queue'[i] = queue[i]
  BY <1>1, <1>2
<1>4. \A i : (First(v, i)' <=> First(v, i)) /\ (Last(v, i)' <=> Last(v, i))
             /\ (First(v, i) \/ Last(v, i) => i \in Of(v))
  BY <1>2 DEF First, Last
<1>5. \A i, j : (Follows(v, i, j)' <=> Follows(v, i, j))
                /\ (Follows(v, i, j) => i \in Of(v) /\ j \in Of(v))
  BY <1>2 DEF Follows
<1>6. Queued(v)'
  BY <1>3, <1>4, <1>5 DEF Queued
<1>7. Settled(v)'
  BY <1>2 DEF Settled
<1> QED BY <1>6, <1>7

(* A handler leaves what the worker has alone.                             *)
LEMMA NotifyExplained ==
  ASSUME TypeOK, Explained, UNCHANGED workerVars, NEW v \in Vmids, NEW e \in Events,
         e.vmid = v, Explains(e.events, sensors[v], e.map),
         sensors' = [sensors EXCEPT ![v] = e.map], queue' = Append(queue, e)
  PROVE  Explained'
<1>1. ASSUME NEW w \in Vmids
      PROVE  Ran(w)' /\ Merged(w)' /\ Queued(w)' /\ Settled(w)'
  <2>1. Ran(w) /\ Merged(w) /\ Queued(w) /\ Settled(w)
    BY DEF Explained
  <2>2. Handed(w)' = Handed(w) /\ Known(w)' = Known(w)
    BY DEF workerVars, Handed, Known
  <2>3. Ran(w)' /\ Merged(w)'
    BY <2>1, <2>2 DEF workerVars, Ran, Merged
  <2>4. sensors'[w] = IF w = v THEN e.map ELSE sensors[w]
    BY DEF TypeOK
  <2>5. Queued(w)' /\ Settled(w)'
    BY <2>1, <2>2, <2>4, NotifyQueued, NotifyQueuedOther
  <2> QED BY <2>3, <2>5
<1> QED BY <1>1 DEF Explained

(* The worker takes the first event out of the channel.                    *)
LEMMA TakeQueued ==
  ASSUME TypeOK, NEW v \in Vmids, Queued(v), Settled(v), queue # << >>, queue' = Tail(queue),
         sensors'[v] = sensors[v],
         Known(v)' = IF queue[1].vmid = v THEN queue[1].map ELSE Known(v)
  PROVE  Queued(v)' /\ Settled(v)'
<1> DEFINE n == Len(queue)
<1>1. /\ DOMAIN queue = 1 .. n /\ DOMAIN queue' = 1 .. (n - 1) /\ n \in Nat \ {0}
      /\ \A i \in 1 .. (n - 1) : queue'[i] = queue[i + 1]
  BY QueueEnds DEF TypeOK
<1> HIDE DEF n
<1>2. /\ Of(v) \subseteq 1 .. n /\ Of(v)' \subseteq 1 .. (n - 1)
      /\ \A i \in 1 .. (n - 1) : i \in Of(v)' <=> i + 1 \in Of(v)
      /\ 1 \in Of(v) <=> queue[1].vmid = v
  BY <1>1 DEF Of
<1>3. \A j \in Of(v) : j = 1 \/ (j - 1 \in Of(v)' /\ j - 1 \in 1 .. (n - 1))
  <2>1. TAKE j \in Of(v)
  <2>2. j \in 1 .. n
    BY <1>2
  <2>3. CASE j # 1
    <3>1. j - 1 \in 1 .. (n - 1) /\ (j - 1) + 1 = j
      BY <1>1, <2>2, <2>3
    <3> QED BY <1>2, <3>1
  <2> QED BY <2>3
<1>4. ASSUME NEW i \in DOMAIN queue', First(v, i)'
      PROVE  Explains(queue'[i].events, Known(v)', queue'[i].map)
  <2>1. i \in Of(v)' /\ i \in 1 .. (n - 1) /\ i + 1 \in Of(v) /\ i + 1 \in DOMAIN queue
    BY <1>1, <1>2, <1>4 DEF First
  <2>2. \A j \in Of(v)' : i <= j
    BY <1>4 DEF First
  <2>3. \A j \in Of(v) : j = 1 \/ i + 1 <= j
    <3>1. TAKE j \in Of(v)
    <3>2. j \in 1 .. n
      BY <1>2
    <3> QED BY <1>3, <2>1, <2>2, <3>2
  <2>4. CASE 1 \in Of(v)
    <3>1. Follows(v, 1, i + 1)
      BY <2>1, <2>3, <2>4 DEF Follows
    <3>2. 1 \in DOMAIN queue
      BY <1>1
    <3>3. Explains(queue[i + 1].events, queue[1].map, queue[i + 1].map)
      BY <2>1, <3>1, <3>2 DEF Queued
    <3> QED BY <1>1, <1>2, <2>1, <2>4, <3>3
  <2>5. CASE 1 \notin Of(v)
    <3>1. First(v, i + 1)
      BY <2>1, <2>3, <2>5 DEF First
    <3>2. Explains(queue[i + 1].events, Known(v), queue[i + 1].map)
      BY <2>1, <3>1 DEF Queued
    <3> QED BY <1>1, <1>2, <2>1, <2>5, <3>2
  <2> QED BY <2>4, <2>5
<1>5. ASSUME NEW i \in DOMAIN queue', NEW j \in DOMAIN queue', Follows(v, i, j)'
      PROVE  Explains(queue'[j].events, queue'[i].map, queue'[j].map)
  <2>1. /\ i \in 1 .. (n - 1) /\ j \in 1 .. (n - 1) /\ i < j
        /\ i + 1 \in Of(v) /\ j + 1 \in Of(v)
        /\ i + 1 \in DOMAIN queue /\ j + 1 \in DOMAIN queue
    BY <1>1, <1>2, <1>5 DEF Follows
  <2>2. \A k \in Of(v)' : k <= i \/ j <= k
    BY <1>5 DEF Follows
  <2>3. \A k \in Of(v) : k <= i + 1 \/ j + 1 <= k
    <3>1. TAKE k \in Of(v)
    <3>2. k \in 1 .. n
      BY <1>2
    <3>3. k = 1 \/ k - 1 <= i \/ j <= k - 1
      BY <1>3, <2>2
    <3> QED BY <2>1, <3>2, <3>3, <1>1
  <2>4. Follows(v, i + 1, j + 1)
    BY <2>1, <2>3 DEF Follows
  <2>5. Explains(queue[j + 1].events, queue[i + 1].map, queue[j + 1].map)
    BY <2>1, <2>4 DEF Queued
  <2> QED BY <1>1, <2>1, <2>5
<1>6. ASSUME NEW i \in DOMAIN queue', Last(v, i)'
      PROVE  queue'[i].map = sensors'[v]
  <2>1. i \in 1 .. (n - 1) /\ i + 1 \in Of(v) /\ i + 1 \in DOMAIN queue
    BY <1>1, <1>2, <1>6 DEF Last
  <2>2. \A k \in Of(v)' : k <= i
    BY <1>6 DEF Last
  <2>3. \A k \in Of(v) : k <= i + 1
    <3>1. TAKE k \in Of(v)
    <3>2. k \in 1 .. n
      BY <1>2
    <3> QED BY <1>3, <2>1, <2>2, <3>2
  <2>4. Last(v, i + 1)
    BY <2>1, <2>3 DEF Last
  <2> QED BY <1>1, <2>1, <2>4 DEF Queued
<1>7. Queued(v)'
  BY <1>4, <1>5, <1>6 DEF Queued
<1>8. ASSUME Of(v)' = {}
      PROVE  Known(v)' = sensors'[v]
  <2>1. \A j \in Of(v) : j = 1
    BY <1>3, <1>8
  <2>2. CASE 1 \in Of(v)
    <3>1. Last(v, 1) /\ 1 \in DOMAIN queue
      BY <1>1, <2>1, <2>2 DEF Last
    <3> QED BY <1>2, <2>2, <3>1 DEF Queued
  <2>3. CASE 1 \notin Of(v)
    BY <1>2, <2>1, <2>3 DEF Settled
  <2> QED BY <2>2, <2>3
<1> QED BY <1>7, <1>8 DEF Settled

(* The merged event explains all the changes it stands for.                *)
LEMMA TakeExplained ==
  ASSUME TypeOK, Explained, Take, UNCHANGED << hostVars, current, told >>
  PROVE  Explained'
<1> DEFINE e == Head(queue)
<1>1. queue # << >> /\ queue' = Tail(queue) /\ e \in Events /\ e = queue[1] /\ 1 \in DOMAIN queue
  BY QueueEnds DEF Take, TypeOK
<1>2. pending' = [pending EXCEPT ![e.vmid] = Merge(@, e)] /\ e.vmid \in Vmids
  BY <1>1 DEF Take, Events
<1>3. ASSUME NEW v \in Vmids
      PROVE  Ran(v)' /\ Merged(v)' /\ Queued(v)' /\ Settled(v)'
  <2>1. Ran(v) /\ Merged(v) /\ Queued(v) /\ Settled(v)
    BY DEF Explained
  <2>2. Handed(v)' = Handed(v) /\ Ran(v)'
    BY <2>1 DEF Handed, Ran
  <2>3. CASE v # e.vmid
    <3>1. pending'[v] = pending[v]
      BY <1>2, <2>3 DEF TypeOK
    <3>2. Merged(v)' /\ Known(v)' = Known(v)
      BY <2>1, <2>2, <3>1 DEF Merged, Known
    <3>3. Queued(v)' /\ Settled(v)'
      BY <1>1, <2>1, <2>3, <3>2, TakeQueued DEF hostVars
    <3> QED BY <2>2, <3>2, <3>3
  <2>4. CASE v = e.vmid
    <3>1. pending'[v] = Merge(pending[v], e) /\ pending'[v] \in Events
      BY <1>1, <1>2, <2>4, MergeType DEF TypeOK
    <3>2. First(v, 1)
      BY <1>1, <2>4 DEF First, Of, TypeOK
    <3>3. Explains(e.events, Known(v), e.map)
      BY <1>1, <2>1, <3>2 DEF Queued
    <3>4. pending'[v].map = e.map /\ Explains(pending'[v].events, Handed(v), e.map)
      <4>1. CASE pending[v] = Absent
        BY <3>1, <3>3, <4>1 DEF Merge, Known
      <4>2. CASE pending[v] # Absent
        <5>1. Explains(pending[v].events \cup e.events, Handed(v), e.map)
          BY <2>1, <3>3, <4>2, ExplainsCompose DEF Merged, Known
        <5>2. /\ pending'[v].events = e.events \cup pending[v].events
              /\ pending'[v].map = e.map
          BY <1>1, <3>1, <4>2 DEF Merge, Events
        <5>3. e.events \cup pending[v].events = pending[v].events \cup e.events
          OBVIOUS
        <5> QED BY <5>1, <5>2, <5>3
      <4> QED BY <4>1, <4>2
    <3>5. Merged(v)' /\ Known(v)' = e.map
      BY <2>2, <3>1, <3>4, NothingIsAbsent DEF Merged, Known
    <3>6. Queued(v)' /\ Settled(v)'
      BY <1>1, <2>1, <2>4, <3>5, TakeQueued DEF hostVars
    <3> QED BY <2>2, <3>5, <3>6
  <2> QED BY <2>3, <2>4
<1> QED BY <1>3 DEF Explained

LEMMA TickExplained ==
  ASSUME TypeOK, Explained, Tick
  PROVE  Explained'
<1>1. ASSUME NEW e \in Events
      PROVE  Older(e).vmid = e.vmid /\ Older(e).events = e.events /\ Older(e).map = e.map
  BY NothingIsAbsent DEF Older, Events
<1>2. /\ queue' = [i \in DOMAIN queue |-> Older(queue[i])]
      /\ pending' = [v \in Vmids |-> Older(pending[v])]
      /\ sensors' = sensors /\ current' = current /\ told' = told
  BY DEF Tick, hostVars
<1>3. \A i \in DOMAIN queue : queue[i] \in Events
  BY DEF TypeOK
<1>4. /\ DOMAIN queue' = DOMAIN queue
      /\ \A i \in DOMAIN queue : /\ queue'[i].vmid = queue[i].vmid
                                 /\ queue'[i].events = queue[i].events
                                 /\ queue'[i].map = queue[i].map
  BY <1>1, <1>2, <1>3
<1>5. ASSUME NEW v \in Vmids
      PROVE  Ran(v)' /\ Merged(v)' /\ Queued(v)' /\ Settled(v)'
  <2>1. Ran(v) /\ Merged(v) /\ Queued(v) /\ Settled(v)
    BY DEF Explained
  <2>2. pending[v] \in Events \cup {Absent} /\ pending'[v] = Older(pending[v])
    BY <1>2 DEF TypeOK
  <2>3. /\ pending'[v] = Absent <=> pending[v] = Absent
        /\ pending[v] # Absent => /\ pending'[v].events = pending[v].events
                                  /\ pending'[v].map = pending[v].map
    BY <1>1, <2>2, OlderType, NothingIsAbsent
  <2>4. Handed(v)' = Handed(v) /\ Ran(v)'
    BY <1>2, <2>1 DEF Handed, Ran
  <2>5. Known(v)' = Known(v) /\ Merged(v)'
    BY <2>1, <2>3, <2>4 DEF Known, Merged
  <2>6. Queued(v)' /\ Settled(v)'
    BY <1>2, <1>4, <2>1, <2>5, QueuedKept
  <2> QED BY <2>4, <2>5, <2>6
<1> QED BY <1>5 DEF Explained

LEMMA ExplainedUnchanged ==
  ASSUME Explained, UNCHANGED << sensors, queue, pending, current, told >>
  PROVE  Explained'
<1>1. ASSUME NEW v \in Vmids
      PROVE  Ran(v)' /\ Merged(v)' /\ Queued(v)' /\ Settled(v)'
  <2>1. Ran(v) /\ Merged(v) /\ Queued(v) /\ Settled(v)
    BY DEF Explained
  <2>2. Handed(v)' = Handed(v) /\ Ran(v)' /\ Known(v)' = Known(v) /\ Merged(v)'
    BY <2>1 DEF Handed, Ran, Known, Merged
  <2> QED BY <2>1, <2>2, QueuedKept
<1> QED BY <1>1 DEF Explained

(* An event is handed to the rules: the worker knows what it knew.         *)
LEMMA PickExplained ==
  ASSUME TypeOK, Phases, Explained, NEW w \in Vmids, Pick(w)
  PROVE  Explained'
<1>1. pending[w] \in Events /\ current = Absent
  BY DEF Pick, TypeOK
<1>2. /\ current' \in Runs /\ current'.vmid = w /\ current'.map = pending[w].map
      /\ current'.events = pending[w].events /\ current'.rule = 0
  BY <1>1 DEF Pick, Events, Runs
<1>3. current' # Absent
  BY <1>2, NothingIsAbsent
<1>4. pending' = [pending EXCEPT ![w] = Absent] /\ UNCHANGED << sensors, queue, told >>
  BY DEF Pick, hostVars
<1>5. ASSUME NEW v \in Vmids
      PROVE  Ran(v)' /\ Merged(v)' /\ Queued(v)' /\ Settled(v)'
  <2>1. Ran(v) /\ Merged(v) /\ Queued(v) /\ Settled(v)
    BY DEF Explained
  <2>2. Handed(v) = told[v]
    BY <1>1 DEF Handed
  <2>3. CASE v = w
    <3>1. pending[v] # Absent /\ pending'[v] = Absent
      BY <1>1, <1>4, <2>3, NothingIsAbsent DEF TypeOK
    <3>2. Ran(v)'
      BY <1>2, <1>4, <2>1, <2>2, <2>3, <3>1 DEF Ran, Merged
    <3>3. Merged(v)' /\ Known(v)' = Known(v)
      BY <1>2, <1>3, <2>3, <3>1 DEF Merged, Known, Handed
    <3> QED BY <1>4, <2>1, <3>2, <3>3, QueuedKept
  <2>4. CASE v # w
    <3>1. pending'[v] = pending[v]
      BY <1>4, <2>4 DEF TypeOK
    <3>2. Handed(v)' = Handed(v) /\ Ran(v)'
      BY <1>2, <1>4, <2>2, <2>4 DEF Handed, Ran
    <3>3. Merged(v)' /\ Known(v)' = Known(v)
      BY <1>4, <2>1, <3>1, <3>2 DEF Merged, Known
    <3> QED BY <1>4, <2>1, <3>2, <3>3, QueuedKept
  <2> QED BY <2>3, <2>4
<1> QED BY <1>5 DEF Explained

(* A command is told of the sensors the worker handed over.                *)
LEMMA RunHookExplained ==
  ASSUME TypeOK, Phases, Explained, run_hook
  PROVE  Explained'
<1>1. current \in Runs /\ current # Absent /\ NextRule(current) # {}
  BY DEF run_hook, TypeOK
<1> DEFINE r == Min(NextRule(current))
<1>2. r \in NextRule(current) /\ NextRule(current) \in SUBSET Nat
  BY <1>1, NextRuleType
<1>3. current' = [current EXCEPT !.rule = r] /\ current' \in Runs /\ current.vmid \in Vmids
  BY <1>1, NextRuleType DEF run_hook, Runs
<1>4. current.rule \in Nat /\ r > current.rule /\ r \in Nat
  BY <1>1, <1>2 DEF NextRule, Runs
<1>5. current'.vmid = current.vmid /\ current'.map = current.map /\ current'.rule # 0
  BY <1>1, <1>3, <1>4 DEF Runs
<1>6. current' # Absent
  BY <1>3, NothingIsAbsent
<1>7. told' = [told EXCEPT ![current.vmid] = current.map] /\ UNCHANGED << sensors, queue, pending >>
  BY DEF run_hook, hostVars
<1> HIDE DEF r
<1>8. ASSUME NEW v \in Vmids
      PROVE  Ran(v)' /\ Merged(v)' /\ Queued(v)' /\ Settled(v)'
  <2>1. Ran(v) /\ Merged(v) /\ Queued(v) /\ Settled(v)
    BY DEF Explained
  <2>2. told'[v] = IF v = current.vmid THEN current.map ELSE told[v]
    BY <1>3, <1>7 DEF TypeOK
  <2>3. Handed(v)' = Handed(v)
    BY <1>1, <1>5, <1>6, <2>2 DEF Handed
  <2>4. Ran(v)'
    BY <1>5, <2>2 DEF Ran
  <2>5. Merged(v)' /\ Known(v)' = Known(v)
    BY <1>7, <2>1, <2>3 DEF Merged, Known
  <2> QED BY <1>7, <2>1, <2>4, <2>5, QueuedKept
<1> QED BY <1>8 DEF Explained

(* As every kind is taken by some rule, a command was told of the event.   *)
LEMMA VmDoneExplained ==
  ASSUME TypeOK, Phases, AllTaken, Explained, VmDone
  PROVE  Explained'
<1>1. current \in Runs /\ current # Absent /\ NextRule(current) = {}
  BY DEF VmDone, TypeOK
<1>2. current.rule # 0
  <2> SUFFICES ASSUME current.rule = 0 PROVE FALSE
    OBVIOUS
  <2>1. PICK k \in current.events : k \in Kinds
    BY <1>1 DEF Runs
  <2>2. PICK r \in DOMAIN Rules : Rules[r].absolute /\ k \in Rules[r].events
    BY <2>1 DEF AllTaken
  <2>3. r \in Matching(current.events)
    BY <2>1, <2>2 DEF Matching
  <2>4. r > 0
    BY RulesAssumption
  <2> QED BY <1>1, <2>3, <2>4 DEF NextRule
<1>3. current' = Absent /\ UNCHANGED << sensors, queue, pending, told >>
  BY DEF VmDone, hostVars
<1>4. ASSUME NEW v \in Vmids
      PROVE  Ran(v)' /\ Merged(v)' /\ Queued(v)' /\ Settled(v)'
  <2>1. Ran(v) /\ Merged(v) /\ Queued(v) /\ Settled(v)
    BY DEF Explained
  <2>2. Handed(v)' = Handed(v)
    BY <1>1, <1>2, <1>3, <2>1 DEF Handed, Ran
  <2>3. Ran(v)' /\ Merged(v)' /\ Known(v)' = Known(v)
    BY <1>3, <2>1, <2>2 DEF Ran, Merged, Known
  <2> QED BY <1>3, <2>1, <2>3, QueuedKept
<1> QED BY <1>4 DEF Explained

LEMMA ExplainedStep ==
  ASSUME TypeOK, Phases, AllTaken, ~SaveFails, Explained, [Next]_vars
  PROVE  Explained'
<1>1. ASSUME NEW v \in Vmids, NEW now \in Layouts, Schema(v, now)
      PROVE  Explained'
  <2> DEFINE evs == topology_events(sensors[v], now)
             e == Event(v, evs, now)
  <2>1. now \in Lists /\ sensors[v] \in Lists \cup {Absent}
    BY ListsAssumption DEF TypeOK
  <2>2. Explains(evs, sensors[v], now) /\ (evs = {} => sensors[v] = now)
    BY <2>1, SchemaExplains
  <2>3. sensors' = [sensors EXCEPT ![v] = now] /\ UNCHANGED workerVars
    BY <1>1 DEF Schema, Change
  <2>4. CASE evs # {} /\ notify(v, evs, now)
    <3>1. e \in Events
      BY <2>1, <2>4, KindsOfChanges, EventType
    <3>2. e.vmid = v /\ e.events = evs /\ e.map = now
      BY DEF Event
    <3>3. queue' = Append(queue, e)
      BY <2>4 DEF notify
    <3> HIDE DEF e, evs
    <3> QED BY <2>2, <2>3, <3>1, <3>2, <3>3, NotifyExplained
  <2>5. CASE evs = {} /\ UNCHANGED queue
    <3>1. sensors' = sensors
      BY <2>2, <2>3, <2>5 DEF TypeOK
    <3> QED BY <2>3, <2>5, <3>1, ExplainedUnchanged DEF workerVars
  <2> QED BY <1>1, <2>4, <2>5 DEF Schema
<1>2. ASSUME NEW v \in Vmids, NEW event \in {"device_removed", "vm_offline"}, Offline(v, event)
      PROVE  Explained'
  <2> DEFINE now == Remains(sensors[v])
             e == Event(v, {event}, now)
  <2>1. sensors[v] \in Lists \cup {Absent} /\ event \in Loss
    BY DEF TypeOK, Loss
  <2>2. now \in Lists \cup {Absent}
    BY <2>1, RemainsList
  <2>3. Explains({event}, sensors[v], now)
    BY <2>1, OfflineExplains
  <2>4. e \in Events
    BY <2>2, EventType DEF Kinds
  <2>5. e.vmid = v /\ e.events = {event} /\ e.map = now
    BY DEF Event
  <2>6. /\ sensors' = [sensors EXCEPT ![v] = now] /\ queue' = Append(queue, e)
        /\ UNCHANGED workerVars
    BY <1>2 DEF Offline, Change, notify
  <2> HIDE DEF e, now
  <2> QED BY <2>3, <2>4, <2>5, <2>6, NotifyExplained
<1>3. CASE Recv \/ RecvMore
  BY <1>3, TakeExplained DEF Recv, RecvMore
<1>4. CASE WindowOver \/ Exits \/ Kill \/ BatchDone
  BY <1>4, ExplainedUnchanged DEF WindowOver, Exits, Kill, BatchDone, hostVars
<1>5. ASSUME NEW v \in Vmids, Pick(v)
      PROVE  Explained'
  BY <1>5, PickExplained
<1>6. CASE run_hook
  BY <1>6, RunHookExplained
<1>7. CASE VmDone
  BY <1>7, VmDoneExplained
<1>8. CASE Tick
  BY <1>8, TickExplained
<1>9. CASE UNCHANGED vars
  BY <1>9, ExplainedUnchanged DEF vars
<1> QED
  BY <1>1, <1>2, <1>3, <1>4, <1>5, <1>6, <1>7, <1>8, <1>9 DEF Next, Worker

-----------------------------------------------------------------------------
(* Theorems                                                                *)

LEMMA Initially == Init => IInv
<1> SUFFICES ASSUME Init PROVE IInv
  OBVIOUS
<1> USE DEF Init
<1>1. TypeOK
  BY Delays DEF TypeOK
<1>2. Phases
  BY DEF Phases
<1>3. Ages
  BY DEF Ages, QueueAge
<1>4. Apart
  BY DEF Apart
<1>5. Explained
  <2>1. \A v \in Vmids : Of(v) = {} /\ Handed(v) = Absent /\ Known(v) = Absent
    BY DEF Of, Handed, Known
  <2>2. \A v \in Vmids : Ran(v) /\ Merged(v) /\ Queued(v)
    BY DEF Ran, Merged, Queued
  <2> QED BY <2>1, <2>2 DEF Explained, Settled
<1> QED BY <1>1, <1>2, <1>3, <1>4, <1>5 DEF IInv

LEMMA Inductive == IInv /\ [Next]_vars => IInv'
<1> SUFFICES ASSUME IInv, [Next]_vars PROVE IInv'
  OBVIOUS
<1>1. TypeOK /\ Phases /\ Ages /\ Apart
  BY DEF IInv
<1>2. TypeOK'
  BY <1>1, TypeStep
<1>3. Phases' /\ Ages' /\ Apart'
  BY <1>1, <1>2, PhasesStep, AgesStep, ApartStep
<1>4. AllTaken /\ ~SaveFails => Explained'
  BY <1>1, ExplainedStep DEF IInv
<1>5. AllTaken' <=> AllTaken
  BY DEF AllTaken
<1> QED BY <1>2, <1>3, <1>4, <1>5 DEF IInv

LEMMA Invariance == Spec => []IInv
<1> QED BY Initially, Inductive, PTL DEF Spec

(* The channel, the batch and the event being run always hold well-formed  *)
(* events, for any rules and delays.                                       *)
THEOREM TypeCorrect == Spec => []TypeOK
<1>1. IInv => TypeOK
  BY DEF IInv
<1> QED BY <1>1, Invariance, PTL

(* DeliveredInTime, for any number of VMs and rules and any delays: an     *)
(* event reaches the rules at most a window and two batches, less its own  *)
(* commands, after it was sent, whatever the commands do.                  *)
THEOREM EventsInTime == Spec => []DeliveredInTime
<1>1. IInv => DeliveredInTime
  <2> SUFFICES ASSUME IInv PROVE DeliveredInTime
    OBVIOUS
  <2>1. TypeOK /\ Ages
    BY DEF IInv
  <2>2. \A i \in DOMAIN queue : queue[i] \in Events
    BY <2>1 DEF TypeOK
  <2>3. \A i \in DOMAIN queue : queue[i].age \in Nat /\ queue[i].vmid \in Vmids
    BY <2>2 DEF Events
  <2>4. \A v \in Waits : pending[v] \in Events /\ v \in Vmids
    BY <2>1 DEF TypeOK, Waits
  <2>5. \A v \in Waits : pending[v].age \in Nat
    BY <2>4 DEF Events
  <2>6. /\ RulesTime \in Nat /\ BatchTime \in Nat /\ Debounce \in Nat
        /\ Promise = Debounce + 2 * BatchTime - RulesTime
        /\ Vmids # {} => RulesTime <= BatchTime
        /\ Remaining \in Nat /\ (Waits # {} => Remaining >= RulesTime)
    BY <2>1, Times, Delays, RemainingType
  <2>7. \A i \in DOMAIN queue : queue[i].age <= BatchTime
    <3>1. CASE worker = "recv"
      BY <2>1, <3>1 DEF Ages, QueueAge
    <3>2. CASE worker = "debounce"
      <4>1. \A i \in DOMAIN queue : queue[i].age <= BatchTime \/ queue[i].age <= 0
        BY <2>1, <3>2 DEF Ages, QueueAge
      <4> QED BY <2>3, <2>6, <4>1
    <3>3. CASE worker = "run"
      <4>1. \A i \in DOMAIN queue : queue[i].age <= BatchTime - Remaining
        BY <2>1, <3>3 DEF Ages, QueueAge
      <4> QED BY <2>3, <2>6, <4>1
    <3> QED BY <2>1, <3>1, <3>2, <3>3 DEF TypeOK
  <2>8. \A v \in Waits : pending[v].age <= Promise
    <3>1. CASE worker = "recv"
      BY <2>4, <3>1 DEF IInv, Phases, Waits
    <3>2. CASE worker = "debounce"
      <4>1. \A v \in Waits : pending[v].age <= BatchTime + Debounce - left
        BY <2>1, <3>2 DEF Ages, PendingAge
      <4>2. left \in Nat
        BY <2>1, Delays DEF TypeOK
      <4> QED BY <2>4, <2>5, <2>6, <4>1, <4>2
    <3>3. CASE worker = "run"
      <4>1. \A v \in Waits : pending[v].age <= Debounce + 2 * BatchTime - Remaining
        BY <2>1, <3>3 DEF Ages, PendingAge
      <4> QED BY <2>5, <2>6, <4>1
    <3> QED BY <2>1, <3>1, <3>2, <3>3 DEF TypeOK
  <2>9. \A i \in DOMAIN queue : queue[i].age <= Promise
    BY <2>3, <2>6, <2>7
  <2> QED BY <2>8, <2>9 DEF DeliveredInTime, Waits
<1> QED BY <1>1, Invariance, PTL

(* OncePerWindow: however the events of a VM arrive, two batches of it are *)
(* a window apart.                                                         *)
THEOREM WindowsKept == Spec => OncePerWindow
<1> DEFINE Step == \A v \in Vmids : since'[v] = 0 /\ since[v] > 0 => since[v] >= Debounce
<1>1. IInv /\ [Next]_vars => [Step]_since
  <2> SUFFICES ASSUME IInv, [Next]_vars, NEW v \in Vmids, since'[v] = 0, since[v] > 0,
                      since' # since
               PROVE  since[v] >= Debounce
    OBVIOUS
  <2>1. TypeOK /\ Apart
    BY DEF IInv
  <2>2. Tick \/ \E w \in Vmids : Pick(w)
    BY DEF Next, Worker, Recv, RecvMore, WindowOver, run_hook, Exits, Kill, VmDone,
           BatchDone, Schema, Offline, workerVars, vars
  <2>3. CASE Tick
    <3>1. since'[v] = IF since[v] < Debounce THEN since[v] + 1 ELSE Debounce
      BY <2>3 DEF Tick
    <3>2. since[v] \in Nat
      BY <2>1, Delays DEF TypeOK
    <3> QED BY <3>1, <3>2, Delays
  <2>4. ASSUME NEW w \in Vmids, Pick(w)
        PROVE  since[v] >= Debounce
    <3>1. since'[v] = IF v = w THEN 0 ELSE since[v]
      BY <2>1, <2>4 DEF Pick, TypeOK
    <3>2. v = w
      BY <2>1, <3>1 DEF TypeOK
    <3>3. worker = "run" /\ v \in Waits
      BY <2>4, <3>2 DEF Pick, Waits
    <3> QED BY <2>1, <3>3 DEF Apart
  <2> QED BY <2>2, <2>3, <2>4
<1>2. OncePerWindow <=> [][Step]_since
  BY DEF OncePerWindow
<1> QED BY <1>1, <1>2, Invariance, PTL DEF Spec

(* EventsExplainChange: when the cache can be saved and every kind has a   *)
(* rule, the kinds a command is given explain all that changed since the   *)
(* previous command, however many events were merged in between.           *)
THEOREM ChangesExplained ==
  ASSUME AllTaken, ~SaveFails
  PROVE  Spec => EventsExplainChange
<1> DEFINE Step == \A v \in Vmids : told'[v] # told[v] =>
                                      Explains(current.events, told[v], told'[v])
<1>1. IInv /\ [Next]_vars => [Step]_told
  <2> SUFFICES ASSUME IInv, [Next]_vars, NEW v \in Vmids, told'[v] # told[v]
               PROVE  Explains(current.events, told[v], told'[v])
    OBVIOUS
  <2>1. TypeOK /\ Ran(v)
    BY DEF IInv, Explained
  <2>2. run_hook
    BY DEF Next, Worker, Recv, RecvMore, WindowOver, Pick, Exits, Kill, VmDone,
           BatchDone, Tick, Schema, Offline, workerVars, vars
  <2>3. told'[v] = IF v = current.vmid THEN current.map ELSE told[v]
    BY <2>1, <2>2 DEF run_hook, TypeOK
  <2>4. v = current.vmid /\ told'[v] = current.map
    BY <2>3
  <2> QED BY <2>1, <2>2, <2>4 DEF Ran, run_hook
<1>2. EventsExplainChange <=> [][Step]_told
  BY DEF EventsExplainChange
<1> QED BY <1>1, <1>2, Invariance, PTL DEF Spec
=============================================================================
