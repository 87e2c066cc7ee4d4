-------------------------------- MODULE Agent --------------------------------
(***************************************************************************)
(* The Linux guest agent: the loop of agent-linux/src/linux.rs, the scan   *)
(* of sensors.rs (hwmon directories, LSI controllers, disks, persistent    *)
(* sensors that stand for one of them) and the caches of smartctl.rs.      *)
(* Everything runs in one thread, so a slow disk holds back samples and    *)
(* heartbeats, and the hardware changes between any two steps.             *)
(*                                                                         *)
(* A value is abstracted to what it was measured on and how long ago.  A   *)
(* dynamic sensor has the name of its source (hwmonN, device, controller); *)
(* the label of a hwmon sensor is the chip, the label of a disk says       *)
(* whether smartctl -i identified it.  Time advances only where the loop   *)
(* sleeps or waits for smartctl: Spend adds to every age.  An expired      *)
(* cache entry is the same as none.                                        *)
(***************************************************************************)
EXTENDS Integers, FiniteSets, Functions, Filter

CONSTANTS
    Slots,        \* the hwmonN directories
    Chips,        \* what can appear in one
    Disks,        \* the devices that the smartctl globs match
    Iocs,         \* the controllers of [lsi_hba]
    Order,        \* every sensor id, sorted
    Machines,     \* guests: the hardware of each and its persistent sensors
    SampleEvery, BeatEvery, RescanEvery, Poll, Timeout,   \* periods, in ticks
    MaxAsk,       \* bound of the resync channel
    None

ASSUME AgentAssumption ==
    /\ {SampleEvery, BeatEvery, RescanEvery, Poll, Timeout} \subseteq Nat \ {0}
    /\ \A m \in Machines :
          /\ m.slots \subseteq Slots /\ m.disks \subseteq Disks
          /\ m.iocs \subseteq Iocs
          /\ \A p \in DOMAIN m.persistent :
                m.persistent[p] \in m.disks \cup m.iocs \cup SUBSET Chips

VARIABLES
    machine,      \* the guest; its persistent sensors are configured as the
                  \* set of chips that match, or as a disk or controller
    slots,        \* hardware: Slots -> chip or None
    device,       \* hardware: Disks and Iocs -> "well", "ill" or "gone"
    pc,           \* where the main thread is
    back,         \* where it goes on after a sample
    todo,         \* sensors still to read, or disks still to discover
    sensors,      \* id -> [src, label], the list in use
    next,         \* the list a scan is building
    cache,        \* id -> temperature cached in its SmartctlSource
    found,        \* DISCOVERY_CACHE: disk -> last temperature or miss
    named,        \* DISCOVERY_IDENTITY_CACHE: disk -> last identity or miss
    got,          \* age of the temperature a scan has just looked up
    values,       \* what the sample being read has so far
    gen,          \* generation, counted 1, 2, 1, ...; 0 before the first schema
    since,        \* ages, at the top of the loop, of the last_... instants
    lap,          \* time since the top of the loop
    asked,        \* requests in the resync channel
    schema,       \* ghost: the last schema written to the port
    quiet,        \* ghost: time since anything was written
    moved         \* ghost: a chip came or went since the scan began

hardware == <<slots, device>>
caches == <<cache, found, named>>
ghosts == <<schema, quiet, moved>>
vars == <<machine, hardware, pc, back, todo, sensors, next, caches, got, values,
          gen, since, lap, asked, ghosts>>

config == machine.persistent
Pids == UNION {DOMAIN m.persistent : m \in Machines}
Ids == Slots \cup Disks \cup Iocs \cup Pids
Empty == [i \in {} |-> 0]
Periods == [sample |-> SampleEvery, beat |-> BeatEvery, scan |-> RescanEvery]
Due(timer) == since[timer] = Periods[timer]

(* What the caches hold.                                                   *)
Temperatures == [stamp : 0 .. Poll - 1, age : Nat]
Results == [ok : BOOLEAN, stamp : 0 .. Poll - 1, age : Nat]

(* Sensors of every sort have ids of their own.                            *)
ASSUME IdsAssumption ==
    /\ IsFiniteSet(Ids)
    /\ Disks \cap Iocs = {} /\ Slots \cap (Disks \cup Iocs) = {}
    /\ Pids \cap (Slots \cup Disks \cup Iocs) = {}
    /\ \A chips \in SUBSET Chips : chips \notin Disks \cup Iocs
    /\ None \notin Chips \cup Ids \cup Temperatures \cup Results
ASSUME OrderAssumption ==
    /\ Order \in Seq(Ids)
    /\ \A i, j \in DOMAIN Order : Order[i] = Order[j] => i = j
    /\ Ids \subseteq Range(Order)

Blank == [i \in Disks \cup Pids |-> None]
Unknown == [d \in Disks |-> None]

(* Mutants: an entry counts from its last use; a miss is never forgotten.  *)
OlderStays(entry, t) ==
    IF entry = None \/ t >= Poll THEN None
    ELSE [entry EXCEPT !.age = @ + t]
OlderKeepsMiss(entry, t) ==
    IF entry # None /\ "ok" \in DOMAIN entry /\ ~entry.ok THEN entry
    ELSE IF entry = None \/ entry.stamp + t >= Poll THEN None
    ELSE [entry EXCEPT !.stamp = @ + t, !.age = @ + t]

(* Older(entry, t): a cache entry t later; expired entries are dropped.    *)
Older(entry, t) ==
    IF entry = None \/ entry.stamp + t >= Poll THEN None
    ELSE [entry EXCEPT !.stamp = @ + t, !.age = @ + t]

Spend(t) == /\ lap' = lap + t
            /\ quiet' = quiet + t
Aged(map, t) == [k \in DOMAIN map |-> Older(map[k], t)]
AgedValues(t) == [i \in DOMAIN values |-> [values[i] EXCEPT !.age = @ + t]]
-----------------------------------------------------------------------------
(* Mutant: the clock of the timeout starts over while there is output.     *)
run_smartctl_unbounded(d) ==
    [ok : {device[d] = "well"},
     cost : IF device[d] = "gone" THEN {0} ELSE {0, 4 * Timeout}]

(* What one run of smartctl can give: it is killed after Timeout.          *)
run_smartctl(d) ==
    CASE device[d] = "well" -> [ok : {TRUE}, cost : {0, Timeout - 1}]
      [] device[d] = "ill"  -> [ok : {FALSE}, cost : {0, Timeout}]
      [] device[d] = "gone" -> [ok : {FALSE}, cost : {0}]

(* The one source a persistent sensor stands for, None without or with     *)
(* several matches; a disk or controller is taken as configured.           *)
Matching(p) ==
    {s \in machine.slots : config[p] \notin Disks \cup Iocs /\ slots[s] \in config[p]}

(* Mutant: the first of several matches is taken.                          *)
ResolveFirst(p) ==
    IF config[p] \in Disks \cup Iocs THEN config[p]
    ELSE IF Matching(p) # {} THEN CHOOSE s \in Matching(p) : TRUE
    ELSE None

Resolve(p) ==
    IF config[p] \in Disks \cup Iocs THEN config[p]
    ELSE IF Cardinality(Matching(p)) = 1 THEN CHOOSE s \in Matching(p) : TRUE
    ELSE None

(* hidden_ids: the sources that a persistent sensor stands for.            *)
ShadowedNone(list) == {}     \* mutant: dynamic sensors are not hidden
Shadowed(list) == {list[p].src : p \in DOMAIN list \cap Pids}
Labels(list) == [i \in DOMAIN list |-> list[i].label]
ChangedSource(old, new) == old # new     \* mutant: sources are compared too
Changed(old, new) == Labels(old) # Labels(new)
read_ioc_temperature(h) == device[h] = "well"
expand_device_patterns == {d \in machine.disks : device[d] # "gone"}
Sorted(ids) == Filter(Order, ids)
Put(f, i, v) == [j \in DOMAIN f \cup {i} |-> IF j = i THEN v ELSE f[j]]
-----------------------------------------------------------------------------
Init ==
    /\ machine \in Machines
    /\ slots = [s \in machine.slots |-> None]
    /\ device = [d \in machine.disks \cup machine.iocs |-> "well"]
    /\ pc = "down" /\ back = "top" /\ todo = <<>>
    /\ sensors = Empty /\ next = Empty /\ values = Empty
    /\ cache = Blank /\ found = Unknown /\ named = Unknown /\ got = 0
    /\ gen = 0 /\ since = [t \in DOMAIN Periods |-> 0] /\ lap = 0 /\ asked = 0
    /\ schema = None /\ quiet = 0 /\ moved = FALSE

(* A process starts: it opens the port, writes Hello and scans.            *)
Start ==
    /\ pc = "down"
    /\ pc' = "resolve"
    /\ UNCHANGED <<machine, hardware, back, todo, sensors, next, caches, got,
                   values, gen, since, lap, asked, ghosts>>

(* It ends, with Goodbye on SIGTERM or at once when a write, a scan or the *)
(* machine fails; systemd starts another, with nothing kept.               *)
Stop ==
    /\ pc # "down"
    /\ pc' = "down" /\ back' = "top" /\ todo' = <<>>
    /\ sensors' = Empty /\ next' = Empty /\ values' = Empty
    /\ cache' = Blank /\ found' = Unknown /\ named' = Unknown /\ got' = 0
    /\ gen' = 0 /\ since' = [t \in DOMAIN Periods |-> 0] /\ lap' = 0
    /\ asked' = 0
    /\ schema' = None /\ quiet' = 0 /\ moved' = FALSE
    /\ UNCHANGED <<machine, hardware>>
-----------------------------------------------------------------------------
(* The scan.  Persistent sensors are resolved first, then the directories  *)
(* are read again for the dynamic ones.                                    *)
ScanPersistent ==
    /\ pc = "resolve"
    /\ next' = [p \in DOMAIN config |-> [src |-> Resolve(p), label |-> p]]
    /\ cache' = Blank
    /\ moved' = FALSE
    /\ pc' = "hwmon"
    /\ UNCHANGED <<machine, hardware, back, todo, sensors, found, named, got,
                   values, gen, since, lap, asked, schema, quiet>>

ScanHwmon ==
    /\ pc = "hwmon"
    /\ LET shown == {s \in machine.slots : slots[s] # None} \ Shadowed(next)
           new == [s \in shown |-> [src |-> s, label |-> slots[s]]]
       IN next' = [i \in DOMAIN next \cup shown |->
                      IF i \in shown THEN new[i] ELSE next[i]]
    /\ pc' = "hba"
    /\ UNCHANGED <<machine, hardware, back, todo, sensors, caches, got, values,
                   gen, since, lap, asked, ghosts>>

ScanHba ==
    /\ pc = "hba"
    /\ LET shown == {h \in machine.iocs : read_ioc_temperature(h)} \ Shadowed(next)
       IN next' = [i \in DOMAIN next \cup shown |->
                      IF i \in shown THEN [src |-> i, label |-> "ioc"]
                                     ELSE next[i]]
    /\ todo' = Sorted(expand_device_patterns)
    /\ pc' = "discover"
    /\ UNCHANGED <<machine, hardware, back, sensors, caches, got, values, gen,
                   since, lap, asked, ghosts>>

(* read_smartctl_temperature_millicelsius_for_discovery: misses are cached *)
(* too, and the instant kept is the one before the run.                    *)
Discover ==
    /\ pc = "discover" /\ todo # <<>>
    /\ LET d == Head(todo) IN
       \/ /\ found[d] # None
          /\ got' = found[d].age
          /\ IF found[d].ok
             THEN pc' = "identify" /\ UNCHANGED todo
             ELSE todo' = Tail(todo) /\ UNCHANGED pc
          /\ UNCHANGED <<caches, lap, quiet>>
       \/ /\ found[d] = None
          /\ \E run \in run_smartctl(d) :
                /\ found' = [Aged(found, run.cost) EXCEPT ![d] =
                      Older([ok |-> run.ok, stamp |-> 0, age |-> 0], run.cost)]
                /\ got' = run.cost
                /\ IF run.ok
                   THEN pc' = "identify" /\ UNCHANGED todo
                   ELSE todo' = Tail(todo) /\ UNCHANGED pc
                /\ named' = Aged(named, run.cost)
                /\ cache' = Aged(cache, run.cost)
                /\ Spend(run.cost)
    /\ UNCHANGED <<machine, hardware, back, sensors, next, values, gen, since,
                   asked, schema, moved>>

(* scan_smartctl_sensors: the identity gives the label, and the            *)
(* temperature goes into the new source as if it had been read now.        *)
Listed(d, ok, cost) ==
    IF d \in Shadowed(next)
    THEN next' = next /\ cache' = Aged(cache, cost)
    ELSE /\ next' = Put(next, d, [src |-> d, label |-> ok])
         /\ cache' = [Aged(cache, cost) EXCEPT ![d] =
                         [stamp |-> 0, age |-> got + cost]]

(* read_smartctl_identity_for_discovery.                                   *)
Identify ==
    /\ pc = "identify"
    /\ LET d == Head(todo)
       IN \/ /\ named[d] # None
             /\ Listed(d, named[d].ok, 0)
             /\ UNCHANGED <<found, named, lap, quiet>>
          \/ /\ named[d] = None
             /\ \E run \in run_smartctl(d) :
                   /\ Listed(d, run.ok, run.cost)
                   /\ named' = [Aged(named, run.cost) EXCEPT ![d] =
                        Older([ok |-> run.ok, stamp |-> 0, age |-> 0], run.cost)]
                   /\ found' = Aged(found, run.cost)
                   /\ Spend(run.cost)
    /\ got' = 0
    /\ todo' = Tail(todo)
    /\ pc' = "discover"
    /\ UNCHANGED <<machine, hardware, back, sensors, values, gen, since, asked,
                   schema, moved>>

(* The new list is used in any case; its schema is sent only when a        *)
(* descriptor differs.                                                     *)
Adopt ==
    /\ pc = "discover" /\ todo = <<>>
    /\ sensors' = next /\ next' = Empty
    /\ since' = [since EXCEPT !.scan = 0]
    /\ IF gen # 0 /\ ~Changed(sensors, next)
       THEN /\ pc' = "sleep"
            /\ UNCHANGED <<gen, schema, quiet, back, todo>>
       ELSE /\ gen' = (gen % 2) + 1
            /\ schema' = [gen |-> gen', labels |-> Labels(next)]
            /\ quiet' = 0
            /\ todo' = Sorted(DOMAIN next)
            /\ pc' = "read"
            /\ back' = IF gen = 0 THEN "loop" ELSE "sleep"
    /\ UNCHANGED <<machine, hardware, caches, got, values, lap, asked, moved>>
-----------------------------------------------------------------------------
(* read_values, one sensor at a time.  A sensor that cannot be read is     *)
(* left out, except that a persistent one gives its default.               *)
Missed(i, t) == IF i \in Pids THEN Put(AgedValues(t), i, [of |-> "default", age |-> 0])
                              ELSE AgedValues(t)

ReadLive ==
    /\ pc = "read" /\ todo # <<>>
    /\ LET i == Head(todo)
           src == sensors[i].src
           now == IF src \in Slots THEN slots[src]
                  ELSE IF src \in Iocs /\ read_ioc_temperature(src) THEN src
                  ELSE None
       IN /\ src \notin Disks
          /\ values' = IF now = None THEN Missed(i, 0)
                       ELSE Put(values, i, [of |-> now, age |-> 0])
    /\ todo' = Tail(todo)
    /\ UNCHANGED <<machine, hardware, pc, back, sensors, next, caches, got, gen,
                   since, lap, asked, ghosts>>

(* The chip is there, but its file cannot be opened, read or parsed.       *)
ReadFails ==
    /\ pc = "read" /\ todo # <<>>
    /\ LET src == sensors[Head(todo)].src IN src \in Slots /\ slots[src] # None
    /\ values' = Missed(Head(todo), 0)
    /\ todo' = Tail(todo)
    /\ UNCHANGED <<machine, hardware, pc, back, sensors, next, caches, got, gen,
                   since, lap, asked, ghosts>>

ReadDisk ==
    /\ pc = "read" /\ todo # <<>>
    /\ LET i == Head(todo)
           d == sensors[i].src
       IN /\ d \in Disks
          /\ \/ /\ cache[i] # None
                /\ values' = Put(values, i, [of |-> d, age |-> cache[i].age])
                /\ UNCHANGED <<caches, lap, quiet>>
             \/ /\ cache[i] = None
                /\ \E run \in run_smartctl(d) :
                      /\ values' = IF run.ok
                            THEN Put(AgedValues(run.cost), i,
                                     [of |-> d, age |-> run.cost])
                            ELSE Missed(i, run.cost)
                      /\ cache' = [Aged(cache, run.cost) EXCEPT ![i] =
                            IF run.ok
                            THEN Older([stamp |-> 0, age |-> 0], run.cost)
                            ELSE None]
                      /\ found' = Aged(found, run.cost)
                      /\ named' = Aged(named, run.cost)
                      /\ Spend(run.cost)
    /\ todo' = Tail(todo)
    /\ UNCHANGED <<machine, hardware, pc, back, sensors, next, got, gen, since,
                   asked, schema, moved>>

SendSample ==
    /\ pc = "read" /\ todo = <<>>
    /\ values' = Empty
    /\ quiet' = 0
    /\ IF back = "loop"
       THEN pc' = "top" /\ lap' = 0 /\ since' = [t \in DOMAIN Periods |-> 0]
       ELSE pc' = back /\ UNCHANGED <<lap, since>>
    /\ back' = "top"
    /\ UNCHANGED <<machine, hardware, todo, sensors, next, caches, got, gen,
                   asked, schema, moved>>
-----------------------------------------------------------------------------
(* The loop.  `now` is taken at its top, and what is due is due then.      *)
Resync ==
    /\ pc = "top"
    /\ IF asked = 0
       THEN pc' = "sample" /\ UNCHANGED <<asked, back, todo, schema, quiet>>
       ELSE /\ asked' = 0
            /\ schema' = [gen |-> gen, labels |-> Labels(sensors)]
            /\ quiet' = 0
            /\ pc' = "read" /\ back' = "sample"
            /\ todo' = Sorted(DOMAIN sensors)
    /\ UNCHANGED <<machine, hardware, sensors, next, caches, got, values, gen,
                   since, lap, moved>>

Sample ==
    /\ pc = "sample"
    /\ IF Due("sample")
       THEN /\ since' = [since EXCEPT !.sample = 0]
            /\ pc' = "read" /\ back' = "beat"
            /\ todo' = Sorted(DOMAIN sensors)
       ELSE pc' = "beat" /\ UNCHANGED <<since, back, todo>>
    /\ UNCHANGED <<machine, hardware, sensors, next, caches, got, values, gen,
                   lap, asked, ghosts>>

Beat ==
    /\ pc = "beat"
    /\ IF Due("beat")
       THEN since' = [since EXCEPT !.beat = 0] /\ quiet' = 0
       ELSE UNCHANGED <<since, quiet>>
    /\ pc' = "rescan"
    /\ UNCHANGED <<machine, hardware, back, todo, sensors, next, caches, got,
                   values, gen, lap, asked, schema, moved>>

Rescan ==
    /\ pc = "rescan"
    /\ pc' = IF Due("scan") THEN "resolve" ELSE "sleep"
    /\ UNCHANGED <<machine, hardware, back, todo, sensors, next, caches, got,
                   values, gen, since, lap, asked, ghosts>>

Sleep ==
    /\ pc = "sleep"
    /\ LET turn == lap + 1 IN
       since' = [t \in DOMAIN Periods |->
                    IF since[t] + turn >= Periods[t] THEN Periods[t]
                    ELSE since[t] + turn]
    /\ lap' = 0
    /\ quiet' = quiet + 1
    /\ cache' = Aged(cache, 1) /\ found' = Aged(found, 1)
    /\ named' = Aged(named, 1)
    /\ pc' = "top"
    /\ UNCHANGED <<machine, hardware, back, todo, sensors, next, got, values,
                   gen, asked, schema, moved>>
-----------------------------------------------------------------------------
(* The reader thread, which is started after the first schema and sample:  *)
(* a RequestResync of hostd arrives.                                       *)
Ask ==
    /\ gen # 0 /\ back # "loop" /\ asked < MaxAsk
    /\ asked' = asked + 1
    /\ UNCHANGED <<machine, hardware, pc, back, todo, sensors, next, caches, got,
                   values, gen, since, lap, ghosts>>

(* A driver is loaded or unloaded: a chip appears in a free directory or   *)
(* leaves.  A device starts or stops answering, or its node goes.          *)
Plug ==
    /\ \E s \in machine.slots, c \in Chips \cup {None} :
          /\ c # slots[s]
          /\ c # None => slots[s] = None /\ c \notin Range(slots)
          /\ slots' = [slots EXCEPT ![s] = c]
    /\ moved' = (pc # "down")
    /\ UNCHANGED <<machine, device, pc, back, todo, sensors, next, caches, got,
                   values, gen, since, lap, asked, schema, quiet>>

Fail ==
    /\ \E d \in DOMAIN device, state \in {"well", "ill", "gone"} :
          /\ d \in Iocs => state # "ill"
          /\ device[d] # state
          /\ device' = [device EXCEPT ![d] = state]
    /\ UNCHANGED <<machine, slots, pc, back, todo, sensors, next, caches, got,
                   values, gen, since, lap, asked, ghosts>>

Step == \/ Start \/ ScanPersistent \/ ScanHwmon \/ ScanHba \/ Discover
        \/ Identify \/ Adopt \/ ReadLive \/ ReadFails \/ ReadDisk \/ SendSample
        \/ Resync \/ Sample \/ Beat \/ Rescan \/ Sleep
Next == Step \/ Stop \/ Ask \/ Plug \/ Fail

Spec == Init /\ [][Next]_vars
(* The loop never blocks for ever: smartctl is killed after its timeout.   *)
FairSpec == Spec /\ WF_vars(Step)
-----------------------------------------------------------------------------
Sending == {"top", "sample", "beat", "rescan", "sleep", "read", "loop"}
Stands(p) == {s \in machine.slots : Matching(p) = {s}}
Truth(p) == IF Stands(p) = {} THEN "default" ELSE slots[CHOOSE s \in Stands(p) : TRUE]

(* While no chip has come or gone since the last scan, the schema in force *)
(* shows every chip exactly once: under the persistent sensor that stands  *)
(* for it or under its directory, and every persistent sensor is there.    *)
ShownOnce ==
    schema # None /\ ~moved /\ pc \in Sending =>
        LET stand == UNION {Stands(p) : p \in DOMAIN config} IN
        /\ DOMAIN config \subseteq DOMAIN schema.labels
        /\ \A s \in machine.slots :
              /\ s \in DOMAIN schema.labels <=> slots[s] # None /\ s \notin stand
              /\ s \in DOMAIN schema.labels => schema.labels[s] = slots[s]

(* The sample that is about to be written.                                 *)
Complete == pc = "read" /\ todo = <<>>

(* Sensors that smartctl may have to read for one sample.                  *)
DiskSensors == Cardinality(machine.disks)
                  + Cardinality({p \in DOMAIN config : config[p] \in Disks})

(* A temperature that is sent was measured less than two polls, and a slow *)
(* run for each disk, before: a scan stamps a cached value as new.  The    *)
(* configuration may allow a run to take longer than a poll; then the run  *)
(* whose result is stamped counts in place of a poll.                      *)
Longer == IF Timeout > Poll THEN Timeout ELSE Poll
FreshEnough ==
    Complete => \A i \in DOMAIN values :
        values[i].age < Poll + Longer + DiskSensors * Timeout

(* Whatever the disks do, the port is not silent for longer than a sample  *)
(* period and the smartctl runs of one scan and one sample.                *)
QuietBounded ==
    pc # "down" =>
        quiet <= SampleEvery
                    + (2 * Cardinality(machine.disks) + DiskSensors) * Timeout

(* A sample has a value for every persistent sensor, and none for a sensor *)
(* that the schema does not have.  Unless a chip came or went since the    *)
(* scan, the value is that of the one chip that matches or, if that could  *)
(* not be read, the default; with no match or several it is the default.   *)
TrueSource ==
    Complete =>
        /\ DOMAIN config \subseteq DOMAIN values
        /\ DOMAIN values \subseteq DOMAIN schema.labels
        /\ ~moved => \A p \in DOMAIN config :
              config[p] \notin Disks \cup Iocs =>
                 values[p].of \in {Truth(p), "default"}

(* Within one life of the agent a schema has another generation exactly    *)
(* when it has other descriptors.                                          *)
GenerationFollows ==
    [][schema' # schema /\ schema # None /\ schema' # None =>
        schema'.gen # schema.gen /\ schema'.labels # schema.labels]_vars

(* When the hardware stays as it is, the chips can be read and the agent   *)
(* stays up, the schema and the samples come to describe the hardware and  *)
(* go on doing so.                                                         *)
Settled ==
    LET stand == {Resolve(p) : p \in DOMAIN config}
        shown == {s \in machine.slots : slots[s] # None}
                    \cup {d \in DOMAIN device : device[d] = "well"}
    IN /\ schema # None
       /\ DOMAIN schema.labels = DOMAIN config \cup (shown \ stand)
       /\ \A i \in DOMAIN schema.labels : i \in Disks => schema.labels[i]
       /\ Complete =>
             /\ DOMAIN values = DOMAIN schema.labels
             /\ \A p \in DOMAIN config :
                   values[p].of = CASE Resolve(p) \notin shown -> "default"
                                    [] Resolve(p) \in Slots -> slots[Resolve(p)]
                                    [] OTHER -> Resolve(p)
CatchesUp ==
    <>[][UNCHANGED hardware /\ ~ReadFails]_vars /\ <>[](pc # "down") => <>[]Settled
=============================================================================
