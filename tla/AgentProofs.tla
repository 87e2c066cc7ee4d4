----------------------------- MODULE AgentProofs ------------------------------
(***************************************************************************)
(* Proofs about Agent, for any guests, periods and timeouts.               *)
(***************************************************************************)
EXTENDS Agent, FilterProofs, FiniteSetTheorems

Distinct(q) == \A i, j \in DOMAIN q : q[i] = q[j] => i = j
Elements(q) == {q[i] : i \in DOMAIN q}

Readings == [of : Chips \cup Disks \cup Iocs \cup {"default"}, age : Nat]

Scanning == {"hwmon", "hba", "discover", "identify"}

TypeOK ==
  /\ machine \in Machines
  /\ slots \in [machine.slots -> Chips \cup {None}]
  /\ device \in [machine.disks \cup machine.iocs -> {"well", "ill", "gone"}]
  /\ pc \in {"down", "resolve", "hwmon", "hba", "discover", "identify", "read", "top",
             "sample", "beat", "rescan", "sleep"}
  /\ back \in {"top", "loop", "sample", "beat", "sleep"}
  /\ todo \in Seq(Ids) /\ Distinct(todo)
  /\ DOMAIN values \subseteq Ids /\ values \in [DOMAIN values -> Readings]
  /\ cache \in [Disks \cup Pids -> Temperatures \cup {None}]
  /\ found \in [Disks -> Results \cup {None}]
  /\ named \in [Disks -> Results \cup {None}]
  /\ got \in Nat
  /\ gen \in 0 .. 2
  /\ since \in [{"sample", "beat", "scan"} -> Nat]
  /\ lap \in Nat /\ asked \in Nat /\ quiet \in Nat /\ moved \in BOOLEAN

(* What is in a list is in the guest, under its own name; a persistent     *)
(* sensor stands for what its configuration allows.                        *)
Backed(list) ==
  \A i \in DOMAIN list :
    \/ /\ i \in machine.slots \cup machine.disks \cup machine.iocs
       /\ list[i].src = i
    \/ /\ i \in DOMAIN config
       /\ IF config[i] \in Disks \cup Iocs THEN list[i].src = config[i]
          ELSE list[i].src \in machine.slots \cup {None}

(* Every configured sensor is in the list that is built and in the one in  *)
(* use; the work left to do is about what the guest has.                   *)
Listing ==
  /\ Backed(sensors) /\ Backed(next)
  /\ pc \in Scanning => DOMAIN config \subseteq DOMAIN next
  /\ pc = "hwmon" => DOMAIN next = DOMAIN config
  /\ gen # 0 => DOMAIN config \subseteq DOMAIN sensors
  /\ pc \in {"discover", "identify"} => Elements(todo) \subseteq machine.disks
  /\ pc = "identify" => todo # << >>
  /\ pc = "read" => /\ Elements(todo) \subseteq DOMAIN sensors
                    /\ back # "top"

(* The schema in force is the one of the list in use.                      *)
Sent ==
  /\ gen = 0 => /\ schema = None /\ asked = 0
                /\ pc \in Scanning \cup {"down", "resolve"}
  /\ gen # 0 => schema = [gen |-> gen, labels |-> Labels(sensors)]

(* While the chips stay, the list shows what is in the directories.        *)
Resolved(list) == \A p \in DOMAIN config : p \in DOMAIN list /\ list[p].src = Resolve(p)
Shown(list) ==
  \A s \in machine.slots :
    /\ s \in DOMAIN list <=> slots[s] # None /\ \A p \in DOMAIN config : Resolve(p) # s
    /\ s \in DOMAIN list => list[s].label = slots[s]
Current ==
  ~moved => /\ pc \in Scanning => Resolved(next)
            /\ pc \in Scanning \ {"hwmon"} => Shown(next)
            /\ pc \in Sending => Resolved(sensors) /\ Shown(sensors)

(* A sample has read every configured sensor that is not left to read.     *)
Sampled ==
  /\ pc # "read" => values = Empty
  /\ pc = "read" =>
       /\ DOMAIN config \subseteq Elements(todo) \cup DOMAIN values
       /\ DOMAIN values \subseteq DOMAIN sensors
       /\ ~moved => \A p \in DOMAIN config \cap DOMAIN values :
                      config[p] \notin Disks \cup Iocs =>
                        values[p].of \in {Truth(p), "default"}

-----------------------------------------------------------------------------
(* Time                                                                    *)

ByDisk == {i \in DOMAIN sensors : sensors[i].src \in Disks}
LeftDisks == {i \in Elements(todo) : sensors[i].src \in Disks}
ReadTime == (Cardinality(ByDisk) - Cardinality(LeftDisks)) * Timeout
DiskCount == Cardinality(machine.disks)
LeftCount == Cardinality(Elements(todo))

(* A sample period runs from the last sample, and a scan in it costs two   *)
(* runs for each disk.                                                     *)
Early == since.sample < SampleEvery
ScanTime == 2 * DiskCount * Timeout
Timed ==
  /\ since.sample <= SampleEvery
  /\ pc = "down" => since.sample = 0 /\ quiet = 0
  /\ pc \in {"top", "sample"} => /\ quiet <= SampleEvery + ScanTime
                                 /\ Early => quiet <= since.sample
  /\ pc \in {"beat", "rescan", "resolve", "hwmon", "hba"} => Early /\ quiet <= since.sample
  /\ pc \in {"discover", "identify", "sleep"} => Early /\ quiet <= since.sample + lap
  /\ pc = "discover" =>
       quiet < SampleEvery + 2 * (DiskCount - LeftCount) * Timeout
  /\ pc = "identify" =>
       quiet < SampleEvery + 2 * (DiskCount - LeftCount) * Timeout + Timeout
  /\ pc = "sleep" => quiet < SampleEvery + ScanTime
  /\ pc = "read" => /\ quiet <= SampleEvery + ScanTime + ReadTime
                    /\ back \in {"beat", "sleep"} => Early

(* The age of a cached temperature exceeds the time since its stamp only   *)
(* by what was stamped as new in a scan.                                   *)
Fresh ==
  /\ \A d \in Disks : found[d] # None => found[d].age = found[d].stamp
  /\ pc = "identify" => got < Longer
  /\ \A i \in Disks \cup Pids :
       cache[i] # None => cache[i].age < cache[i].stamp + Longer + Timeout
  /\ \A i \in DOMAIN values : values[i].age <= Poll + Longer - 2 + ReadTime

IInv ==
  /\ TypeOK /\ Listing /\ Sent /\ Current /\ Sampled /\ Timed /\ Fresh

-----------------------------------------------------------------------------
(* What the model is built from                                            *)

LEMMA PeriodsType ==
  /\ {SampleEvery, BeatEvery, RescanEvery, Poll, Timeout} \subseteq Nat \ {0}
  /\ SampleEvery \in Nat \ {0} /\ Poll \in Nat \ {0} /\ Timeout \in Nat \ {0}
  /\ Longer \in Nat /\ Poll <= Longer /\ Timeout <= Longer
  /\ DOMAIN Periods = {"sample", "beat", "scan"}
  /\ Periods["sample"] = SampleEvery
  /\ \A t \in DOMAIN Periods : Periods[t] \in Nat \ {0}
BY AgentAssumption DEF Longer, Periods

LEMMA GuestFacts ==
  ASSUME machine \in Machines
  PROVE  /\ machine.slots \subseteq Slots /\ machine.disks \subseteq Disks
         /\ machine.iocs \subseteq Iocs /\ DOMAIN config \subseteq Pids
         /\ \A p \in DOMAIN config : config[p] \in machine.disks \cup machine.iocs \cup SUBSET Chips
BY AgentAssumption DEF config, Pids

LEMMA IdsFacts ==
  /\ None \notin Chips /\ None \notin Ids /\ None \notin Temperatures /\ None \notin Results
  /\ \A i \in Slots : i \notin Disks /\ i \notin Iocs /\ i \notin Pids
  /\ \A i \in Disks : i \notin Slots /\ i \notin Iocs /\ i \notin Pids
  /\ \A i \in Iocs : i \notin Slots /\ i \notin Disks /\ i \notin Pids
  /\ \A i \in Pids : i \notin Slots /\ i \notin Disks /\ i \notin Iocs
  /\ \A chips \in SUBSET Chips : chips \notin Disks \cup Iocs
BY IdsAssumption

LEMMA OlderTemperature ==
  ASSUME NEW e \in Temperatures \cup {None}, NEW t \in Nat
  PROVE  /\ Older(e, t) \in Temperatures \cup {None}
         /\ Older(e, t) # None => /\ e # None /\ e \in Temperatures
                                  /\ Older(e, t).age = e.age + t
                                  /\ Older(e, t).stamp = e.stamp + t
<1>1. CASE e = None
  BY <1>1 DEF Older
<1>2. CASE e # None
  <2>1. e \in Temperatures /\ e.stamp \in 0 .. Poll - 1 /\ e.age \in Nat
    BY <1>2 DEF Temperatures
  <2>2. CASE e.stamp + t >= Poll
    BY <2>2 DEF Older
  <2>3. CASE ~ (e.stamp + t >= Poll)
    <3>1. Older(e, t) = [e EXCEPT !.stamp = @ + t, !.age = @ + t]
      BY <1>2, <2>3 DEF Older
    <3>2. e.stamp + t \in 0 .. Poll - 1 /\ e.age + t \in Nat
      BY <2>1, <2>3, PeriodsType
    <3>3. Older(e, t) = [stamp |-> e.stamp + t, age |-> e.age + t]
      BY <2>1, <3>1 DEF Temperatures
    <3> QED BY <1>2, <2>1, <3>2, <3>3 DEF Temperatures
  <2> QED BY <2>2, <2>3
<1> QED BY <1>1, <1>2

LEMMA OlderResult ==
  ASSUME NEW e \in Results \cup {None}, NEW t \in Nat
  PROVE  /\ Older(e, t) \in Results \cup {None}
         /\ Older(e, t) # None => /\ e # None /\ e \in Results
                                  /\ Older(e, t).age = e.age + t
                                  /\ Older(e, t).stamp = e.stamp + t
<1>1. CASE e = None
  BY <1>1 DEF Older
<1>2. CASE e # None
  <2>1. e \in Results /\ e.stamp \in 0 .. Poll - 1 /\ e.age \in Nat
    BY <1>2 DEF Results
  <2>2. CASE e.stamp + t >= Poll
    BY <2>2 DEF Older
  <2>3. CASE ~ (e.stamp + t >= Poll)
    <3>1. Older(e, t) = [e EXCEPT !.stamp = @ + t, !.age = @ + t]
      BY <1>2, <2>3 DEF Older
    <3>2. e.stamp + t \in 0 .. Poll - 1 /\ e.age + t \in Nat
      BY <2>1, <2>3, PeriodsType
    <3>3. Older(e, t) = [ok |-> e.ok, stamp |-> e.stamp + t, age |-> e.age + t]
      BY <2>1, <3>1 DEF Results
    <3> QED BY <1>2, <2>1, <3>2, <3>3 DEF Results
  <2> QED BY <2>2, <2>3
<1> QED BY <1>1, <1>2

LEMMA AgedTypes ==
  ASSUME TypeOK, NEW t \in Nat
  PROVE  /\ Aged(cache, t) \in [Disks \cup Pids -> Temperatures \cup {None}]
         /\ Aged(found, t) \in [Disks -> Results \cup {None}]
         /\ Aged(named, t) \in [Disks -> Results \cup {None}]
         /\ \A i \in Disks \cup Pids : Aged(cache, t)[i] = Older(cache[i], t)
         /\ \A d \in Disks : Aged(found, t)[d] = Older(found[d], t)
BY OlderTemperature, OlderResult DEF Aged, TypeOK

LEMMA AgedReadings ==
  ASSUME TypeOK, NEW t \in Nat
  PROVE  /\ DOMAIN AgedValues(t) = DOMAIN values
         /\ AgedValues(t) \in [DOMAIN values -> Readings]
         /\ \A i \in DOMAIN values : /\ AgedValues(t)[i].of = values[i].of
                                     /\ AgedValues(t)[i].age = values[i].age + t
                                     /\ values[i].age \in Nat
<1>1. \A i \in DOMAIN values : values[i] \in Readings
  BY DEF TypeOK
<1>2. \A i \in DOMAIN values :
        /\ [values[i] EXCEPT !.age = @ + t] = [of |-> values[i].of, age |-> values[i].age + t]
        /\ values[i].age \in Nat /\ values[i].age + t \in Nat
  BY <1>1 DEF Readings
<1>3. \A i \in DOMAIN values : [of |-> values[i].of, age |-> values[i].age + t] \in Readings
  BY <1>1, <1>2 DEF Readings
<1> QED BY <1>2, <1>3 DEF AgedValues

LEMMA PutFacts ==
  ASSUME NEW f, NEW i, NEW v
  PROVE  /\ DOMAIN Put(f, i, v) = DOMAIN f \cup {i}
         /\ Put(f, i, v)[i] = v
         /\ \A j \in DOMAIN f : j # i => Put(f, i, v)[j] = f[j]
BY DEF Put

LEMMA PutReadings ==
  ASSUME NEW f, DOMAIN f \subseteq Ids, f \in [DOMAIN f -> Readings], NEW i \in Ids, NEW v \in Readings
  PROVE  /\ DOMAIN Put(f, i, v) \subseteq Ids
         /\ Put(f, i, v) \in [DOMAIN Put(f, i, v) -> Readings]
BY DEF Put

(* The work of a scan or a sample is each id of it once.                   *)
LEMMA SortedList ==
  ASSUME NEW ids, ids \subseteq Ids
  PROVE  /\ Sorted(ids) \in Seq(ids) /\ Sorted(ids) \in Seq(Ids)
         /\ Distinct(Sorted(ids)) /\ Elements(Sorted(ids)) = ids
<1>1. Order \in Seq(Ids) /\ DOMAIN Order = 1 .. Len(Order)
  BY OrderAssumption
<1>2. Sorted(ids) \in Seq(Ids \cap ids)
  BY <1>1, FilterType DEF Sorted
<1>3. Ids \cap ids = ids
  OBVIOUS
<1>4. DOMAIN Sorted(ids) = 1 .. Len(Sorted(ids)) /\ \A i \in DOMAIN Sorted(ids) : Sorted(ids)[i] \in ids
  BY <1>2, <1>3
<1>5. Distinct(Sorted(ids))
  <2>1. \A i, j \in 1 .. Len(Order) : Order[i] = Order[j] => i = j
    BY <1>1, OrderAssumption
  <2>2. \A i, j \in 1 .. Len(Sorted(ids)) : Sorted(ids)[i] = Sorted(ids)[j] => i = j
    BY <1>1, <2>1, FilterInjective DEF Sorted
  <2> QED BY <1>4, <2>2 DEF Distinct
<1>6. ASSUME NEW x \in ids
      PROVE  x \in Elements(Sorted(ids))
  <2>1. PICK k \in 1 .. Len(Order) : Order[k] = x
    BY <1>1, OrderAssumption DEF Range
  <2>2. \E j \in 1 .. Len(Sorted(ids)) : Sorted(ids)[j] = Order[k]
    BY <1>1, <2>1, FilterKeeps DEF Sorted
  <2> QED BY <1>4, <2>1, <2>2 DEF Elements
<1>7. Elements(Sorted(ids)) \subseteq ids
  BY <1>4 DEF Elements
<1> QED BY <1>2, <1>3, <1>5, <1>6, <1>7

LEMMA TailList ==
  ASSUME NEW q \in Seq(Ids), q # << >>, Distinct(q)
  PROVE  /\ Head(q) \in Elements(q) /\ Head(q) \in Ids
         /\ Tail(q) \in Seq(Ids) /\ Distinct(Tail(q))
         /\ Elements(Tail(q)) = Elements(q) \ {Head(q)}
<1>1. /\ Len(q) \in Nat \ {0} /\ DOMAIN q = 1 .. Len(q) /\ Head(q) = q[1] /\ 1 \in DOMAIN q
      /\ Tail(q) \in Seq(Ids) /\ DOMAIN Tail(q) = 1 .. Len(q) - 1
      /\ \A i \in 1 .. Len(q) - 1 : Tail(q)[i] = q[i + 1]
  OBVIOUS
<1>2. Head(q) \in Elements(q) /\ Head(q) \in Ids
  BY <1>1 DEF Elements
<1>3. Distinct(Tail(q))
  BY <1>1 DEF Distinct
<1>4. \A i \in DOMAIN Tail(q) : Tail(q)[i] \in Elements(q) /\ Tail(q)[i] # Head(q)
  BY <1>1 DEF Elements, Distinct
<1>5. ASSUME NEW i \in DOMAIN q, q[i] # Head(q)
      PROVE  q[i] \in Elements(Tail(q))
  <2>1. i - 1 \in 1 .. Len(q) - 1 /\ Tail(q)[i - 1] = q[i]
    BY <1>1, <1>5
  <2> QED BY <1>1, <2>1 DEF Elements
<1>6. Elements(Tail(q)) \subseteq Elements(q) \ {Head(q)}
  BY <1>4 DEF Elements
<1>7. Elements(q) \ {Head(q)} \subseteq Elements(Tail(q))
  BY <1>5 DEF Elements
<1> QED BY <1>1, <1>2, <1>3, <1>6, <1>7

LEMMA EmptyList ==
  Distinct(<< >>) /\ Elements(<< >>) = {} /\ << >> \in Seq(Ids)
BY DEF Distinct, Elements

LEMMA RunCost ==
  ASSUME TypeOK, NEW d \in machine.disks, NEW run \in run_smartctl(d)
  PROVE  /\ run.ok \in BOOLEAN /\ run.cost \in Nat /\ run.cost <= Timeout
         /\ run.ok => run.cost < Timeout
<1>1. device[d] \in {"well", "ill", "gone"}
  BY DEF TypeOK
<1>2. \/ run \in [ok : {TRUE}, cost : {0, Timeout - 1}]
      \/ run \in [ok : {FALSE}, cost : {0, Timeout}]
      \/ run \in [ok : {FALSE}, cost : {0}]
  BY <1>1 DEF run_smartctl
<1>3. run.ok \in BOOLEAN /\ run.cost \in {0, Timeout - 1, Timeout}
  BY <1>2
<1>4. run.ok => run.cost \in {0, Timeout - 1}
  BY <1>2
<1>5. run.cost \in Nat /\ run.cost <= Timeout /\ (run.cost \in {0, Timeout - 1} => run.cost < Timeout)
  BY <1>3, PeriodsType
<1> QED BY <1>3, <1>4, <1>5

(* A sensor read by smartctl is a disk or is configured to stand for one.  *)
LEMMA DiskSource ==
  ASSUME TypeOK, Listing, NEW i \in DOMAIN sensors, sensors[i].src \in Disks
  PROVE  /\ sensors[i].src \in machine.disks /\ i \in Disks \cup Pids
         /\ i \in machine.disks \cup {p \in DOMAIN config : config[p] \in Disks}
<1>1. \/ /\ i \in machine.slots \cup machine.disks \cup machine.iocs
         /\ sensors[i].src = i
      \/ /\ i \in DOMAIN config
         /\ IF config[i] \in Disks \cup Iocs THEN sensors[i].src = config[i]
            ELSE sensors[i].src \in machine.slots \cup {None}
  BY DEF Listing, Backed
<1>2. machine \in Machines
  BY DEF TypeOK
<1>3. CASE i \in machine.slots \cup machine.disks \cup machine.iocs /\ sensors[i].src = i
  BY <1>2, <1>3, GuestFacts, IdsFacts
<1>4. CASE i \in DOMAIN config /\ config[i] \in Disks \cup Iocs /\ sensors[i].src = config[i]
  BY <1>2, <1>4, GuestFacts, IdsFacts
<1>5. CASE i \in DOMAIN config /\ sensors[i].src \in machine.slots \cup {None}
  BY <1>2, <1>5, GuestFacts, IdsFacts DEF Ids
<1> QED BY <1>1, <1>3, <1>4, <1>5

(* What a list in use names is known, and a directory or a device that it  *)
(* stands for is one of this guest.                                        *)
LEMMA Known ==
  ASSUME TypeOK, NEW list, Backed(list)
  PROVE  /\ DOMAIN list \subseteq Ids
         /\ \A i \in DOMAIN list :
              /\ list[i].src \in machine.slots \cup machine.disks \cup machine.iocs \cup {None}
              /\ list[i].src \in Slots => list[i].src \in machine.slots
              /\ list[i].src \in Iocs => list[i].src \in machine.iocs
<1>1. machine \in Machines
  BY DEF TypeOK
<1>2. ASSUME NEW i \in DOMAIN list
      PROVE  /\ i \in Ids
             /\ list[i].src \in machine.slots \cup machine.disks \cup machine.iocs \cup {None}
  <2>1. \/ /\ i \in machine.slots \cup machine.disks \cup machine.iocs
           /\ list[i].src = i
        \/ /\ i \in DOMAIN config
           /\ IF config[i] \in Disks \cup Iocs THEN list[i].src = config[i]
              ELSE list[i].src \in machine.slots \cup {None}
    BY DEF Backed
  <2>2. CASE i \in machine.slots \cup machine.disks \cup machine.iocs /\ list[i].src = i
    BY <1>1, <2>2, GuestFacts DEF Ids
  <2>3. CASE i \in DOMAIN config /\ config[i] \in Disks \cup Iocs /\ list[i].src = config[i]
    <3>1. config[i] \in machine.disks \cup machine.iocs
      BY <1>1, <2>3, GuestFacts, IdsFacts
    <3> QED BY <1>1, <2>3, <3>1, GuestFacts DEF Ids
  <2>4. CASE i \in DOMAIN config /\ list[i].src \in machine.slots \cup {None}
    BY <1>1, <2>4, GuestFacts DEF Ids
  <2> QED BY <2>1, <2>2, <2>3, <2>4
<1>3. /\ \A i \in Slots : i \notin machine.disks /\ i \notin machine.iocs /\ i # None
      /\ \A i \in Iocs : i \notin machine.disks /\ i \notin machine.slots /\ i # None
  BY <1>1, GuestFacts, IdsFacts DEF Ids
<1> QED BY <1>2, <1>3

LEMMA LeastOk ==
  /\ Empty \in [DOMAIN Empty -> Readings] /\ DOMAIN Empty = {}
  /\ Blank \in [Disks \cup Pids -> Temperatures \cup {None}]
  /\ Unknown \in [Disks -> Results \cup {None}]
  /\ [t \in DOMAIN Periods |-> 0] \in [{"sample", "beat", "scan"} -> Nat]
BY PeriodsType DEF Empty, Blank, Unknown

LEMMA TypeInit ==
  ASSUME Init
  PROVE  TypeOK
<1>1. Distinct(todo) /\ todo \in Seq(Ids)
  BY EmptyList DEF Init
<1>2. machine \in Machines /\ slots \in [machine.slots -> Chips \cup {None}]
      /\ device \in [machine.disks \cup machine.iocs -> {"well", "ill", "gone"}]
  BY DEF Init
<1>3. DOMAIN values \subseteq Ids /\ values \in [DOMAIN values -> Readings]
  BY LeastOk DEF Init
<1>4. /\ cache \in [Disks \cup Pids -> Temperatures \cup {None}]
      /\ found \in [Disks -> Results \cup {None}] /\ named \in [Disks -> Results \cup {None}]
      /\ since \in [{"sample", "beat", "scan"} -> Nat]
  BY LeastOk DEF Init
<1>5. /\ got \in Nat /\ gen \in 0 .. 2 /\ lap \in Nat /\ asked \in Nat /\ quiet \in Nat
  BY DEF Init
<1>7. moved \in BOOLEAN
  BY DEF Init
<1>6. pc = "down" /\ back = "top"
  BY DEF Init
<1> QED BY <1>1, <1>2, <1>3, <1>4, <1>5, <1>6, <1>7 DEF TypeOK

LEMMA FreshResult ==
  ASSUME NEW ok \in BOOLEAN, NEW t \in Nat
  PROVE  /\ Older([ok |-> ok, stamp |-> 0, age |-> 0], t) \in Results \cup {None}
         /\ Older([stamp |-> 0, age |-> 0], t) \in Temperatures \cup {None}
         /\ Older([ok |-> ok, stamp |-> 0, age |-> 0], t) # None =>
              Older([ok |-> ok, stamp |-> 0, age |-> 0], t).age
                = Older([ok |-> ok, stamp |-> 0, age |-> 0], t).stamp
         /\ Older([stamp |-> 0, age |-> 0], t) # None =>
              Older([stamp |-> 0, age |-> 0], t).age = Older([stamp |-> 0, age |-> 0], t).stamp
<1>1. [ok |-> ok, stamp |-> 0, age |-> 0] \in Results
  BY PeriodsType DEF Results
<1>2. [stamp |-> 0, age |-> 0] \in Temperatures
  BY PeriodsType DEF Temperatures
<1> QED BY <1>1, <1>2, OlderResult, OlderTemperature

LEMMA TypeDiscover ==
  ASSUME TypeOK, Listing, Discover
  PROVE  TypeOK'
<1> DEFINE d == Head(todo)
<1>1. machine \in Machines /\ todo # << >> /\ Distinct(todo) /\ todo \in Seq(Ids)
  BY DEF TypeOK, Discover
<1>2. d \in machine.disks /\ d \in Disks
  BY <1>1, TailList, GuestFacts DEF Discover, Listing
<1>3. /\ todo' \in Seq(Ids) /\ Distinct(todo')
      /\ pc' \in {"discover", "identify"}
  BY <1>1, TailList DEF Discover
<1>4. CASE found[d] # None
  <2>1. found[d] \in Results
    BY <1>2, <1>4 DEF TypeOK
  <2>2. got' \in Nat /\ UNCHANGED <<caches, lap, quiet>>
    BY <1>4, <2>1 DEF Discover, Results
  <2> QED BY <1>3, <2>2 DEF Discover, TypeOK, caches, hardware
<1>5. CASE found[d] = None
  <2>1. PICK run \in run_smartctl(d) :
          /\ found' = [Aged(found, run.cost) EXCEPT ![d] =
                Older([ok |-> run.ok, stamp |-> 0, age |-> 0], run.cost)]
          /\ got' = run.cost
          /\ named' = Aged(named, run.cost)
          /\ cache' = Aged(cache, run.cost)
          /\ Spend(run.cost)
    BY <1>5 DEF Discover
  <2>2. run.ok \in BOOLEAN /\ run.cost \in Nat
    BY <1>2, RunCost
  <2>3. /\ found' \in [Disks -> Results \cup {None}]
        /\ named' \in [Disks -> Results \cup {None}]
        /\ cache' \in [Disks \cup Pids -> Temperatures \cup {None}]
    BY <2>1, <2>2, AgedTypes, FreshResult
  <2>4. got' \in Nat /\ lap' \in Nat /\ quiet' \in Nat
    BY <2>1, <2>2 DEF Spend, TypeOK
  <2> QED BY <1>3, <2>3, <2>4 DEF Discover, TypeOK, hardware
<1> QED BY <1>4, <1>5

LEMMA TypeListed ==
  ASSUME TypeOK, NEW d \in Disks, NEW ok, NEW t \in Nat, Listed(d, ok, t)
  PROVE  cache' \in [Disks \cup Pids -> Temperatures \cup {None}]
<1>1. [stamp |-> 0, age |-> got + t] \in Temperatures
  BY SMTT(30), PeriodsType DEF Temperatures, TypeOK
<1> QED BY <1>1, AgedTypes DEF Listed

LEMMA TypeIdentify ==
  ASSUME TypeOK, Listing, Identify
  PROVE  TypeOK'
<1> DEFINE d == Head(todo)
<1>1. machine \in Machines /\ todo # << >> /\ Distinct(todo) /\ todo \in Seq(Ids)
  BY DEF TypeOK, Identify, Listing
<1>2. d \in machine.disks /\ d \in Disks
  BY <1>1, TailList, GuestFacts DEF Identify, Listing
<1>3. /\ todo' \in Seq(Ids) /\ Distinct(todo')
      /\ pc' = "discover" /\ got' = 0
  BY <1>1, TailList DEF Identify
<1>4. CASE named[d] # None
  <2>1. Listed(d, named[d].ok, 0) /\ UNCHANGED <<found, named, lap, quiet>>
    BY <1>4 DEF Identify
  <2>2. cache' \in [Disks \cup Pids -> Temperatures \cup {None}]
    BY <1>2, <2>1, TypeListed
  <2> QED BY <1>3, <2>1, <2>2 DEF Identify, TypeOK, hardware
<1>5. CASE named[d] = None
  <2>1. PICK run \in run_smartctl(d) :
          /\ Listed(d, run.ok, run.cost)
          /\ named' = [Aged(named, run.cost) EXCEPT ![d] =
               Older([ok |-> run.ok, stamp |-> 0, age |-> 0], run.cost)]
          /\ found' = Aged(found, run.cost)
          /\ Spend(run.cost)
    BY <1>5 DEF Identify
  <2>2. run.ok \in BOOLEAN /\ run.cost \in Nat
    BY <1>2, RunCost
  <2>3. /\ found' \in [Disks -> Results \cup {None}]
        /\ named' \in [Disks -> Results \cup {None}]
        /\ cache' \in [Disks \cup Pids -> Temperatures \cup {None}]
    BY <1>2, <2>1, <2>2, AgedTypes, FreshResult, TypeListed
  <2>4. lap' \in Nat /\ quiet' \in Nat
    BY <2>1, <2>2 DEF Spend, TypeOK
  <2> QED BY <1>3, <2>3, <2>4 DEF Identify, TypeOK, hardware
<1> QED BY <1>4, <1>5

LEMMA TypeReadLive ==
  ASSUME TypeOK, Listing, ReadLive
  PROVE  TypeOK'
<1> DEFINE i == Head(todo)
           src == sensors[i].src
           now == IF src \in Slots THEN slots[src]
                  ELSE IF src \in Iocs /\ read_ioc_temperature(src) THEN src
                  ELSE None
<1>1. machine \in Machines /\ todo # << >> /\ Distinct(todo) /\ todo \in Seq(Ids)
  BY DEF TypeOK, ReadLive
<1>2. i \in DOMAIN sensors /\ i \in Ids
  BY <1>1, TailList DEF ReadLive, Listing
<1>3. todo' \in Seq(Ids) /\ Distinct(todo')
  BY <1>1, TailList DEF ReadLive
<1>4. now \in Chips \cup Iocs \cup {None}
  BY <1>2, Known DEF TypeOK, Listing
<1>5. values' = IF now = None THEN Missed(i, 0) ELSE Put(values, i, [of |-> now, age |-> 0])
  BY DEF ReadLive
<1>6. /\ DOMAIN values \subseteq Ids /\ values \in [DOMAIN values -> Readings]
      /\ DOMAIN AgedValues(0) \subseteq Ids /\ AgedValues(0) \in [DOMAIN AgedValues(0) -> Readings]
  BY AgedReadings DEF TypeOK
<1>7. [of |-> "default", age |-> 0] \in Readings
      /\ (now # None => [of |-> now, age |-> 0] \in Readings)
  BY <1>4 DEF Readings
<1>8. DOMAIN values' \subseteq Ids /\ values' \in [DOMAIN values' -> Readings]
  BY <1>2, <1>5, <1>6, <1>7, PutReadings DEF Missed
<1> QED BY <1>3, <1>8 DEF ReadLive, TypeOK, hardware, caches, ghosts

LEMMA TypeReadFails ==
  ASSUME TypeOK, Listing, ReadFails
  PROVE  TypeOK'
<1> DEFINE i == Head(todo)
<1>1. todo # << >> /\ Distinct(todo) /\ todo \in Seq(Ids) /\ todo' = Tail(todo)
      /\ values' = Missed(i, 0)
  BY DEF TypeOK, ReadFails
<1>2. i \in Ids /\ todo' \in Seq(Ids) /\ Distinct(todo')
  BY <1>1, TailList
<1>3. DOMAIN AgedValues(0) \subseteq Ids /\ AgedValues(0) \in [DOMAIN AgedValues(0) -> Readings]
  BY AgedReadings DEF TypeOK
<1>4. [of |-> "default", age |-> 0] \in Readings
  BY DEF Readings
<1>5. DOMAIN values' \subseteq Ids /\ values' \in [DOMAIN values' -> Readings]
  BY <1>1, <1>2, <1>3, <1>4, PutReadings DEF Missed
<1> QED BY <1>2, <1>5 DEF ReadFails, TypeOK, hardware, caches, ghosts

LEMMA TypeReadDisk ==
  ASSUME TypeOK, Listing, ReadDisk
  PROVE  TypeOK'
<1> DEFINE i == Head(todo)
           d == sensors[i].src
<1>1. machine \in Machines /\ todo # << >> /\ Distinct(todo) /\ todo \in Seq(Ids)
  BY DEF TypeOK, ReadDisk
<1>2. i \in DOMAIN sensors /\ i \in Ids
  BY <1>1, TailList DEF ReadDisk, Listing
<1>3. todo' \in Seq(Ids) /\ Distinct(todo')
  BY <1>1, TailList DEF ReadDisk
<1>4. d \in Disks /\ d \in machine.disks /\ i \in Disks \cup Pids
  BY <1>2, DiskSource DEF ReadDisk
<1>5. \A t \in Nat : /\ [of |-> d, age |-> t] \in Readings
                     /\ [of |-> "default", age |-> 0] \in Readings
  BY <1>4 DEF Readings
<1>6. CASE cache[i] # None
  <2>1. cache[i].age \in Nat
    BY <1>4, <1>6 DEF TypeOK, Temperatures
  <2>2. values' = Put(values, i, [of |-> d, age |-> cache[i].age])
        /\ UNCHANGED <<caches, lap, quiet>>
    BY <1>6 DEF ReadDisk
  <2>3. DOMAIN values' \subseteq Ids /\ values' \in [DOMAIN values' -> Readings]
    BY <1>2, <1>5, <2>1, <2>2, PutReadings DEF TypeOK
  <2> QED BY <1>3, <2>2, <2>3 DEF ReadDisk, TypeOK, hardware, caches
<1>7. CASE cache[i] = None
  <2>1. PICK run \in run_smartctl(d) :
          /\ values' = IF run.ok
                THEN Put(AgedValues(run.cost), i, [of |-> d, age |-> run.cost])
                ELSE Missed(i, run.cost)
          /\ cache' = [Aged(cache, run.cost) EXCEPT ![i] =
                IF run.ok THEN Older([stamp |-> 0, age |-> 0], run.cost) ELSE None]
          /\ found' = Aged(found, run.cost)
          /\ named' = Aged(named, run.cost)
          /\ Spend(run.cost)
    BY <1>7 DEF ReadDisk
  <2>2. run.ok \in BOOLEAN /\ run.cost \in Nat
    BY <1>4, RunCost
  <2>3. /\ found' \in [Disks -> Results \cup {None}]
        /\ named' \in [Disks -> Results \cup {None}]
        /\ cache' \in [Disks \cup Pids -> Temperatures \cup {None}]
    BY <2>1, <2>2, AgedTypes, FreshResult
  <2>4. lap' \in Nat /\ quiet' \in Nat
    BY <2>1, <2>2 DEF Spend, TypeOK
  <2>5. /\ DOMAIN AgedValues(run.cost) \subseteq Ids
        /\ AgedValues(run.cost) \in [DOMAIN AgedValues(run.cost) -> Readings]
    BY <2>2, AgedReadings DEF TypeOK
  <2>6. DOMAIN values' \subseteq Ids /\ values' \in [DOMAIN values' -> Readings]
    BY <1>2, <1>5, <2>1, <2>2, <2>5, PutReadings DEF Missed
  <2> QED BY <1>3, <2>3, <2>4, <2>6 DEF ReadDisk, TypeOK, hardware
<1> QED BY <1>6, <1>7

LEMMA TypeStep ==
  ASSUME TypeOK, Listing, [Next]_vars
  PROVE  TypeOK'
<1>1. machine \in Machines /\ DOMAIN sensors \subseteq Ids /\ DOMAIN next \subseteq Ids
  BY Known DEF TypeOK, Listing
<1>2. CASE Start
  BY <1>2 DEF Start, TypeOK, hardware, caches, ghosts
<1>3. CASE Stop
  <2>1. DOMAIN values' \subseteq Ids /\ values' \in [DOMAIN values' -> Readings]
    BY <1>3, LeastOk DEF Stop
  <2>2. /\ cache' \in [Disks \cup Pids -> Temperatures \cup {None}]
        /\ found' \in [Disks -> Results \cup {None}] /\ named' \in [Disks -> Results \cup {None}]
        /\ since' \in [{"sample", "beat", "scan"} -> Nat]
    BY <1>3, LeastOk DEF Stop
  <2>3. /\ got' \in Nat /\ gen' \in 0 .. 2 /\ lap' \in Nat /\ asked' \in Nat /\ quiet' \in Nat
    BY <1>3 DEF Stop
  <2>5. moved' \in BOOLEAN
    BY <1>3 DEF Stop
  <2>4. /\ pc' = "down" /\ back' = "top" /\ todo' \in Seq(Ids) /\ Distinct(todo')
        /\ UNCHANGED <<machine, slots, device>>
    BY <1>3, EmptyList DEF Stop, hardware
  <2> QED BY <2>1, <2>2, <2>3, <2>4, <2>5 DEF TypeOK
<1>4. CASE ScanPersistent
  BY <1>4, LeastOk DEF ScanPersistent, TypeOK, hardware
<1>5. CASE ScanHwmon
  BY <1>5 DEF ScanHwmon, TypeOK, hardware, caches, ghosts
<1>6. CASE ScanHba
  <2>1. todo' = Sorted(expand_device_patterns) /\ pc' = "discover"
    BY <1>6 DEF ScanHba
  <2>2. expand_device_patterns \subseteq Ids
    BY <1>1, GuestFacts DEF expand_device_patterns, Ids
  <2>3. todo' \in Seq(Ids) /\ Distinct(todo')
    BY <2>1, <2>2, SortedList
  <2> QED BY <1>6, <2>3 DEF ScanHba, TypeOK, hardware, caches, ghosts
<1>7. CASE Adopt
  <2>1. Sorted(DOMAIN next) \in Seq(Ids) /\ Distinct(Sorted(DOMAIN next))
    BY <1>1, SortedList
  <2>2. todo' \in Seq(Ids) /\ Distinct(todo')
    BY <1>7, <2>1 DEF Adopt, TypeOK
  <2>4. gen' \in 0 .. 2 /\ quiet' \in Nat
    <3>1. gen % 2 \in 0 .. 1
      BY DEF TypeOK
    <3> QED BY <1>7, <3>1 DEF Adopt, TypeOK
  <2>5. /\ pc' \in {"sleep", "read"}
        /\ back' \in {"top", "loop", "sample", "beat", "sleep"}
    BY <1>7 DEF Adopt, TypeOK
  <2>3. since' \in [{"sample", "beat", "scan"} -> Nat]
    BY <1>7 DEF Adopt, TypeOK
  <2> QED BY <1>7, <2>2, <2>3, <2>4, <2>5 DEF Adopt, TypeOK, hardware, caches
<1>8. CASE SendSample
  <2>1. since' \in [{"sample", "beat", "scan"} -> Nat] /\ lap' \in Nat
    BY <1>8, LeastOk DEF SendSample, TypeOK
  <2>2. pc' \in {"top", "sample", "beat", "sleep"} /\ back' = "top" /\ quiet' = 0
    BY <1>8 DEF SendSample, TypeOK, Listing
  <2> QED BY <1>8, <2>1, <2>2, LeastOk DEF SendSample, TypeOK, hardware, caches
<1>9. CASE Resync
  <2>1. Sorted(DOMAIN sensors) \in Seq(Ids) /\ Distinct(Sorted(DOMAIN sensors))
    BY <1>1, SortedList
  <2>2. todo' \in Seq(Ids) /\ Distinct(todo')
    BY <1>9, <2>1 DEF Resync, TypeOK
  <2> QED BY <1>9, <2>2 DEF Resync, TypeOK, hardware, caches
<1>10. CASE Sample
  <2>1. Sorted(DOMAIN sensors) \in Seq(Ids) /\ Distinct(Sorted(DOMAIN sensors))
    BY <1>1, SortedList
  <2>2. todo' \in Seq(Ids) /\ Distinct(todo') /\ since' \in [{"sample", "beat", "scan"} -> Nat]
    BY <1>10, <2>1 DEF Sample, TypeOK
  <2> QED BY <1>10, <2>2 DEF Sample, TypeOK, hardware, caches, ghosts
<1>11. CASE Beat
  BY <1>11 DEF Beat, TypeOK, hardware, caches
<1>12. CASE Rescan
  BY <1>12 DEF Rescan, TypeOK, hardware, caches, ghosts
<1>13. CASE Sleep
  <2>1. since' \in [{"sample", "beat", "scan"} -> Nat]
    <3>0. since \in [{"sample", "beat", "scan"} -> Nat] /\ lap \in Nat
      BY DEF TypeOK
    <3>1. \A t \in DOMAIN Periods : since[t] + (lap + 1) \in Nat /\ Periods[t] \in Nat
      BY <3>0, PeriodsType
    <3>2. since' = [t \in DOMAIN Periods |->
             IF since[t] + (lap + 1) >= Periods[t] THEN Periods[t] ELSE since[t] + (lap + 1)]
      BY <1>13 DEF Sleep
    <3>3. DOMAIN Periods = {"sample", "beat", "scan"}
      BY PeriodsType
    <3> QED BY <3>1, <3>2, <3>3
  <2>2. /\ found' \in [Disks -> Results \cup {None}]
        /\ named' \in [Disks -> Results \cup {None}]
        /\ cache' \in [Disks \cup Pids -> Temperatures \cup {None}]
    BY <1>13, AgedTypes DEF Sleep
  <2> QED BY SMTT(30), <1>13, <2>1, <2>2 DEF Sleep, TypeOK, hardware
<1>14. CASE Ask
  BY <1>14 DEF Ask, TypeOK, hardware, caches, ghosts
<1>15. CASE Plug
  BY <1>15 DEF Plug, TypeOK, caches
<1>16. CASE Fail
  BY <1>16 DEF Fail, TypeOK, caches, ghosts
<1>17. CASE UNCHANGED vars
  BY <1>17 DEF TypeOK, vars, hardware, caches, ghosts
<1> QED
  BY <1>2, <1>3, <1>4, <1>5, <1>6, <1>7, <1>8, <1>9, <1>10, <1>11, <1>12, <1>13, <1>14, <1>15,
     <1>16, <1>17, TypeDiscover, TypeIdentify, TypeReadLive, TypeReadFails,
     TypeReadDisk DEF Next, Step

-----------------------------------------------------------------------------
(* The lists and the work left                                             *)

LEMMA ResolveSlot ==
  ASSUME NEW p, config[p] \notin Disks \cup Iocs
  PROVE  Resolve(p) \in machine.slots \cup {None}
<1>1. CASE Cardinality(Matching(p)) = 1
  <2>1. Matching(p) # {}
    BY <1>1, FS_EmptySet
  <2>2. (CHOOSE s \in Matching(p) : TRUE) \in Matching(p)
    BY <2>1
  <2> QED BY <1>1, <2>2 DEF Resolve, Matching
<1>2. CASE Cardinality(Matching(p)) # 1
  BY <1>2 DEF Resolve
<1> QED BY <1>1, <1>2

LEMMA BackedKept ==
  ASSUME UNCHANGED machine
  PROVE  /\ UNCHANGED sensors /\ Backed(sensors) => Backed(sensors)'
         /\ UNCHANGED next /\ Backed(next) => Backed(next)'
         /\ sensors' = next /\ Backed(next) => Backed(sensors)'
         /\ next' = Empty => Backed(next)'
         /\ sensors' = Empty => Backed(sensors)'
         /\ DOMAIN config' = DOMAIN config
BY DEF Backed, config, Empty

LEMMA ListingInit ==
  ASSUME Init
  PROVE  Listing
BY DEF Init, Listing, Backed, Empty, Scanning

LEMMA ListingScan ==
  ASSUME TypeOK, Listing, ScanPersistent \/ ScanHwmon \/ ScanHba
  PROVE  Listing'
<1>0. machine \in Machines /\ UNCHANGED <<machine, sensors, gen>>
  BY DEF TypeOK, ScanPersistent, ScanHwmon, ScanHba
<1>1. Backed(sensors)' /\ DOMAIN config' = DOMAIN config
  BY <1>0, BackedKept DEF Listing
<1>2. CASE ScanPersistent
  <2>1. /\ next' = [p \in DOMAIN config |-> [src |-> Resolve(p), label |-> p]]
        /\ pc' = "hwmon"
    BY <1>2 DEF ScanPersistent
  <2>2. \A p \in DOMAIN config :
          IF config[p] \in Disks \cup Iocs THEN Resolve(p) = config[p]
          ELSE Resolve(p) \in machine.slots \cup {None}
    BY ResolveSlot DEF Resolve
  <2>3. Backed(next)'
    BY <1>0, <2>1, <2>2 DEF Backed, config
  <2> QED BY <1>0, <1>1, <2>1, <2>3 DEF Listing
<1>3. CASE ScanHwmon
  <2> DEFINE shown == {s \in machine.slots : slots[s] # None} \ Shadowed(next)
             new == [s \in shown |-> [src |-> s, label |-> slots[s]]]
  <2>1. /\ next' = [i \in DOMAIN next \cup shown |-> IF i \in shown THEN new[i] ELSE next[i]]
        /\ pc' = "hba" /\ pc = "hwmon"
    BY <1>3 DEF ScanHwmon
  <2>2. \A i \in shown : i \in machine.slots /\ new[i].src = i
    OBVIOUS
  <2>3. Backed(next)
    BY DEF Listing
  <2>4. DOMAIN next' = DOMAIN next \cup shown /\ \A i \in DOMAIN next' :
          \/ i \in shown /\ next'[i].src = i
          \/ i \in DOMAIN next /\ next'[i] = next[i]
    BY <2>1, <2>2
  <2>5. Backed(next)'
    BY <1>0, <2>2, <2>3, <2>4 DEF Backed, config
  <2> QED BY <1>0, <1>1, <2>1, <2>4, <2>5 DEF Listing, Scanning
<1>4. CASE ScanHba
  <2> DEFINE shown == {h \in machine.iocs : read_ioc_temperature(h)} \ Shadowed(next)
  <2>1. /\ next' = [i \in DOMAIN next \cup shown |->
              IF i \in shown THEN [src |-> i, label |-> "ioc"] ELSE next[i]]
        /\ pc' = "discover" /\ pc = "hba" /\ todo' = Sorted(expand_device_patterns)
    BY <1>4 DEF ScanHba
  <2>2. \A i \in shown : i \in machine.iocs
    OBVIOUS
  <2>3. Backed(next)
    BY DEF Listing
  <2>4. DOMAIN next' = DOMAIN next \cup shown /\ \A i \in DOMAIN next' :
          \/ i \in shown /\ next'[i].src = i
          \/ i \in DOMAIN next /\ next'[i] = next[i]
    BY <2>1
  <2>5. Backed(next)'
    BY <1>0, <2>2, <2>3, <2>4 DEF Backed, config
  <2>6. Elements(todo') \subseteq machine.disks
    <3>1. expand_device_patterns \subseteq Ids /\ expand_device_patterns \subseteq machine.disks
      BY <1>0, GuestFacts DEF expand_device_patterns, Ids
    <3> QED BY <2>1, <3>1, SortedList
  <2> QED BY <1>0, <1>1, <2>1, <2>4, <2>5, <2>6 DEF Listing, Scanning
<1> QED BY <1>2, <1>3, <1>4

LEMMA ListingDisks ==
  ASSUME TypeOK, Listing, Discover \/ Identify
  PROVE  Listing'
<1>1. /\ machine \in Machines /\ UNCHANGED <<machine, sensors, gen>>
      /\ todo \in Seq(Ids) /\ todo # << >> /\ Distinct(todo) /\ pc \in {"discover", "identify"}
  BY DEF TypeOK, Listing, Discover, Identify
<1>2. Backed(sensors)' /\ DOMAIN config' = DOMAIN config
  BY <1>1, BackedKept DEF Listing
<1>3. /\ Head(todo) \in machine.disks /\ Elements(todo) \subseteq machine.disks
      /\ Elements(Tail(todo)) \subseteq machine.disks
  BY <1>1, TailList DEF Listing
<1>4. CASE Discover
  <2>1. /\ UNCHANGED next /\ pc' \in {"discover", "identify"}
        /\ \/ todo' = todo
           \/ todo' = Tail(todo) /\ pc' = "discover"
    BY <1>4 DEF Discover
  <2>2. Backed(next)'
    BY <1>1, <2>1, BackedKept DEF Listing
  <2> QED BY <1>1, <1>2, <1>3, <2>1, <2>2 DEF Listing, Scanning
<1>5. CASE Identify
  <2>1. /\ pc' = "discover" /\ todo' = Tail(todo)
        /\ \/ next' = next
           \/ \E ok : next' = Put(next, Head(todo), [src |-> Head(todo), label |-> ok])
    BY <1>5 DEF Identify, Listed
  <2>2. CASE next' = next
    <3>1. Backed(next)'
      BY <1>1, <2>2, BackedKept DEF Listing
    <3> QED BY <1>1, <1>2, <1>3, <2>1, <2>2, <3>1 DEF Listing, Scanning
  <2>3. CASE \E ok : next' = Put(next, Head(todo), [src |-> Head(todo), label |-> ok])
    <3>1. PICK ok : next' = Put(next, Head(todo), [src |-> Head(todo), label |-> ok])
      BY <2>3
    <3>2. DOMAIN next' = DOMAIN next \cup {Head(todo)} /\ \A i \in DOMAIN next' :
            \/ i = Head(todo) /\ next'[i].src = i
            \/ i \in DOMAIN next /\ next'[i] = next[i]
      BY <3>1 DEF Put
    <3>3. Backed(next)
      BY DEF Listing
    <3>4. Backed(next)'
      BY <1>1, <1>3, <3>2, <3>3 DEF Backed, config
    <3> QED BY <1>1, <1>2, <1>3, <2>1, <3>2, <3>4 DEF Listing, Scanning
  <2> QED BY <2>1, <2>2, <2>3
<1> QED BY <1>4, <1>5

LEMMA ListingStep ==
  ASSUME TypeOK, Listing, [Next]_vars
  PROVE  Listing'
<1>1. /\ machine \in Machines /\ DOMAIN sensors \subseteq Ids /\ DOMAIN next \subseteq Ids
      /\ Backed(sensors) /\ Backed(next)
  BY Known DEF TypeOK, Listing
<1>2. UNCHANGED machine
  BY DEF Next, Step, Start, Stop, ScanPersistent, ScanHwmon, ScanHba, Discover, Identify, Adopt,
     ReadLive, ReadFails, ReadDisk, SendSample, Resync, Sample, Beat, Rescan, Sleep, Ask, Plug,
     Fail, vars
<1>3. DOMAIN config' = DOMAIN config
  BY <1>2, BackedKept
<1>4. CASE Stop
  <2>1. Backed(sensors)' /\ Backed(next)' /\ pc' = "down" /\ gen' = 0
    BY <1>2, <1>4, BackedKept DEF Stop
  <2> QED BY <2>1 DEF Listing, Scanning
<1>5. CASE Adopt
  <2>1. Backed(sensors)' /\ Backed(next)' /\ sensors' = next
    BY <1>1, <1>2, <1>5, BackedKept DEF Adopt
  <2>2. DOMAIN config \subseteq DOMAIN next
    BY <1>5 DEF Listing, Adopt, Scanning
  <2>3. Elements(Sorted(DOMAIN next)) = DOMAIN next
    BY <1>1, SortedList
  <2>4. /\ pc' \in {"sleep", "read"}
        /\ pc' = "read" => todo' = Sorted(DOMAIN next) /\ back' # "top"
    BY <1>5 DEF Adopt
  <2> QED BY <1>3, <2>1, <2>2, <2>3, <2>4 DEF Listing, Scanning
<1>6. CASE Resync \/ Sample
  <2>1. Elements(Sorted(DOMAIN sensors)) = DOMAIN sensors
    BY <1>1, SortedList
  <2>2. UNCHANGED <<sensors, next, gen>> /\ Backed(sensors)' /\ Backed(next)'
    BY <1>1, <1>2, <1>6, BackedKept DEF Resync, Sample
  <2>3. /\ pc' \in {"sample", "beat", "read"}
        /\ pc' = "read" => todo' = Sorted(DOMAIN sensors) /\ back' # "top"
    BY <1>6 DEF Resync, Sample
  <2> QED BY <1>3, <2>1, <2>2, <2>3 DEF Listing, Scanning
<1>7. CASE ReadLive \/ ReadFails \/ ReadDisk
  <2>1. todo \in Seq(Ids) /\ Distinct(todo) /\ todo # << >> /\ pc = "read" /\ pc' = "read"
        /\ todo' = Tail(todo) /\ back' = back
    BY <1>7 DEF TypeOK, ReadLive, ReadFails, ReadDisk
  <2>2. UNCHANGED <<sensors, next, gen>> /\ Backed(sensors)' /\ Backed(next)'
    BY <1>1, <1>2, <1>7, BackedKept DEF ReadLive, ReadFails, ReadDisk
  <2>3. Elements(todo') \subseteq Elements(todo)
    BY <2>1, TailList
  <2> QED BY <1>3, <2>1, <2>2, <2>3 DEF Listing, Scanning
<1>8. CASE Start \/ SendSample \/ Beat \/ Rescan \/ Sleep
  <2>1. UNCHANGED <<sensors, next, gen>> /\ Backed(sensors)' /\ Backed(next)'
    BY <1>1, <1>2, <1>8, BackedKept DEF Start, SendSample, Beat, Rescan, Sleep
  <2>2. pc' \in {"resolve", "top", "sample", "beat", "sleep", "rescan"}
    BY <1>8 DEF TypeOK, Start, SendSample, Beat, Rescan, Sleep
  <2> QED BY <1>3, <2>1, <2>2 DEF Listing, Scanning
<1>9. CASE Ask \/ Plug \/ Fail \/ UNCHANGED vars
  <2>1. UNCHANGED <<sensors, next, gen, pc, todo, back>> /\ Backed(sensors)' /\ Backed(next)'
    BY <1>1, <1>2, <1>9, BackedKept DEF Ask, Plug, Fail, vars
  <2> QED BY <1>2, <1>3, <2>1 DEF Listing, Scanning, Elements
<1> QED
  BY <1>4, <1>5, <1>6, <1>7, <1>8, <1>9, ListingScan, ListingDisks DEF Next, Step

-----------------------------------------------------------------------------
(* The schema in force                                                     *)

LEMMA SentInit ==
  ASSUME Init
  PROVE  Sent
BY DEF Init, Sent, Scanning

LEMMA SentStep ==
  ASSUME TypeOK, Sent, [Next]_vars
  PROVE  Sent'
<1>1. CASE Start
  BY <1>1 DEF Start, Sent, Labels, ghosts
<1>2. CASE Stop
  BY <1>2 DEF Stop, Sent
<1>3. CASE ScanPersistent \/ ScanHwmon \/ ScanHba \/ Discover \/ Identify
  BY <1>3 DEF ScanPersistent, ScanHwmon, ScanHba, Discover, Identify, Sent, Scanning, Labels, ghosts
<1>4. CASE Adopt
  <2>1. CASE gen # 0 /\ ~ Changed(sensors, next)
    BY <1>4, <2>1 DEF Adopt, Sent, Changed
  <2>2. CASE ~ (gen # 0 /\ ~ Changed(sensors, next))
    <3>1. gen' # 0
      BY <1>4, <2>2 DEF Adopt, TypeOK
    <3> QED BY <1>4, <2>2, <3>1 DEF Adopt, Sent
  <2> QED BY <2>1, <2>2
<1>5. CASE ReadLive \/ ReadFails \/ ReadDisk \/ SendSample \/ Sample \/ Beat \/ Rescan \/ Sleep
  <2>1. gen # 0
    BY <1>5 DEF ReadLive, ReadFails, ReadDisk, SendSample, Sample, Beat, Rescan, Sleep, Sent,
       Scanning
  <2>2. UNCHANGED <<gen, sensors, schema>>
    BY <1>5 DEF ReadLive, ReadFails, ReadDisk, SendSample, Sample, Beat, Rescan, Sleep, ghosts
  <2> QED BY <2>1, <2>2 DEF Sent, Labels
<1>6. CASE Resync
  <2>1. gen # 0 /\ UNCHANGED <<gen, sensors>>
    BY <1>6 DEF Resync, Sent, Scanning
  <2>2. schema' = schema \/ schema' = [gen |-> gen, labels |-> Labels(sensors)]
    BY <1>6 DEF Resync
  <2> QED BY <2>1, <2>2 DEF Sent, Labels
<1>7. CASE Ask
  BY <1>7 DEF Ask, Sent, Labels, ghosts
<1>8. CASE Plug \/ Fail \/ UNCHANGED vars
  BY <1>8 DEF Plug, Fail, Sent, Labels, ghosts, vars
<1> QED BY <1>1, <1>2, <1>3, <1>4, <1>5, <1>6, <1>7, <1>8 DEF Next, Step

(* A step that keeps the agent up changes the schema with the generation.  *)
LEMMA SchemaStep ==
  ASSUME TypeOK, Sent, [Next]_vars, schema' # schema, schema # None, schema' # None
  PROVE  schema'.gen # schema.gen /\ schema'.labels # schema.labels
<1>1. gen # 0 /\ schema = [gen |-> gen, labels |-> Labels(sensors)]
  BY DEF Sent
<1>2. CASE Adopt
  <2>1. gen' # gen /\ Changed(sensors, next) /\ schema' = [gen |-> gen', labels |-> Labels(next)]
    BY <1>1, <1>2 DEF Adopt, TypeOK
  <2> QED BY <1>1, <2>1 DEF Changed
<1>3. CASE Resync
  BY <1>1, <1>3 DEF Resync
<1> QED
  BY <1>2, <1>3 DEF Next, Step, Start, Stop, ScanPersistent, ScanHwmon, ScanHba, Discover,
     Identify, ReadLive, ReadFails, ReadDisk, SendSample, Sample, Beat, Rescan, Sleep, Ask, Plug, Fail, vars,
     ghosts

-----------------------------------------------------------------------------
(* What the list shows                                                     *)

(* The source of a persistent sensor is the one directory that matches.    *)
LEMMA StandsFor ==
  ASSUME TypeOK, NEW p \in DOMAIN config
  PROVE  /\ \A s \in machine.slots : Resolve(p) = s <=> Matching(p) = {s}
         /\ config[p] \notin Disks \cup Iocs =>
              \/ Resolve(p) = None /\ Truth(p) = "default"
              \/ /\ Resolve(p) \in machine.slots /\ slots[Resolve(p)] # None
                 /\ Truth(p) = slots[Resolve(p)]
<1>1. machine \in Machines /\ machine.slots \subseteq Slots /\ None \notin Slots
  BY GuestFacts, IdsFacts DEF TypeOK, Ids
<1>2. CASE config[p] \in Disks \cup Iocs
  <2>1. Matching(p) = {} /\ Resolve(p) = config[p] /\ config[p] \notin Slots
    BY <1>2, IdsFacts DEF Matching, Resolve
  <2> QED BY <1>1, <1>2, <2>1
<1>3. CASE config[p] \notin Disks \cup Iocs
  <2>1. IsFiniteSet(Matching(p))
    <3>1. Matching(p) \subseteq Ids
      BY <1>1 DEF Matching, Ids
    <3> QED BY <3>1, IdsAssumption, FS_Subset
  <2>2. Cardinality(Matching(p)) = 1 <=> \E s : Matching(p) = {s}
    BY <2>1, FS_Singleton
  <2>3. CASE \E s : Matching(p) = {s}
    <3>1. PICK s : Matching(p) = {s}
      BY <2>3
    <3>2. (CHOOSE x \in Matching(p) : TRUE) = s
      BY <3>1
    <3>3. Resolve(p) = s /\ s \in machine.slots /\ slots[s] \in config[p]
      BY <1>3, <2>2, <3>1, <3>2 DEF Resolve, Matching
    <3>4. config[p] \in SUBSET Chips
      BY <1>1, <1>3, GuestFacts
    <3>5. slots[s] # None
      BY <3>3, <3>4, IdsFacts
    <3>6. Stands(p) = {s}
      BY <3>1, <3>3 DEF Stands
    <3>7. Truth(p) = slots[s]
      BY <3>6 DEF Truth
    <3> QED BY <3>1, <3>3, <3>5, <3>7
  <2>4. CASE ~ \E s : Matching(p) = {s}
    <3>1. Resolve(p) = None
      BY <1>3, <2>2, <2>4 DEF Resolve
    <3>2. Stands(p) = {}
      BY <2>4 DEF Stands
    <3> QED BY <1>1, <2>4, <3>1, <3>2 DEF Truth
  <2> QED BY <2>3, <2>4
<1> QED BY <1>2, <1>3

LEMMA ShowsKept ==
  ASSUME UNCHANGED <<machine, slots>>
  PROVE  /\ \A p : Resolve(p)' = Resolve(p) /\ Truth(p)' = Truth(p)
         /\ UNCHANGED next => Resolved(next)' = Resolved(next) /\ Shown(next)' = Shown(next)
         /\ UNCHANGED sensors => /\ Resolved(sensors)' = Resolved(sensors)
                                 /\ Shown(sensors)' = Shown(sensors)
         /\ sensors' = next => /\ Resolved(sensors)' = Resolved(next)
                               /\ Shown(sensors)' = Shown(next)
         /\ config' = config
<1>1. config' = config /\ \A p : Matching(p)' = Matching(p)
  BY DEF config, Matching
<1>2. ASSUME NEW p
      PROVE  Resolve(p)' = Resolve(p) /\ Truth(p)' = Truth(p)
  <2>1. Matching(p)' = Matching(p)
    BY <1>1
  <2>2. Resolve(p)' = Resolve(p)
    BY <1>1, <2>1 DEF Resolve
  <2>3. Stands(p)' = Stands(p)
    BY <2>1 DEF Stands
  <2>4. Truth(p)' = Truth(p)
    BY <2>3 DEF Truth
  <2> QED BY <2>2, <2>4
<1> QED BY <1>1, <1>2 DEF Resolved, Shown

LEMMA CurrentInit ==
  ASSUME Init
  PROVE  Current
BY DEF Init, Current, Scanning, Sending

(* What a scan adds under names that are neither directories nor those of  *)
(* persistent sensors leaves what is shown as it was.                      *)
LEMMA ShownMore ==
  ASSUME TypeOK, UNCHANGED <<machine, slots>>,
         DOMAIN next \subseteq DOMAIN next',
         \A i \in DOMAIN next' : i \in Slots \cup Pids => i \in DOMAIN next,
         \A i \in DOMAIN next : i \in Slots \cup Pids => next'[i] = next[i]
  PROVE  /\ Resolved(next) => Resolved(next)'
         /\ Shown(next) => Shown(next)'
<1>1. machine.slots \subseteq Slots /\ DOMAIN config \subseteq Pids
  BY GuestFacts DEF TypeOK
<1>2. config' = config /\ \A p : Resolve(p)' = Resolve(p)
  BY ShowsKept
<1> QED BY <1>1, <1>2 DEF Resolved, Shown

LEMMA CurrentStep ==
  ASSUME TypeOK, Listing, Current, [Next]_vars
  PROVE  Current'
<1>1. machine \in Machines /\ machine.slots \subseteq Slots /\ DOMAIN config \subseteq Pids
  BY GuestFacts DEF TypeOK
<1>2. CASE Start \/ Stop
  BY <1>2 DEF Start, Stop, Current, Scanning, Sending
<1>3. CASE ScanPersistent
  <2>1. /\ next' = [p \in DOMAIN config |-> [src |-> Resolve(p), label |-> p]]
        /\ pc' = "hwmon" /\ UNCHANGED <<machine, slots>>
    BY <1>3 DEF ScanPersistent, hardware
  <2>2. config' = config /\ \A p : Resolve(p)' = Resolve(p)
    BY <2>1, ShowsKept
  <2>3. Resolved(next)'
    BY <2>1, <2>2 DEF Resolved
  <2> QED BY <2>1, <2>3 DEF Current, Scanning, Sending
<1>4. CASE ScanHwmon
  <2> DEFINE shown == {s \in machine.slots : slots[s] # None} \ Shadowed(next)
             new == [s \in shown |-> [src |-> s, label |-> slots[s]]]
  <2>1. /\ next' = [i \in DOMAIN next \cup shown |-> IF i \in shown THEN new[i] ELSE next[i]]
        /\ pc' = "hba" /\ pc = "hwmon" /\ UNCHANGED <<machine, slots, moved>>
    BY <1>4 DEF ScanHwmon, hardware, ghosts
  <2>2. config' = config /\ \A p : Resolve(p)' = Resolve(p)
    BY <2>1, ShowsKept
  <2>3. SUFFICES ASSUME ~ moved PROVE Resolved(next)' /\ Shown(next)'
    BY <2>1 DEF Current, Scanning, Sending
  <2>4. Resolved(next) /\ DOMAIN next = DOMAIN config
    BY <2>1, <2>3 DEF Current, Listing, Scanning
  <2>5. \A s : s \in Shadowed(next) <=> \E p \in DOMAIN config : Resolve(p) = s
    BY <1>1, <2>4 DEF Shadowed, Resolved
  <2>6. shown \subseteq Slots /\ DOMAIN next' = DOMAIN config \cup shown
    BY <1>1, <2>1, <2>4
  <2>7. \A p \in DOMAIN config : p \notin shown /\ p \notin Slots
    BY <1>1, <2>6, IdsFacts
  <2>8. Resolved(next)'
    <3>1. \A p \in DOMAIN config : next'[p] = next[p]
      BY <2>1, <2>4, <2>7
    <3> QED BY <2>2, <2>4, <2>6, <3>1 DEF Resolved
  <2>9. Shown(next)'
    <3>1. ASSUME NEW s \in machine.slots
          PROVE  /\ s \in DOMAIN next' <=> slots[s] # None /\ \A p \in DOMAIN config : Resolve(p) # s
                 /\ s \in DOMAIN next' => next'[s].label = slots[s]
      <4>1. s \in DOMAIN next' <=> s \in shown
        BY <1>1, <2>6, <2>7
      <4>2. s \in shown => next'[s] = [src |-> s, label |-> slots[s]]
        BY <2>1
      <4> QED BY <2>5, <4>1, <4>2
    <3> QED BY <2>1, <2>2, <3>1 DEF Shown
  <2> QED BY <2>8, <2>9
<1>5. CASE ScanHba
  <2> DEFINE shown == {h \in machine.iocs : read_ioc_temperature(h)} \ Shadowed(next)
  <2>1. /\ next' = [i \in DOMAIN next \cup shown |->
              IF i \in shown THEN [src |-> i, label |-> "ioc"] ELSE next[i]]
        /\ pc' = "discover" /\ pc = "hba" /\ UNCHANGED <<machine, slots, moved>>
    BY <1>5 DEF ScanHba, hardware, ghosts
  <2>2. shown \subseteq Iocs
    BY <1>1, GuestFacts
  <2>3. \A i \in shown : i \notin Slots \cup Pids
    BY <2>2, IdsFacts
  <2>4. Resolved(next) => Resolved(next)'
    BY <2>1, <2>3, ShownMore
  <2>5. Shown(next) => Shown(next)'
    BY <2>1, <2>3, ShownMore
  <2> QED BY <2>1, <2>4, <2>5 DEF Current, Scanning, Sending
<1>6. CASE Discover
  <2>1. /\ UNCHANGED <<machine, slots, moved, next>> /\ pc = "discover"
        /\ pc' \in {"discover", "identify"}
    BY <1>6 DEF Discover, hardware
  <2> QED BY <2>1, ShowsKept DEF Current, Scanning, Sending
<1>7. CASE Identify
  <2>1. /\ UNCHANGED <<machine, slots, moved>> /\ pc = "identify" /\ pc' = "discover"
        /\ \/ next' = next
           \/ \E ok : next' = Put(next, Head(todo), [src |-> Head(todo), label |-> ok])
    BY <1>7 DEF Identify, Listed, hardware
  <2>2. Head(todo) \in Disks
    BY <1>1, <1>7, TailList, GuestFacts DEF Identify, Listing, TypeOK
  <2>3. Head(todo) \notin Slots \cup Pids
    BY <2>2, IdsFacts
  <2>4. (Resolved(next) => Resolved(next)') /\ (Shown(next) => Shown(next)')
    <3>1. CASE next' = next
      BY <2>1, <3>1, ShowsKept
    <3>2. CASE \E ok : next' = Put(next, Head(todo), [src |-> Head(todo), label |-> ok])
      <4>1. PICK ok : next' = Put(next, Head(todo), [src |-> Head(todo), label |-> ok])
        BY <3>2
      <4>2. /\ DOMAIN next' = DOMAIN next \cup {Head(todo)}
            /\ \A i \in DOMAIN next : i # Head(todo) => next'[i] = next[i]
        BY <4>1 DEF Put
      <4> QED BY <2>1, <2>3, <4>2, ShownMore
    <3> QED BY <2>1, <3>1, <3>2
  <2> QED BY <2>1, <2>4 DEF Current, Scanning, Sending
<1>8. CASE Adopt
  <2>1. /\ UNCHANGED <<machine, slots, moved>> /\ pc = "discover" /\ pc' \in {"sleep", "read"}
        /\ sensors' = next
    BY <1>8 DEF Adopt, hardware
  <2> QED BY <2>1, ShowsKept DEF Current, Scanning, Sending
<1>9. CASE ReadLive \/ ReadFails \/ ReadDisk \/ SendSample \/ Resync \/ Sample \/ Beat \/ Rescan \/ Sleep
  <2>1. UNCHANGED <<machine, slots, moved, sensors>> /\ pc \in Sending
    BY <1>9 DEF ReadLive, ReadFails, ReadDisk, SendSample, Resync, Sample, Beat, Rescan, Sleep,
       hardware, ghosts, Sending
  <2>2. pc' \in {"read", "top", "sample", "beat", "rescan", "sleep", "resolve"}
    BY <1>9 DEF ReadLive, ReadFails, ReadDisk, SendSample, Resync, Sample, Beat, Rescan, Sleep,
       TypeOK
  <2> QED BY <2>1, <2>2, ShowsKept DEF Current, Scanning
<1>10. CASE Plug
  <2>1. UNCHANGED pc /\ moved' = (pc # "down")
    BY <1>10 DEF Plug
  <2> QED BY <2>1 DEF Current, Scanning, Sending
<1>11. CASE Ask \/ Fail \/ UNCHANGED vars
  <2>1. UNCHANGED <<machine, slots, moved, sensors, next, pc>>
    BY <1>11 DEF Ask, Fail, vars, hardware, ghosts
  <2> QED BY <2>1, ShowsKept DEF Current
<1> QED
  BY <1>2, <1>3, <1>4, <1>5, <1>6, <1>7, <1>8, <1>9, <1>10, <1>11 DEF Next, Step

-----------------------------------------------------------------------------
(* The sample                                                              *)

(* The value read for a sensor goes in; the others grow older at most.     *)
Kept(i, t) ==
  /\ DOMAIN values \subseteq DOMAIN values'
  /\ DOMAIN values' \subseteq DOMAIN values \cup {i}
  /\ i \in Pids => i \in DOMAIN values'
  /\ \A j \in DOMAIN values : j # i => /\ values'[j].of = values[j].of
                                       /\ values'[j].age = values[j].age + t

LEMMA ReadKept ==
  ASSUME TypeOK, NEW t \in Nat, NEW i, NEW v,
         \/ values' = Put(AgedValues(t), i, v)
         \/ values' = Missed(i, t)
         \/ values' = Put(values, i, v) /\ t = 0
  PROVE  /\ Kept(i, t)
         /\ values' = Put(AgedValues(t), i, v) \/ values' = Put(values, i, v) =>
              i \in DOMAIN values' /\ values'[i] = v
         /\ values' = Missed(i, t) /\ i \in Pids => values'[i] = [of |-> "default", age |-> 0]
<1>1. /\ DOMAIN AgedValues(t) = DOMAIN values
      /\ \A j \in DOMAIN values : /\ AgedValues(t)[j].of = values[j].of
                                  /\ AgedValues(t)[j].age = values[j].age + t
                                  /\ values[j].age \in Nat
  BY AgedReadings
<1>2. /\ values' = Put(AgedValues(t), i, v) \/ values' = Put(values, i, v) =>
           i \in DOMAIN values' /\ values'[i] = v
      /\ values' = Missed(i, t) /\ i \in Pids => values'[i] = [of |-> "default", age |-> 0]
  BY DEF Put, Missed
<1>3. ASSUME NEW w, values' = Put(AgedValues(t), i, w)
      PROVE  Kept(i, t)
  <2>1. /\ DOMAIN values' = DOMAIN values \cup {i}
        /\ \A j \in DOMAIN values : j # i => values'[j] = AgedValues(t)[j]
    BY <1>1, <1>3 DEF Put
  <2> QED BY <1>1, <2>1 DEF Kept
<1>4. ASSUME values' = Put(values, i, v), t = 0
      PROVE  Kept(i, t)
  <2>1. /\ DOMAIN values' = DOMAIN values \cup {i}
        /\ \A j \in DOMAIN values : j # i => values'[j] = values[j]
    BY <1>4 DEF Put
  <2> QED BY <1>1, <1>4, <2>1 DEF Kept
<1>5. ASSUME values' = AgedValues(t), i \notin Pids
      PROVE  Kept(i, t)
  BY <1>1, <1>5 DEF Kept
<1> QED BY <1>2, <1>3, <1>4, <1>5 DEF Missed

LEMMA SampledInit ==
  ASSUME Init
  PROVE  Sampled
BY DEF Init, Sampled

(* A sample begins with everything left to read.                           *)
LEMMA SampledBegin ==
  ASSUME TypeOK, Listing, Sampled, pc # "read", UNCHANGED <<machine, values>>,
         DOMAIN config \subseteq DOMAIN sensors', DOMAIN sensors' \subseteq Ids,
         todo' = Sorted(DOMAIN sensors')
  PROVE  Sampled'
<1>1. values' = Empty /\ config' = config
  BY DEF Sampled, config
<1>2. Elements(todo') = DOMAIN sensors'
  BY SortedList
<1>3. DOMAIN values' = {}
  BY <1>1, LeastOk
<1> QED BY <1>1, <1>2, <1>3 DEF Sampled

LEMMA SampledRead ==
  ASSUME TypeOK, Listing, Sent, Current, Sampled, ReadLive \/ ReadFails \/ ReadDisk
  PROVE  Sampled'
<1> DEFINE i == Head(todo)
           src == sensors[i].src
<1>1. /\ machine \in Machines /\ machine.slots \subseteq Slots /\ DOMAIN config \subseteq Pids
      /\ todo # << >> /\ Distinct(todo) /\ todo \in Seq(Ids) /\ pc = "read" /\ pc' = "read"
      /\ todo' = Tail(todo) /\ UNCHANGED <<machine, slots, moved, sensors>>
  BY GuestFacts DEF TypeOK, ReadLive, ReadFails, ReadDisk, hardware, ghosts
<1>2. i \in DOMAIN sensors /\ Elements(todo') = Elements(todo) \ {i} /\ i \in Elements(todo)
  BY <1>1, TailList DEF Listing
<1>3. config' = config /\ \A p : Truth(p)' = Truth(p)
  BY <1>1, ShowsKept
<1>4. SUFFICES /\ \E t \in Nat : Kept(i, t)
               /\ ~ moved /\ i \in DOMAIN config /\ config[i] \notin Disks \cup Iocs =>
                    values'[i].of \in {Truth(i), "default"}
  <2>1. PICK t \in Nat : Kept(i, t)
    BY <1>4
  <2>2. DOMAIN config' \subseteq Elements(todo') \cup DOMAIN values'
    BY <1>1, <1>2, <1>3, <2>1 DEF Sampled, Kept
  <2>3. DOMAIN values' \subseteq DOMAIN sensors'
    BY <1>1, <1>2, <2>1 DEF Sampled, Kept
  <2>4. ~ moved => \A p \in DOMAIN config \cap DOMAIN values' :
                     config[p] \notin Disks \cup Iocs =>
                       values'[p].of \in {Truth(p), "default"}
    BY <1>1, <1>4, <2>1 DEF Sampled, Kept
  <2> QED BY <1>1, <1>3, <2>2, <2>3, <2>4 DEF Sampled
<1>5. CASE ReadLive
  <2> DEFINE now == IF src \in Slots THEN slots[src]
                    ELSE IF src \in Iocs /\ read_ioc_temperature(src) THEN src
                    ELSE None
  <2>1. values' = IF now = None THEN Missed(i, 0) ELSE Put(values, i, [of |-> now, age |-> 0])
    BY <1>5 DEF ReadLive
  <2>2. /\ Kept(i, 0)
        /\ now # None => values'[i].of = now
        /\ now = None /\ i \in Pids => values'[i].of = "default"
    BY <2>1, ReadKept
  <2>3. ASSUME ~ moved, i \in DOMAIN config, config[i] \notin Disks \cup Iocs
        PROVE  values'[i].of \in {Truth(i), "default"}
    <3>1. src = Resolve(i)
      BY <1>1, <2>3 DEF Current, Sending, Resolved
    <3>2. \/ Resolve(i) = None /\ Truth(i) = "default"
          \/ /\ Resolve(i) \in machine.slots /\ slots[Resolve(i)] # None
             /\ Truth(i) = slots[Resolve(i)]
      BY <2>3, StandsFor
    <3>3. None \notin Slots /\ None \notin Iocs
      BY IdsFacts DEF Ids
    <3> QED BY <1>1, <2>2, <2>3, <3>1, <3>2, <3>3
  <2> QED BY <1>4, <2>2, <2>3
<1>6. CASE ReadDisk
  <2>1. src \in Disks
    BY <1>6 DEF ReadDisk
  <2>2. ~ (i \in DOMAIN config /\ config[i] \notin Disks \cup Iocs)
    <3>1. i \in DOMAIN config => i \notin machine.slots \cup machine.disks \cup machine.iocs
      BY <1>1, GuestFacts, IdsFacts
    <3>2. src \notin machine.slots \cup {None}
      BY <1>1, <2>1, IdsFacts DEF Ids
    <3> QED BY <1>2, <3>1, <3>2 DEF Listing, Backed
  <2>3. \E t \in Nat : Kept(i, t)
    <3>1. CASE cache[i] # None
      <4>1. values' = Put(values, i, [of |-> src, age |-> cache[i].age])
        BY <1>6, <3>1 DEF ReadDisk
      <4>2. Kept(i, 0)
        BY <4>1, ReadKept
      <4> QED BY <4>2
    <3>2. CASE cache[i] = None
      <4>1. PICK run \in run_smartctl(src) :
              values' = IF run.ok
                THEN Put(AgedValues(run.cost), i, [of |-> src, age |-> run.cost])
                ELSE Missed(i, run.cost)
        BY <1>6, <3>2 DEF ReadDisk
      <4>2. run.cost \in Nat
        BY <1>2, <2>1, <4>1, DiskSource, RunCost
      <4>3. Kept(i, run.cost)
        BY <4>1, <4>2, ReadKept
      <4> QED BY <4>2, <4>3
    <3> QED BY <3>1, <3>2
  <2> QED BY <1>4, <2>2, <2>3
<1>7. CASE ReadFails
  <2>1. Kept(i, 0) /\ (i \in Pids => values'[i].of = "default")
    <3>1. values' = Missed(i, 0)
      BY <1>7 DEF ReadFails
    <3> QED BY <3>1, ReadKept
  <2> QED BY <1>1, <1>4, <2>1
<1> QED BY <1>5, <1>6, <1>7

LEMMA SampledStep ==
  ASSUME TypeOK, Listing, Sent, Current, Sampled, [Next]_vars
  PROVE  Sampled'
<1>1. machine \in Machines /\ DOMAIN sensors \subseteq Ids /\ DOMAIN next \subseteq Ids
  BY Known DEF TypeOK, Listing
<1>2. CASE Stop
  BY <1>2 DEF Stop, Sampled
<1>3. CASE Adopt
  <2>1. /\ pc = "discover" /\ UNCHANGED <<machine, values>> /\ sensors' = next
        /\ \/ pc' = "sleep"
           \/ pc' = "read" /\ todo' = Sorted(DOMAIN next)
    BY <1>3 DEF Adopt
  <2>2. DOMAIN config \subseteq DOMAIN sensors' /\ DOMAIN sensors' \subseteq Ids
    BY <1>1, <2>1 DEF Listing, Scanning
  <2>3. CASE pc' = "sleep"
    BY <2>1, <2>3 DEF Sampled
  <2>4. CASE pc' = "read" /\ todo' = Sorted(DOMAIN next)
    BY <2>1, <2>2, <2>4, SampledBegin
  <2> QED BY <2>1, <2>3, <2>4
<1>4. CASE Resync \/ Sample
  <2>1. /\ pc \in {"top", "sample"} /\ UNCHANGED <<machine, values, sensors>>
        /\ \/ pc' # "read"
           \/ pc' = "read" /\ todo' = Sorted(DOMAIN sensors)
    BY <1>4 DEF Resync, Sample
  <2>2. DOMAIN config \subseteq DOMAIN sensors
    BY <2>1 DEF Listing, Sent, Scanning
  <2>3. CASE pc' # "read"
    BY <2>1, <2>3 DEF Sampled
  <2>4. CASE pc' = "read" /\ todo' = Sorted(DOMAIN sensors)
    BY <1>1, <2>1, <2>2, <2>4, SampledBegin
  <2> QED BY <2>1, <2>3, <2>4
<1>5. CASE SendSample
  BY <1>5 DEF SendSample, TypeOK, Listing, Sampled
<1>6. CASE Start \/ ScanPersistent \/ ScanHwmon \/ ScanHba \/ Discover \/ Identify \/ Beat \/ Rescan \/ Sleep
  <2>1. pc # "read" /\ pc' # "read" /\ UNCHANGED values
    BY <1>6 DEF Start, ScanPersistent, ScanHwmon, ScanHba, Discover, Identify, Beat, Rescan, Sleep
  <2> QED BY <2>1 DEF Sampled
<1>7. CASE Plug
  <2>1. /\ UNCHANGED <<machine, pc, values, sensors, todo>>
        /\ pc = "read" => moved'
    BY <1>7 DEF Plug
  <2> QED BY <2>1 DEF Sampled, config, Elements
<1>8. CASE Ask \/ Fail \/ UNCHANGED vars
  <2>1. UNCHANGED <<machine, slots, pc, values, sensors, todo, moved>>
    BY <1>8 DEF Ask, Fail, vars, hardware, ghosts
  <2>2. config' = config /\ Elements(todo)' = Elements(todo) /\ \A p : Truth(p)' = Truth(p)
    BY <2>1, ShowsKept DEF Elements
  <2> QED BY <2>1, <2>2 DEF Sampled
<1> QED
  BY <1>2, <1>3, <1>4, <1>5, <1>6, <1>7, <1>8, SampledRead DEF Next, Step

-----------------------------------------------------------------------------
(* The time that the disks take                                            *)

LEMMA SinceSample ==
  ASSUME TypeOK
  PROVE  /\ since.sample \in Nat
         /\ since' = [since EXCEPT !.sample = 0] => since'.sample = 0
         /\ since' = [since EXCEPT !.beat = 0] => since'.sample = since.sample
         /\ since' = [since EXCEPT !.scan = 0] => since'.sample = since.sample
         /\ since' = [t \in DOMAIN Periods |-> 0] => since'.sample = 0
         /\ Due("sample") <=> since.sample = SampleEvery
<1>1. since \in [{"sample", "beat", "scan"} -> Nat] /\ DOMAIN Periods = {"sample", "beat", "scan"}
  BY PeriodsType DEF TypeOK
<1>2. Periods["sample"] = SampleEvery
  BY PeriodsType
<1> QED BY <1>1, <1>2 DEF Due

LEMMA Counts ==
  ASSUME TypeOK, Listing
  PROVE  /\ IsFiniteSet(ByDisk) /\ IsFiniteSet(Elements(todo)) /\ IsFiniteSet(LeftDisks)
         /\ IsFiniteSet(machine.disks)
         /\ DiskCount \in Nat /\ LeftCount \in Nat
         /\ Cardinality(ByDisk) \in Nat /\ Cardinality(LeftDisks) \in Nat
         /\ pc \in {"discover", "identify"} => LeftCount <= DiskCount
         /\ pc = "read" => Cardinality(LeftDisks) <= Cardinality(ByDisk)
<1>1. machine \in Machines /\ DOMAIN sensors \subseteq Ids /\ machine.disks \subseteq Ids
  BY Known, GuestFacts DEF TypeOK, Listing, Ids
<1>2. Elements(todo) \subseteq Ids
  <2>1. todo \in Seq(Ids)
    BY DEF TypeOK
  <2> QED BY <2>1 DEF Elements
<1>3. ByDisk \subseteq Ids /\ LeftDisks \subseteq Ids
  BY <1>1, <1>2 DEF ByDisk, LeftDisks
<1>4. /\ IsFiniteSet(ByDisk) /\ IsFiniteSet(Elements(todo)) /\ IsFiniteSet(LeftDisks)
      /\ IsFiniteSet(machine.disks)
  BY <1>1, <1>2, <1>3, IdsAssumption, FS_Subset
<1>5. pc \in {"discover", "identify"} => LeftCount <= DiskCount
  BY <1>4, FS_Subset DEF Listing, LeftCount, DiskCount
<1>6. pc = "read" => LeftDisks \subseteq ByDisk
  BY DEF Listing, LeftDisks, ByDisk
<1>7. pc = "read" => Cardinality(LeftDisks) <= Cardinality(ByDisk)
  BY <1>4, <1>6, FS_Subset
<1> QED BY <1>4, <1>5, <1>7, FS_CardinalityType DEF DiskCount, LeftCount

(* The runs of a sample are at most one for each disk and each persistent  *)
(* sensor configured as one.                                               *)
LEMMA RunsOfSample ==
  ASSUME TypeOK, Listing
  PROVE  DiskSensors \in Nat /\ Cardinality(ByDisk) <= DiskSensors
<1> DEFINE Named == {p \in DOMAIN config : config[p] \in Disks}
<1>1. machine \in Machines
  BY DEF TypeOK
<1>2. IsFiniteSet(Named) /\ IsFiniteSet(machine.disks)
  <2>1. Named \subseteq Ids
    BY <1>1, GuestFacts DEF Ids
  <2> QED BY <2>1, Counts, IdsAssumption, FS_Subset
<1>3. ByDisk \subseteq machine.disks \cup Named
  BY DiskSource DEF ByDisk
<1>4. /\ IsFiniteSet(machine.disks \cup Named)
      /\ Cardinality(machine.disks \cup Named) =
           Cardinality(machine.disks) + Cardinality(Named) - Cardinality(machine.disks \cap Named)
  BY <1>2, FS_Union
<1>5. Cardinality(ByDisk) <= Cardinality(machine.disks \cup Named)
  BY <1>3, <1>4, FS_Subset
<1>6. IsFiniteSet(machine.disks \cap Named)
  BY <1>2, FS_Subset
<1>7. /\ Cardinality(ByDisk) \in Nat /\ Cardinality(machine.disks) \in Nat
      /\ Cardinality(Named) \in Nat /\ Cardinality(machine.disks \cap Named) \in Nat
  BY <1>2, <1>6, Counts, FS_CardinalityType
<1>8. DiskSensors = Cardinality(machine.disks) + Cardinality(Named)
  BY DEF DiskSensors
<1> HIDE DEF Named
<1> QED BY <1>4, <1>5, <1>7, <1>8

LEMMA ReadTimeType ==
  ASSUME TypeOK, Listing, pc = "read"
  PROVE  ReadTime \in Nat
<1>1. /\ Cardinality(ByDisk) \in Nat /\ Cardinality(LeftDisks) \in Nat
      /\ Cardinality(LeftDisks) <= Cardinality(ByDisk)
  BY Counts
<1>2. Cardinality(ByDisk) - Cardinality(LeftDisks) \in Nat /\ Timeout \in Nat
  BY <1>1, PeriodsType
<1>3. \A a, b \in Nat : a * b \in Nat
  OBVIOUS
<1> QED BY <1>2, <1>3 DEF ReadTime

LEMMA ReadTimeBound ==
  ASSUME TypeOK, Listing
  PROVE  ReadTime <= DiskSensors * Timeout
<1>1. /\ DiskSensors \in Nat /\ Cardinality(ByDisk) \in Nat /\ Cardinality(LeftDisks) \in Nat
      /\ Cardinality(ByDisk) <= DiskSensors /\ Timeout \in Nat
  BY Counts, RunsOfSample, PeriodsType
<1>2. DiskSensors - (Cardinality(ByDisk) - Cardinality(LeftDisks)) \in Nat
  BY <1>1
<1>3. \A a, b \in Nat : a * b \in Nat
  OBVIOUS
<1>4. (DiskSensors - (Cardinality(ByDisk) - Cardinality(LeftDisks))) * Timeout \in Nat
  BY <1>1, <1>2, <1>3
<1>5. (DiskSensors - (Cardinality(ByDisk) - Cardinality(LeftDisks))) * Timeout
        = DiskSensors * Timeout - ReadTime
  BY <1>1 DEF ReadTime
<1>6. DiskSensors * Timeout \in Nat /\ ReadTime \in Int
  BY <1>1, <1>3 DEF ReadTime
<1> QED BY <1>4, <1>5, <1>6

LEMMA ReadBegins ==
  ASSUME DOMAIN sensors' \subseteq Ids, todo' = Sorted(DOMAIN sensors')
  PROVE  ReadTime' = 0
<1>1. Elements(todo') = DOMAIN sensors'
  BY SortedList
<1>2. LeftDisks' = ByDisk'
  BY <1>1 DEF LeftDisks, ByDisk
<1>3. ByDisk' \subseteq Ids
  BY DEF ByDisk
<1>4. Cardinality(ByDisk') \in Nat
  BY <1>3, IdsAssumption, FS_Subset, FS_CardinalityType
<1>5. Cardinality(ByDisk') - Cardinality(ByDisk') = 0 /\ Timeout \in Nat
  BY <1>4, PeriodsType
<1>6. ReadTime' = (Cardinality(ByDisk') - Cardinality(ByDisk')) * Timeout
  BY <1>2 DEF ReadTime
<1> QED BY <1>5, <1>6

LEMMA OneMore ==
  ASSUME NEW a \in Nat, NEW b \in Nat, NEW t \in Nat
  PROVE  (a - (b - 1)) * t = (a - b) * t + t
OBVIOUS

(* A disk that is read is one run more; another sensor takes no time.      *)
LEMMA ReadOne ==
  ASSUME TypeOK, Listing
  PROVE  /\ ReadLive \/ ReadFails => ReadTime' = ReadTime
         /\ ReadDisk => ReadTime' = ReadTime + Timeout
<1> DEFINE i == Head(todo)
<1> SUFFICES ASSUME ReadLive \/ ReadFails \/ ReadDisk
             PROVE  /\ ReadLive \/ ReadFails => ReadTime' = ReadTime
                    /\ ReadDisk => ReadTime' = ReadTime + Timeout
  OBVIOUS
<1>1. /\ todo # << >> /\ Distinct(todo) /\ todo \in Seq(Ids) /\ pc = "read"
      /\ todo' = Tail(todo) /\ UNCHANGED sensors
  BY DEF TypeOK, ReadLive, ReadFails, ReadDisk
<1>2. i \in Elements(todo) /\ Elements(todo') = Elements(todo) \ {i}
  BY <1>1, TailList
<1>3. ByDisk' = ByDisk /\ LeftDisks' = LeftDisks \ {i}
  BY <1>1, <1>2 DEF ByDisk, LeftDisks
<1>4. ReadLive \/ ReadFails => LeftDisks' = LeftDisks
  BY <1>3, IdsFacts DEF ReadLive, ReadFails, LeftDisks
<1>5. ReadDisk => Cardinality(LeftDisks') = Cardinality(LeftDisks) - 1
  <2>1. ReadDisk => i \in LeftDisks
    BY <1>2 DEF ReadDisk, LeftDisks
  <2> QED BY <1>3, <2>1, Counts, FS_RemoveElement
<1>6. /\ Cardinality(ByDisk) \in Nat /\ Cardinality(LeftDisks) \in Nat /\ Timeout \in Nat
  BY Counts, PeriodsType
<1>7. ReadDisk => ReadTime' = (Cardinality(ByDisk) - (Cardinality(LeftDisks) - 1)) * Timeout
  BY <1>3, <1>5 DEF ReadTime
<1>8. ReadDisk => ReadTime' = ReadTime + Timeout
  BY <1>6, <1>7, OneMore DEF ReadTime
<1>9. ReadLive \/ ReadFails => ReadTime' = ReadTime
  BY <1>3, <1>4 DEF ReadTime
<1> QED BY <1>8, <1>9

(* What a step of a scan or a sample may cost.                             *)
LEMMA Spent ==
  ASSUME TypeOK, Listing, Discover \/ Identify \/ ReadDisk
  PROVE  \E t \in Nat : /\ t <= Timeout /\ lap' = lap + t /\ quiet' = quiet + t
<1>1. lap \in Nat /\ quiet \in Nat /\ lap + 0 = lap /\ quiet + 0 = quiet /\ Timeout \in Nat /\ 0 <= Timeout
  BY PeriodsType DEF TypeOK
<1>2. SUFFICES ASSUME ~ UNCHANGED <<lap, quiet>>
               PROVE  \E t \in Nat : t <= Timeout /\ lap' = lap + t /\ quiet' = quiet + t
  BY <1>1
<1>3. CASE Discover \/ Identify
  <2>1. /\ machine \in Machines /\ todo # << >> /\ Distinct(todo) /\ todo \in Seq(Ids)
        /\ Elements(todo) \subseteq machine.disks
    BY <1>3 DEF TypeOK, Discover, Identify, Listing
  <2>2. Head(todo) \in machine.disks
    BY <2>1, TailList
  <2>3. PICK run \in run_smartctl(Head(todo)) : Spend(run.cost)
    BY <1>2, <1>3 DEF Discover, Identify
  <2> QED BY <2>2, <2>3, RunCost DEF Spend
<1>4. CASE ReadDisk
  <2>1. /\ todo # << >> /\ Distinct(todo) /\ todo \in Seq(Ids) /\ Elements(todo) \subseteq DOMAIN sensors
    BY <1>4 DEF TypeOK, ReadDisk, Listing
  <2>2. Head(todo) \in DOMAIN sensors
    BY <2>1, TailList
  <2>3. sensors[Head(todo)].src \in machine.disks
    BY <1>4, <2>2, DiskSource DEF ReadDisk
  <2>4. PICK run \in run_smartctl(sensors[Head(todo)].src) : Spend(run.cost)
    BY <1>2, <1>4 DEF ReadDisk
  <2> QED BY <2>3, <2>4, RunCost DEF Spend
<1> QED BY <1>3, <1>4

LEMMA OneDiskMore ==
  ASSUME NEW s \in Nat, NEW n \in Nat, NEW l \in Nat, NEW t \in Nat
  PROVE  s + 2 * (n - (l - 1)) * t = s + 2 * (n - l) * t + t + t
OBVIOUS

LEMMA ScanBound ==
  ASSUME NEW n \in Nat, NEW l \in Nat, NEW t \in Nat, l <= n
  PROVE  2 * (n - l) * t \in Nat
<1>1. 2 * (n - l) \in Nat
  OBVIOUS
<1>2. \A a, b \in Nat : a * b \in Nat
  OBVIOUS
<1> QED BY <1>1, <1>2

LEMMA TimedInit ==
  ASSUME Init
  PROVE  Timed
<1>1. since.sample = 0 /\ pc = "down" /\ quiet = 0
  BY PeriodsType DEF Init
<1> QED BY <1>1, PeriodsType DEF Timed

(* A scan step takes at most one run of smartctl, and a disk is left for   *)
(* good after two.                                                         *)
LEMMA TimedDisks ==
  ASSUME TypeOK, Listing, Timed, Discover \/ Identify
  PROVE  Timed'
<1> DEFINE Bound(l) == SampleEvery + 2 * (DiskCount - l) * Timeout
<1>1. /\ todo \in Seq(Ids) /\ todo # << >> /\ Distinct(todo) /\ pc \in {"discover", "identify"}
      /\ UNCHANGED <<machine, since, sensors>>
  BY DEF TypeOK, Listing, Discover, Identify
<1>2. /\ DiskCount \in Nat /\ LeftCount \in Nat /\ LeftCount <= DiskCount
      /\ SampleEvery \in Nat /\ Timeout \in Nat /\ quiet \in Nat /\ lap \in Nat /\ since.sample \in Nat
  BY <1>1, Counts, PeriodsType, SinceSample DEF TypeOK
<1>3. PICK t \in Nat : t <= Timeout /\ lap' = lap + t /\ quiet' = quiet + t
  BY Spent
<1>4. Early' /\ since'.sample <= SampleEvery /\ quiet' <= since'.sample + lap' /\ DiskCount' = DiskCount
  BY SMTT(30), <1>1, <1>2, <1>3 DEF Timed, Early, DiskCount
<1>5. Cardinality(Elements(Tail(todo))) = LeftCount - 1
  BY <1>1, TailList, Counts, FS_RemoveElement DEF LeftCount
<1>6. Bound(LeftCount - 1) = Bound(LeftCount) + Timeout + Timeout
  BY <1>2, OneDiskMore
<1>7. Bound(LeftCount) \in Nat
  BY <1>2, ScanBound
<1>8. /\ pc = "discover" => quiet < Bound(LeftCount)
      /\ pc = "identify" => quiet < Bound(LeftCount) + Timeout
  BY DEF Timed
<1>9. \/ pc = "discover" /\ pc' = "identify" /\ todo' = todo
      \/ pc' = "discover" /\ todo' = Tail(todo)
  BY DEF Discover, Identify
<1> HIDE DEF Bound
<1>10. CASE pc = "discover" /\ pc' = "identify" /\ todo' = todo
  <2>1. LeftCount' = LeftCount
    BY <1>10 DEF LeftCount, Elements
  <2>2. quiet' < Bound(LeftCount) + Timeout
    BY <1>2, <1>3, <1>7, <1>8, <1>10
  <2> QED BY <1>4, <1>10, <2>1, <2>2 DEF Timed, Bound
<1>11. CASE pc' = "discover" /\ todo' = Tail(todo)
  <2>1. LeftCount' = LeftCount - 1
    BY <1>5, <1>11 DEF LeftCount
  <2>2. quiet' < Bound(LeftCount - 1)
    BY <1>1, <1>2, <1>3, <1>6, <1>7, <1>8
  <2> QED BY <1>4, <1>11, <2>1, <2>2 DEF Timed, Bound
<1> QED BY <1>9, <1>10, <1>11

LEMMA TimedAdopt ==
  ASSUME TypeOK, Listing, Timed, Adopt
  PROVE  Timed'
<1>1. /\ pc = "discover" /\ todo = << >> /\ UNCHANGED <<machine, lap>> /\ sensors' = next
      /\ since' = [since EXCEPT !.scan = 0]
      /\ \/ pc' = "sleep" /\ quiet' = quiet
         \/ /\ pc' = "read" /\ quiet' = 0 /\ todo' = Sorted(DOMAIN next)
  BY DEF Adopt
<1>2. since'.sample = since.sample /\ since.sample < SampleEvery /\ quiet <= since.sample + lap
  BY <1>1, SinceSample DEF Timed, Early
<1>3. /\ DiskCount \in Nat /\ SampleEvery \in Nat \ {0} /\ Timeout \in Nat
      /\ quiet \in Nat /\ lap \in Nat /\ since.sample \in Nat
  BY Counts, PeriodsType, SinceSample DEF TypeOK
<1>4. LeftCount = 0
  BY <1>1, EmptyList, FS_EmptySet DEF LeftCount
<1>5. quiet < SampleEvery + 2 * (DiskCount - 0) * Timeout
  BY <1>1, <1>4 DEF Timed
<1>6. ScanTime' = ScanTime /\ ScanTime \in Nat /\ 2 * (DiskCount - 0) * Timeout = ScanTime
  <2>1. DiskCount - 0 = DiskCount
    BY <1>3
  <2>2. 2 * (DiskCount - 0) * Timeout \in Nat
    BY <1>3, ScanBound
  <2> QED BY <1>1, <2>1, <2>2 DEF ScanTime, DiskCount
<1>7. CASE pc' = "sleep" /\ quiet' = quiet
  BY <1>1, <1>2, <1>3, <1>5, <1>6, <1>7 DEF Timed, Early
<1>8. CASE pc' = "read" /\ quiet' = 0 /\ todo' = Sorted(DOMAIN next)
  <2>1. ReadTime' = 0
    BY <1>1, <1>8, ReadBegins, Known DEF Listing
  <2> QED BY <1>1, <1>2, <1>3, <1>6, <1>8, <2>1 DEF Timed, Early
<1> QED BY <1>1, <1>7, <1>8

LEMMA TimedRead ==
  ASSUME TypeOK, Listing, Timed, ReadLive \/ ReadFails \/ ReadDisk \/ SendSample
  PROVE  Timed'
<1>1. /\ SampleEvery \in Nat \ {0} /\ Timeout \in Nat /\ quiet \in Nat /\ lap \in Nat
      /\ since.sample \in Nat /\ since.sample <= SampleEvery
  BY PeriodsType, SinceSample DEF TypeOK, Timed
<1>2. /\ pc = "read" /\ UNCHANGED <<machine, sensors>> /\ ReadTime \in Nat
      /\ quiet <= SampleEvery + ScanTime + ReadTime
      /\ back \in {"beat", "sleep"} => Early
  BY ReadTimeType DEF ReadLive, ReadFails, ReadDisk, SendSample, Timed
<1>3. ScanTime' = ScanTime /\ ScanTime \in Nat
  <2>1. DiskCount \in Nat /\ \A a, b \in Nat : a * b \in Nat
    BY Counts
  <2>2. 2 * DiskCount \in Nat
    BY <2>1
  <2> QED BY <1>1, <1>2, <2>1, <2>2 DEF ScanTime, DiskCount
<1>4. CASE ReadLive \/ ReadFails
  <2>1. /\ UNCHANGED <<since, back, quiet>> /\ pc' = "read" /\ ReadTime' = ReadTime
    BY <1>2, <1>4, ReadOne DEF ReadLive, ReadFails, ghosts
  <2> QED BY <1>1, <1>2, <1>3, <2>1 DEF Timed, Early
<1>5. CASE ReadDisk
  <2>1. /\ UNCHANGED <<since, back>> /\ pc' = "read" /\ ReadTime' = ReadTime + Timeout
    BY <1>2, <1>5, ReadOne DEF ReadDisk
  <2>2. PICK t \in Nat : t <= Timeout /\ quiet' = quiet + t
    BY <1>5, Spent
  <2>3. quiet' <= SampleEvery + ScanTime + ReadTime'
    BY <1>1, <1>2, <1>3, <2>1, <2>2
  <2> QED BY <1>1, <1>2, <1>3, <2>1, <2>3 DEF Timed, Early
<1>6. CASE SendSample
  <2>1. CASE back = "loop"
    <3>1. pc' = "top" /\ quiet' = 0 /\ since'.sample = 0
      BY <1>6, <2>1, SinceSample DEF SendSample
    <3> QED BY <1>1, <1>3, <3>1 DEF Timed
  <2>2. CASE back # "loop"
    <3>1. /\ pc' = back /\ quiet' = 0 /\ UNCHANGED <<since, lap>>
          /\ back \in {"sample", "beat", "sleep"}
      BY <1>2, <1>6, <2>2 DEF SendSample, TypeOK, Listing
    <3> QED BY <1>1, <1>2, <1>3, <3>1 DEF Timed, Early
  <2> QED BY <2>1, <2>2
<1> QED BY <1>4, <1>5, <1>6

LEMMA TimedLoop ==
  ASSUME TypeOK, Listing, Timed, Resync \/ Sample \/ Beat \/ Rescan \/ Sleep
  PROVE  Timed'
<1>1. /\ SampleEvery \in Nat \ {0} /\ Timeout \in Nat /\ quiet \in Nat /\ lap \in Nat
      /\ since.sample \in Nat /\ since.sample <= SampleEvery
  BY PeriodsType, SinceSample DEF TypeOK, Timed
<1>2. UNCHANGED <<machine, sensors>> /\ DOMAIN sensors \subseteq Ids
  BY Known DEF Resync, Sample, Beat, Rescan, Sleep, Listing
<1>3. ScanTime' = ScanTime /\ ScanTime \in Nat
  <2>1. DiskCount \in Nat /\ \A a, b \in Nat : a * b \in Nat
    BY Counts
  <2>2. 2 * DiskCount \in Nat
    BY <2>1
  <2> QED BY <1>1, <1>2, <2>1, <2>2 DEF ScanTime, DiskCount
<1>4. todo' = Sorted(DOMAIN sensors) => ReadTime' = 0
  BY <1>2, ReadBegins
<1>5. CASE Resync
  <2>1. CASE asked = 0
    <3>1. pc = "top" /\ pc' = "sample" /\ UNCHANGED <<quiet, since>>
      BY <1>5, <2>1 DEF Resync
    <3> QED BY <1>3, <3>1 DEF Timed, Early
  <2>2. CASE asked # 0
    <3>1. pc' = "read" /\ back' = "sample" /\ quiet' = 0 /\ UNCHANGED since /\ ReadTime' = 0
      BY <1>4, <1>5, <2>2 DEF Resync
    <3> QED BY <1>1, <1>3, <3>1 DEF Timed, Early
  <2> QED BY <2>1, <2>2
<1>6. CASE Sample
  <2>1. /\ pc = "sample" /\ UNCHANGED quiet
        /\ quiet <= SampleEvery + ScanTime /\ (Early => quiet <= since.sample)
    BY <1>6 DEF Sample, Timed, ghosts
  <2>2. CASE Due("sample")
    <3>1. pc' = "read" /\ back' = "beat" /\ since'.sample = 0 /\ ReadTime' = 0
      BY <1>4, <1>6, <2>2, SinceSample DEF Sample
    <3> QED BY <1>1, <1>3, <2>1, <3>1 DEF Timed, Early
  <2>3. CASE ~ Due("sample")
    <3>1. pc' = "beat" /\ UNCHANGED since /\ since.sample # SampleEvery
      BY <1>6, <2>3, SinceSample DEF Sample
    <3> QED BY <1>1, <1>3, <2>1, <3>1 DEF Timed, Early
  <2> QED BY <2>2, <2>3
<1>7. CASE Beat
  <2>1. pc = "beat" /\ pc' = "rescan" /\ since'.sample = since.sample /\ quiet' \in {0, quiet}
    BY <1>7, SinceSample DEF Beat
  <2> QED BY <1>1, <1>3, <2>1 DEF Timed, Early
<1>8. CASE Rescan
  <2>1. pc = "rescan" /\ pc' \in {"resolve", "sleep"} /\ UNCHANGED <<since, quiet, lap>>
    BY <1>8 DEF Rescan, ghosts
  <2> QED BY <1>1, <1>3, <2>1 DEF Timed, Early
<1>9. CASE Sleep
  <2>1. /\ pc = "sleep" /\ pc' = "top" /\ quiet' = quiet + 1
        /\ since'.sample = IF since.sample + (lap + 1) >= SampleEvery THEN SampleEvery
                           ELSE since.sample + (lap + 1)
    BY <1>9, PeriodsType DEF Sleep
  <2>2. quiet <= since.sample + lap /\ quiet < SampleEvery + ScanTime
    BY <2>1 DEF Timed
  <2> QED BY <1>1, <1>3, <2>1, <2>2 DEF Timed, Early
<1> QED BY <1>5, <1>6, <1>7, <1>8, <1>9

LEMMA TimedStep ==
  ASSUME TypeOK, Listing, Timed, [Next]_vars
  PROVE  Timed'
<1>1. /\ SampleEvery \in Nat \ {0} /\ Timeout \in Nat /\ quiet \in Nat /\ lap \in Nat
      /\ since.sample \in Nat /\ since.sample <= SampleEvery
  BY PeriodsType, SinceSample DEF TypeOK, Timed
<1>2. CASE Start \/ ScanPersistent \/ ScanHwmon
  <2>1. /\ pc \in {"down", "resolve", "hwmon"} /\ pc' \in {"resolve", "hwmon", "hba"}
        /\ UNCHANGED <<since, quiet, lap>>
    BY <1>2 DEF Start, ScanPersistent, ScanHwmon, ghosts
  <2> QED BY <1>1, <2>1 DEF Timed, Early
<1>3. CASE Stop
  <2>1. pc' = "down" /\ since'.sample = 0 /\ quiet' = 0
    BY <1>3, SinceSample DEF Stop
  <2> QED BY <1>1, <2>1 DEF Timed
<1>4. CASE ScanHba
  <2>1. /\ pc = "hba" /\ pc' = "discover" /\ UNCHANGED <<machine, since, quiet, lap>>
        /\ todo' = Sorted(expand_device_patterns)
    BY <1>4 DEF ScanHba, ghosts
  <2>2. DiskCount' = DiskCount /\ DiskCount \in Nat
    BY <2>1, Counts DEF DiskCount
  <2>3. LeftCount' \in Nat /\ LeftCount' <= DiskCount
    <3>1. machine \in Machines /\ expand_device_patterns \subseteq machine.disks
      BY DEF expand_device_patterns, TypeOK
    <3>2. expand_device_patterns \subseteq Ids
      BY <3>1, GuestFacts DEF Ids
    <3>3. Elements(todo') = expand_device_patterns
      BY <2>1, <3>2, SortedList
    <3> QED BY <3>1, <3>3, Counts, FS_Subset, FS_CardinalityType DEF LeftCount, DiskCount
  <2>4. 2 * (DiskCount' - LeftCount') * Timeout \in Nat
    BY <1>1, <2>2, <2>3, ScanBound
  <2> QED BY <1>1, <2>1, <2>4 DEF Timed, Early
<1>5. CASE Ask \/ Plug \/ Fail \/ UNCHANGED vars
  <2>1. UNCHANGED <<machine, pc, back, todo, sensors, since, quiet, lap>>
    BY <1>5 DEF Ask, Plug, Fail, vars, ghosts
  <2>2. ByDisk' = ByDisk /\ LeftDisks' = LeftDisks /\ LeftCount' = LeftCount /\ DiskCount' = DiskCount
    BY <2>1 DEF ByDisk, LeftDisks, LeftCount, DiskCount, Elements
  <2> QED BY <2>1, <2>2 DEF Timed, Early, ReadTime, ScanTime
<1> QED
  BY <1>2, <1>3, <1>4, <1>5, TimedDisks, TimedAdopt, TimedRead, TimedLoop DEF Next, Step

-----------------------------------------------------------------------------
(* The age of what is sent                                                 *)

Timely(map) == \A d \in Disks : map[d] # None => map[d].age = map[d].stamp

LEMMA AgedFresh ==
  ASSUME TypeOK, Fresh, NEW t \in Nat
  PROVE  /\ \A i \in Disks \cup Pids : Aged(cache, t)[i] # None =>
              Aged(cache, t)[i].age < Aged(cache, t)[i].stamp + Longer + Timeout
         /\ Timely(Aged(found, t))
<1>1. ASSUME NEW i \in Disks \cup Pids, Aged(cache, t)[i] # None
      PROVE  Aged(cache, t)[i].age < Aged(cache, t)[i].stamp + Longer + Timeout
  <2>1. Aged(cache, t)[i] = Older(cache[i], t) /\ cache[i] \in Temperatures \cup {None}
    BY AgedTypes DEF TypeOK
  <2>2. /\ cache[i] # None /\ cache[i] \in Temperatures
        /\ Aged(cache, t)[i].age = cache[i].age + t /\ Aged(cache, t)[i].stamp = cache[i].stamp + t
    BY <1>1, <2>1, OlderTemperature
  <2>3. cache[i].age < cache[i].stamp + Longer + Timeout
    BY <2>2 DEF Fresh
  <2>4. cache[i].age \in Nat /\ cache[i].stamp \in Nat /\ Longer \in Nat /\ Timeout \in Nat
    BY <2>2, PeriodsType DEF Temperatures
  <2> QED BY <2>2, <2>3, <2>4
<1>2. ASSUME NEW d \in Disks, Aged(found, t)[d] # None
      PROVE  Aged(found, t)[d].age = Aged(found, t)[d].stamp
  <2>1. Aged(found, t)[d] = Older(found[d], t) /\ found[d] \in Results \cup {None}
    BY AgedTypes DEF TypeOK
  <2>2. /\ found[d] # None
        /\ Aged(found, t)[d].age = found[d].age + t /\ Aged(found, t)[d].stamp = found[d].stamp + t
    BY <1>2, <2>1, OlderResult
  <2> QED BY <2>2 DEF Fresh
<1> QED BY <1>1, <1>2 DEF Timely

LEMMA FreshInit ==
  ASSUME Init
  PROVE  Fresh
<1>1. /\ pc = "down" /\ DOMAIN values = {}
      /\ \A d \in Disks : found[d] = None
      /\ \A i \in Disks \cup Pids : cache[i] = None
  BY LeastOk DEF Init, Blank, Unknown
<1> QED BY <1>1 DEF Fresh

(* Outside a sample only the caches matter.                                *)
LEMMA FreshCaches ==
  ASSUME values' = Empty, Timely(found'),
         pc' = "identify" => got' < Longer,
         \A i \in Disks \cup Pids : cache'[i] # None =>
           cache'[i].age < cache'[i].stamp + Longer + Timeout
  PROVE  Fresh'
<1>1. DOMAIN values' = {} /\ Longer' = Longer
  BY LeastOk DEF Longer
<1> QED BY <1>1 DEF Fresh, Timely

LEMMA FreshDiscover ==
  ASSUME TypeOK, Listing, Sampled, Fresh, Discover
  PROVE  Fresh'
<1> DEFINE d == Head(todo)
<1>1. /\ machine \in Machines /\ todo \in Seq(Ids) /\ todo # << >> /\ Distinct(todo)
      /\ Elements(todo) \subseteq machine.disks /\ values' = Empty
  BY DEF TypeOK, Discover, Listing, Sampled
<1>2. d \in machine.disks /\ d \in Disks
  BY <1>1, TailList, GuestFacts
<1>3. Poll \in Nat /\ Timeout \in Nat /\ Longer \in Nat /\ Poll <= Longer /\ Timeout <= Longer
  BY PeriodsType
<1>4. CASE found[d] # None
  <2>1. UNCHANGED <<cache, found>> /\ got' = found[d].age
    BY <1>4 DEF Discover, caches
  <2>2. got' < Longer
    <3>1. found[d] \in Results /\ found[d].age = found[d].stamp
      BY <1>2, <1>4 DEF TypeOK, Fresh
    <3>2. found[d].stamp \in 0 .. Poll - 1
      BY <3>1 DEF Results
    <3> QED BY <1>3, <2>1, <3>1, <3>2
  <2> QED BY <1>1, <2>1, <2>2, FreshCaches DEF Fresh, Timely
<1>5. CASE found[d] = None
  <2>1. PICK run \in run_smartctl(d) :
          /\ found' = [Aged(found, run.cost) EXCEPT ![d] =
                Older([ok |-> run.ok, stamp |-> 0, age |-> 0], run.cost)]
          /\ got' = run.cost
          /\ IF run.ok
             THEN pc' = "identify" /\ UNCHANGED todo
             ELSE todo' = Tail(todo) /\ UNCHANGED pc
          /\ cache' = Aged(cache, run.cost)
    BY <1>5 DEF Discover
  <2>2. /\ run.ok \in BOOLEAN /\ run.cost \in Nat /\ (run.ok => run.cost < Timeout)
    BY <1>2, RunCost
  <2>3. Timely(found')
    <3>1. DOMAIN Aged(found, run.cost) = Disks
      BY <2>2, AgedTypes
    <3> QED BY <2>1, <2>2, <3>1, AgedFresh, FreshResult DEF Timely
  <2>4. pc' = "identify" => got' < Longer
    <3>1. pc' = "identify" => run.ok
      BY <2>1 DEF Discover
    <3> QED BY <1>3, <2>1, <2>2, <3>1
  <2> QED BY <1>1, <2>1, <2>2, <2>3, <2>4, AgedFresh, FreshCaches
<1> QED BY <1>4, <1>5

LEMMA FreshListed ==
  ASSUME TypeOK, Fresh, pc = "identify", NEW d \in Disks, NEW ok, NEW t \in Nat, t <= Timeout,
         Listed(d, ok, t)
  PROVE  \A i \in Disks \cup Pids : cache'[i] # None =>
           cache'[i].age < cache'[i].stamp + Longer + Timeout
<1>1. got + t < 0 + Longer + Timeout
  BY SMTT(30), PeriodsType DEF Fresh, TypeOK
<1>2. CASE cache' = Aged(cache, t)
  BY <1>2, AgedFresh
<1>3. CASE cache' = [Aged(cache, t) EXCEPT ![d] = [stamp |-> 0, age |-> got + t]]
  <2>1. DOMAIN Aged(cache, t) = Disks \cup Pids
    BY AgedTypes
  <2>2. ASSUME NEW i \in Disks \cup Pids, cache'[i] # None
        PROVE  cache'[i].age < cache'[i].stamp + Longer + Timeout
    <3>1. CASE i = d
      <4>1. cache'[i] = [stamp |-> 0, age |-> got + t]
        BY <1>3, <2>1, <3>1
      <4>2. cache'[i].stamp = 0 /\ cache'[i].age = got + t
        BY <4>1
      <4> QED BY <1>1, <4>2
    <3>2. CASE i # d
      <4>1. cache'[i] = Aged(cache, t)[i]
        BY <1>3, <2>1, <3>2
      <4> QED BY <2>2, <4>1, AgedFresh
    <3> QED BY <3>1, <3>2
  <2> QED BY <2>2
<1> QED BY <1>2, <1>3 DEF Listed

LEMMA FreshIdentify ==
  ASSUME TypeOK, Listing, Sampled, Fresh, Identify
  PROVE  Fresh'
<1> DEFINE d == Head(todo)
<1>1. /\ machine \in Machines /\ todo \in Seq(Ids) /\ todo # << >> /\ Distinct(todo)
      /\ Elements(todo) \subseteq machine.disks /\ values' = Empty
      /\ pc = "identify" /\ pc' = "discover"
  BY DEF TypeOK, Identify, Listing, Sampled
<1>2. d \in machine.disks /\ d \in Disks
  BY <1>1, TailList, GuestFacts
<1>3. CASE named[d] # None
  <2>1. Listed(d, named[d].ok, 0) /\ UNCHANGED found /\ 0 <= Timeout
    BY <1>3, PeriodsType DEF Identify
  <2>2. \A i \in Disks \cup Pids : cache'[i] # None =>
          cache'[i].age < cache'[i].stamp + Longer + Timeout
    BY <1>1, <1>2, <2>1, FreshListed
  <2> QED BY <1>1, <2>1, <2>2, FreshCaches DEF Fresh, Timely
<1>4. CASE named[d] = None
  <2>1. PICK run \in run_smartctl(d) :
          /\ Listed(d, run.ok, run.cost)
          /\ found' = Aged(found, run.cost)
    BY <1>4 DEF Identify
  <2>2. run.cost \in Nat /\ run.cost <= Timeout
    BY <1>2, RunCost
  <2>3. \A i \in Disks \cup Pids : cache'[i] # None =>
          cache'[i].age < cache'[i].stamp + Longer + Timeout
    BY <1>1, <1>2, <2>1, <2>2, FreshListed
  <2> QED BY <1>1, <2>1, <2>2, <2>3, AgedFresh, FreshCaches
<1> QED BY <1>3, <1>4

(* A sample of one sensor more keeps to the bound of one run more.         *)
LEMMA FreshValues ==
  ASSUME TypeOK, Fresh, NEW i, NEW t \in Nat, Kept(i, t), ReadTime \in Nat, ReadTime' \in Nat,
         ReadTime + t <= ReadTime',
         i \in DOMAIN values' => values'[i].age <= Poll + Longer - 2 + ReadTime'
  PROVE  \A j \in DOMAIN values' : values'[j].age <= Poll + Longer - 2 + ReadTime'
<1> SUFFICES ASSUME NEW j \in DOMAIN values', j # i
             PROVE  values'[j].age <= Poll + Longer - 2 + ReadTime'
  OBVIOUS
<1>1. j \in DOMAIN values /\ values'[j].age = values[j].age + t
  BY DEF Kept
<1>2. values[j].age <= Poll + Longer - 2 + ReadTime /\ values[j].age \in Nat
  BY <1>1, AgedReadings DEF Fresh
<1> QED BY <1>1, <1>2, PeriodsType

LEMMA FreshReadLive ==
  ASSUME TypeOK, Listing, Fresh, ReadLive \/ ReadFails
  PROVE  Fresh'
<1> DEFINE i == Head(todo)
<1>1. /\ pc = "read" /\ pc' = "read" /\ UNCHANGED <<cache, found>>
      /\ ReadTime' = ReadTime /\ ReadTime \in Nat
  BY ReadOne, ReadTimeType DEF ReadLive, ReadFails, caches
<1>2. PICK v : \/ values' = Missed(i, 0)
               \/ values' = Put(values, i, v) /\ v.age = 0
  BY DEF ReadLive, ReadFails
<1>3. /\ Kept(i, 0)
      /\ i \in DOMAIN values' => \/ values'[i].age = 0
                                \/ /\ i \in DOMAIN values
                                   /\ values'[i].age = values[i].age
  <2>1. CASE values' = Put(values, i, v) /\ v.age = 0
    BY <2>1, ReadKept
  <2>2. CASE values' = Missed(i, 0)
    <3>1. Kept(i, 0) /\ (i \in Pids => values'[i] = [of |-> "default", age |-> 0])
      BY <2>2, ReadKept
    <3>2. ASSUME i \notin Pids, i \in DOMAIN values'
          PROVE  i \in DOMAIN values /\ values'[i].age = values[i].age
      <4>1. values' = AgedValues(0)
        BY <2>2, <3>2 DEF Missed
      <4> QED BY <3>2, <4>1, AgedReadings
    <3> QED BY <3>1, <3>2
  <2> QED BY <1>2, <2>1, <2>2
<1>4. i \in DOMAIN values' => values'[i].age <= Poll + Longer - 2 + ReadTime'
  BY <1>1, <1>3, PeriodsType DEF Fresh
<1>5. \A j \in DOMAIN values' : values'[j].age <= Poll + Longer - 2 + ReadTime'
  BY <1>1, <1>3, <1>4, FreshValues
<1>6. Longer' = Longer
  BY DEF Longer
<1> QED BY <1>1, <1>5, <1>6 DEF Fresh

LEMMA FreshReadDisk ==
  ASSUME TypeOK, Listing, Fresh, ReadDisk
  PROVE  Fresh'
<1> DEFINE i == Head(todo)
           d == sensors[i].src
<1>1. /\ pc = "read" /\ pc' = "read" /\ todo # << >> /\ Distinct(todo) /\ todo \in Seq(Ids)
      /\ ReadTime' = ReadTime + Timeout /\ ReadTime \in Nat /\ ReadTime' \in Nat
      /\ Longer' = Longer
  <2>1. pc = "read" /\ pc' = "read" /\ todo # << >> /\ Distinct(todo) /\ todo \in Seq(Ids)
    BY DEF ReadDisk, TypeOK
  <2>2. ReadTime' = ReadTime + Timeout /\ ReadTime \in Nat
    BY <2>1, ReadOne, ReadTimeType
  <2>3. ReadTime' \in Nat /\ Longer' = Longer
    BY <2>2, PeriodsType DEF Longer
  <2> QED BY <2>1, <2>2, <2>3
<1>2. i \in DOMAIN sensors
  BY <1>1, TailList DEF Listing
<1>3. d \in Disks /\ d \in machine.disks /\ i \in Disks \cup Pids
  BY <1>2, DiskSource DEF ReadDisk
<1>4. Poll \in Nat \ {0} /\ Timeout \in Nat \ {0} /\ Longer \in Nat /\ Poll <= Longer /\ Timeout <= Longer
  BY PeriodsType
<1>5. CASE cache[i] # None
  <2>1. values' = Put(values, i, [of |-> d, age |-> cache[i].age]) /\ UNCHANGED <<cache, found>>
    BY <1>5 DEF ReadDisk, caches
  <2>2. Kept(i, 0) /\ values'[i] = [of |-> d, age |-> cache[i].age]
    BY <2>1, ReadKept
  <2>3. cache[i].age < cache[i].stamp + Longer + Timeout
    BY <1>3, <1>5 DEF Fresh
  <2>4. cache[i].stamp \in 0 .. Poll - 1 /\ cache[i].age \in Nat
    BY <1>3, <1>5 DEF TypeOK, Temperatures
  <2>5. values'[i].age <= Poll + Longer - 2 + ReadTime'
    BY <1>1, <1>4, <2>2, <2>3, <2>4
  <2>6. \A j \in DOMAIN values' : values'[j].age <= Poll + Longer - 2 + ReadTime'
    <3>1. ReadTime + 0 <= ReadTime'
      BY <1>1, <1>4
    <3> QED BY <1>1, <2>2, <2>5, <3>1, FreshValues
  <2> QED BY <1>1, <2>1, <2>6 DEF Fresh
<1>6. CASE cache[i] = None
  <2>1. PICK run \in run_smartctl(d) :
          /\ values' = IF run.ok
                THEN Put(AgedValues(run.cost), i, [of |-> d, age |-> run.cost])
                ELSE Missed(i, run.cost)
          /\ cache' = [Aged(cache, run.cost) EXCEPT ![i] =
                IF run.ok THEN Older([stamp |-> 0, age |-> 0], run.cost) ELSE None]
          /\ found' = Aged(found, run.cost)
    BY <1>6 DEF ReadDisk
  <2>2. run.ok \in BOOLEAN /\ run.cost \in Nat /\ run.cost <= Timeout
    BY <1>3, RunCost
  <2>3. Timely(found')
    BY <2>1, <2>2, AgedFresh
  <2>4. \A j \in Disks \cup Pids : cache'[j] # None =>
          cache'[j].age < cache'[j].stamp + Longer + Timeout
    <3>1. DOMAIN Aged(cache, run.cost) = Disks \cup Pids
      BY <2>2, AgedTypes
    <3>2. /\ cache'[i] = IF run.ok THEN Older([stamp |-> 0, age |-> 0], run.cost) ELSE None
          /\ \A j \in Disks \cup Pids : j # i => cache'[j] = Aged(cache, run.cost)[j]
      BY <1>3, <2>1, <3>1
    <3>3. cache'[i] # None => cache'[i].age < cache'[i].stamp + Longer + Timeout
      <4>1. cache'[i] # None => cache'[i] \in Temperatures /\ cache'[i].age = cache'[i].stamp
        BY <2>2, <3>2, FreshResult
      <4>2. cache'[i] # None => cache'[i].stamp \in Nat
        BY <4>1 DEF Temperatures
      <4> QED BY <1>4, <4>1, <4>2
    <3> QED BY <2>2, <3>2, <3>3, AgedFresh
  <2>5. Kept(i, run.cost)
    BY <2>1, <2>2, ReadKept
  <2>6. i \in DOMAIN values' => values'[i].age <= Poll + Longer - 2 + ReadTime'
    <3>1. CASE run.ok
      <4>1. values'[i] = [of |-> d, age |-> run.cost]
        BY <2>1, <2>2, <3>1, ReadKept
      <4> QED BY <1>1, <1>4, <2>2, <4>1
    <3>2. CASE ~ run.ok /\ i \in Pids
      <4>1. values'[i] = [of |-> "default", age |-> 0]
        BY <2>1, <2>2, <3>2, ReadKept
      <4> QED BY <1>1, <1>4, <4>1
    <3>3. CASE ~ run.ok /\ i \notin Pids
      <4>1. values' = AgedValues(run.cost)
        BY <2>1, <3>3 DEF Missed
      <4>2. i \in DOMAIN values' => /\ values'[i].age = values[i].age + run.cost
                                    /\ values[i].age <= Poll + Longer - 2 + ReadTime
                                    /\ values[i].age \in Nat
        BY <2>2, <4>1, AgedReadings DEF Fresh
      <4> QED BY <1>1, <1>4, <2>2, <4>2
    <3> QED BY <2>2, <3>1, <3>2, <3>3
  <2>7. \A j \in DOMAIN values' : values'[j].age <= Poll + Longer - 2 + ReadTime'
    <3>1. ReadTime + run.cost <= ReadTime'
      BY <1>1, <1>4, <2>2
    <3> QED BY <1>1, <2>2, <2>5, <2>6, <3>1, FreshValues
  <2> QED BY <1>1, <2>3, <2>4, <2>7 DEF Fresh, Timely
<1> QED BY <1>5, <1>6

LEMMA FreshStep ==
  ASSUME TypeOK, Listing, Sampled, Fresh, [Next]_vars
  PROVE  Fresh'
<1>1. CASE Stop \/ ScanPersistent
  <2>1. /\ pc' \in {"down", "hwmon"} /\ values' = Empty /\ cache' = Blank
        /\ found' = Unknown \/ found' = found
    BY <1>1 DEF Stop, ScanPersistent, Sampled
  <2>2. Timely(found')
    BY <2>1 DEF Unknown, Timely, Fresh
  <2>3. \A i \in Disks \cup Pids : cache'[i] = None
    BY <2>1 DEF Blank
  <2> QED BY <2>1, <2>2, <2>3, FreshCaches
<1>2. CASE Start \/ ScanHwmon \/ ScanHba \/ Adopt \/ SendSample \/ Resync \/ Sample \/ Beat \/ Rescan
  <2>1. /\ values' = Empty /\ UNCHANGED <<cache, found>> /\ pc' # "identify"
    BY <1>2 DEF Start, ScanHwmon, ScanHba, Adopt, SendSample, Resync, Sample, Beat, Rescan, Sampled,
       caches, TypeOK
  <2> QED BY <2>1, FreshCaches DEF Fresh, Timely
<1>3. CASE Sleep
  <2>1. /\ values' = Empty /\ cache' = Aged(cache, 1) /\ found' = Aged(found, 1) /\ pc' = "top"
    BY <1>3 DEF Sleep, Sampled
  <2> QED BY <2>1, AgedFresh, FreshCaches
<1>4. CASE Ask \/ Plug \/ Fail \/ UNCHANGED vars
  <2>1. UNCHANGED <<pc, todo, sensors, values, cache, found, got>>
    BY <1>4 DEF Ask, Plug, Fail, vars, caches
  <2>2. ReadTime' = ReadTime /\ Longer' = Longer
    BY <2>1 DEF ReadTime, ByDisk, LeftDisks, Elements, Longer
  <2> QED BY <2>1, <2>2 DEF Fresh
<1> QED
  BY <1>1, <1>2, <1>3, <1>4, FreshDiscover, FreshIdentify, FreshReadLive, FreshReadDisk DEF Next, Step

-----------------------------------------------------------------------------
(* The invariant and what follows from it                                  *)

LEMMA Initially ==
  ASSUME Init
  PROVE  IInv
BY TypeInit, ListingInit, SentInit, CurrentInit, SampledInit, TimedInit, FreshInit DEF IInv

LEMMA Inductive ==
  ASSUME IInv, [Next]_vars
  PROVE  IInv'
BY TypeStep, ListingStep, SentStep, CurrentStep, SampledStep, TimedStep, FreshStep DEF IInv

LEMMA Invariance ==
  Spec => []IInv
<1>1. Init => IInv
  BY Initially
<1>2. IInv /\ [Next]_vars => IInv'
  BY Inductive
<1> QED BY <1>1, <1>2, PTL DEF Spec

LEMMA ShownOnceHolds ==
  ASSUME IInv
  PROVE  ShownOnce
<1>1. SUFFICES ASSUME schema # None, ~ moved, pc \in Sending PROVE ShownOnce
  BY DEF ShownOnce
<1> DEFINE stand == UNION {Stands(p) : p \in DOMAIN config}
<1>2. /\ machine \in Machines /\ machine.slots \subseteq Slots /\ DOMAIN config \subseteq Pids
      /\ schema = [gen |-> gen, labels |-> Labels(sensors)]
      /\ Resolved(sensors) /\ Shown(sensors)
  BY <1>1, GuestFacts DEF IInv, TypeOK, Sent, Current
<1>3. DOMAIN schema.labels = DOMAIN sensors
      /\ \A i \in DOMAIN sensors : schema.labels[i] = sensors[i].label
  BY <1>2 DEF Labels
<1>4. \A s \in machine.slots : s \in stand <=> \E p \in DOMAIN config : Resolve(p) = s
  <2>1. \A s \in machine.slots : \A p \in DOMAIN config : s \in Stands(p) <=> Matching(p) = {s}
    BY DEF Stands
  <2>2. \A s \in machine.slots : \A p \in DOMAIN config : Resolve(p) = s <=> Matching(p) = {s}
    BY StandsFor DEF IInv
  <2> QED BY <2>1, <2>2
<1>5. DOMAIN config \subseteq DOMAIN schema.labels
  BY <1>2, <1>3 DEF Resolved
<1>6. \A s \in machine.slots :
        /\ s \in DOMAIN schema.labels <=> slots[s] # None /\ s \notin stand
        /\ s \in DOMAIN schema.labels => schema.labels[s] = slots[s]
  BY <1>2, <1>3, <1>4 DEF Shown
<1> QED BY <1>5, <1>6 DEF ShownOnce

LEMMA TrueSourceHolds ==
  ASSUME IInv
  PROVE  TrueSource
<1>1. SUFFICES ASSUME Complete PROVE TrueSource
  BY DEF TrueSource
<1>2. pc = "read" /\ Elements(todo) = {}
  BY <1>1, EmptyList DEF Complete
<1>3. /\ DOMAIN config \subseteq DOMAIN values /\ DOMAIN values \subseteq DOMAIN sensors
      /\ ~ moved => \A p \in DOMAIN config \cap DOMAIN values :
                      config[p] \notin Disks \cup Iocs =>
                        values[p].of \in {Truth(p), "default"}
  BY <1>2 DEF IInv, Sampled
<1>4. schema = [gen |-> gen, labels |-> Labels(sensors)]
  BY <1>2 DEF IInv, Sent, Scanning
<1>5. DOMAIN schema.labels = DOMAIN sensors
  BY <1>4 DEF Labels
<1> QED BY <1>3, <1>5 DEF TrueSource

LEMMA QuietBoundedHolds ==
  ASSUME IInv
  PROVE  QuietBounded
<1>1. TypeOK /\ Listing /\ Timed
  BY DEF IInv
<1>2. /\ SampleEvery \in Nat /\ Timeout \in Nat /\ quiet \in Nat /\ lap \in Nat /\ since.sample \in Nat
      /\ DiskCount \in Nat /\ LeftCount \in Nat /\ DiskSensors \in Nat
      /\ Cardinality(ByDisk) \in Nat /\ Cardinality(LeftDisks) \in Nat
      /\ Cardinality(ByDisk) <= DiskSensors
  BY <1>1, PeriodsType, SinceSample, Counts, RunsOfSample DEF TypeOK
<1>3. \A a, b \in Nat : a * b \in Nat
  OBVIOUS
<1>4. ScanTime = 2 * DiskCount * Timeout /\ ScanTime \in Nat
  <2>1. 2 * DiskCount \in Nat
    BY <1>2
  <2> QED BY <1>2, <1>3, <2>1 DEF ScanTime
<1>5. DiskSensors * Timeout \in Nat
  BY <1>2, <1>3
<1>6. (2 * Cardinality(machine.disks) + DiskSensors) * Timeout = ScanTime + DiskSensors * Timeout
  BY <1>2, <1>4 DEF DiskCount
<1>7. SUFFICES ASSUME pc # "down" PROVE quiet <= SampleEvery + (ScanTime + DiskSensors * Timeout)
  BY <1>6 DEF QuietBounded
<1>8. CASE pc \in {"top", "sample", "sleep"}
  BY <1>1, <1>2, <1>4, <1>5, <1>8 DEF Timed
<1>9. CASE pc \in {"beat", "rescan", "resolve", "hwmon", "hba"}
  BY <1>1, <1>2, <1>4, <1>5, <1>9 DEF Timed
<1>10. CASE pc \in {"discover", "identify"}
  <2> DEFINE left == 2 * (DiskCount - LeftCount) * Timeout
  <2>1. LeftCount <= DiskCount
    BY <1>1, <1>10, Counts
  <2>2. pc = "discover" => quiet < SampleEvery + left
    BY <1>1 DEF Timed
  <2>3. pc = "identify" => quiet < SampleEvery + left + Timeout
    BY <1>1 DEF Timed
  <2>4. left + 2 * LeftCount * Timeout = ScanTime
    BY <1>2, <1>4
  <2>5. left \in Nat
    BY <1>2, <2>1, ScanBound
  <2>6. 2 * LeftCount * Timeout \in Nat
    <3>1. 2 * LeftCount \in Nat
      BY <1>2
    <3> QED BY <1>2, <1>3, <3>1
  <2>7. pc = "identify" => Timeout <= 2 * LeftCount * Timeout
    <3>1. pc = "identify" => LeftCount # 0
      <4>1. pc = "identify" => todo # << >> /\ todo \in Seq(Ids) /\ Distinct(todo)
        BY <1>1 DEF Listing, TypeOK
      <4>2. pc = "identify" => Elements(todo) # {}
        BY <4>1, TailList
      <4> QED BY <1>1, <4>2, Counts, FS_EmptySet DEF LeftCount
    <3>2. ASSUME LeftCount # 0
          PROVE  Timeout <= 2 * LeftCount * Timeout
      <4>1. 2 * LeftCount - 1 \in Nat
        BY <1>2, <3>2
      <4>2. (2 * LeftCount - 1) * Timeout \in Nat
        BY <1>2, <1>3, <4>1
      <4>3. 2 * LeftCount * Timeout = (2 * LeftCount - 1) * Timeout + Timeout
        BY <1>2
      <4> QED BY <1>2, <4>2, <4>3
    <3> QED BY <3>1, <3>2
  <2> HIDE DEF left
  <2> QED BY <1>2, <1>4, <1>5, <1>10, <2>2, <2>3, <2>4, <2>5, <2>6, <2>7
<1>11. CASE pc = "read"
  <2>1. quiet <= SampleEvery + ScanTime + ReadTime /\ ReadTime \in Nat
    BY <1>1, <1>11, ReadTimeType DEF Timed
  <2>2. ReadTime <= DiskSensors * Timeout
    BY <1>1, ReadTimeBound
  <2> QED BY <1>2, <1>4, <1>5, <2>1, <2>2
<1> QED BY <1>1, <1>7, <1>8, <1>9, <1>10, <1>11 DEF TypeOK

LEMMA FreshEnoughHolds ==
  ASSUME IInv
  PROVE  FreshEnough
<1>1. TypeOK /\ Listing /\ Fresh
  BY DEF IInv
<1>2. SUFFICES ASSUME Complete, NEW i \in DOMAIN values
               PROVE  values[i].age < Poll + Longer + DiskSensors * Timeout
  BY DEF FreshEnough
<1>3. values[i].age <= Poll + Longer - 2 + ReadTime /\ values[i].age \in Nat
  BY <1>1, <1>2, AgedReadings DEF Fresh
<1>4. ReadTime <= DiskSensors * Timeout /\ ReadTime \in Nat
  BY <1>1, <1>2, ReadTimeBound, ReadTimeType DEF Complete
<1>5. DiskSensors * Timeout \in Nat
  <2>1. \A a, b \in Nat : a * b \in Nat
    OBVIOUS
  <2> QED BY <1>1, <2>1, RunsOfSample, PeriodsType
<1> QED BY <1>3, <1>4, <1>5, PeriodsType

(* The state keeps its type, whatever the hardware and the disks do: in    *)
(* particular the sensors still to be read or discovered are known ids,    *)
(* each once, and every reading is of a chip, a disk, a controller or the  *)
(* default.                                                                *)
THEOREM TypeCorrect == Spec => []TypeOK
<1>1. IInv => TypeOK
  BY DEF IInv
<1> QED BY <1>1, Invariance, PTL

(* While no chip comes or goes, the schema in force shows each chip once,  *)
(* under the persistent sensor that stands for it or under its directory,  *)
(* and every configured sensor is in it (scan_sensors of sensors.rs).      *)
THEOREM EachChipOnce == Spec => []ShownOnce
<1>1. IInv => ShownOnce
  BY ShownOnceHolds
<1> QED BY <1>1, Invariance, PTL

(* A complete sample has a value for every configured sensor.  If no chip  *)
(* came or went since the scan, it is the value of the one chip that       *)
(* matches, or the default where that chip could not be read; and the      *)
(* default when no chip or several match (read_values).                    *)
THEOREM SamplesAreTrue == Spec => []TrueSource
<1>1. IInv => TrueSource
  BY TrueSourceHolds
<1> QED BY <1>1, Invariance, PTL

(* The port is never silent for longer than a sample period and the        *)
(* smartctl runs of one scan and one sample, whatever the disks do (the    *)
(* loop of agent-linux/src/linux.rs, with the timeout of run_smartctl).    *)
THEOREM SilenceIsBounded == Spec => []QuietBounded
<1>1. IInv => QuietBounded
  BY QuietBoundedHolds
<1> QED BY <1>1, Invariance, PTL

(* A temperature that is sent is not older than a poll, a poll or a run    *)
(* more, and one run for every sensor that is read by smartctl.            *)
THEOREM ReadingsAreFresh == Spec => []FreshEnough
<1>1. IInv => FreshEnough
  BY FreshEnoughHolds
<1> QED BY <1>1, Invariance, PTL

(* A schema has another generation exactly when it has other descriptors   *)
(* (the generation of linux.rs, against schema_changed).                   *)
THEOREM GenerationsTellSchemas == Spec => GenerationFollows
<1>1. IInv /\ [Next]_vars =>
        [schema' # schema /\ schema # None /\ schema' # None =>
           schema'.gen # schema.gen /\ schema'.labels # schema.labels]_vars
  BY SchemaStep DEF IInv
<1> QED BY <1>1, Invariance, PTL DEF Spec, GenerationFollows
=============================================================================
