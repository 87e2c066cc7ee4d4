----------------------------- MODULE HostdProofs ------------------------------
(***************************************************************************)
(* Proofs about Hostd, for any number of VMs, any sensors and any budget   *)
(* of faults, as long as no agent speaks while it is being expired.        *)
(***************************************************************************)
EXTENDS Hostd, FilterProofs

(* An agent that was silent long enough to be expired stays silent until   *)
(* the main thread is done with it.                                        *)
NoOverlap == "overlap" \notin Faults

(* The sensors' defaults are in range: an install that fails leaves the    *)
(* device alone.                                                           *)
DefaultsInRange == "default" \notin Faults

-----------------------------------------------------------------------------
(* The parts of the invariant.                                             *)

Busy(v) == handler[v].pc \notin {"off", "connect", "read"}

(* The device as an entry of any kind describes it.                        *)
DeviceOf(p) == [name |-> p.name, layout |-> p.layout]

(* Handlers and main thread keep out of each other's way: a VM is expired  *)
(* only while its handler waits, and its handler then has nothing to read. *)
Quiet(v) == quiet[v] => ~Busy(v)
Hushed(v) ==
  Overdue(v) \/ work[v] # Absent => /\ chan[v] = << >> /\ agent[v].mode # "up"
                                    /\ ~Busy(v)

(* The main thread is at a VM it has work for.                             *)
AtWork(v) ==
  /\ work[v] # Absent => main.pc \in {"work", "insert", "save", "write", "unlink"}
  /\ main.pc \in {"insert", "save", "write"} /\ main.at = v =>
       work[v] # Absent /\ work[v].kind = "preserve"
  /\ main.pc = "unlink" /\ main.at = v => work[v] # Absent /\ work[v].kind = "remove"

(* While the cache is restored nothing else runs.                          *)
Restoring(v) ==
  main.pc = "restore" =>
    /\ crashed /\ handler[v].pc = "off" /\ ~quiet[v]
    /\ v \in main.todo => state[v] = Absent /\ cache[v] # Absent

(* The device is ahead of the runtime between an ioctl and the insertion   *)
(* that follows it.                                                        *)
Midway(v) ==
  \/ handler[v].pc \in {"insert", "bye_insert"}
  \/ main.pc = "insert" /\ main.at = v
Ahead(v) ==
  /\ handler[v].pc = "insert" =>
       kern[v] = [name |-> handler[v].name, layout |-> handler[v].msg.layout]
  /\ handler[v].pc = "bye_insert" => kern[v] = DeviceOf(handler[v].keep)
  /\ main.pc = "insert" /\ main.at = v => kern[v] = DeviceOf(work[v])

Agrees(v) ==
  DefaultsInRange /\ ~Midway(v) /\ state[v] # Absent => kern[v] = DeviceOf(state[v])

(* A runtime leaves the state before its device leaves the driver.         *)
Removing(v) == work[v] # Absent /\ work[v].kind = "remove"
Leaving(v) == handler[v].pc \in {"bye_name", "bye_kernel"} \/ Removing(v)
Gone(v) ==
  /\ Leaving(v) => state[v] = Absent
  /\ handler[v].pc = "bye_remove" => ~KeepsSensors(v)
  /\ state[v] = Absent /\ kern[v] # Absent =>
       crashed \/ Leaving(v) \/ handler[v].pc = "insert"

(* What was collected to be preserved is what the runtime still has.       *)
Preserves(v, p) ==
  /\ state[v] # Absent
  /\ p.gen = state[v].gen /\ p.name = state[v].name
  /\ p.layout = PersistentPart(state[v].layout) /\ p.layout # << >>
Keeping(v) ==
  /\ handler[v].pc \in {"bye_install", "bye_insert"} => Preserves(v, handler[v].keep)
  /\ work[v] # Absent /\ work[v].kind = "preserve" => Preserves(v, work[v])

(* What was decided still holds.                                           *)
Decided(v) == handler[v].pc = "update" => Unchanged(v)

Local(v) ==
  /\ Quiet(v) /\ Hushed(v) /\ AtWork(v) /\ Restoring(v) /\ Ahead(v) /\ Agrees(v)
  /\ Gone(v) /\ Keeping(v) /\ Decided(v)

IInv == TypeOK /\ \A v \in Vmids : Local(v)

(* The part of it that holds even when agents speak while they are expired.*)
Orderly == \A v \in Vmids : AtWork(v) /\ Restoring(v)

USE DEF file

-----------------------------------------------------------------------------
(* Shapes of the records, by what their pc, mode or kind says.             *)

LEMMA HandlerShapes ==
  ASSUME NEW h \in Handlers
  PROVE  /\ h.pc \in {"hello", "goodbye"} => h \in [pc : {"hello", "goodbye"}, msg : Messages]
         /\ h.pc \in {"schema", "sample"} => h \in [pc : {"schema", "sample"}, msg : Reports]
         /\ h.pc \in {"decide", "update", "set_schema", "insert"} =>
              h \in [pc : {"decide", "update", "set_schema", "insert"}, msg : Reports,
                     name : Names]
         /\ h.pc = "values" => h \in [pc : {"values"}, msg : Reports, mapping : Seq(Sensors)]
         /\ h.pc \in {"bye_install", "bye_insert"} =>
              h \in [pc : {"bye_install", "bye_insert"}, keep : Keeps]
         /\ h.pc = "write" => h \in [pc : {"write"}, snap : Snapshots]
BY DEF Handlers

LEMMA MainShapes ==
  ASSUME NEW m \in Mains
  PROVE  /\ m.pc \in {"loop", "restore", "work", "insert", "save", "unlink", "write", "last"}
         /\ m.pc = "restore" => m \in [pc : {"restore"}, todo : SUBSET Vmids]
         /\ m.pc = "work" => m \in [pc : {"work"}, removed : BOOLEAN]
         /\ m.pc \in {"insert", "save", "unlink"} =>
              m \in [pc : {"insert", "save", "unlink"}, at : Vmids, removed : BOOLEAN]
         /\ m.pc = "write" =>
              m \in [pc : {"write"}, at : Vmids, removed : BOOLEAN, snap : Snapshots]
         /\ m.pc = "last" => m \in [pc : {"last"}, snap : Snapshots]
BY DEF Mains

LEMMA WorkShapes ==
  ASSUME NEW w \in Works
  PROVE  /\ w.kind \in {"preserve", "remove"}
         /\ w.kind = "preserve" => w \in Keeps
BY DEF Works, Keeps

LEMMA AgentShapes ==
  ASSUME NEW a \in Agents, a.mode # "down"
  PROVE  a \in [mode : {"up", "stalled"}, gen : Gens, layout : Layouts]
BY DEF Agents

(* No entry is mistaken for an absent one.                                 *)
LEMMA Present ==
  /\ \A g \in Gens, l \in Seq(Sensors), n \in Names, b \in BOOLEAN, c \in BOOLEAN :
       Runtime(g, l, n, b, c) \in Runtimes /\ Runtime(g, l, n, b, c) # Absent
  /\ \A n \in Names, l \in Seq(Sensors) :
       [name |-> n, layout |-> l] \in Devices /\ [name |-> n, layout |-> l] # Absent
  /\ \A w \in Works : w # Absent
  /\ \A e \in Entries : e # Absent
  /\ [kind |-> "remove"] \in Works
BY AbsentAssumption DEF Runtime, Runtimes, Devices, Works

LEMMA LayoutsType ==
  /\ Layouts \subseteq Seq(Sensors)
  /\ \A l \in Seq(Sensors) : /\ PersistentPart(l) \in Seq(Sensors)
                             /\ PersistentPart(PersistentPart(l)) = PersistentPart(l)
<1>1. ASSUME NEW l \in Layouts
      PROVE  l \in Seq(Sensors)
  <2>1. Range(l) \subseteq Sensors /\ l \in Seq(Range(l))
    BY LayoutsAssumption DEF Sensors
  <2> QED BY <2>1, SeqMonotonic
<1>2. ASSUME NEW l \in Seq(Sensors)
      PROVE  /\ PersistentPart(l) \in Seq(Sensors)
             /\ PersistentPart(PersistentPart(l)) = PersistentPart(l)
  <2>1. PersistentPart(l) \in Seq(Sensors \cap Persistent)
    BY FilterType DEF PersistentPart
  <2>2. PersistentPart(l) \in Seq(Sensors) /\ PersistentPart(l) \in Seq(Persistent)
    BY <2>1, SeqMonotonic
  <2>3. PersistentPart(PersistentPart(l)) = PersistentPart(l)
    BY <2>2, FilterAll DEF PersistentPart
  <2> QED BY <2>2, <2>3
<1> QED BY <1>1, <1>2

LEMMA SnapshotType ==
  ASSUME TypeOK
  PROVE  Snapshot \in Snapshots
<1>1. ASSUME NEW v \in Vmids, state[v] # Absent
      PROVE  [gen |-> state[v].gen, name |-> state[v].name,
              layout |-> PersistentPart(state[v].layout)] \in Entries
  <2>1. state[v] \in Runtimes
    BY <1>1 DEF TypeOK
  <2>2. state[v].layout \in Seq(Sensors) /\ state[v].gen \in Gens /\ state[v].name \in Names
    BY <2>1 DEF Runtimes
  <2> QED BY <2>2, LayoutsType DEF Entries
<1> QED BY <1>1 DEF Snapshot, Snapshots

LEMMA PreservedType ==
  ASSUME TypeOK, NEW v \in Vmids, KeepsSensors(v)
  PROVE  Preserved(v) \in Keeps /\ Preserved(v) \in Works
<1>1. state[v] \in Runtimes
  BY DEF TypeOK, KeepsSensors
<1>2. state[v].layout \in Seq(Sensors) /\ state[v].gen \in Gens /\ state[v].name \in Names
  BY <1>1 DEF Runtimes
<1> QED BY <1>2, LayoutsType DEF Preserved, Keeps, Works

-----------------------------------------------------------------------------
(* Types.                                                                  *)

LEMMA SendType ==
  ASSUME TypeOK, NEW v \in Vmids, NEW msgs \in Seq(Messages), Send(v, msgs)
  PROVE  /\ chan' \in [Vmids -> Seq(Messages)]
         /\ \A u \in Vmids : Len(chan'[u]) <= MaxQueue
<1>1. chan' = [chan EXCEPT ![v] = chan[v] \o msgs] /\ Len(chan[v]) + Len(msgs) <= MaxQueue
  BY DEF Send
<1>2. chan[v] \in Seq(Messages) /\ chan \in [Vmids -> Seq(Messages)]
  BY DEF TypeOK
<1>3. chan[v] \o msgs \in Seq(Messages) /\ Len(chan[v] \o msgs) <= MaxQueue
  BY <1>1, <1>2
<1> QED BY <1>1, <1>2, <1>3 DEF TypeOK

LEMMA CloseType ==
  ASSUME TypeOK, NEW v \in Vmids, Close(v)
  PROVE  /\ handler' \in [Vmids -> Handlers]
         /\ chan' \in [Vmids -> Seq(Messages)]
         /\ \A u \in Vmids : Len(chan'[u]) <= MaxQueue
<1>1. Off \in Handlers
  BY DEF Off, Handlers
<1>2. << >> \in Seq(Messages) /\ Len(<< >>) = 0 /\ MaxQueue \in Nat
  BY HostdBounds
<1> QED BY <1>1, <1>2 DEF TypeOK, Close

LEMMA FaultType ==
  ASSUME TypeOK, NEW k, Fault(k)
  PROVE  budget' \in 0 .. MaxFaults /\ crashed' \in BOOLEAN /\ erred' \in BOOLEAN
BY HostdBounds DEF TypeOK, Fault

LEMMA ReportType ==
  ASSUME NEW g \in Gens, NEW l \in Layouts
  PROVE  /\ << Hello, Schema(g, l), Sample(g, l) >> \in Seq(Messages)
         /\ << Schema(g, l), Sample(g, l) >> \in Seq(Messages)
         /\ << Sample(g, l) >> \in Seq(Messages)
         /\ << Heartbeat >> \in Seq(Messages) /\ << Goodbye >> \in Seq(Messages)
<1>1. {Schema(g, l), Sample(g, l), Hello, Heartbeat, Goodbye} \subseteq Messages
  BY DEF Schema, Sample, Hello, Heartbeat, Goodbye, Messages, Reports
<1> HIDE DEF Schema, Sample, Hello, Heartbeat, Goodbye, Messages
<1> QED BY <1>1

LEMMA AgentType ==
  ASSUME TypeOK, NEW v \in Vmids, AgentStep(v)
  PROVE  TypeOK'
<1>1. MaxGen \in Nat /\ 1 \in Gens
  BY HostdBounds DEF Gens
<1>2. agent[v] \in Agents
  BY DEF TypeOK
<1> USE DEF hostVars, agentVars, faults
<1>3. CASE AgentStart(v)
  <2>1. PICK l \in Layouts :
          /\ agent' = [agent EXCEPT ![v] = [mode |-> "up", gen |-> 1, layout |-> l]]
          /\ Send(v, << Hello, Schema(1, l), Sample(1, l) >>)
    BY <1>3 DEF AgentStart
  <2>2. [mode |-> "up", gen |-> 1, layout |-> l] \in Agents
    BY <1>1 DEF Agents
  <2>3. agent' \in [Vmids -> Agents]
    BY <2>1, <2>2 DEF TypeOK
  <2>4. chan' \in [Vmids -> Seq(Messages)] /\ \A u \in Vmids : Len(chan'[u]) <= MaxQueue
    BY <1>1, <2>1, ReportType, SendType
  <2> QED BY <1>3, <2>3, <2>4 DEF AgentStart, TypeOK
<1>4. CASE AgentResync(v)
  <2>1. agent[v].gen \in Gens /\ agent[v].layout \in Layouts
    BY <1>2, <1>4, AgentShapes DEF AgentResync
  <2>2. chan' \in [Vmids -> Seq(Messages)] /\ \A u \in Vmids : Len(chan'[u]) <= MaxQueue
    BY <1>4, <2>1, ReportType, SendType DEF AgentResync
  <2> QED BY <1>4, <2>2 DEF AgentResync, TypeOK
<1>5. CASE AgentRescan(v)
  <2>1. agent[v] \in [mode : {"up", "stalled"}, gen : Gens, layout : Layouts]
    BY <1>2, <1>5, AgentShapes DEF AgentRescan
  <2>2. PICK l \in Layouts :
          /\ agent' = [agent EXCEPT ![v] =
                         [mode |-> "up", gen |-> agent[v].gen + 1, layout |-> l]]
          /\ Send(v, << Schema(agent[v].gen + 1, l), Sample(agent[v].gen + 1, l) >>)
    BY <1>5 DEF AgentRescan
  <2>3. agent[v].gen + 1 \in Gens
    BY <1>1, <1>5, <2>1 DEF AgentRescan, Gens
  <2>4. [mode |-> "up", gen |-> agent[v].gen + 1, layout |-> l] \in Agents
    BY <2>3 DEF Agents
  <2>5. chan' \in [Vmids -> Seq(Messages)] /\ \A u \in Vmids : Len(chan'[u]) <= MaxQueue
    BY <2>2, <2>3, ReportType, SendType
  <2>6. agent' \in [Vmids -> Agents]
    BY <2>2, <2>4 DEF TypeOK
  <2> QED BY <1>5, <2>5, <2>6 DEF AgentRescan, TypeOK
<1>6. CASE AgentSample(v) \/ AgentHeartbeat(v)
  <2>1. agent[v].gen \in Gens /\ agent[v].layout \in Layouts
    BY <1>2, <1>6, AgentShapes DEF AgentSample, AgentHeartbeat
  <2>2. chan' \in [Vmids -> Seq(Messages)] /\ \A u \in Vmids : Len(chan'[u]) <= MaxQueue
    BY <1>6, <2>1, ReportType, SendType DEF AgentSample, AgentHeartbeat
  <2> QED BY <1>6, <2>2 DEF AgentSample, AgentHeartbeat, TypeOK
<1>7. CASE AgentGoodbye(v)
  <2>1. agent[v].gen \in Gens /\ agent[v].layout \in Layouts
    BY <1>2, <1>7, AgentShapes DEF AgentGoodbye
  <2>2. chan' \in [Vmids -> Seq(Messages)] /\ \A u \in Vmids : Len(chan'[u]) <= MaxQueue
    BY <1>7, <2>1, ReportType, SendType DEF AgentGoodbye
  <2>3. Down \in Agents
    BY DEF Down, Agents
  <2> QED BY <1>7, <2>2, <2>3 DEF AgentGoodbye, TypeOK
<1>8. CASE AgentCrash(v)
  <2>1. Down \in Agents
    BY DEF Down, Agents
  <2> QED BY <1>8, <2>1 DEF AgentCrash, TypeOK
<1>9. CASE AgentStall(v) \/ AgentResume(v)
  <2>1. agent[v] \in [mode : {"up", "stalled"}, gen : Gens, layout : Layouts]
    BY <1>2, <1>9, AgentShapes DEF AgentStall, AgentResume
  <2>2. /\ [agent[v] EXCEPT !.mode = "stalled"] \in Agents
        /\ [agent[v] EXCEPT !.mode = "up"] \in Agents
    BY <2>1 DEF Agents
  <2>3. agent' \in [Vmids -> Agents]
    BY <1>9, <2>2 DEF AgentStall, AgentResume, TypeOK
  <2>4. budget' \in 0 .. MaxFaults /\ crashed' \in BOOLEAN /\ erred' \in BOOLEAN
    BY <1>9, FaultType DEF AgentStall, AgentResume, TypeOK
  <2> QED BY <1>9, <2>3, <2>4 DEF AgentStall, AgentResume, TypeOK
<1> QED BY <1>3, <1>4, <1>5, <1>6, <1>7, <1>8, <1>9 DEF AgentStep

(* The reading and connecting steps of a handler.                          *)
LEMMA ReadType ==
  ASSUME TypeOK, NEW v \in Vmids,
         \/ Connect(v) \/ HandleHello(v) \/ ScanSocket(v) \/ ReadTimeout(v) \/ Elapse(v)
         \/ \E retry \in BOOLEAN : Receive(v, retry)
  PROVE  TypeOK'
<1> USE DEF agentVars, hostVars, faults, file, Goto
<1>1. Reading \in Handlers /\ [pc |-> "connect"] \in Handlers
  BY DEF Reading, Handlers
<1>2. CASE Connect(v) \/ HandleHello(v) \/ ScanSocket(v)
  <2>1. handler' \in [Vmids -> Handlers]
    BY <1>1, <1>2 DEF Connect, HandleHello, ScanSocket, TypeOK
  <2>2. names' \in [Vmids -> Names \cup {Absent}]
    BY <1>2 DEF Connect, HandleHello, ScanSocket, TypeOK, Names
  <2>3. NeedsResync(v) \in BOOLEAN
    BY DEF NeedsResync, TypeOK, Runtimes
  <2>4. resync' \in [Vmids -> BOOLEAN]
    BY <1>2, <2>3 DEF Connect, HandleHello, ScanSocket, TypeOK
  <2> QED BY <1>2, <2>1, <2>2, <2>4 DEF Connect, HandleHello, ScanSocket, TypeOK
<1>3. CASE ReadTimeout(v)
  BY <1>3, CloseType DEF ReadTimeout, TypeOK
<1>4. CASE Elapse(v)
  BY <1>4 DEF Elapse, TypeOK
<1>5. CASE \E retry \in BOOLEAN : Receive(v, retry)
  <2>1. PICK retry \in BOOLEAN : Receive(v, retry)
    BY <1>5
  <2>2. chan[v] \in Seq(Messages) /\ chan[v] # << >> /\ Len(chan[v]) <= MaxQueue
    BY <2>1 DEF Receive, TypeOK
  <2>3. Head(chan[v]) \in Messages
    BY <2>2
  <2>4. /\ Tail(chan[v]) \in Seq(Messages) /\ Len(Tail(chan[v])) <= MaxQueue
    BY <2>2, HostdBounds
  <2>5. chan' \in [Vmids -> Seq(Messages)] /\ \A u \in Vmids : Len(chan'[u]) <= MaxQueue
    BY <2>1, <2>4 DEF Receive, TypeOK
  <2>6. state' \in [Vmids -> Runtimes \cup {Absent}]
    <3>1. CASE state[v] = Absent
      BY <2>1, <3>1 DEF Receive, TypeOK
    <3>2. CASE state[v] # Absent
      <4>1. state[v] \in Runtimes
        BY <3>2 DEF TypeOK
      <4>2. [state[v] EXCEPT !.offline = FALSE] \in Runtimes
        BY <4>1 DEF Runtimes
      <4>3. state' = [state EXCEPT ![v] = [state[v] EXCEPT !.offline = FALSE]]
        BY <2>1, <3>2 DEF Receive
      <4> QED BY <4>2, <4>3 DEF TypeOK
    <3> QED BY <3>1, <3>2
  <2>7. handler' \in [Vmids -> Handlers]
    <3> DEFINE m == Head(chan[v])
               h == IF m.type = "heartbeat" THEN Reading ELSE [pc |-> m.type, msg |-> m]
    <3>1. h \in Handlers
      BY <1>1, <2>3 DEF Handlers, Messages, Reports
    <3>2. handler' = [handler EXCEPT ![v] = h]
      BY <2>1 DEF Receive
    <3> HIDE DEF h
    <3> QED BY <3>1, <3>2 DEF TypeOK
  <2>8. resync' \in [Vmids -> BOOLEAN] /\ quiet' \in [Vmids -> BOOLEAN]
    BY <2>1 DEF Receive, TypeOK
  <2> QED BY <2>1, <2>5, <2>6, <2>7, <2>8 DEF Receive, TypeOK
<1> QED BY <1>2, <1>3, <1>4, <1>5

(* What a schema or a goodbye makes of the runtime.                        *)
LEMMA InsertType ==
  ASSUME TypeOK, NEW v \in Vmids, NEW p, p.gen \in Gens, p.name \in Names,
         p.layout \in Seq(Sensors), InsertDefaults(v, p)
  PROVE  state' \in [Vmids -> Runtimes \cup {Absent}] /\ quiet' \in [Vmids -> BOOLEAN]
BY Present DEF InsertDefaults, TypeOK

LEMMA InstallType ==
  ASSUME TypeOK, NEW v \in Vmids, NEW p, p.name \in Names, p.layout \in Seq(Sensors),
         InstallSucceeds(v, p) \/ InstallFails(v, p)
  PROVE  /\ kern' \in [Vmids -> Devices \cup {Absent}]
         /\ budget' \in 0 .. MaxFaults /\ crashed' \in BOOLEAN /\ erred' \in BOOLEAN
<1>1. kern' = kern \/ KernelInstalls(v, p.name, p.layout)
  BY DEF InstallSucceeds, InstallFails
<1>2. kern' \in [Vmids -> Devices \cup {Absent}]
  <2>1. [name |-> p.name, layout |-> p.layout] \in Devices
    BY Present
  <2>2. CASE KernelInstalls(v, p.name, p.layout)
    BY <2>1, <2>2 DEF KernelInstalls, TypeOK
  <2> QED BY <1>1, <2>2 DEF TypeOK
<1>3. budget' \in 0 .. MaxFaults /\ crashed' \in BOOLEAN /\ erred' \in BOOLEAN
  BY FaultType DEF InstallSucceeds, InstallFails, faults, TypeOK
<1> QED BY <1>2, <1>3

LEMMA SchemaType ==
  ASSUME TypeOK, NEW v \in Vmids,
         \/ SchemaName(v) \/ SchemaDrop(v) \/ SchemaDecide(v) \/ SchemaUpdate(v)
         \/ SchemaSet(v) \/ SchemaSetFails(v) \/ SchemaInsert(v)
  PROVE  TypeOK'
<1> USE DEF agentVars, hostVars, faults, file, Goto
<1> DEFINE h == handler[v]
           Carrying == [pc : {"decide", "update", "set_schema", "insert"}, msg : Reports,
                        name : Names]
<1>1. h \in Handlers
  BY DEF TypeOK
<1>2. Reading \in Handlers /\ [pc |-> "save"] \in Handlers
  BY DEF Reading, Handlers
<1>3. CASE SchemaName(v)
  <2>1. h.msg \in Reports
    BY <1>1, <1>3, HandlerShapes DEF SchemaName
  <2>2. NameOf(v) \in Names
    BY DEF NameOf, TypeOK, Names
  <2>3. [pc |-> "decide", msg |-> h.msg, name |-> NameOf(v)] \in Handlers
    BY <2>1, <2>2 DEF Handlers
  <2> QED BY <1>3, <2>3 DEF SchemaName, TypeOK
<1>4. CASE SchemaDrop(v)
  BY <1>2, <1>4, FaultType DEF SchemaDrop, TypeOK
<1>5. CASE SchemaDecide(v)
  <2>1. h \in Carrying
    BY <1>1, <1>5, HandlerShapes DEF SchemaDecide
  <2>2. /\ [h EXCEPT !.pc = "update"] \in Handlers
        /\ [h EXCEPT !.pc = "set_schema"] \in Handlers
    BY <2>1 DEF Handlers
  <2>3. handler' \in [Vmids -> Handlers]
    BY <1>5, <2>2 DEF SchemaDecide, TypeOK
  <2> QED BY <1>5, <2>3 DEF SchemaDecide, TypeOK
<1>6. CASE SchemaUpdate(v) \/ SchemaInsert(v)
  <2>1. h \in Carrying
    BY <1>1, <1>6, HandlerShapes DEF SchemaUpdate, SchemaInsert
  <2>2. h.msg.gen \in Gens /\ h.msg.layout \in Seq(Sensors) /\ h.name \in Names
    BY <2>1, LayoutsType DEF Reports
  <2>3. state[v] # Absent => state[v].name \in Names
    BY DEF TypeOK, Runtimes
  <2>4. state' \in [Vmids -> Runtimes \cup {Absent}]
    <3>1. /\ Runtime(h.msg.gen, h.msg.layout, h.name, TRUE, FALSE) \in Runtimes
          /\ state[v] # Absent =>
               Runtime(h.msg.gen, h.msg.layout, state[v].name, TRUE, FALSE) \in Runtimes
      BY <2>2, <2>3, Present
    <3>2. CASE SchemaUpdate(v)
      BY <3>1, <3>2 DEF SchemaUpdate, TypeOK
    <3>3. CASE SchemaInsert(v)
      BY <3>1, <3>3 DEF SchemaInsert, TypeOK
    <3> QED BY <1>6, <3>2, <3>3
  <2>5. handler' \in [Vmids -> Handlers] /\ quiet' \in [Vmids -> BOOLEAN]
    BY ZenonT(60), <1>2, <1>6 DEF SchemaUpdate, SchemaInsert, TypeOK
  <2> QED BY <1>6, <2>4, <2>5 DEF SchemaUpdate, SchemaInsert, TypeOK
<1>7. CASE SchemaSet(v)
  <2>1. h \in Carrying
    BY <1>1, <1>7, HandlerShapes DEF SchemaSet
  <2>2. h.msg.layout \in Seq(Sensors) /\ h.name \in Names
    BY <2>1, LayoutsType DEF Reports
  <2>3. [h EXCEPT !.pc = "insert"] \in Handlers
    BY <2>1 DEF Handlers
  <2>4. handler' \in [Vmids -> Handlers] /\ kern' \in [Vmids -> Devices \cup {Absent}]
    BY <1>7, <2>2, <2>3, Present DEF SchemaSet, TypeOK
  <2> QED BY <1>7, <2>4 DEF SchemaSet, TypeOK
<1>8. CASE SchemaSetFails(v)
  BY <1>8, CloseType, FaultType DEF SchemaSetFails, TypeOK
<1> QED BY <1>3, <1>4, <1>5, <1>6, <1>7, <1>8

(* A save and its outcomes, of a handler or of the main thread.            *)
LEMMA SaveType ==
  ASSUME TypeOK,
         \/ RemovedSnapshot \/ RemovedSave
         \/ \E v \in Vmids : \/ HandlerSnapshot(v) \/ HandlerSave(v) \/ HandlerSaveFails(v)
                            \/ MainSnapshot(v) \/ MainSave(v)
  PROVE  TypeOK'
<1> USE DEF agentVars, hostVars, faults, file, Goto
<1>1. ASSUME BeginSave
      PROVE  cache' \in Snapshots /\ alone' \in BOOLEAN /\ spoilt' \in BOOLEAN
  BY <1>1 DEF BeginSave, TypeOK
<1>2. ASSUME NEW snap \in Snapshots, Save(snap)
      PROVE  cache' \in Snapshots /\ alone' \in BOOLEAN /\ spoilt' \in BOOLEAN
  BY <1>2 DEF Save, TypeOK
<1>3. ASSUME SaveFails
      PROVE  /\ cache' \in Snapshots /\ alone' \in BOOLEAN /\ spoilt' \in BOOLEAN
             /\ budget' \in 0 .. MaxFaults /\ crashed' \in BOOLEAN /\ erred' \in BOOLEAN
  BY <1>3, FaultType DEF SaveFails, TypeOK
<1>4. ASSUME NEW v \in Vmids, HandlerSnapshot(v)
      PROVE  TypeOK'
  <2>1. [pc |-> "write", snap |-> Snapshot] \in Handlers
    BY SnapshotType DEF Handlers
  <2> QED BY <1>1, <1>4, <2>1 DEF HandlerSnapshot, TypeOK
<1>5. ASSUME NEW v \in Vmids, HandlerSave(v)
      PROVE  TypeOK'
  <2>1. handler[v].snap \in Snapshots
    BY <1>5, HandlerShapes DEF HandlerSave, TypeOK
  <2>2. Reading \in Handlers
    BY DEF Reading, Handlers
  <2> QED BY <1>2, <1>5, <2>1, <2>2 DEF HandlerSave, TypeOK
<1>6. ASSUME NEW v \in Vmids, HandlerSaveFails(v)
      PROVE  TypeOK'
  BY <1>3, <1>6, CloseType DEF HandlerSaveFails, TypeOK
<1>7. ASSUME NEW v \in Vmids, MainSnapshot(v)
      PROVE  TypeOK'
  <2>1. main.removed \in BOOLEAN
    BY <1>7, MainShapes DEF MainSnapshot, TypeOK
  <2>2. [pc |-> "write", at |-> v, removed |-> main.removed, snap |-> Snapshot] \in Mains
    BY <2>1, SnapshotType DEF Mains
  <2> QED BY <1>1, <1>7, <2>2 DEF MainSnapshot, TypeOK
<1>8. ASSUME NEW v \in Vmids, MainSave(v)
      PROVE  TypeOK'
  <2>1. main.removed \in BOOLEAN /\ main.snap \in Snapshots
    BY <1>8, MainShapes DEF MainSave, TypeOK
  <2>2. [pc |-> "work", removed |-> main.removed] \in Mains
    BY <2>1 DEF Mains
  <2>3. main' \in Mains /\ work' \in [Vmids -> Works \cup {Absent}]
    BY <1>8, <2>2 DEF MainSave, TypeOK
  <2>4. CASE Save(main.snap) /\ UNCHANGED faults
    BY <1>2, <1>8, <2>1, <2>3, <2>4 DEF MainSave, TypeOK
  <2>5. CASE SaveFails
    BY <1>3, <1>8, <2>3, <2>5 DEF MainSave, TypeOK
  <2> QED BY <1>8, <2>4, <2>5 DEF MainSave
<1>9. CASE RemovedSnapshot
  <2>1. [pc |-> "last", snap |-> Snapshot] \in Mains
    BY SnapshotType DEF Mains
  <2> QED BY <1>1, <1>9, <2>1 DEF RemovedSnapshot, TypeOK
<1>10. CASE RemovedSave
  <2>1. main.snap \in Snapshots
    BY <1>10, MainShapes DEF RemovedSave, TypeOK
  <2>2. [pc |-> "loop"] \in Mains
    BY DEF Mains
  <2>3. CASE Save(main.snap) /\ UNCHANGED faults
    BY <1>2, <1>10, <2>1, <2>2, <2>3 DEF RemovedSave, TypeOK
  <2>4. CASE SaveFails
    BY <1>3, <1>10, <2>2, <2>4 DEF RemovedSave, TypeOK
  <2> QED BY <1>10, <2>3, <2>4 DEF RemovedSave
<1> QED BY <1>4, <1>5, <1>6, <1>7, <1>8, <1>9, <1>10

LEMMA SampleType ==
  ASSUME TypeOK, NEW v \in Vmids, SampleLookup(v) \/ SampleValues(v) \/ SampleFails(v)
  PROVE  TypeOK'
<1> USE DEF agentVars, hostVars, faults, file, Goto
<1>1. handler[v] \in Handlers /\ Reading \in Handlers
  BY DEF TypeOK, Reading, Handlers
<1>2. CASE SampleLookup(v)
  <2>1. handler[v].msg \in Reports
    BY <1>1, <1>2, HandlerShapes DEF SampleLookup
  <2>2. state[v] # Absent => state[v].layout \in Seq(Sensors)
    BY DEF TypeOK, Runtimes
  <2>3. state[v] # Absent =>
          [pc |-> "values", msg |-> handler[v].msg, mapping |-> state[v].layout] \in Handlers
    BY <2>1, <2>2 DEF Handlers
  <2>4. handler' \in [Vmids -> Handlers]
    BY <1>1, <1>2, <2>3 DEF SampleLookup, TypeOK
  <2> QED BY <1>2, <2>4 DEF SampleLookup, TypeOK
<1>3. CASE SampleValues(v)
  BY <1>1, <1>3 DEF SampleValues, TypeOK
<1>4. CASE SampleFails(v)
  <2>1. budget' \in 0 .. MaxFaults /\ crashed' \in BOOLEAN /\ erred' \in BOOLEAN
    BY <1>4, FaultType DEF SampleFails, TypeOK
  <2> QED BY <1>4, <2>1, CloseType DEF SampleFails, TypeOK
<1> QED BY <1>2, <1>3, <1>4

LEMMA ByeType ==
  ASSUME TypeOK, NEW v \in Vmids,
         \/ ByePreserve(v) \/ ByeInstall(v) \/ ByeInsert(v)
         \/ ByeDecideRemove(v) \/ ByeRemove(v) \/ ByeName(v) \/ ByeKernel(v)
  PROVE  TypeOK'
<1> USE DEF agentVars, hostVars, faults, file, Goto
<1> DEFINE h == handler[v]
<1>1. h \in Handlers
  BY DEF TypeOK
<1>2. /\ [pc |-> "bye_remove"] \in Handlers /\ [pc |-> "bye_name"] \in Handlers
      /\ [pc |-> "bye_kernel"] \in Handlers /\ [pc |-> "save"] \in Handlers
  BY DEF Handlers
<1>3. CASE ByePreserve(v)
  <2>1. [pc |-> "bye_install", keep |-> Preserved(v)] \in Handlers
    BY <1>3, PreservedType DEF ByePreserve, Handlers
  <2>2. state[v] \in Runtimes
    BY <1>3 DEF ByePreserve, KeepsSensors, TypeOK
  <2>3. [state[v] EXCEPT !.offline = TRUE] \in Runtimes
    BY <2>2 DEF Runtimes
  <2>4. state' = [state EXCEPT ![v] = [state[v] EXCEPT !.offline = TRUE]]
    BY <1>3 DEF ByePreserve
  <2>5. state' \in [Vmids -> Runtimes \cup {Absent}]
    BY <2>3, <2>4 DEF TypeOK
  <2>6. handler' \in [Vmids -> Handlers]
    BY <1>3, <2>1 DEF ByePreserve, TypeOK
  <2> QED BY <1>3, <2>5, <2>6 DEF ByePreserve, TypeOK
<1>4. CASE ByeInstall(v)
  <2>1. h \in [pc : {"bye_install", "bye_insert"}, keep : Keeps]
    BY <1>1, <1>4, HandlerShapes DEF ByeInstall
  <2>2. h.keep.name \in Names /\ h.keep.layout \in Seq(Sensors)
    BY <2>1 DEF Keeps
  <2>3. /\ kern' \in [Vmids -> Devices \cup {Absent}]
        /\ budget' \in 0 .. MaxFaults /\ crashed' \in BOOLEAN /\ erred' \in BOOLEAN
    BY <1>4, <2>2, InstallType DEF ByeInstall
  <2>4. [h EXCEPT !.pc = "bye_insert"] \in Handlers
    BY <2>1 DEF Handlers
  <2>5. /\ handler' \in [Vmids -> Handlers] /\ chan' \in [Vmids -> Seq(Messages)]
        /\ \A u \in Vmids : Len(chan'[u]) <= MaxQueue
    BY <1>4, <2>4, CloseType DEF ByeInstall, TypeOK
  <2> QED BY <1>4, <2>3, <2>5 DEF ByeInstall, TypeOK
<1>5. CASE ByeInsert(v)
  <2>1. h.keep \in Keeps
    BY <1>1, <1>5, HandlerShapes DEF ByeInsert
  <2>2. state' \in [Vmids -> Runtimes \cup {Absent}] /\ quiet' \in [Vmids -> BOOLEAN]
    BY <1>5, <2>1, InsertType DEF ByeInsert, Keeps
  <2>3. handler' \in [Vmids -> Handlers]
    BY <1>2, <1>5 DEF ByeInsert, TypeOK
  <2> QED BY <1>5, <2>2, <2>3 DEF ByeInsert, TypeOK
<1>6. CASE ByeDecideRemove(v)
  BY <1>2, <1>6 DEF ByeDecideRemove, TypeOK
<1>7. CASE ByeRemove(v)
  BY <1>2, <1>7 DEF ByeRemove, TypeOK
<1>8. CASE ByeName(v)
  BY <1>2, <1>8 DEF ByeName, TypeOK
<1>9. CASE ByeKernel(v)
  BY <1>2, <1>9 DEF ByeKernel, TypeOK
<1> QED BY <1>3, <1>4, <1>5, <1>6, <1>7, <1>8, <1>9

LEMMA MainType ==
  ASSUME TypeOK, NEW v \in Vmids, AtWork(v), Restoring(v),
         \/ MainInstall(v) \/ MainInsert(v)
         \/ MainForgetName(v) \/ MainRemove(v) \/ Restore(v)
  PROVE  TypeOK'
<1> USE DEF agentVars, hostVars, faults, file
<1>1. main \in Mains
  BY DEF TypeOK
<1>2. CASE MainInstall(v)
  <2>1. main.removed \in BOOLEAN
    BY <1>1, <1>2, MainShapes DEF MainInstall
  <2>2. [pc |-> "insert", at |-> v, removed |-> main.removed] \in Mains
    BY <2>1 DEF Mains
  <2>3. work[v] \in Keeps
    BY <1>2, WorkShapes DEF MainInstall, Todo, TypeOK
  <2>4. work[v].name \in Names /\ work[v].layout \in Seq(Sensors)
    BY <2>3 DEF Keeps
  <2>5. /\ kern' \in [Vmids -> Devices \cup {Absent}]
        /\ budget' \in 0 .. MaxFaults /\ crashed' \in BOOLEAN /\ erred' \in BOOLEAN
    BY <1>2, <2>4, InstallType DEF MainInstall
  <2>6. main' \in Mains /\ work' \in [Vmids -> Works \cup {Absent}]
    BY <1>1, <1>2, <2>2 DEF MainInstall, TypeOK
  <2> QED BY <1>2, <2>5, <2>6 DEF MainInstall, TypeOK
<1>3. CASE MainInsert(v)
  <2>1. main \in [pc : {"insert", "save", "unlink"}, at : Vmids, removed : BOOLEAN]
    BY <1>1, <1>3, MainShapes DEF MainInsert
  <2>2. [main EXCEPT !.pc = "save"] \in Mains
    BY <2>1 DEF Mains
  <2>3. work[v] \in Keeps
    BY <1>3, WorkShapes DEF MainInsert, AtWork, TypeOK
  <2>4. state' \in [Vmids -> Runtimes \cup {Absent}] /\ quiet' \in [Vmids -> BOOLEAN]
    BY <1>3, <2>3, InsertType DEF MainInsert, Keeps
  <2> QED BY <1>3, <2>2, <2>4 DEF MainInsert, TypeOK
<1>5. CASE MainForgetName(v)
  <2>1. [pc |-> "unlink", at |-> v, removed |-> TRUE] \in Mains
    BY DEF Mains
  <2> QED BY <1>5, <2>1 DEF MainForgetName, TypeOK
<1>6. CASE MainRemove(v)
  <2>1. [pc |-> "work", removed |-> TRUE] \in Mains
    BY DEF Mains
  <2> QED BY <1>6, <2>1 DEF MainRemove, TypeOK
<1>7. CASE Restore(v)
  <2>1. main \in [pc : {"restore"}, todo : SUBSET Vmids]
    BY <1>1, <1>7, MainShapes DEF Restore
  <2>2. [main EXCEPT !.todo = main.todo \ {v}] \in Mains
    BY <2>1 DEF Mains
  <2>3. cache[v] \in Entries
    BY <1>7 DEF Restore, Restoring, TypeOK, Snapshots
  <2>4. cache[v].gen \in Gens /\ cache[v].name \in Names /\ cache[v].layout \in Seq(Sensors)
    BY <2>3 DEF Entries
  <2>5. state' \in [Vmids -> Runtimes \cup {Absent}] /\ quiet' \in [Vmids -> BOOLEAN]
    BY <1>7, <2>4, InsertType DEF Restore, TypeOK
  <2>6. /\ kern' \in [Vmids -> Devices \cup {Absent}]
        /\ budget' \in 0 .. MaxFaults /\ crashed' \in BOOLEAN /\ erred' \in BOOLEAN
    BY <1>7, <2>4, InstallType DEF Restore
  <2>7. names' \in [Vmids -> Names \cup {Absent}]
    BY <1>7, <2>4 DEF Restore, TypeOK
  <2>8. main' \in Mains
    BY <1>7, <2>2 DEF Restore
  <2> QED BY <1>7, <2>5, <2>6, <2>7, <2>8 DEF Restore, TypeOK
<1> QED BY <1>2, <1>3, <1>5, <1>6, <1>7

LEMMA RoundType ==
  ASSUME TypeOK, CheckHeartbeats \/ CheckDone \/ RestoreDone \/ Crash
  PROVE  TypeOK'
<1> USE DEF agentVars, hostVars, faults, file
<1>1. [pc |-> "loop"] \in Mains
  BY DEF Mains
<1>2. CASE CheckHeartbeats
  <2> DEFINE overdue == {v \in Vmids : Overdue(v)}
             removed == {v \in overdue : Policy # "warn_only" /\ ~KeepsSensors(v)}
             kept == {v \in overdue : Policy # "warn_only" /\ KeepsSensors(v)}
  <2>1. main' = [pc |-> "work", removed |-> removed # {}]
    BY <1>2 DEF CheckHeartbeats
  <2>2. main' \in Mains
    BY <2>1 DEF Mains
  <2>3. ASSUME NEW v \in Vmids
        PROVE  /\ (IF v \in removed THEN Absent
                   ELSE IF v \in overdue THEN [state[v] EXCEPT !.offline = TRUE]
                   ELSE state[v]) \in Runtimes \cup {Absent}
               /\ (IF v \in removed THEN [kind |-> "remove"]
                   ELSE IF v \in kept THEN Preserved(v)
                   ELSE Absent) \in Works \cup {Absent}
    <3>1. v \in overdue => state[v] \in Runtimes
      BY DEF Overdue, TypeOK
    <3>2. v \in overdue => [state[v] EXCEPT !.offline = TRUE] \in Runtimes
      BY <3>1 DEF Runtimes
    <3>3. v \in kept => Preserved(v) \in Works
      BY PreservedType
    <3> QED BY <3>2, <3>3, Present DEF TypeOK
  <2>4. state' = [v \in Vmids |->
                    IF v \in removed THEN Absent
                    ELSE IF v \in overdue THEN [state[v] EXCEPT !.offline = TRUE]
                    ELSE state[v]]
    BY <1>2 DEF CheckHeartbeats
  <2>5. work' = [v \in Vmids |->
                   IF v \in removed THEN [kind |-> "remove"]
                   ELSE IF v \in kept THEN Preserved(v)
                   ELSE Absent]
    BY <1>2 DEF CheckHeartbeats
  <2> HIDE DEF removed, overdue, kept
  <2>6. /\ state' \in [Vmids -> Runtimes \cup {Absent}]
        /\ work' \in [Vmids -> Works \cup {Absent}]
    BY <2>3, <2>4, <2>5
  <2> QED BY <1>2, <2>2, <2>6 DEF CheckHeartbeats, TypeOK
<1>3. CASE CheckDone
  BY <1>1, <1>3 DEF CheckDone, TypeOK
<1>4. CASE RestoreDone
  BY <1>1, <1>4 DEF RestoreDone, TypeOK
<1>5. CASE Crash
  <2>1. Off \in Handlers /\ << >> \in Seq(Messages) /\ Len(<< >>) <= MaxQueue
    BY HostdBounds DEF Off, Handlers
  <2>2. main' \in Mains
    BY <1>5 DEF Crash, Mains
  <2>3. budget' \in 0 .. MaxFaults /\ crashed' \in BOOLEAN /\ erred' \in BOOLEAN
    BY <1>5, FaultType DEF Crash
  <2> QED BY <1>5, <2>1, <2>2, <2>3 DEF Crash, TypeOK
<1> QED BY <1>2, <1>3, <1>4, <1>5

(* The maps are functions: an update at another VM leaves v alone.         *)
LEMMA Maps ==
  ASSUME TypeOK
  PROVE  /\ DOMAIN state = Vmids /\ DOMAIN work = Vmids /\ DOMAIN handler = Vmids
         /\ DOMAIN kern = Vmids /\ DOMAIN agent = Vmids /\ DOMAIN chan = Vmids
         /\ DOMAIN quiet = Vmids
         /\ \A u, v \in Vmids : u # v =>
              /\ \A x : [state EXCEPT ![u] = x][v] = state[v]
              /\ \A x : [work EXCEPT ![u] = x][v] = work[v]
              /\ \A x : [handler EXCEPT ![u] = x][v] = handler[v]
              /\ \A x : [kern EXCEPT ![u] = x][v] = kern[v]
              /\ \A x : [agent EXCEPT ![u] = x][v] = agent[v]
              /\ \A x : [chan EXCEPT ![u] = x][v] = chan[v]
              /\ \A x : [quiet EXCEPT ![u] = x][v] = quiet[v]
BY DEF TypeOK

LEMMA FaultMonotone ==
  ASSUME TypeOK, NEW k, Fault(k)
  PROVE  crashed => crashed'
BY DEF Fault

(* Types rest on the order of the main thread alone.                       *)
LEMMA TypeStep ==
  ASSUME TypeOK, Orderly, [Next]_vars
  PROVE  TypeOK'
<1>1. ASSUME NEW v \in Vmids, HandlerStep(v) PROVE TypeOK'
  BY <1>1, ReadType, SchemaType, SaveType, SampleType, ByeType DEF HandlerStep
<1>2. ASSUME NEW v \in Vmids,
             ScanSocket(v) \/ ReadTimeout(v) \/ Elapse(v)
               \/ \E retry \in BOOLEAN : Receive(v, retry)
      PROVE  TypeOK'
  BY <1>2, ReadType
<1>3. CASE MainStep
  <2>1. ASSUME NEW v \in Vmids, \/ MainInstall(v) \/ MainInsert(v) \/ MainForgetName(v)
                               \/ MainRemove(v) \/ Restore(v)
        PROVE  TypeOK'
    BY <2>1, MainType DEF Orderly
  <2> QED BY <1>3, <2>1, SaveType, RoundType DEF MainStep
<1>4. CASE UNCHANGED vars
  BY <1>4 DEF vars, faults, TypeOK
<1> QED BY <1>1, <1>2, <1>3, <1>4, AgentType, RoundType DEF Next

LEMMA OrderlyStep ==
  ASSUME TypeOK, Orderly, [Next]_vars
  PROVE  Orderly'
<1>1. ASSUME UNCHANGED << main, work >>, main.pc # "restore"
      PROVE  Orderly'
  BY <1>1 DEF Orderly, AtWork, Restoring
<1>2. ASSUME UNCHANGED << hostVars, quiet >>, crashed => crashed'
      PROVE  Orderly'
  BY <1>2 DEF Orderly, AtWork, Restoring, hostVars
<1>3. ASSUME NEW v \in Vmids,
             \/ HandlerStep(v) \/ ScanSocket(v) \/ ReadTimeout(v) \/ Elapse(v)
             \/ \E retry \in BOOLEAN : Receive(v, retry)
      PROVE  Orderly'
  <2>1. UNCHANGED << main, work >>
    BY <1>3 DEF HandlerStep, Connect, HandleHello, SchemaName, SchemaDrop, SchemaDecide,
       SchemaUpdate, SchemaSet, SchemaSetFails, SchemaInsert, HandlerSnapshot, HandlerSave,
       HandlerSaveFails, SampleLookup,
       SampleValues, SampleFails, ByePreserve, ByeInstall, ByeInsert, ByeDecideRemove,
       ByeRemove, ByeName, ByeKernel, ScanSocket, ReadTimeout, Elapse, Receive, hostVars
  <2>2. handler[v].pc # "off" \/ main.pc = "loop"
    BY <1>3 DEF HandlerStep, Connect, HandleHello, SchemaName, SchemaDrop, SchemaDecide,
       SchemaUpdate, SchemaSet, SchemaSetFails, SchemaInsert, HandlerSnapshot, HandlerSave,
       HandlerSaveFails, SampleLookup,
       SampleValues, SampleFails, ByePreserve, ByeInstall, ByeInsert, ByeDecideRemove,
       ByeRemove, ByeName, ByeKernel, ScanSocket, ReadTimeout, Elapse, Receive
  <2>3. main.pc # "restore"
    BY <2>2 DEF Orderly, Restoring
  <2> QED BY <1>1, <2>1, <2>3
<1>4. ASSUME NEW v \in Vmids, AgentStep(v)
      PROVE  Orderly'
  <2>1. UNCHANGED << hostVars, quiet >> /\ (crashed => crashed')
    BY <1>4, FaultMonotone DEF AgentStep, AgentStart, AgentResync, AgentRescan, AgentSample,
       AgentHeartbeat, AgentGoodbye, AgentCrash, AgentStall, AgentResume, faults
  <2> QED BY <1>2, <2>1
<1>5. ASSUME NEW v \in Vmids, MainInstall(v)
      PROVE  Orderly'
  <2>1. v \in Vmids /\ main.pc = "work" /\ work[v] # Absent /\ work[v].kind = "preserve"
    BY <1>5 DEF MainInstall, Todo
  <2>2. \/ main' = [pc |-> "insert", at |-> v, removed |-> main.removed] /\ work' = work
        \/ main' = main /\ work' = [work EXCEPT ![v] = Absent]
    BY <1>5 DEF MainInstall
  <2>3. DOMAIN work = Vmids
    BY DEF TypeOK
  <2> QED BY <2>1, <2>2, <2>3 DEF Orderly, AtWork, Restoring
<1>6. ASSUME NEW v \in Vmids, MainInsert(v)
      PROVE  Orderly'
  <2>1. main \in [pc : {"insert", "save", "unlink"}, at : Vmids, removed : BOOLEAN]
    BY <1>6, MainShapes DEF MainInsert, TypeOK
  <2>2. main'.pc = "save" /\ main'.at = v /\ work' = work
    BY <1>6, <2>1 DEF MainInsert
  <2> QED BY <1>6, <2>2 DEF MainInsert, Orderly, AtWork, Restoring
<1>7. ASSUME NEW v \in Vmids, MainSave(v) \/ MainRemove(v)
      PROVE  Orderly'
  <2>1. main'.pc = "work" /\ work' = [work EXCEPT ![v] = Absent]
        /\ main.pc \in {"write", "unlink"}
    BY <1>7 DEF MainSave, MainRemove
  <2>2. DOMAIN work = Vmids
    BY DEF TypeOK
  <2> QED BY <2>1, <2>2 DEF Orderly, AtWork, Restoring
<1>13. ASSUME NEW v \in Vmids, MainSnapshot(v)
       PROVE  Orderly'
  <2>1. /\ main.pc = "save" /\ main.at = v /\ main'.pc = "write" /\ main'.at = v
        /\ work' = work
    BY <1>13 DEF MainSnapshot
  <2> QED BY <2>1 DEF Orderly, AtWork, Restoring
<1>8. ASSUME NEW v \in Vmids, MainForgetName(v)
      PROVE  Orderly'
  <2>1. /\ main.pc = "work" /\ main' = [pc |-> "unlink", at |-> v, removed |-> TRUE]
        /\ work[v] # Absent /\ work[v].kind = "remove" /\ work' = work
    BY <1>8 DEF MainForgetName, Todo
  <2> QED BY <2>1 DEF Orderly, AtWork, Restoring
<1>9. ASSUME NEW v \in Vmids, Restore(v)
      PROVE  Orderly'
  <2>1. /\ main.pc = "restore" /\ main' = [main EXCEPT !.todo = main.todo \ {v}]
        /\ UNCHANGED << cache, work, handler >>
        /\ \A u \in Vmids \ {v} : state'[u] = state[u] /\ quiet'[u] = quiet[u]
        /\ quiet'[v] = quiet[v] \/ ~quiet'[v]
    BY <1>9, Maps DEF Restore, InsertDefaults, TypeOK
  <2>2. main \in [pc : {"restore"}, todo : SUBSET Vmids]
    BY <2>1, MainShapes DEF TypeOK
  <2>3. main'.pc = "restore" /\ main'.todo = main.todo \ {v}
    BY <2>1, <2>2
  <2>4. crashed
    BY <2>1 DEF Orderly, Restoring
  <2>5. crashed'
    BY <1>9, <2>4 DEF Restore, InstallSucceeds, InstallFails, Fault, faults
  <2> QED BY <2>1, <2>3, <2>5 DEF Orderly, AtWork, Restoring
<1>10. CASE CheckHeartbeats \/ CheckDone \/ RemovedSnapshot \/ RemovedSave \/ RestoreDone
  <2>1. CASE CheckHeartbeats
    BY <2>1 DEF CheckHeartbeats, Orderly, AtWork, Restoring
  <2>2. CASE CheckDone \/ RemovedSnapshot \/ RemovedSave \/ RestoreDone
    <3>1. /\ main'.pc \in {"loop", "last"} /\ work' = work
          /\ \A v \in Vmids : work[v] = Absent
      BY <2>2 DEF CheckDone, RemovedSnapshot, RemovedSave, RestoreDone, Orderly, AtWork
    <3> QED BY <3>1 DEF Orderly, AtWork, Restoring
  <2> QED BY <1>10, <2>1, <2>2
<1>11. CASE Crash
  <2>1. /\ main' = [pc |-> "restore", todo |-> {v \in Vmids : cache[v] # Absent}]
        /\ cache' = cache /\ crashed'
        /\ \A v \in Vmids : /\ state'[v] = Absent /\ work'[v] = Absent /\ ~quiet'[v]
                            /\ handler'[v] = Off
    BY <1>11 DEF Crash, Fault
  <2> QED BY <2>1 DEF Orderly, AtWork, Restoring, Off
<1>12. CASE UNCHANGED vars
  <2>1. UNCHANGED << hostVars, quiet, crashed >>
    BY <1>12 DEF vars, hostVars
  <2> QED BY <1>2, <2>1
<1> QED BY <1>3, <1>4, <1>5, <1>6, <1>7, <1>8, <1>9, <1>10, <1>11, <1>12, <1>13
        DEF Next, HandlerStep, MainStep

-----------------------------------------------------------------------------
(* What a step leaves alone.                                               *)

Rounds == {"work", "insert", "save", "write", "unlink"}

(* The main thread stays, or goes, where v does not matter to it.          *)
Elsewhere(v) ==
  /\ main'.pc # "restore"
  /\ work[v] # Absent => main'.pc \in Rounds
  /\ main'.pc \in {"insert", "save", "write", "unlink"} => main'.at # v
  /\ main.pc = "insert" => main.at # v

(* A VM that no part of a step touches, though its entry may be saved.     *)
LEMMA Frame ==
  ASSUME IInv, NEW v \in Vmids,
         state'[v] = state[v], handler'[v] = handler[v], work'[v] = work[v],
         kern'[v] = kern[v], chan'[v] = chan[v], agent'[v] = agent[v],
         quiet'[v] = quiet[v], crashed => crashed',
         cache'[v] = cache[v] \/ main.pc # "restore",
         main' = main \/ Elsewhere(v)
  PROVE  Local(v)'
<1> USE DEF IInv, Local
<1>1. Quiet(v)' /\ Hushed(v)'
  BY DEF Quiet, Hushed, Busy, Overdue
<1>2. AtWork(v)'
  BY DEF AtWork, Elsewhere, Rounds
<1>3. Restoring(v)'
  BY DEF Restoring, Elsewhere, Rounds
<1>4. Ahead(v)'
  BY DEF Ahead, DeviceOf, Elsewhere
<1>5. Agrees(v)'
  BY DEF Agrees, DefaultsInRange, Midway, DeviceOf, Elsewhere
<1>6. Gone(v)'
  BY DEF Gone, Leaving, Removing, KeepsSensors
<1>7. Keeping(v)'
  BY DEF Keeping, Preserves
<1>8. Decided(v)'
  BY DEF Decided, Unchanged
<1> QED BY <1>1, <1>2, <1>3, <1>4, <1>5, <1>6, <1>7, <1>8

(* While the handler of a VM is busy the main thread has nothing to do     *)
(* with that VM.                                                           *)
LEMMA BusyAlone ==
  ASSUME IInv, NEW v \in Vmids, Busy(v)
  PROVE  /\ work[v] = Absent /\ ~quiet[v] /\ main.pc # "restore"
         /\ main.pc \in {"insert", "save", "write", "unlink"} => main.at # v
<1>1. work[v] = Absent /\ ~quiet[v]
  BY DEF IInv, Local, Quiet, Hushed
<1>2. main.pc # "restore"
  BY DEF IInv, Local, Restoring, Busy
<1> QED BY <1>1, <1>2 DEF IInv, Local, AtWork

LEMMA BusyStep ==
  ASSUME IInv, NEW v \in Vmids, Busy(v), ~quiet'[v], UNCHANGED << main, work >>,
         Ahead(v)', Agrees(v)', Gone(v)', Keeping(v)', Decided(v)'
  PROVE  Local(v)'
<1>1. Quiet(v)'
  BY DEF Quiet
<1>2. Hushed(v)'
  BY BusyAlone DEF Hushed, Overdue
<1>3. AtWork(v)' /\ Restoring(v)'
  BY BusyAlone DEF AtWork, Restoring
<1> QED BY <1>1, <1>2, <1>3 DEF Local

(* A busy handler moves on and touches neither runtime nor device.         *)
LEMMA BusyMoves ==
  ASSUME IInv, NEW v \in Vmids, Busy(v), ~Midway(v), ~Leaving(v),
         handler'[v].pc \in {"off", "read", "hello", "goodbye", "schema", "sample", "decide",
                             "set_schema", "write"},
         ~quiet'[v], UNCHANGED << main, work >>,
         state'[v] = state[v], kern'[v] = kern[v], crashed => crashed'
  PROVE  Local(v)'
<1>1. Ahead(v)' /\ Decided(v)'
  BY BusyAlone DEF Ahead, Decided
<1>2. Agrees(v)'
  BY DEF IInv, Local, Agrees, DefaultsInRange, DeviceOf
<1>3. Gone(v)' /\ Keeping(v)'
  BY BusyAlone DEF IInv, Local, Gone, Keeping, Leaving, Removing, Midway
<1> QED BY <1>1, <1>2, <1>3, BusyStep

-----------------------------------------------------------------------------
(* Steps of the agent and of the connection, at their own VM.              *)

(* The agent's side matters to nothing but the hush.                       *)
LEMMA AgentFrame ==
  ASSUME IInv, NEW v \in Vmids, UNCHANGED << hostVars, quiet >>, crashed => crashed',
         Hushed(v)'
  PROVE  Local(v)'
<1> USE DEF IInv, Local, hostVars
<1>1. Quiet(v)' /\ AtWork(v)' /\ Restoring(v)'
  BY DEF Quiet, Busy, AtWork, Restoring
<1>2. Ahead(v)' /\ Agrees(v)'
  BY DEF Ahead, Agrees, DefaultsInRange, Midway, DeviceOf
<1>3. Gone(v)' /\ Keeping(v)' /\ Decided(v)'
  BY DEF Gone, Keeping, Decided, Leaving, Removing, Preserves, KeepsSensors, Unchanged
<1> QED BY <1>1, <1>2, <1>3

LEMMA AgentLocal ==
  ASSUME NoOverlap, IInv, NEW v \in Vmids, AgentStep(v)
  PROVE  Local(v)'
<1>1. UNCHANGED << hostVars, quiet >> /\ (crashed => crashed')
  BY FaultMonotone DEF AgentStep, AgentStart, AgentResync, AgentRescan, AgentSample,
     AgentHeartbeat, AgentGoodbye, AgentCrash, AgentStall, AgentResume, faults, IInv
<1>2. CASE Overdue(v) \/ work[v] # Absent
  <2>1. agent[v].mode # "up" /\ ~Calm(v) /\ chan[v] = << >>
    BY <1>2 DEF IInv, Local, Hushed, Calm, NoOverlap
  <2>2. AgentCrash(v)
    BY <2>1 DEF AgentStep, AgentStart, AgentResync, AgentRescan, AgentSample,
       AgentHeartbeat, AgentGoodbye, AgentStall, AgentResume
  <2>3. chan'[v] = << >> /\ agent'[v] = Down
    BY <2>1, <2>2 DEF AgentCrash, IInv, TypeOK
  <2>4. Hushed(v)'
    BY <1>1, <1>2, <2>3 DEF IInv, Local, Hushed, Busy, Down, hostVars
  <2> QED BY <1>1, <2>4, AgentFrame
<1>3. CASE ~(Overdue(v) \/ work[v] # Absent)
  <2>1. Hushed(v)'
    BY <1>1, <1>3 DEF Hushed, Overdue, hostVars
  <2> QED BY <1>1, <2>1, AgentFrame
<1> QED BY <1>2, <1>3

LEMMA ConnectLocal ==
  ASSUME IInv, NEW v \in Vmids, Connect(v) \/ ScanSocket(v) \/ ReadTimeout(v)
  PROVE  Local(v)'
<1>1. /\ UNCHANGED << state, names, main, work, kern, agent, quiet, faults >>
      /\ handler[v].pc \in {"off", "connect", "read"} /\ ~(main.pc = "restore")
      /\ handler'[v].pc \in {"off", "connect", "read"}
      /\ chan'[v] = chan[v]
  BY DEF Connect, ScanSocket, ReadTimeout, Close, Goto, Reading, Off, agentVars,
         IInv, TypeOK, Local, Restoring
<1> USE DEF IInv, Local
<1>2. Quiet(v)' /\ Hushed(v)'
  BY <1>1 DEF Quiet, Hushed, Busy, Overdue
<1>3. AtWork(v)' /\ Restoring(v)'
  BY <1>1 DEF AtWork, Restoring
<1>4. Ahead(v)' /\ Agrees(v)'
  BY <1>1 DEF Ahead, Agrees, DefaultsInRange, Midway, DeviceOf
<1>5. Gone(v)' /\ Keeping(v)' /\ Decided(v)'
  BY <1>1 DEF Gone, Keeping, Decided, Leaving, Removing, Preserves, faults
<1> QED BY <1>2, <1>3, <1>4, <1>5

(* Time passes only for a VM whose handler waits and whose agent is silent.*)
LEMMA ElapseLocal ==
  ASSUME IInv, NEW v \in Vmids, Elapse(v)
  PROVE  Local(v)'
<1>1. /\ UNCHANGED << hostVars, agentVars, faults >>
      /\ agent[v].mode # "up" /\ chan[v] = << >> /\ ~Busy(v) /\ main.pc = "loop"
  BY DEF Elapse, Busy
<1> USE DEF IInv, Local, hostVars, agentVars, faults
<1>2. Quiet(v)' /\ Hushed(v)'
  BY <1>1 DEF Quiet, Hushed, Busy
<1>3. AtWork(v)' /\ Restoring(v)' /\ Ahead(v)' /\ Agrees(v)'
  BY <1>1 DEF AtWork, Restoring, Ahead, Agrees, DefaultsInRange, Midway, DeviceOf
<1>4. Gone(v)' /\ Keeping(v)' /\ Decided(v)'
  BY <1>1 DEF Gone, Keeping, Decided, Leaving, Removing, Preserves, KeepsSensors, Unchanged
<1> QED BY <1>2, <1>3, <1>4

(* A message ends the silence; it finds no round under way at its VM.      *)
LEMMA ReceiveLocal ==
  ASSUME IInv, NEW v \in Vmids, NEW retry \in BOOLEAN, Receive(v, retry)
  PROVE  Local(v)'
<1> DEFINE m == Head(chan[v])
<1>1. /\ UNCHANGED << names, main, work, kern, agent, faults >>
      /\ handler[v].pc = "read" /\ chan[v] # << >> /\ ~quiet'[v]
      /\ handler'[v].pc = IF m.type = "heartbeat" THEN "read" ELSE m.type
  BY DEF Receive, Goto, Reading, IInv, TypeOK
<1>2. m.type \in {"hello", "schema", "sample", "heartbeat", "goodbye"}
  <2>1. chan[v] \in Seq(Messages)
    BY DEF IInv, TypeOK
  <2>2. m \in Messages
    BY <1>1, <2>1
  <2> QED BY <2>2 DEF Messages, Reports
<1> HIDE DEF m
<1>3. handler'[v].pc \in {"read", "hello", "schema", "sample", "goodbye"}
  BY <1>1, <1>2
<1>4. work[v] = Absent /\ main.pc # "restore"
  BY <1>1 DEF IInv, Local, Hushed, Restoring
<1>5. /\ state'[v] = Absent <=> state[v] = Absent
      /\ state[v] # Absent => /\ state'[v].name = state[v].name
                              /\ state'[v].layout = state[v].layout
                              /\ state'[v].gen = state[v].gen
  <2>1. CASE state[v] = Absent
    BY <2>1 DEF Receive
  <2>2. CASE state[v] # Absent
    <3>1. state[v] \in Runtimes /\ state' = [state EXCEPT ![v] = [state[v] EXCEPT !.offline = FALSE]]
      BY <2>2 DEF Receive, IInv, TypeOK
    <3>2. state'[v] = [state[v] EXCEPT !.offline = FALSE]
      BY <3>1 DEF IInv, TypeOK
    <3>3. [state[v] EXCEPT !.offline = FALSE] \in Runtimes
      BY <3>1 DEF Runtimes
    <3>4. state'[v] # Absent
      BY <3>2, <3>3, AbsentAssumption
    <3> QED BY <2>2, <3>1, <3>2, <3>4 DEF Runtimes
  <2> QED BY <2>1, <2>2
<1> USE DEF IInv, Local
<1>6. Quiet(v)' /\ Hushed(v)' /\ AtWork(v)' /\ Restoring(v)'
  BY <1>1, <1>3, <1>4 DEF Quiet, Hushed, Overdue, AtWork, Restoring
<1>7. Ahead(v)' /\ Agrees(v)'
  BY <1>1, <1>3, <1>5 DEF Ahead, Agrees, DefaultsInRange, Midway, DeviceOf
<1>8. Gone(v)' /\ Keeping(v)' /\ Decided(v)'
  BY <1>1, <1>3, <1>4, <1>5 DEF Gone, Keeping, Decided, Leaving, Removing, faults
<1> QED BY <1>6, <1>7, <1>8

-----------------------------------------------------------------------------
(* Steps of a handler that works on a message, at its own VM.              *)

LEMMA MovesLocal ==
  ASSUME IInv, NEW v \in Vmids,
         \/ HandleHello(v) \/ SchemaName(v) \/ SchemaDrop(v) \/ SchemaSetFails(v)
         \/ SampleValues(v) \/ SampleFails(v)
         \/ HandlerSnapshot(v) \/ HandlerSave(v) \/ HandlerSaveFails(v)
  PROVE  Local(v)'
<1>1. /\ handler[v].pc \in {"hello", "schema", "decide", "set_schema", "values", "save", "write"}
      /\ UNCHANGED << state, main, work, kern, quiet >>
      /\ crashed => crashed'
  BY FaultMonotone DEF HandleHello, SchemaName, SchemaDrop, SchemaSetFails, SampleValues,
     SampleFails, HandlerSnapshot, HandlerSave, HandlerSaveFails, SaveFails, faults, IInv
<1>2. handler'[v].pc \in {"read", "decide", "off", "write"}
  BY DEF HandleHello, SchemaName, SchemaDrop, SchemaSetFails, SampleValues, SampleFails,
     HandlerSnapshot, HandlerSave, HandlerSaveFails, Goto, Close, Reading, Off, IInv, TypeOK
<1>3. Busy(v)
  BY <1>1 DEF Busy
<1>4. ~Midway(v) /\ ~Leaving(v) /\ ~quiet'[v]
  BY <1>1, <1>3, BusyAlone DEF Midway, Leaving, Removing
<1> QED BY <1>1, <1>2, <1>3, <1>4, BusyMoves

(* What is found unchanged is unchanged, and a numbering is looked up.     *)
LEMMA DecideLocal ==
  ASSUME IInv, NEW v \in Vmids, SchemaDecide(v) \/ SampleLookup(v)
  PROVE  Local(v)'
<1>1. /\ handler[v].pc \in {"decide", "sample"}
      /\ UNCHANGED << state, main, work, kern, quiet, faults >>
  BY DEF SchemaDecide, SampleLookup
<1>2. Busy(v)
  BY <1>1 DEF Busy
<1>3. ~Midway(v) /\ ~Leaving(v) /\ ~quiet'[v] /\ ~quiet[v]
  BY <1>1, <1>2, BusyAlone DEF Midway, Leaving, Removing
<1>4. handler[v] \in Handlers /\ handler \in [Vmids -> Handlers]
  BY DEF IInv, TypeOK
<1>5. /\ handler'[v].pc \in {"update", "set_schema", "values", "read"}
      /\ Decided(v)'
  <2>1. CASE SchemaDecide(v)
    <3>1. handler[v] \in [pc : {"decide", "update", "set_schema", "insert"}, msg : Reports,
                          name : Names]
      BY <1>4, <2>1, HandlerShapes DEF SchemaDecide
    <3>2. handler'[v] = [handler[v] EXCEPT !.pc = IF Unchanged(v) THEN "update" ELSE "set_schema"]
      BY <1>4, <2>1 DEF SchemaDecide, Goto
    <3>3. /\ handler'[v].pc = IF Unchanged(v) THEN "update" ELSE "set_schema"
          /\ handler'[v].msg = handler[v].msg /\ handler'[v].name = handler[v].name
      BY <3>1, <3>2
    <3>4. Unchanged(v) => Unchanged(v)'
      BY <1>1, <3>3 DEF Unchanged
    <3> QED BY <3>3, <3>4 DEF Decided
  <2>2. CASE SampleLookup(v)
    <3>1. \/ /\ state[v] # Absent
             /\ handler'[v] = [pc |-> "values", msg |-> handler[v].msg,
                               mapping |-> state[v].layout]
          \/ handler'[v] = Reading
      BY <1>4, <2>2 DEF SampleLookup, Goto
    <3> QED BY <1>1, <3>1 DEF Decided, Reading
  <2> QED BY <2>1, <2>2
<1>6. Ahead(v)' /\ Keeping(v)'
  BY <1>1, <1>2, <1>5, BusyAlone DEF Ahead, Keeping
<1>7. Agrees(v)'
  BY <1>1, <1>3 DEF IInv, Local, Agrees, DefaultsInRange, DeviceOf
<1>8. Gone(v)'
  BY <1>1, <1>2, <1>3, <1>5, BusyAlone DEF IInv, Local, Gone, Leaving, Removing, faults
<1> QED BY <1>1, <1>2, <1>3, <1>5, <1>6, <1>7, <1>8, BusyStep

LEMMA SetLocal ==
  ASSUME IInv, NEW v \in Vmids, SchemaSet(v)
  PROVE  Local(v)'
<1>1. /\ handler[v].pc = "set_schema"
      /\ UNCHANGED << state, main, work, quiet, faults >>
      /\ kern'[v] = [name |-> handler[v].name, layout |-> handler[v].msg.layout]
  BY DEF SchemaSet, IInv, TypeOK
<1>2. Busy(v)
  BY <1>1 DEF Busy
<1>3. handler'[v] = [handler[v] EXCEPT !.pc = "insert"]
  BY DEF SchemaSet, Goto, IInv, TypeOK
<1>4. handler[v] \in [pc : {"decide", "update", "set_schema", "insert"}, msg : Reports,
                      name : Names]
  BY <1>1, HandlerShapes DEF IInv, TypeOK
<1>5. handler'[v].pc = "insert" /\ handler'[v].msg = handler[v].msg
      /\ handler'[v].name = handler[v].name
  BY <1>3, <1>4
<1>6. Ahead(v)' /\ Keeping(v)' /\ Decided(v)' /\ Agrees(v)'
  BY <1>1, <1>2, <1>5, BusyAlone DEF Ahead, Keeping, Decided, Agrees, Midway
<1>7. Gone(v)' /\ ~quiet'[v]
  BY <1>1, <1>2, <1>5, BusyAlone DEF Gone, Leaving, Removing
<1> QED BY <1>1, <1>2, <1>6, <1>7, BusyStep

(* The runtime catches up with the device.                                 *)
LEMMA InsertLocal ==
  ASSUME IInv, NEW v \in Vmids, SchemaInsert(v) \/ SchemaUpdate(v)
  PROVE  Local(v)'
<1> DEFINE h == handler[v]
<1>1. /\ h.pc \in {"update", "insert"} /\ UNCHANGED << main, work, kern, faults >>
      /\ handler'[v] = [pc |-> "save"] /\ ~quiet'[v]
  BY DEF SchemaInsert, SchemaUpdate, Goto, IInv, TypeOK
<1>2. Busy(v)
  BY <1>1 DEF Busy
<1>3. h \in [pc : {"decide", "update", "set_schema", "insert"}, msg : Reports, name : Names]
  BY <1>1, HandlerShapes DEF IInv, TypeOK
<1>4. h.msg.gen \in Gens /\ h.msg.layout \in Seq(Sensors) /\ h.name \in Names
  BY <1>3, LayoutsType DEF Reports
<1>5. h.pc = "update" => state[v] # Absent /\ state[v].layout = h.msg.layout
                         /\ state[v].name = h.name
  BY DEF IInv, Local, Decided, Unchanged
<1>6. state'[v] = Runtime(h.msg.gen, h.msg.layout, h.name, TRUE, FALSE)
  <2>1. state \in [Vmids -> Runtimes \cup {Absent}]
    BY DEF IInv, TypeOK
  <2>2. CASE SchemaInsert(v)
    BY <2>1, <2>2 DEF SchemaInsert
  <2>3. CASE SchemaUpdate(v)
    <3>1. state[v] # Absent /\ state[v].name = h.name
      BY <1>5, <2>3 DEF SchemaUpdate
    <3> QED BY <2>1, <2>3, <3>1 DEF SchemaUpdate
  <2> QED BY <2>2, <2>3
<1>7. state'[v] # Absent /\ state'[v].name = h.name /\ state'[v].layout = h.msg.layout
  <2>1. state'[v] # Absent
    BY <1>4, <1>6, Present
  <2> QED BY <1>6, <2>1 DEF Runtime
<1>8. Agrees(v)'
  <2>1. CASE h.pc = "insert"
    BY <1>1, <1>7, <2>1 DEF IInv, Local, Ahead, Agrees, DeviceOf
  <2>2. CASE h.pc = "update"
    <3>1. ~Midway(v)
      BY <1>2, <2>2, BusyAlone DEF Midway
    <3> QED BY <1>1, <1>5, <1>7, <2>2, <3>1
            DEF IInv, Local, Agrees, DefaultsInRange, DeviceOf
  <2> QED BY <1>1, <2>1, <2>2
<1>9. Ahead(v)' /\ Keeping(v)' /\ Decided(v)'
  BY <1>1, <1>2, BusyAlone DEF Ahead, Keeping, Decided
<1>10. Gone(v)'
  BY <1>1, <1>2, <1>7, BusyAlone DEF Gone, Leaving, Removing
<1> QED BY <1>1, <1>2, <1>8, <1>9, <1>10, BusyStep

(* Marking a runtime offline changes nothing the invariant looks at.       *)
LEMMA Marked ==
  ASSUME TypeOK, NEW v \in Vmids, state[v] # Absent,
         state'[v] = [state[v] EXCEPT !.offline = TRUE]
  PROVE  /\ state'[v] # Absent /\ state'[v].gen = state[v].gen
         /\ state'[v].name = state[v].name /\ state'[v].layout = state[v].layout
         /\ Snapshot'[v] = Snapshot[v]
<1>1. state[v] \in Runtimes
  BY DEF TypeOK
<1>2. [state[v] EXCEPT !.offline = TRUE] \in Runtimes
  BY <1>1 DEF Runtimes
<1>3. state'[v] # Absent
  BY <1>2, AbsentAssumption
<1>4. /\ state'[v].gen = state[v].gen
      /\ state'[v].name = state[v].name /\ state'[v].layout = state[v].layout
  BY <1>1 DEF Runtimes
<1> QED BY <1>3, <1>4 DEF Snapshot

LEMMA ByePreserveLocal ==
  ASSUME IInv, NEW v \in Vmids, ByePreserve(v)
  PROVE  Local(v)'
<1>1. /\ handler[v].pc = "goodbye" /\ KeepsSensors(v) /\ state[v] # Absent
      /\ UNCHANGED << main, work, kern, quiet, faults >>
      /\ state'[v] = [state[v] EXCEPT !.offline = TRUE]
  BY DEF ByePreserve, KeepsSensors, IInv, TypeOK
<1>2. handler'[v] = [pc |-> "bye_install", keep |-> Preserved(v)]
  BY DEF ByePreserve, Goto, IInv, TypeOK
<1>3. Busy(v)
  BY <1>1 DEF Busy
<1>4. /\ state'[v] # Absent /\ state'[v].gen = state[v].gen
      /\ state'[v].name = state[v].name /\ state'[v].layout = state[v].layout
      /\ Snapshot'[v] = Snapshot[v]
  BY <1>1, Marked DEF IInv
<1>5. handler'[v].pc = "bye_install" /\ handler'[v].keep = Preserved(v)
  BY <1>2
<1>6. Agrees(v)'
  BY <1>1, <1>3, <1>4, BusyAlone DEF IInv, Local, Agrees, DefaultsInRange, Midway, DeviceOf
<1>7. Ahead(v)' /\ Gone(v)' /\ Decided(v)' /\ ~quiet'[v]
  BY <1>1, <1>3, <1>4, <1>5, BusyAlone DEF Ahead, Gone, Leaving, Removing, Decided
<1>9. Keeping(v)'
  <2>1. Preserves(v, handler[v].keep)'
    BY <1>1, <1>4, <1>5 DEF Preserves, Preserved, KeepsSensors
  <2> QED BY <1>1, <1>3, <2>1, BusyAlone DEF Keeping
<1> QED BY <1>1, <1>3, <1>6, <1>7, <1>9, BusyStep

LEMMA ByeInstallLocal ==
  ASSUME IInv, NEW v \in Vmids, ByeInstall(v)
  PROVE  Local(v)'
<1> DEFINE h == handler[v]
<1>1. h.pc = "bye_install" /\ UNCHANGED << state, main, work, quiet >>
  BY DEF ByeInstall
<1>2. h \in [pc : {"bye_install", "bye_insert"}, keep : Keeps]
  BY <1>1, HandlerShapes DEF IInv, TypeOK
<1>3. Busy(v) /\ Preserves(v, h.keep)
  BY <1>1 DEF Busy, IInv, Local, Keeping
<1>4. state[v] # Absent /\ ~quiet'[v]
  BY <1>1, <1>3, BusyAlone DEF Preserves
<1>5. CASE InstallSucceeds(v, h.keep) /\ Goto(v, [h EXCEPT !.pc = "bye_insert"])
  <2>1. handler'[v] = [h EXCEPT !.pc = "bye_insert"]
    BY <1>5 DEF Goto, IInv, TypeOK
  <2>2. handler'[v].pc = "bye_insert" /\ handler'[v].keep = h.keep
    BY <1>2, <2>1
  <2>3. kern'[v] = DeviceOf(h.keep)
    BY <1>5 DEF InstallSucceeds, KernelInstalls, DeviceOf, IInv, TypeOK
  <2>4. Ahead(v)'
    BY <1>1, <1>3, <2>2, <2>3, BusyAlone DEF Ahead, DeviceOf
  <2>5. Keeping(v)'
    <3>1. Preserves(v, handler[v].keep)'
      BY <1>1, <1>3, <2>2 DEF Preserves
    <3> QED BY <1>1, <1>3, <3>1, BusyAlone DEF Keeping
  <2>6. Agrees(v)' /\ Decided(v)'
    BY <2>2 DEF Agrees, Midway, Decided
  <2>7. Gone(v)'
    BY <1>1, <1>3, <1>4, <2>2, BusyAlone DEF Gone, Leaving, Removing
  <2> QED BY <1>1, <1>3, <1>4, <2>4, <2>5, <2>6, <2>7, BusyStep
<1>6. CASE InstallFails(v, h.keep) /\ Close(v)
  <2>1. handler'[v] = Off
    BY <1>6 DEF Close, IInv, TypeOK
  <2>2. DefaultsInRange => kern'[v] = kern[v]
    BY <1>6 DEF InstallFails, Fault, DefaultsInRange
  <2>3. Ahead(v)' /\ Keeping(v)' /\ Decided(v)'
    BY <1>1, <1>3, <2>1, BusyAlone DEF Ahead, Keeping, Decided, Off
  <2>4. Agrees(v)'
    BY <1>1, <1>3, <1>4, <2>2, BusyAlone
       DEF IInv, Local, Agrees, DefaultsInRange, Midway, DeviceOf
  <2>5. Gone(v)'
    BY <1>1, <1>3, <1>4, <2>1, BusyAlone DEF Gone, Leaving, Removing, Off
  <2> QED BY <1>1, <1>3, <1>4, <2>3, <2>4, <2>5, BusyStep
<1> QED BY <1>5, <1>6 DEF ByeInstall

LEMMA ByeInsertLocal ==
  ASSUME IInv, NEW v \in Vmids, ByeInsert(v)
  PROVE  Local(v)'
<1> DEFINE h == handler[v]
<1>1. /\ h.pc = "bye_insert" /\ UNCHANGED << main, work, kern, faults >>
      /\ InsertDefaults(v, h.keep)
  BY DEF ByeInsert
<1>2. handler'[v] = [pc |-> "save"]
  BY DEF ByeInsert, Goto, IInv, TypeOK
<1>3. h \in [pc : {"bye_install", "bye_insert"}, keep : Keeps]
  BY <1>1, HandlerShapes DEF IInv, TypeOK
<1>4. h.keep.gen \in Gens /\ h.keep.name \in Names /\ h.keep.layout \in Seq(Sensors)
  BY <1>3 DEF Keeps
<1>5. /\ state'[v] = Runtime(h.keep.gen, h.keep.layout, h.keep.name, FALSE, TRUE)
      /\ ~quiet'[v]
  BY <1>1 DEF InsertDefaults, IInv, TypeOK
<1>6. state'[v] # Absent /\ DeviceOf(state'[v]) = DeviceOf(h.keep)
  <2>1. state'[v] # Absent
    BY <1>4, <1>5, Present
  <2> QED BY <1>5, <2>1 DEF Runtime, DeviceOf
<1>7. Busy(v) /\ kern[v] = DeviceOf(h.keep)
  BY <1>1 DEF Busy, IInv, Local, Ahead
<1>8. Agrees(v)'
  BY <1>1, <1>6, <1>7 DEF Agrees
<1>9. Ahead(v)' /\ Keeping(v)' /\ Decided(v)'
  BY <1>1, <1>2, <1>7, BusyAlone DEF Ahead, Keeping, Decided
<1>10. Gone(v)'
  BY <1>1, <1>2, <1>6, <1>7, BusyAlone DEF Gone, Leaving, Removing
<1> QED BY <1>1, <1>5, <1>7, <1>8, <1>9, <1>10, BusyStep

(* A goodbye of a VM without persistent sensors, section by section.       *)
LEMMA ByeRemoveLocal ==
  ASSUME IInv, NEW v \in Vmids,
         ByeDecideRemove(v) \/ ByeRemove(v) \/ ByeName(v) \/ ByeKernel(v)
  PROVE  Local(v)'
<1>1. /\ handler[v].pc \in {"goodbye", "bye_remove", "bye_name", "bye_kernel"}
      /\ UNCHANGED << main, work, quiet, faults >>
      /\ handler'[v].pc \in {"bye_remove", "bye_name", "bye_kernel", "save"}
  BY DEF ByeDecideRemove, ByeRemove, ByeName, ByeKernel, Goto, IInv, TypeOK
<1>2. Busy(v)
  BY <1>1 DEF Busy
<1>3. Ahead(v)' /\ Keeping(v)' /\ Decided(v)' /\ ~quiet'[v]
  BY <1>1, <1>2, BusyAlone DEF Ahead, Keeping, Decided
<1>4. CASE ByeDecideRemove(v)
  <2>1. /\ UNCHANGED << state, kern >> /\ ~KeepsSensors(v) /\ handler[v].pc = "goodbye"
        /\ handler'[v].pc = "bye_remove"
    BY <1>4 DEF ByeDecideRemove, Goto, IInv, TypeOK
  <2>2. Agrees(v)'
    BY <1>1, <1>2, <2>1, BusyAlone DEF IInv, Local, Agrees, DefaultsInRange, Midway, DeviceOf
  <2>3. Gone(v)'
    BY <1>1, <1>2, <2>1, BusyAlone
       DEF IInv, Local, Gone, Leaving, Removing, KeepsSensors, faults
  <2> QED BY <1>1, <1>2, <1>3, <2>2, <2>3, BusyStep
<1>5. CASE ByeRemove(v)
  <2>1. state'[v] = Absent /\ handler'[v].pc = "bye_name" /\ handler[v].pc = "bye_remove"
    BY <1>5 DEF ByeRemove, Goto, IInv, TypeOK
  <2>2. Agrees(v)' /\ Gone(v)'
    BY <2>1 DEF Agrees, Gone, Leaving
  <2> QED BY <1>1, <1>2, <1>3, <2>2, BusyStep
<1>6. CASE ByeName(v)
  <2>1. state'[v] = Absent /\ handler'[v].pc = "bye_kernel" /\ state'[v] = state[v]
    BY <1>6 DEF ByeName, Goto, IInv, TypeOK, Local, Gone, Leaving
  <2>2. Agrees(v)' /\ Gone(v)'
    BY <2>1 DEF Agrees, Gone, Leaving
  <2> QED BY <1>1, <1>2, <1>3, <2>2, BusyStep
<1>7. CASE ByeKernel(v)
  <2>1. /\ state'[v] = Absent /\ handler'[v].pc = "save" /\ state'[v] = state[v]
        /\ kern'[v] = Absent
    BY <1>7 DEF ByeKernel, Goto, IInv, TypeOK, Local, Gone, Leaving
  <2>2. Agrees(v)' /\ Gone(v)'
    BY <1>1, <1>2, <2>1, BusyAlone DEF Agrees, Gone, Leaving, Removing
  <2> QED BY <1>1, <1>2, <1>3, <2>2, BusyStep
<1> QED BY <1>4, <1>5, <1>6, <1>7

-----------------------------------------------------------------------------
(* Steps of the main thread, at the VM they are about.                     *)

(* A VM with work: its handler waits.                                      *)
LEMMA WorkAlone ==
  ASSUME IInv, NEW v \in Vmids, work[v] # Absent
  PROVE  /\ handler[v].pc \in {"off", "connect", "read"}
         /\ chan[v] = << >> /\ agent[v].mode # "up" /\ ~Busy(v)
         /\ ~(main.pc \in {"loop", "restore"})
         /\ work[v] \in Works
         /\ work[v].kind = "preserve" => Preserves(v, work[v]) /\ work[v] \in Keeps
         /\ work[v].kind = "remove" => state[v] = Absent
<1>1. work[v] \in Works
  BY DEF IInv, TypeOK
<1>2. chan[v] = << >> /\ agent[v].mode # "up" /\ ~Busy(v)
  BY DEF IInv, Local, Hushed
<1> QED BY <1>1, <1>2, WorkShapes DEF IInv, Local, Busy, AtWork, Keeping, Gone, Leaving, Removing

(* What a step of the main thread at v has to show.                        *)
LEMMA WorkStep ==
  ASSUME IInv, NEW v \in Vmids, work[v] # Absent,
         UNCHANGED << handler, chan, agent >>, quiet'[v] = quiet[v] \/ ~quiet'[v],
         main'.pc # "restore",
         AtWork(v)', Agrees(v)', Gone(v)',
         work'[v] # Absent /\ work'[v].kind = "preserve" => Preserves(v, work[v])',
         main'.pc = "insert" /\ main'.at = v => kern'[v] = DeviceOf(work'[v])
  PROVE  Local(v)'
<1>1. Quiet(v)' /\ Hushed(v)'
  BY WorkAlone DEF Quiet, Hushed, Busy
<1>2. Restoring(v)'
  BY DEF Restoring
<1>3. Ahead(v)' /\ Keeping(v)' /\ Decided(v)'
  BY WorkAlone DEF Ahead, Keeping, Decided, DeviceOf
<1> QED BY <1>1, <1>2, <1>3 DEF Local

LEMMA MainInstallLocal ==
  ASSUME IInv, NEW v \in Vmids, MainInstall(v)
  PROVE  Local(v)'
<1>1. /\ main.pc = "work" /\ work[v] # Absent /\ work[v].kind = "preserve"
      /\ UNCHANGED << state, handler, chan, agent, quiet >>
  BY DEF MainInstall, Todo, agentVars
<1>2. Preserves(v, work[v]) /\ state[v] # Absent
  BY <1>1, WorkAlone DEF Preserves
<1>4. Gone(v)'
  <2>1. ~Removing(v)'
    BY <1>1 DEF MainInstall, Removing, IInv, TypeOK
  <2> QED BY <1>1, <1>2, <2>1, WorkAlone DEF Gone, Leaving
<1>5. CASE InstallSucceeds(v, work[v]) /\ UNCHANGED work
           /\ main' = [pc |-> "insert", at |-> v, removed |-> main.removed]
  <2>1. kern'[v] = DeviceOf(work[v])
    BY <1>5 DEF InstallSucceeds, KernelInstalls, DeviceOf, IInv, TypeOK
  <2>2. AtWork(v)' /\ Agrees(v)'
    BY <1>1, <1>5 DEF AtWork, Agrees, Midway
  <2>3. Preserves(v, work[v])'
    BY <1>1, <1>2, <1>5 DEF Preserves
  <2> QED BY <1>1, <1>4, <1>5, <2>1, <2>2, <2>3, WorkStep
<1>6. CASE InstallFails(v, work[v]) /\ work' = [work EXCEPT ![v] = Absent] /\ UNCHANGED main
  <2>1. work'[v] = Absent
    BY <1>6 DEF IInv, TypeOK
  <2>2. DefaultsInRange => kern'[v] = kern[v]
    BY <1>6 DEF InstallFails, Fault, DefaultsInRange
  <2>3. Agrees(v)'
    BY <1>1, <1>2, <2>2, WorkAlone DEF IInv, Local, Agrees, DefaultsInRange, Midway, DeviceOf
  <2>4. AtWork(v)'
    BY <1>1, <1>6, <2>1 DEF AtWork
  <2> QED BY <1>1, <1>4, <1>6, <2>1, <2>3, <2>4, WorkStep
<1> QED BY <1>5, <1>6 DEF MainInstall

LEMMA MainInsertLocal ==
  ASSUME IInv, NEW v \in Vmids, MainInsert(v)
  PROVE  Local(v)'
<1> DEFINE w == work[v]
<1>1. /\ main.pc = "insert" /\ main.at = v
      /\ UNCHANGED << work, handler, kern, chan, agent, faults >>
      /\ InsertDefaults(v, w) /\ main' = [main EXCEPT !.pc = "save"]
  BY DEF MainInsert, agentVars
<1>2. w # Absent /\ w.kind = "preserve" /\ kern[v] = DeviceOf(w)
  BY <1>1 DEF IInv, Local, AtWork, Ahead
<1>3. Preserves(v, w) /\ w \in Keeps
  BY <1>2, WorkAlone
<1>4. /\ w.gen \in Gens /\ w.name \in Names /\ w.layout \in Seq(Sensors)
      /\ w.layout # << >> /\ PersistentPart(w.layout) = w.layout
  <2>1. state[v] \in Runtimes
    BY <1>3 DEF Preserves, IInv, TypeOK
  <2>2. state[v].layout \in Seq(Sensors)
    BY <2>1 DEF Runtimes
  <2> QED BY <1>3, <2>2, LayoutsType DEF Preserves, Keeps
<1>5. state'[v] = Runtime(w.gen, w.layout, w.name, FALSE, TRUE) /\ ~quiet'[v]
  BY <1>1 DEF InsertDefaults, IInv, TypeOK
<1>6. /\ state'[v] # Absent /\ state'[v].gen = w.gen /\ state'[v].name = w.name
      /\ state'[v].layout = w.layout
  <2>1. state'[v] # Absent
    BY <1>4, <1>5, Present
  <2> QED BY <1>5, <2>1 DEF Runtime
<1>7. Preserves(v, work[v])'
  BY <1>1, <1>4, <1>6 DEF Preserves
<1>8. main'.pc = "save" /\ main'.at = v
  <2>1. main \in [pc : {"insert", "save", "unlink"}, at : Vmids, removed : BOOLEAN]
    BY <1>1, MainShapes DEF IInv, TypeOK
  <2> QED BY <1>1, <2>1
<1>9. AtWork(v)'
  BY <1>1, <1>2, <1>8 DEF AtWork, Rounds
<1>10. Agrees(v)'
  BY <1>1, <1>2, <1>6 DEF Agrees, DeviceOf
<1>11. Gone(v)'
  BY <1>1, <1>2, <1>6, WorkAlone DEF Gone, Leaving, Removing
<1> QED BY <1>1, <1>2, <1>5, <1>7, <1>8, <1>9, <1>10, <1>11, WorkStep

LEMMA MainSaveLocal ==
  ASSUME IInv, NEW v \in Vmids, MainSnapshot(v) \/ MainSave(v)
  PROVE  Local(v)'
<1>1. /\ main.pc \in {"save", "write"} /\ main.at = v
      /\ UNCHANGED << state, handler, kern, chan, agent, quiet >>
      /\ crashed => crashed'
      /\ \/ main'.pc = "write" /\ main'.at = v /\ work' = work
         \/ main'.pc = "work" /\ work'[v] = Absent
  BY FaultMonotone DEF MainSnapshot, MainSave, SaveFails, agentVars, faults, IInv, TypeOK
<1>2. work[v] # Absent /\ work[v].kind = "preserve"
  BY <1>1 DEF IInv, Local, AtWork
<1>3. state[v] # Absent /\ Preserves(v, work[v])
  BY <1>2, WorkAlone DEF Preserves
<1>4. AtWork(v)' /\ Gone(v)'
  BY <1>1, <1>2, <1>3, WorkAlone DEF AtWork, Gone, Leaving, Removing
<1>5. Agrees(v)'
  BY <1>1, <1>2, WorkAlone DEF IInv, Local, Agrees, DefaultsInRange, Midway, DeviceOf
<1>6. work'[v] # Absent => Preserves(v, work[v])'
  BY <1>1, <1>3 DEF Preserves
<1> QED BY <1>1, <1>2, <1>4, <1>5, <1>6, WorkStep

LEMMA MainRemoveLocal ==
  ASSUME IInv, NEW v \in Vmids, MainForgetName(v) \/ MainRemove(v)
  PROVE  Local(v)'
<1>1. /\ UNCHANGED << state, handler, chan, agent, quiet, faults >>
      /\ main'.pc \in {"work", "unlink"}
  BY DEF MainForgetName, MainRemove, agentVars
<1>2. work[v] # Absent /\ work[v].kind = "remove"
  BY DEF MainForgetName, MainRemove, Todo, IInv, Local, AtWork
<1>3. state[v] = Absent
  BY <1>2, WorkAlone
<1>4. Agrees(v)'
  BY <1>1, <1>3 DEF Agrees
<1>5. CASE MainForgetName(v)
  <2>1. UNCHANGED << work, kern >> /\ main'.pc = "unlink" /\ main'.at = v
    BY <1>5 DEF MainForgetName
  <2>2. AtWork(v)' /\ Gone(v)'
    BY <1>1, <1>2, <1>3, <2>1, WorkAlone DEF AtWork, Gone, Leaving, Removing
  <2> QED BY <1>1, <1>2, <1>4, <2>1, <2>2, WorkStep
<1>6. CASE MainRemove(v)
  <2>1. work'[v] = Absent /\ kern'[v] = Absent /\ main'.pc = "work"
    BY <1>6 DEF MainRemove, IInv, TypeOK
  <2>2. AtWork(v)' /\ Gone(v)'
    BY <1>1, <1>2, <1>3, <2>1, WorkAlone DEF AtWork, Gone, Leaving, Removing
  <2> QED BY <1>1, <1>2, <1>4, <2>1, <2>2, WorkStep
<1> QED BY <1>5, <1>6

(* A restored entry: runtime and device are what the cache says.           *)
LEMMA RestoreLocal ==
  ASSUME IInv, NEW v \in Vmids, Restore(v)
  PROVE  Local(v)'
<1> DEFINE c == cache[v]
<1>1. /\ main.pc = "restore" /\ v \in main.todo
      /\ main' = [main EXCEPT !.todo = main.todo \ {v}]
      /\ UNCHANGED << cache, work, handler, chan, agent >>
  BY DEF Restore, agentVars
<1>2. /\ crashed /\ handler[v].pc = "off" /\ ~quiet[v]
      /\ state[v] = Absent /\ c # Absent /\ work[v] = Absent
  BY <1>1 DEF IInv, Local, Restoring, AtWork
<1>3. main'.pc = "restore" /\ v \notin main'.todo
  <2>1. main \in [pc : {"restore"}, todo : SUBSET Vmids]
    BY <1>1, MainShapes DEF IInv, TypeOK
  <2> QED BY <1>1, <2>1
<1>4. c \in Entries
  BY <1>2 DEF IInv, TypeOK, Snapshots
<1>5. /\ c.gen \in Gens /\ c.name \in Names /\ c.layout \in Seq(Sensors)
      /\ c = [gen |-> c.gen, name |-> c.name, layout |-> c.layout]
  BY <1>4 DEF Entries
<1>6. crashed'
  BY <1>2 DEF Restore, InstallSucceeds, InstallFails, Fault, faults
<1>7. Ahead(v)' /\ Keeping(v)' /\ Decided(v)' /\ AtWork(v)'
  BY <1>1, <1>2, <1>3 DEF Ahead, Keeping, Decided, AtWork
<1>8. Gone(v)'
  BY <1>1, <1>2, <1>6 DEF Gone, Leaving, Removing
<1>9. CASE InstallSucceeds(v, c) /\ InsertDefaults(v, c)
  <2>1. /\ state'[v] = Runtime(c.gen, c.layout, c.name, FALSE, TRUE) /\ ~quiet'[v]
        /\ kern'[v] = DeviceOf(c)
    BY <1>9 DEF InstallSucceeds, InsertDefaults, KernelInstalls, DeviceOf, IInv, TypeOK
  <2>2. /\ state'[v] # Absent /\ state'[v].gen = c.gen /\ state'[v].name = c.name
        /\ state'[v].layout = c.layout
    <3>1. state'[v] # Absent
      BY <1>5, <2>1, Present
    <3> QED BY <2>1, <3>1 DEF Runtime
  <2>3. Quiet(v)' /\ Hushed(v)' /\ Restoring(v)'
    BY <1>1, <1>2, <1>3, <1>6, <2>1 DEF Quiet, Hushed, Overdue, Restoring
  <2>4. Agrees(v)'
    BY <2>1, <2>2 DEF Agrees, DeviceOf
  <2> QED BY <1>7, <1>8, <2>3, <2>4 DEF Local
<1>10. CASE InstallFails(v, c) /\ UNCHANGED << state, quiet >>
  <2>1. Quiet(v)' /\ Hushed(v)' /\ Restoring(v)'
    BY <1>1, <1>2, <1>3, <1>6, <1>10 DEF Quiet, Hushed, Overdue, Restoring
  <2>2. Agrees(v)'
    BY <1>1, <1>2, <1>10 DEF Agrees
  <2> QED BY <1>7, <1>8, <2>1, <2>2 DEF Local
<1> QED BY <1>9, <1>10 DEF Restore

-----------------------------------------------------------------------------
(* Steps of the main thread that are about all VMs.                        *)

LEMMA CheckLocal ==
  ASSUME IInv, NEW v \in Vmids, CheckHeartbeats
  PROVE  Local(v)'
<1> DEFINE overdue == {u \in Vmids : Overdue(u)}
           removed == {u \in overdue : Policy # "warn_only" /\ ~KeepsSensors(u)}
           kept == {u \in overdue : Policy # "warn_only" /\ KeepsSensors(u)}
<1>1. /\ main.pc = "loop" /\ main'.pc = "work"
      /\ UNCHANGED << handler, kern, chan, agent, quiet, faults >>
      /\ state'[v] = IF v \in removed THEN Absent
                     ELSE IF v \in overdue THEN [state[v] EXCEPT !.offline = TRUE]
                     ELSE state[v]
      /\ work'[v] = IF v \in removed THEN [kind |-> "remove"]
                    ELSE IF v \in kept THEN Preserved(v)
                    ELSE Absent
  BY DEF CheckHeartbeats, agentVars
<1>2. work[v] = Absent
  BY <1>1 DEF IInv, Local, AtWork
<1>3. CASE ~Overdue(v)
  BY <1>1, <1>2, <1>3, Frame DEF Elsewhere, faults
<1>4. CASE Overdue(v)
  <2>1. chan[v] = << >> /\ agent[v].mode # "up" /\ ~Busy(v) /\ state[v] # Absent
    BY <1>4 DEF IInv, Local, Hushed, Overdue
  <2>2. Quiet(v)' /\ Hushed(v)' /\ AtWork(v)' /\ Restoring(v)'
    BY <1>1, <2>1 DEF Quiet, Hushed, Busy, AtWork, Restoring, Rounds
  <2>3. Ahead(v)' /\ Decided(v)'
    BY <1>1, <2>1 DEF Ahead, Decided, Busy
  <2>5. CASE v \in removed
    <3>1. state'[v] = Absent /\ work'[v] = [kind |-> "remove"]
      BY <1>1, <2>5
    <3>2. work'[v] # Absent /\ work'[v].kind = "remove"
      BY <3>1, Present
    <3>3. Agrees(v)' /\ Gone(v)' /\ Keeping(v)'
      BY <1>1, <2>1, <3>1, <3>2
         DEF Agrees, Gone, Leaving, Removing, Keeping, Busy, KeepsSensors
    <3> QED BY <2>2, <2>3, <3>3 DEF Local
  <2>6. CASE v \notin removed
    <3>1. state'[v] = [state[v] EXCEPT !.offline = TRUE]
      BY <1>1, <1>4, <2>6
    <3>2. /\ state'[v] # Absent /\ state'[v].gen = state[v].gen
          /\ state'[v].name = state[v].name /\ state'[v].layout = state[v].layout
          /\ Snapshot'[v] = Snapshot[v]
      BY <2>1, <3>1, Marked DEF IInv
    <3>3. \/ work'[v] = Absent
          \/ work'[v] = Preserved(v) /\ KeepsSensors(v)
      BY <1>1, <2>6
    <3>5. Agrees(v)'
      BY <1>1, <2>1, <3>2 DEF IInv, Local, Agrees, DefaultsInRange, Midway, DeviceOf
    <3>6. ~Removing(v)'
      BY <3>3 DEF Removing, Preserved
    <3>7. Gone(v)'
      BY <1>1, <2>1, <3>2, <3>6 DEF Gone, Leaving, Busy
    <3>8. Keeping(v)'
      <4>1. work'[v] # Absent => Preserves(v, work[v])'
        BY <3>2, <3>3 DEF Preserves, Preserved, KeepsSensors
      <4> QED BY <1>1, <2>1, <4>1 DEF Keeping, Busy
    <3> QED BY <2>2, <2>3, <3>5, <3>7, <3>8 DEF Local
  <2> QED BY <2>5, <2>6
<1> QED BY <1>3, <1>4

LEMMA DoneLocal ==
  ASSUME IInv, NEW v \in Vmids,
         CheckDone \/ RemovedSnapshot \/ RemovedSave \/ RestoreDone
  PROVE  Local(v)'
<1>1. /\ UNCHANGED << state, work, handler, kern, chan, agent, quiet >>
      /\ crashed => crashed'
      /\ main.pc \in {"work", "last", "restore"} /\ main'.pc \in {"loop", "last"}
      /\ cache' = cache \/ main.pc # "restore"
  BY FaultMonotone DEF CheckDone, RemovedSnapshot, RemovedSave, RestoreDone, BeginSave,
     SaveFails, agentVars, faults, IInv
<1>2. work[v] = Absent
  BY DEF CheckDone, RemovedSnapshot, RemovedSave, RestoreDone, IInv, Local, AtWork
<1>3. Elsewhere(v)
  BY <1>1, <1>2 DEF Elsewhere
<1> QED BY <1>1, <1>3, Frame

LEMMA CrashLocal ==
  ASSUME IInv, NEW v \in Vmids, Crash
  PROVE  Local(v)'
<1>1. /\ state'[v] = Absent /\ work'[v] = Absent /\ handler'[v] = Off
      /\ ~quiet'[v] /\ crashed' /\ cache' = cache
      /\ main' = [pc |-> "restore", todo |-> {u \in Vmids : cache[u] # Absent}]
  BY DEF Crash, Fault, IInv, TypeOK
<1>2. handler'[v].pc = "off" /\ main'.pc = "restore"
      /\ (v \in main'.todo => cache'[v] # Absent)
  BY <1>1 DEF Off
<1>3. Quiet(v)' /\ Hushed(v)' /\ AtWork(v)' /\ Restoring(v)'
  BY <1>1, <1>2 DEF Quiet, Hushed, Overdue, AtWork, Restoring
<1>4. Ahead(v)' /\ Agrees(v)' /\ Keeping(v)' /\ Decided(v)'
  BY <1>1, <1>2 DEF Ahead, Agrees, Keeping, Decided
<1>5. Gone(v)'
  BY <1>1, <1>2 DEF Gone, Leaving, Removing
<1> QED BY <1>3, <1>4, <1>5 DEF Local

-----------------------------------------------------------------------------
(* Steps that are about another VM.                                        *)

LEMMA OtherHandler ==
  ASSUME IInv, NEW u \in Vmids, NEW v \in Vmids, u # v,
         \/ HandlerStep(u) \/ ScanSocket(u) \/ ReadTimeout(u) \/ Elapse(u)
         \/ \E retry \in BOOLEAN : Receive(u, retry)
  PROVE  Local(v)'
<1> USE DEF Goto, Close, agentVars, hostVars, faults
<1>1. UNCHANGED << main, work, agent >>
  BY DEF HandlerStep, Connect, HandleHello, SchemaName, SchemaDrop, SchemaDecide,
     SchemaUpdate, SchemaSet, SchemaSetFails, SchemaInsert, HandlerSnapshot, HandlerSave,
       HandlerSaveFails, SampleLookup,
     SampleValues, SampleFails, ByePreserve, ByeInstall, ByeInsert, ByeDecideRemove,
     ByeRemove, ByeName, ByeKernel, ScanSocket, ReadTimeout, Elapse, Receive
<1>2. crashed => crashed'
  BY FaultMonotone
     DEF HandlerStep, Connect, HandleHello, SchemaName, SchemaDrop, SchemaDecide,
     SchemaUpdate, SchemaSet, SchemaSetFails, SchemaInsert, HandlerSnapshot, HandlerSave,
       HandlerSaveFails, SampleLookup,
     SampleValues, SampleFails, ByePreserve, ByeInstall, ByeInsert, ByeDecideRemove,
     ByeRemove, ByeName, ByeKernel, ScanSocket, ReadTimeout, Elapse, Receive,
     SaveFails, InstallSucceeds, InstallFails, IInv
<1>3. /\ handler'[v] = handler[v] /\ chan'[v] = chan[v]
  BY ZenonT(60), Maps DEF IInv, HandlerStep, Connect, HandleHello, SchemaName, SchemaDrop, SchemaDecide,
     SchemaUpdate, SchemaSet, SchemaSetFails, SchemaInsert, HandlerSnapshot, HandlerSave,
       HandlerSaveFails, SampleLookup,
     SampleValues, SampleFails, ByePreserve, ByeInstall, ByeInsert, ByeDecideRemove,
     ByeRemove, ByeName, ByeKernel, ScanSocket, ReadTimeout, Elapse, Receive
<1>4. /\ state'[v] = state[v] /\ quiet'[v] = quiet[v]
  BY ZenonT(60), Maps DEF IInv, HandlerStep, Connect, HandleHello, SchemaName, SchemaDrop, SchemaDecide,
     SchemaUpdate, SchemaSet, SchemaSetFails, SchemaInsert, HandlerSnapshot, HandlerSave,
       HandlerSaveFails, SampleLookup,
     SampleValues, SampleFails, ByePreserve, ByeInstall, ByeInsert, ByeDecideRemove,
     ByeRemove, ByeName, ByeKernel, ScanSocket, ReadTimeout, Elapse, Receive,
     InsertDefaults
<1>5. kern'[v] = kern[v]
  BY Maps DEF IInv, HandlerStep, Connect, HandleHello, SchemaName, SchemaDrop, SchemaDecide,
     SchemaUpdate, SchemaSet, SchemaSetFails, SchemaInsert, HandlerSnapshot, HandlerSave,
       HandlerSaveFails, SampleLookup,
     SampleValues, SampleFails, ByePreserve, ByeInstall, ByeInsert, ByeDecideRemove,
     ByeRemove, ByeName, ByeKernel, ScanSocket, ReadTimeout, Elapse, Receive,
     InstallSucceeds, InstallFails, KernelInstalls
<1>6. cache' = cache \/ main.pc # "restore"
  <2>1. CASE HandlerSave(u)
    BY <2>1, BusyAlone DEF HandlerSave, Busy
  <2>2. CASE ~HandlerSave(u)
    BY <2>2 DEF HandlerStep, Connect, HandleHello, SchemaName, SchemaDrop, SchemaDecide,
       SchemaUpdate, SchemaSet, SchemaSetFails, SchemaInsert, HandlerSnapshot,
       HandlerSaveFails, BeginSave, SaveFails, SampleLookup,
       SampleValues, SampleFails, ByePreserve, ByeInstall, ByeInsert, ByeDecideRemove,
       ByeRemove, ByeName, ByeKernel, ScanSocket, ReadTimeout, Elapse, Receive
  <2> QED BY <2>1, <2>2
<1> QED BY <1>1, <1>2, <1>3, <1>4, <1>5, <1>6, Frame

LEMMA OtherAgent ==
  ASSUME IInv, NEW u \in Vmids, NEW v \in Vmids, u # v, AgentStep(u)
  PROVE  Local(v)'
<1>1. UNCHANGED << hostVars, quiet >> /\ (crashed => crashed')
  BY FaultMonotone DEF AgentStep, AgentStart, AgentResync, AgentRescan, AgentSample,
     AgentHeartbeat, AgentGoodbye, AgentCrash, AgentStall, AgentResume, faults, IInv
<1>2. chan'[v] = chan[v] /\ agent'[v] = agent[v]
  BY Maps DEF IInv, AgentStep, AgentStart, AgentResync, AgentRescan, AgentSample,
     AgentHeartbeat, AgentGoodbye, AgentCrash, AgentStall, AgentResume, Send
<1> QED BY <1>1, <1>2, Frame DEF hostVars

LEMMA OtherMain ==
  ASSUME IInv, NEW u \in Vmids, NEW v \in Vmids, u # v,
         \/ MainInstall(u) \/ MainInsert(u) \/ MainSnapshot(u) \/ MainSave(u)
         \/ MainForgetName(u) \/ MainRemove(u)
  PROVE  Local(v)'
<1>1. UNCHANGED << handler, chan, agent >>
  BY DEF MainInstall, MainInsert, MainSnapshot, MainSave, MainForgetName, MainRemove, agentVars
<1>2. crashed => crashed'
  BY FaultMonotone DEF MainInstall, MainInsert, MainSnapshot, MainSave, MainForgetName, MainRemove,
     InstallSucceeds, InstallFails, SaveFails, faults, IInv
<1>3. state'[v] = state[v] /\ quiet'[v] = quiet[v]
  BY Maps DEF IInv, MainInstall, MainInsert, MainSnapshot, MainSave, MainForgetName, MainRemove, InsertDefaults
<1>4. kern'[v] = kern[v]
  BY Maps DEF IInv, MainInstall, MainInsert, MainSnapshot, MainSave, MainForgetName, MainRemove,
     InstallSucceeds, InstallFails, KernelInstalls
<1>5. work'[v] = work[v]
  BY Maps DEF IInv, MainInstall, MainInsert, MainSnapshot, MainSave, MainForgetName, MainRemove
<1>6. cache'[v] = cache[v] \/ main.pc # "restore"
  BY DEF MainInstall, MainInsert, MainSnapshot, MainSave, MainForgetName, MainRemove
<1>7. main' = main \/ Elsewhere(v)
  <2>1. CASE MainInstall(u)
    BY <2>1 DEF MainInstall, Elsewhere, Rounds
  <2>2. CASE MainInsert(u)
    <3>1. main \in [pc : {"insert", "save", "unlink"}, at : Vmids, removed : BOOLEAN]
      BY <2>2, MainShapes DEF MainInsert, IInv, TypeOK
    <3> QED BY <2>2, <3>1 DEF MainInsert, Elsewhere, Rounds
  <2>3. CASE MainSnapshot(u) \/ MainSave(u) \/ MainForgetName(u) \/ MainRemove(u)
    BY <2>3 DEF MainSnapshot, MainSave, MainForgetName, MainRemove, Elsewhere, Rounds
  <2> QED BY <2>1, <2>2, <2>3
<1> QED BY <1>1, <1>2, <1>3, <1>4, <1>5, <1>6, <1>7, Frame

LEMMA OtherRestore ==
  ASSUME IInv, NEW u \in Vmids, NEW v \in Vmids, u # v, Restore(u)
  PROVE  Local(v)'
<1>1. /\ UNCHANGED << cache, work, handler, chan, agent >>
      /\ state'[v] = state[v] /\ quiet'[v] = quiet[v] /\ kern'[v] = kern[v]
  BY Maps DEF IInv, Restore, agentVars, InstallSucceeds, InstallFails, KernelInstalls, InsertDefaults
<1>2. main.pc = "restore" /\ main' = [main EXCEPT !.todo = main.todo \ {u}]
  BY DEF Restore
<1>3. main'.pc = "restore" /\ main'.todo \subseteq main.todo
  <2>1. main \in [pc : {"restore"}, todo : SUBSET Vmids]
    BY <1>2, MainShapes DEF IInv, TypeOK
  <2> QED BY <1>2, <2>1
<1>4. crashed'
  <2>1. crashed
    BY <1>2 DEF IInv, Local, Restoring
  <2> QED BY <2>1 DEF Restore, InstallSucceeds, InstallFails, Fault, faults
<1> USE DEF IInv, Local
<1>5. Quiet(v)' /\ Hushed(v)' /\ AtWork(v)' /\ Restoring(v)'
  BY <1>1, <1>2, <1>3, <1>4 DEF Quiet, Hushed, Busy, Overdue, AtWork, Restoring
<1>6. Ahead(v)' /\ Agrees(v)'
  BY <1>1, <1>2, <1>3 DEF Ahead, Agrees, DefaultsInRange, Midway, DeviceOf
<1>7. Gone(v)' /\ Keeping(v)' /\ Decided(v)'
  BY <1>1, <1>4 DEF Gone, Leaving, Removing, KeepsSensors, Keeping, Preserves, Decided,
     Unchanged
<1> QED BY <1>5, <1>6, <1>7

-----------------------------------------------------------------------------
(* The invariant.                                                          *)

LEMMA Initially ==
  ASSUME Init
  PROVE  IInv /\ Orderly
<1>1. TypeOK
  <2>1. /\ [pc |-> "loop"] \in Mains /\ Off \in Handlers /\ Down \in Agents
        /\ << >> \in Seq(Messages) /\ Len(<< >>) = 0
    BY DEF Mains, Off, Handlers, Down, Agents
  <2>2. main \in Mains /\ handler \in [Vmids -> Handlers] /\ agent \in [Vmids -> Agents]
    BY <2>1 DEF Init
  <2>3. /\ chan \in [Vmids -> Seq(Messages)]
        /\ \A v \in Vmids : Len(chan[v]) <= MaxQueue
    BY <2>1, HostdBounds DEF Init
  <2>4. budget \in 0 .. MaxFaults /\ crashed \in BOOLEAN /\ erred \in BOOLEAN
    <3>1. budget = MaxFaults /\ crashed = FALSE /\ erred = FALSE
      BY DEF Init
    <3>2. MaxFaults \in 0 .. MaxFaults
      BY HostdBounds
    <3> QED BY <3>1, <3>2
  <2>5. cache \in Snapshots /\ alone \in BOOLEAN /\ spoilt \in BOOLEAN
    BY DEF Init, Snapshots
  <2> QED BY <2>2, <2>3, <2>4, <2>5 DEF Init, TypeOK
<1>2. ASSUME NEW v \in Vmids
      PROVE  Local(v)
  <2>1. /\ state[v] = Absent /\ work[v] = Absent /\ handler[v].pc = "off" /\ kern[v] = Absent
        /\ cache[v] = Absent /\ ~quiet[v] /\ main.pc = "loop"
    BY DEF Init, Off
  <2>2. Quiet(v) /\ Hushed(v) /\ AtWork(v) /\ Restoring(v)
    BY <2>1 DEF Quiet, Hushed, Overdue, AtWork, Restoring
  <2>3. Ahead(v) /\ Agrees(v) /\ Gone(v) /\ Keeping(v) /\ Decided(v)
    BY <2>1 DEF Ahead, Agrees, Gone, Leaving, Removing, Keeping, Decided
  <2> QED BY <2>2, <2>3 DEF Local
<1> QED BY <1>1, <1>2 DEF IInv, Orderly, Local

LEMMA LocalStep ==
  ASSUME NoOverlap, IInv, [Next]_vars, NEW v \in Vmids
  PROVE  Local(v)'
<1>1. ASSUME NEW u \in Vmids, HandlerStep(u)
      PROVE  Local(v)'
  <2>1. CASE u = v
    BY <1>1, <2>1, ConnectLocal, MovesLocal, DecideLocal, SetLocal, InsertLocal,
       ByePreserveLocal, ByeInstallLocal, ByeInsertLocal, ByeRemoveLocal DEF HandlerStep
  <2> QED BY <1>1, <2>1, OtherHandler
<1>2. ASSUME NEW u \in Vmids,
             \/ ScanSocket(u) \/ ReadTimeout(u) \/ Elapse(u)
             \/ \E retry \in BOOLEAN : Receive(u, retry)
      PROVE  Local(v)'
  <2>1. CASE u = v
    BY <1>2, <2>1, ConnectLocal, ElapseLocal, ReceiveLocal
  <2> QED BY <1>2, <2>1, OtherHandler
<1>3. ASSUME NEW u \in Vmids, AgentStep(u)
      PROVE  Local(v)'
  BY <1>3, AgentLocal, OtherAgent
<1>4. CASE MainStep
  <2>1. CASE CheckHeartbeats \/ CheckDone \/ RemovedSnapshot \/ RemovedSave \/ RestoreDone
    BY <2>1, CheckLocal, DoneLocal
  <2>2. ASSUME NEW u \in Vmids,
               \/ MainInstall(u) \/ MainInsert(u) \/ MainSnapshot(u) \/ MainSave(u)
               \/ MainForgetName(u) \/ MainRemove(u) \/ Restore(u)
        PROVE  Local(v)'
    <3>1. CASE u = v
      BY <2>2, <3>1, MainInstallLocal, MainInsertLocal, MainSaveLocal, MainRemoveLocal,
         RestoreLocal
    <3> QED BY <2>2, <3>1, OtherMain, OtherRestore
  <2> QED BY <1>4, <2>1, <2>2 DEF MainStep
<1>5. CASE UNCHANGED vars
  BY <1>5, Frame DEF vars
<1> QED BY <1>1, <1>2, <1>3, <1>4, <1>5, CrashLocal DEF Next

LEMMA Invariance ==
  ASSUME NoOverlap
  PROVE  Spec => []IInv
<1>1. Init => IInv
  BY Initially
<1>2. IInv /\ [Next]_vars => IInv'
  <2> SUFFICES ASSUME IInv, [Next]_vars PROVE IInv'
    OBVIOUS
  <2>1. TypeOK'
    BY TypeStep DEF IInv, Orderly, Local
  <2>2. ASSUME NEW v \in Vmids PROVE Local(v)'
    BY LocalStep
  <2> QED BY <2>1, <2>2 DEF IInv
<1> QED BY <1>1, <1>2, PTL DEF Spec

-----------------------------------------------------------------------------
(* The cache file.  A save that is alone carries a snapshot that is still  *)
(* that of the state, but for VMs about to save themselves.                *)

Fresh(v, entry) == state[v] # Absent /\ handler[v].pc # "save" => entry = Snapshot[v]

(* An entry lists persistent sensors, and only those.                      *)
Whole(entry) ==
  entry # Absent => entry.layout # << >> /\ PersistentPart(entry.layout) = entry.layout

Writing(v) == handler[v].pc = "write"
MainWriting == main.pc \in {"write", "last"}
InFlight(snap) ==
  \/ \E v \in Vmids : Writing(v) /\ snap = handler[v].snap
  \/ MainWriting /\ snap = main.snap

Saved ==
  /\ \A v \in Vmids : Whole(cache[v])
  /\ \A snap : InFlight(snap) =>
       \A v \in Vmids : Whole(snap[v]) /\ (alone => Fresh(v, snap[v]))
  /\ alone => \A u, v \in Vmids : Writing(u) => ~MainWriting /\ (Writing(v) => u = v)
  /\ Saving => alone \/ spoilt
  /\ ~spoilt => \A v \in Vmids : ~Writing(v) => Fresh(v, cache[v])

LEMMA SavedInitially == Init => Saved
BY DEF Init, Off, Saved, Whole, InFlight, Writing, MainWriting, Saving, Fresh

LEMMA SnapshotWhole ==
  ASSUME TypeOK, NEW v \in Vmids
  PROVE  Whole(Snapshot[v])
<1>1. CASE state[v] = Absent \/ PersistentPart(state[v].layout) = << >>
  BY <1>1 DEF Snapshot, Whole
<1>2. CASE ~(state[v] = Absent \/ PersistentPart(state[v].layout) = << >>)
  <2>1. state[v].layout \in Seq(Sensors)
    BY <1>2 DEF TypeOK, Runtimes
  <2>2. Snapshot[v].layout = PersistentPart(state[v].layout)
    BY <1>2 DEF Snapshot
  <2> QED BY <1>2, <2>1, <2>2, LayoutsType DEF Whole
<1> QED BY <1>1, <1>2

(* A VM whose snapshot a step leaves alone, or that is about to save.      *)
Settled(v) ==
  \/ state'[v] = Absent
  \/ handler'[v].pc = "save"
  \/ state[v] # Absent /\ handler[v].pc # "save" /\ Snapshot'[v] = Snapshot[v]

LEMMA FreshStays ==
  ASSUME NEW v \in Vmids, Settled(v), NEW entry, Fresh(v, entry)
  PROVE  Fresh(v, entry)'
BY DEF Settled, Fresh

LEMMA SameSettled ==
  ASSUME NEW v \in Vmids, state'[v] = state[v],
         handler'[v].pc # "save" => handler[v].pc # "save"
  PROVE  Settled(v)
BY DEF Settled, Snapshot

(* A step that neither begins nor ends a save.                             *)
LEMMA NoSave ==
  ASSUME Saved, UNCHANGED file,
         main' = main \/ (~MainWriting /\ ~MainWriting'),
         \A v \in Vmids : handler'[v] = handler[v] \/ (~Writing(v) /\ ~Writing(v)'),
         \A v \in Vmids : Settled(v)
  PROVE  Saved'
<1>1. /\ \A v \in Vmids : Writing(v)' = Writing(v) /\ (Writing(v) => handler'[v] = handler[v])
      /\ MainWriting' = MainWriting /\ (MainWriting => main' = main)
  BY DEF Writing, MainWriting
<1>2. \A snap : InFlight(snap)' => InFlight(snap)
  BY <1>1 DEF InFlight
<1>3. Saving' = Saving
  BY <1>1 DEF Saving, Writing, MainWriting
<1>4. \A snap : InFlight(snap)' =>
        \A v \in Vmids : Whole(snap[v])' /\ (alone' => Fresh(v, snap[v])')
  <2> SUFFICES ASSUME NEW snap, InFlight(snap)', NEW v \in Vmids
               PROVE  Whole(snap[v]) /\ (alone => Fresh(v, snap[v])')
    BY DEF Whole, Fresh
  <2>1. Whole(snap[v]) /\ (alone => Fresh(v, snap[v]))
    BY <1>2 DEF Saved
  <2> QED BY <2>1, FreshStays
<1>5. ~spoilt => \A v \in Vmids : ~Writing(v)' => Fresh(v, cache[v])'
  <2> SUFFICES ASSUME ~spoilt, NEW v \in Vmids, ~Writing(v)
               PROVE  Fresh(v, cache[v])'
    BY <1>1
  <2>1. Fresh(v, cache[v])
    BY DEF Saved
  <2> QED BY <2>1, FreshStays DEF Fresh, Settled
<1> QED BY <1>1, <1>3, <1>4, <1>5 DEF Saved, Whole

(* A save begins: it is alone if no other was under way.                   *)
LEMMA BeginSaved ==
  ASSUME IInv, Saved, BeginSave, state' = state,
         \A v \in Vmids : handler'[v] = handler[v] \/ handler[v].pc = "save",
         \A snap : InFlight(snap)' => snap = Snapshot \/ (Saving /\ InFlight(snap)),
         \A v \in Vmids : handler[v].pc = "save" => handler'[v].pc = "save" \/ Writing(v)',
         ~Saving => \A u, v \in Vmids : Writing(u)' => ~MainWriting' /\ (Writing(v)' => u = v)
  PROVE  Saved'
<1>1. cache' = cache /\ alone' = ~Saving /\ spoilt' = (spoilt \/ Saving)
  BY DEF BeginSave
<1>2. Snapshot' = Snapshot
  BY DEF Snapshot
<1>3. \A snap : InFlight(snap)' =>
        \A v \in Vmids : Whole(snap[v])' /\ (alone' => Fresh(v, snap[v])')
  <2> SUFFICES ASSUME NEW snap, InFlight(snap)', NEW v \in Vmids
               PROVE  Whole(snap[v]) /\ (alone' => Fresh(v, snap[v])')
    BY DEF Whole
  <2>1. CASE snap = Snapshot
    BY <1>2, <2>1, SnapshotWhole DEF Fresh, IInv
  <2>2. CASE Saving /\ InFlight(snap)
    BY <1>1, <2>2 DEF Saved
  <2> QED BY <2>1, <2>2
<1>4. ~spoilt' => \A v \in Vmids : ~Writing(v)' => Fresh(v, cache[v])'
  <2> SUFFICES ASSUME ~spoilt, NEW v \in Vmids, ~Writing(v)'
               PROVE  Fresh(v, cache[v])'
    BY <1>1
  <2>1. CASE handler[v].pc = "save"
    BY <2>1 DEF Fresh
  <2>2. CASE handler[v].pc # "save"
    <3>1. handler'[v] = handler[v] /\ Fresh(v, cache[v])
      BY <2>2 DEF Saved, Writing
    <3> QED BY <1>1, <1>2, <3>1 DEF Fresh
  <2> QED BY <2>1, <2>2
<1> QED BY <1>1, <1>3, <1>4 DEF Saved, Whole

(* A save ends, with the file replaced or not.                             *)
LEMMA EndSaved ==
  ASSUME Saved, state' = state, NEW snap, InFlight(snap), Save(snap) \/ SaveFails,
         \A v \in Vmids : \/ handler'[v] = handler[v]
                          \/ Writing(v) /\ handler'[v].pc \in {"read", "off"},
         \A s : InFlight(s)' => InFlight(s),
         alone => ~Saving'
  PROVE  Saved'
<1>1. /\ ~alone'
      /\ \/ cache' = cache /\ spoilt'
         \/ cache' = snap /\ spoilt' = (spoilt /\ ~alone)
  BY DEF Save, SaveFails
<1>2. Saving
  BY DEF InFlight, Saving, Writing, MainWriting
<1>3. Snapshot' = Snapshot
  BY DEF Snapshot
<1>4. \A v \in Vmids : Whole(cache[v])'
  BY <1>1 DEF Saved, Whole
<1>5. Saving' => spoilt'
  BY <1>1, <1>2 DEF Saved
<1>6. ~spoilt' => \A v \in Vmids : ~Writing(v)' => Fresh(v, cache[v])'
  <2> SUFFICES ASSUME ~spoilt', NEW v \in Vmids
               PROVE  Fresh(v, cache[v])'
    OBVIOUS
  <2>1. cache' = snap /\ alone
    BY <1>1, <1>2 DEF Saved
  <2>2. Fresh(v, snap[v])
    BY <2>1 DEF Saved
  <2> QED BY <1>3, <2>1, <2>2 DEF Fresh, Writing
<1>7. \A s : InFlight(s)' => \A v \in Vmids : Whole(s[v])
  BY DEF Saved
<1> QED BY <1>1, <1>4, <1>5, <1>6, <1>7 DEF Saved, Whole

LEMMA HandlerSaves ==
  ASSUME IInv, Saved, NEW w \in Vmids,
         HandlerSnapshot(w) \/ HandlerSave(w) \/ HandlerSaveFails(w)
  PROVE  Saved'
<1>1. UNCHANGED << state, main >> /\ MainWriting' = MainWriting
  BY DEF HandlerSnapshot, HandlerSave, HandlerSaveFails, MainWriting
<1>2. \A v \in Vmids : v # w => handler'[v] = handler[v] /\ Writing(v)' = Writing(v)
  BY DEF HandlerSnapshot, HandlerSave, HandlerSaveFails, Goto, Close, Writing, IInv, TypeOK
<1>3. CASE HandlerSnapshot(w)
  <2>1. /\ BeginSave /\ handler[w].pc = "save" /\ handler'[w].pc = "write"
        /\ handler'[w].snap = Snapshot
    BY <1>3 DEF HandlerSnapshot, Goto, IInv, TypeOK
  <2>2. \A s : InFlight(s)' => s = Snapshot \/ (Saving /\ InFlight(s))
    BY <1>1, <1>2, <2>1 DEF InFlight, Saving, Writing, MainWriting
  <2>3. \A v \in Vmids : handler'[v] = handler[v] \/ handler[v].pc = "save"
    BY <1>2, <2>1
  <2>4. \A v \in Vmids : handler[v].pc = "save" => handler'[v].pc = "save" \/ Writing(v)'
    BY <1>2, <2>1 DEF Writing
  <2>5. ~Saving => \A u, v \in Vmids : Writing(u)' => ~MainWriting' /\ (Writing(v)' => u = v)
    BY <1>1, <1>2 DEF Saving, Writing, MainWriting
  <2> QED BY <1>1, <2>1, <2>2, <2>3, <2>4, <2>5, BeginSaved
<1>4. CASE HandlerSave(w) \/ HandlerSaveFails(w)
  <2>1. /\ Writing(w) /\ handler'[w].pc \in {"read", "off"}
        /\ Save(handler[w].snap) \/ SaveFails
    BY <1>4 DEF HandlerSave, HandlerSaveFails, Goto, Close, Reading, Off, Writing, IInv, TypeOK
  <2>2. InFlight(handler[w].snap)
    BY <2>1 DEF InFlight
  <2>3. ~Writing(w)'
    BY <2>1 DEF Writing
  <2>4. \A s : InFlight(s)' => InFlight(s)
    BY <1>1, <1>2, <2>3 DEF InFlight
  <2>5. alone => ~Saving'
    BY <1>1, <1>2, <2>1, <2>3 DEF Saved, Saving, Writing, MainWriting
  <2>6. \A v \in Vmids : \/ handler'[v] = handler[v]
                         \/ Writing(v) /\ handler'[v].pc \in {"read", "off"}
    BY <1>2, <2>1
  <2> QED BY <1>1, <2>1, <2>2, <2>4, <2>5, <2>6, EndSaved
<1> QED BY <1>3, <1>4

LEMMA MainSaves ==
  ASSUME IInv, Saved,
         \/ RemovedSnapshot \/ RemovedSave
         \/ \E v \in Vmids : MainSnapshot(v) \/ MainSave(v)
  PROVE  Saved'
<1>1. UNCHANGED << state, handler >> /\ \A v \in Vmids : Writing(v)' = Writing(v)
  BY DEF RemovedSnapshot, RemovedSave, MainSnapshot, MainSave, Writing
<1>2. CASE RemovedSnapshot \/ \E v \in Vmids : MainSnapshot(v)
  <2>1. BeginSave /\ ~MainWriting /\ main'.snap = Snapshot
    BY <1>2 DEF RemovedSnapshot, MainSnapshot, MainWriting
  <2>2. \A s : InFlight(s)' => s = Snapshot \/ (Saving /\ InFlight(s))
    BY <1>1, <2>1 DEF InFlight, Saving, Writing
  <2>3. ~Saving => \A v \in Vmids : ~Writing(v)'
    BY <1>1 DEF Saving, Writing
  <2> QED BY <1>1, <2>1, <2>2, <2>3, BeginSaved
<1>3. CASE RemovedSave \/ \E v \in Vmids : MainSave(v)
  <2>1. MainWriting /\ ~MainWriting' /\ (Save(main.snap) \/ SaveFails)
    BY <1>3 DEF RemovedSave, MainSave, MainWriting
  <2>2. InFlight(main.snap) /\ \A s : InFlight(s)' => InFlight(s)
    BY <1>1, <2>1 DEF InFlight
  <2>3. alone => ~Saving'
    BY <1>1, <2>1 DEF Saved, Saving, Writing, MainWriting
  <2> QED BY <1>1, <2>1, <2>2, <2>3, EndSaved
<1> QED BY <1>2, <1>3

(* The runtime of a busy handler's VM changes only with a save to follow.  *)
LEMMA HandlerSaved ==
  ASSUME IInv, Saved, NEW w \in Vmids,
         \/ HandlerStep(w) \/ ScanSocket(w) \/ ReadTimeout(w) \/ Elapse(w)
         \/ \E retry \in BOOLEAN : Receive(w, retry),
         ~HandlerSnapshot(w), ~HandlerSave(w), ~HandlerSaveFails(w)
  PROVE  Saved'
<1> USE DEF Goto, Close, agentVars, hostVars, faults
<1>1. UNCHANGED file /\ main' = main
  BY DEF HandlerStep, Connect, HandleHello, SchemaName, SchemaDrop, SchemaDecide,
     SchemaUpdate, SchemaSet, SchemaSetFails, SchemaInsert, SampleLookup,
     SampleValues, SampleFails, ByePreserve, ByeInstall, ByeInsert, ByeDecideRemove,
     ByeRemove, ByeName, ByeKernel, ScanSocket, ReadTimeout, Elapse, Receive
<1>2. \A v \in Vmids : v # w => handler'[v] = handler[v] /\ state'[v] = state[v]
  BY ZenonT(60), Maps DEF IInv, HandlerStep, Connect, HandleHello, SchemaName, SchemaDrop,
     SchemaDecide, SchemaUpdate, SchemaSet, SchemaSetFails, SchemaInsert, SampleLookup,
     SampleValues, SampleFails, ByePreserve, ByeInstall, ByeInsert, ByeDecideRemove,
     ByeRemove, ByeName, ByeKernel, ScanSocket, ReadTimeout, Elapse, Receive,
     InsertDefaults
<1>3. handler[w].pc \notin {"save", "write"}
  BY DEF HandlerStep, Connect, HandleHello, SchemaName, SchemaDrop, SchemaDecide,
     SchemaUpdate, SchemaSet, SchemaSetFails, SchemaInsert, SampleLookup,
     SampleValues, SampleFails, ByePreserve, ByeInstall, ByeInsert, ByeDecideRemove,
     ByeRemove, ByeName, ByeKernel, ScanSocket, ReadTimeout, Elapse, Receive
<1>4. handler[w] \in Handlers /\ handler \in [Vmids -> Handlers]
  BY DEF IInv, TypeOK
<1>5. ~Writing(w)'
  <2>1. CASE SchemaDecide(w) \/ SchemaSet(w)
    <3>1. handler[w] \in [pc : {"decide", "update", "set_schema", "insert"}, msg : Reports,
                          name : Names]
      BY <1>4, <2>1, HandlerShapes DEF SchemaDecide, SchemaSet
    <3>2. handler'[w].pc \in {"update", "set_schema", "insert"}
      BY <1>4, <2>1, <3>1 DEF SchemaDecide, SchemaSet
    <3> QED BY <3>2 DEF Writing
  <2>2. CASE ByeInstall(w)
    <3>1. handler[w] \in [pc : {"bye_install", "bye_insert"}, keep : Keeps]
      BY <1>4, <2>2, HandlerShapes DEF ByeInstall
    <3>2. handler'[w].pc \in {"bye_insert", "off"}
      BY <1>4, <2>2, <3>1 DEF ByeInstall, Off
    <3> QED BY <3>2 DEF Writing
  <2>3. CASE \E retry \in BOOLEAN : Receive(w, retry)
    <3>1. chan[w] \in Seq(Messages) /\ chan[w] # << >>
      BY <2>3 DEF Receive, IInv, TypeOK
    <3>2. Head(chan[w]).type # "write"
      BY <3>1 DEF Messages, Reports
    <3> QED BY <1>4, <2>3, <3>2 DEF Receive, Reading, Writing
  <2>4. CASE Elapse(w)
    BY <1>3, <2>4 DEF Elapse, Writing
  <2>5. CASE \/ Connect(w) \/ HandleHello(w) \/ SchemaDrop(w) \/ SchemaSetFails(w)
             \/ SampleValues(w) \/ SampleFails(w) \/ ReadTimeout(w)
    <3>1. handler'[w] \in {Reading, Off}
      BY <1>4, <2>5 DEF Connect, HandleHello, SchemaDrop, SchemaSetFails, SampleValues,
         SampleFails, ReadTimeout
    <3> QED BY <3>1 DEF Reading, Off, Writing
  <2>6. CASE SampleLookup(w)
    BY <1>4, <2>6 DEF SampleLookup, Reading, Writing
  <2>7. CASE SchemaName(w) \/ ByePreserve(w)
    BY <1>4, <2>7 DEF SchemaName, ByePreserve, Writing
  <2>8. CASE SchemaUpdate(w) \/ SchemaInsert(w) \/ ByeInsert(w)
    <3>1. handler'[w] = [pc |-> "save"]
      BY <1>4, <2>8 DEF SchemaUpdate, SchemaInsert, ByeInsert
    <3> QED BY <3>1 DEF Writing
  <2>9. CASE ScanSocket(w) \/ ByeDecideRemove(w) \/ ByeRemove(w) \/ ByeName(w) \/ ByeKernel(w)
    BY <1>4, <2>9 DEF ScanSocket, ByeDecideRemove, ByeRemove, ByeName, ByeKernel, Writing
  <2> QED BY <2>1, <2>2, <2>3, <2>4, <2>5, <2>6, <2>7, <2>8, <2>9 DEF HandlerStep
<1>6. Settled(w)
  <2>1. CASE SchemaUpdate(w) \/ SchemaInsert(w) \/ ByeInsert(w)
    <3>1. handler'[w] = [pc |-> "save"]
      BY <1>4, <2>1 DEF SchemaUpdate, SchemaInsert, ByeInsert
    <3> QED BY <3>1 DEF Settled
  <2>2. CASE ByeRemove(w)
    BY <2>2 DEF ByeRemove, Settled, IInv, TypeOK
  <2>3. CASE ByePreserve(w)
    <3>1. state[w] # Absent /\ state'[w] = [state[w] EXCEPT !.offline = TRUE]
      BY <2>3 DEF ByePreserve, KeepsSensors, IInv, TypeOK
    <3> QED BY <1>3, <3>1, Marked DEF Settled, IInv
  <2>4. CASE \E retry \in BOOLEAN : Receive(w, retry)
    <3>1. state'[w] = IF state[w] = Absent THEN Absent ELSE [state[w] EXCEPT !.offline = FALSE]
      BY <2>4 DEF Receive, IInv, TypeOK
    <3>2. CASE state[w] # Absent
      <4>1. state[w] \in Runtimes
        BY <3>2 DEF IInv, TypeOK
      <4>2. [state[w] EXCEPT !.offline = FALSE] \in Runtimes
        BY <4>1 DEF Runtimes
      <4>3. /\ state'[w] # Absent /\ state'[w].gen = state[w].gen
            /\ state'[w].name = state[w].name /\ state'[w].layout = state[w].layout
        BY <3>1, <3>2, <4>1, <4>2, AbsentAssumption DEF Runtimes
      <4>4. Snapshot'[w] = Snapshot[w]
        BY <3>2, <4>3 DEF Snapshot
      <4> QED BY <1>3, <3>2, <4>4 DEF Settled
    <3> QED BY <3>1, <3>2 DEF Settled
  <2>5. CASE state' = state
    BY <1>3, <2>5, SameSettled
  <2> QED BY <2>1, <2>2, <2>3, <2>4, <2>5 DEF HandlerStep, Connect, HandleHello, SchemaName,
     SchemaDrop, SchemaDecide, SchemaSet, SchemaSetFails, SampleLookup, SampleValues,
     SampleFails, ByeInstall, ByeDecideRemove, ByeName, ByeKernel,
     ScanSocket, ReadTimeout, Elapse
<1>7. \A v \in Vmids : Settled(v)
  BY <1>2, <1>6, SameSettled
<1>8. \A v \in Vmids : handler'[v] = handler[v] \/ (~Writing(v) /\ ~Writing(v)')
  BY <1>2, <1>3, <1>5 DEF Writing
<1> QED BY <1>1, <1>7, <1>8, NoSave

LEMMA MainSaved ==
  ASSUME IInv, Saved,
         \/ CheckHeartbeats \/ CheckDone \/ RestoreDone
         \/ \E v \in Vmids : MainInstall(v) \/ MainInsert(v) \/ MainForgetName(v) \/ MainRemove(v)
  PROVE  Saved'
<1> USE DEF agentVars, hostVars, faults
<1>1. UNCHANGED file /\ handler' = handler
  BY DEF CheckHeartbeats, CheckDone, RestoreDone, MainInstall, MainInsert, MainForgetName,
     MainRemove
<1>2. main' = main \/ (~MainWriting /\ ~MainWriting')
  <2>1. ASSUME NEW u \in Vmids, MainInsert(u)
        PROVE  ~MainWriting /\ ~MainWriting'
    <3>1. main \in [pc : {"insert", "save", "unlink"}, at : Vmids, removed : BOOLEAN]
      BY <2>1, MainShapes DEF MainInsert, IInv, TypeOK
    <3> QED BY <2>1, <3>1 DEF MainInsert, MainWriting
  <2> QED BY <2>1 DEF CheckHeartbeats, CheckDone, RestoreDone, MainInstall, MainForgetName,
     MainRemove, MainWriting
<1>3. ASSUME NEW v \in Vmids
      PROVE  Settled(v)
  <2>1. CASE state'[v] = state[v]
    BY <1>1, <2>1, SameSettled
  <2>2. CASE CheckHeartbeats
    <3>1. \/ state'[v] \in {Absent, state[v]}
          \/ Overdue(v) /\ state'[v] = [state[v] EXCEPT !.offline = TRUE]
      BY <2>2 DEF CheckHeartbeats
    <3>2. CASE Overdue(v) /\ state'[v] = [state[v] EXCEPT !.offline = TRUE]
      <4>1. state[v] # Absent /\ handler[v].pc # "save"
        BY <3>2 DEF Overdue, IInv, Local, Hushed, Busy
      <4> QED BY <3>2, <4>1, Marked DEF Settled, IInv
    <3> QED BY <2>1, <3>1, <3>2 DEF Settled
  <2>3. ASSUME NEW u \in Vmids, MainInsert(u)
        PROVE  Settled(v)
    <3>1. CASE u # v
      BY <2>1, <2>3, <3>1, Maps DEF MainInsert, InsertDefaults, IInv
    <3>2. CASE u = v
      <4> DEFINE w == work[v]
      <4>1. w # Absent /\ w.kind = "preserve"
        BY <2>3, <3>2 DEF MainInsert, IInv, Local, AtWork
      <4>2. Preserves(v, w) /\ w \in Keeps /\ ~Busy(v)
        BY <4>1, WorkAlone
      <4>3. w.gen \in Gens /\ w.name \in Names /\ w.layout \in Seq(Sensors)
        BY <4>2 DEF Keeps
      <4>4. state'[v] = Runtime(w.gen, w.layout, w.name, FALSE, TRUE)
        BY <2>3, <3>2 DEF MainInsert, InsertDefaults, IInv, TypeOK
      <4>5. /\ state'[v] # Absent /\ state'[v].gen = w.gen /\ state'[v].name = w.name
            /\ state'[v].layout = w.layout
        <5>1. state'[v] # Absent
          BY <4>3, <4>4, Present
        <5> QED BY <4>4, <5>1 DEF Runtime
      <4>6. PersistentPart(w.layout) = w.layout
        <5>1. state[v].layout \in Seq(Sensors)
          BY <4>2 DEF Preserves, IInv, TypeOK, Runtimes
        <5> QED BY <4>2, <5>1, LayoutsType DEF Preserves
      <4>7. Snapshot'[v] = Snapshot[v]
        BY <4>2, <4>5, <4>6 DEF Snapshot, Preserves
      <4> QED BY <4>2, <4>7 DEF Settled, Preserves, Busy
    <3> QED BY <3>1, <3>2
  <2> QED BY <2>1, <2>2, <2>3 DEF CheckDone, RestoreDone, MainInstall, MainForgetName, MainRemove
<1> QED BY <1>1, <1>2, <1>3, NoSave

(* While entries are restored nobody saves; one that is restored is that of *)
(* the file.                                                               *)
LEMMA RestoreSaved ==
  ASSUME IInv, Saved, NEW u \in Vmids, Restore(u)
  PROVE  Saved'
<1> DEFINE c == cache[u]
<1>1. /\ UNCHANGED << cache, alone, spoilt, handler >>
      /\ main.pc = "restore" /\ u \in main.todo
      /\ main' = [main EXCEPT !.todo = main.todo \ {u}]
  BY DEF Restore
<1>2. main'.pc = "restore"
  <2>1. main \in [pc : {"restore"}, todo : SUBSET Vmids]
    BY <1>1, MainShapes DEF IInv, TypeOK
  <2> QED BY <1>1, <2>1
<1>3. \A v \in Vmids : handler[v].pc = "off"
  BY <1>1 DEF IInv, Local, Restoring
<1>4. ~Saving' /\ \A snap : ~InFlight(snap)'
  BY <1>1, <1>2, <1>3 DEF Saving, InFlight, Writing, MainWriting
<1>5. c \in Entries
  BY <1>1 DEF IInv, TypeOK, Local, Restoring, Snapshots
<1>6. /\ c.gen \in Gens /\ c.name \in Names /\ c.layout \in Seq(Sensors)
      /\ c = [gen |-> c.gen, name |-> c.name, layout |-> c.layout]
      /\ PersistentPart(c.layout) = c.layout /\ c.layout # << >>
  BY <1>5, Present DEF Entries, Saved, Whole
<1>7. \/ state' = state
      \/ state' = [state EXCEPT ![u] = Runtime(c.gen, c.layout, c.name, FALSE, TRUE)]
  BY DEF Restore, InsertDefaults
<1>8. ASSUME NEW v \in Vmids, Fresh(v, cache[v])
      PROVE  Fresh(v, cache[v])'
  <2>1. CASE state'[v] = state[v]
    BY <1>1, <1>8, <2>1 DEF Fresh, Snapshot
  <2>2. CASE v = u /\ state'[u] = Runtime(c.gen, c.layout, c.name, FALSE, TRUE)
    <3>1. state'[u] # Absent
      BY <1>6, <2>2, Present
    <3>2. Snapshot'[u] = [gen |-> c.gen, name |-> c.name, layout |-> c.layout]
      BY <1>6, <2>2, <3>1 DEF Snapshot, Runtime
    <3> QED BY <1>1, <1>6, <2>2, <3>2 DEF Fresh
  <2> QED BY <1>7, <2>1, <2>2, Maps DEF IInv, TypeOK
<1>9. ~spoilt => \A v \in Vmids : ~Writing(v)' => Fresh(v, cache[v])'
  BY <1>3, <1>8 DEF Saved, Writing
<1> QED BY <1>1, <1>2, <1>3, <1>4, <1>9 DEF Saved, Whole, Writing, MainWriting

LEMMA CrashSaved ==
  ASSUME IInv, Saved, Crash
  PROVE  Saved'
<1>1. /\ cache' = cache /\ ~alone' /\ ~spoilt' /\ main'.pc = "restore"
      /\ \A v \in Vmids : state'[v] = Absent /\ handler'[v].pc = "off"
  BY DEF Crash, Off
<1> QED BY <1>1 DEF Saved, Whole, InFlight, Saving, Writing, MainWriting, Fresh

LEMMA SavedStep ==
  ASSUME IInv, Saved, [Next]_vars
  PROVE  Saved'
<1>1. ASSUME UNCHANGED << state, file, main, handler >>
      PROVE  Saved'
  BY <1>1, SameSettled, NoSave
<1>2. ASSUME NEW v \in Vmids, AgentStep(v)
      PROVE  Saved'
  <2>1. UNCHANGED hostVars
    BY <1>2 DEF AgentStep, AgentStart, AgentResync, AgentRescan, AgentSample,
       AgentHeartbeat, AgentGoodbye, AgentCrash, AgentStall, AgentResume
  <2> QED BY <1>1, <2>1 DEF hostVars
<1>3. CASE UNCHANGED vars
  BY <1>1, <1>3 DEF vars
<1>4. CASE MainStep
  BY <1>4, MainSaves, MainSaved, RestoreSaved DEF MainStep
<1>5. ASSUME NEW v \in Vmids,
             \/ HandlerStep(v) \/ ScanSocket(v) \/ ReadTimeout(v) \/ Elapse(v)
             \/ \E retry \in BOOLEAN : Receive(v, retry)
      PROVE  Saved'
  BY <1>5, HandlerSaves, HandlerSaved
<1> QED BY <1>2, <1>3, <1>4, <1>5, CrashSaved DEF Next

-----------------------------------------------------------------------------
(* Theorems.                                                               *)

(* The shared maps of hostd, the records its threads carry and the queues  *)
(* stay well formed whatever overlaps: each step of a thread finds what it *)
(* carried over from the section before.                                   *)
THEOREM TypeCorrect == Spec => []TypeOK
<1> DEFINE Ordered == TypeOK /\ Orderly
<1>1. Init => Ordered
  BY Initially DEF IInv
<1>2. Ordered /\ [Next]_vars => Ordered'
  BY TypeStep, OrderlyStep
<1>3. Ordered => TypeOK
  OBVIOUS
<1> QED BY <1>1, <1>2, <1>3, PTL DEF Spec

(* hostd: between two operations on a VM the runtime describes the device  *)
(* in the driver, so that every sensor number addresses its own sensor.    *)
THEOREM KernelAgrees ==
  ASSUME NoOverlap, DefaultsInRange
  PROVE  Spec => []KernelMatchesState
<1>1. IInv => KernelMatchesState
  <2> SUFFICES ASSUME IInv, NEW v \in Vmids, AtRest(v), state[v] # Absent
               PROVE  kern[v] = [name |-> state[v].name, layout |-> state[v].layout]
    BY DEF KernelMatchesState
  <2>1. ~Midway(v)
    BY DEF AtRest, Midway, IInv, Local, AtWork
  <2> QED BY <2>1 DEF IInv, Local, Agrees, DeviceOf
<1> QED BY <1>1, Invariance, PTL

(* hostd: as long as it has not crashed, the driver has no device for a VM *)
(* that hostd does not know any more.                                      *)
THEOREM NoOrphans ==
  ASSUME NoOverlap
  PROVE  Spec => []NoOrphanDevice
<1>1. IInv => NoOrphanDevice
  <2> SUFFICES ASSUME IInv, NEW v \in Vmids, AtRest(v), state[v] = Absent, kern[v] # Absent
               PROVE  crashed
    BY DEF NoOrphanDevice
  <2>1. ~Leaving(v) /\ handler[v].pc # "insert"
    BY DEF AtRest, Leaving, Removing
  <2> QED BY <2>1 DEF IInv, Local, Gone
<1> QED BY <1>1, Invariance, PTL

(* hostd: between two operations the cache file holds the persistent       *)
(* sensors of every VM, so that a crash loses none, unless saves met or    *)
(* one failed and none has had the file to itself since.                   *)
THEOREM CacheComplete ==
  ASSUME NoOverlap
  PROVE  Spec => []CacheMatchesState
<1>1. Init => Saved
  BY SavedInitially
<1>2. IInv /\ Saved /\ [Next]_vars => Saved'
  BY SavedStep
<1>3. IInv /\ Saved => CacheMatchesState
  <2> SUFFICES ASSUME Saved, NEW v \in Vmids, AtRest(v), state[v] # Absent, ~spoilt
               PROVE  cache[v] = Snapshot[v]
    BY DEF CacheMatchesState
  <2>1. handler[v].pc \notin {"save", "write"}
    BY DEF AtRest
  <2> QED BY <2>1 DEF Saved, Fresh, Writing
<1> QED BY <1>1, <1>2, <1>3, Invariance, PTL DEF Spec

(* What a step other than a schema or a crash does to a VM that has        *)
(* persistent sensors.                                                     *)
Stays(v) ==
  /\ state'[v] # Absent
  /\ PersistentPart(state'[v].layout) = PersistentPart(state[v].layout)
  /\ kern[v] # Absent => kern'[v] # Absent

LEMMA SameStays ==
  ASSUME NEW v \in Vmids, KeepsSensors(v), state'[v] = state[v],
         kern'[v] = kern[v] \/ kern'[v] # Absent
  PROVE  Stays(v)
BY DEF KeepsSensors, Stays

(* A step that changes the kernel or the state of VM u only.               *)
LEMMA OtherStays ==
  ASSUME IInv, NEW v \in Vmids, KeepsSensors(v),
         state' = state \/ \E u \in Vmids \ {v} : \E x : state' = [state EXCEPT ![u] = x],
         kern' = kern \/ \E u \in Vmids \ {v} : \E x : kern' = [kern EXCEPT ![u] = x]
  PROVE  Stays(v)
<1>1. state'[v] = state[v] /\ kern'[v] = kern[v]
  BY Maps DEF IInv
<1> QED BY <1>1, SameStays

(* Inserting what was preserved keeps what is persistent.                  *)
LEMMA InsertStays ==
  ASSUME IInv, NEW v \in Vmids, NEW p \in Keeps, Preserves(v, p), InsertDefaults(v, p),
         kern' = kern
  PROVE  Stays(v)
<1>1. state[v] \in Runtimes
  BY DEF Preserves, IInv, TypeOK
<1>2. state[v].layout \in Seq(Sensors)
  BY <1>1 DEF Runtimes
<1>3. p.gen \in Gens /\ p.name \in Names /\ p.layout \in Seq(Sensors)
  BY DEF Keeps
<1>4. state'[v] = Runtime(p.gen, p.layout, p.name, FALSE, TRUE)
  BY DEF InsertDefaults, IInv, TypeOK
<1>5. state'[v] # Absent /\ state'[v].layout = p.layout
  <2>1. state'[v] # Absent
    BY <1>3, <1>4, Present
  <2> QED BY <1>4, <2>1 DEF Runtime
<1> QED BY <1>2, <1>5, LayoutsType DEF Stays, Preserves

(* A device that is installed is there.                                    *)
LEMMA InstallStays ==
  ASSUME IInv, NEW v \in Vmids, KeepsSensors(v), state' = state,
         NEW u \in Vmids, NEW p \in Keeps, InstallSucceeds(u, p) \/ InstallFails(u, p)
  PROVE  Stays(v)
<1>1. p.name \in Names /\ p.layout \in Seq(Sensors)
  BY DEF Keeps
<1>2. [name |-> p.name, layout |-> p.layout] # Absent
  BY <1>1, Present
<1>3. kern' = kern \/ kern' = [kern EXCEPT ![u] = [name |-> p.name, layout |-> p.layout]]
  BY DEF InstallSucceeds, InstallFails, KernelInstalls
<1>4. kern'[v] = kern[v] \/ kern'[v] # Absent
  BY <1>2, <1>3, Maps DEF IInv
<1> QED BY <1>4, SameStays

LEMMA HandlerStays ==
  ASSUME IInv, NEW u \in Vmids, NEW v \in Vmids, KeepsSensors(v),
         ~SchemaInsert(v), ~SchemaUpdate(v),
         \/ HandlerStep(u) \/ ScanSocket(u) \/ ReadTimeout(u) \/ Elapse(u)
         \/ \E retry \in BOOLEAN : Receive(u, retry)
  PROVE  Stays(v)
<1>1. handler[u] \in Handlers
  BY DEF IInv, TypeOK
<1>2. CASE \/ Connect(u) \/ HandleHello(u) \/ SchemaName(u) \/ SchemaDrop(u)
           \/ SchemaDecide(u) \/ SchemaSetFails(u) \/ HandlerSnapshot(u) \/ HandlerSave(u)
           \/ HandlerSaveFails(u) \/ SampleLookup(u)
           \/ SampleValues(u) \/ SampleFails(u) \/ ByeDecideRemove(u) \/ ByeName(u)
           \/ ScanSocket(u) \/ ReadTimeout(u) \/ Elapse(u)
  <2>1. UNCHANGED << state, kern >>
    BY <1>2 DEF Connect, HandleHello, SchemaName, SchemaDrop, SchemaDecide,
       SchemaSetFails, HandlerSnapshot, HandlerSave, HandlerSaveFails, SampleLookup,
       SampleValues, SampleFails,
       ByeDecideRemove, ByeName, ScanSocket, ReadTimeout, Elapse, hostVars
  <2> QED BY <2>1, SameStays
<1>3. CASE SchemaUpdate(u) \/ SchemaInsert(u)
  <2>1. u # v /\ kern' = kern
    BY <1>3 DEF SchemaUpdate, SchemaInsert
  <2>2. state' = state \/ \E x : state' = [state EXCEPT ![u] = x]
    BY <1>3 DEF SchemaUpdate, SchemaInsert
  <2> QED BY <2>1, <2>2, OtherStays
<1>4. CASE SchemaSet(u)
  <2>1. handler[u] \in [pc : {"decide", "update", "set_schema", "insert"}, msg : Reports,
                        name : Names]
    BY <1>1, <1>4, HandlerShapes DEF SchemaSet
  <2>2. handler[u].name \in Names /\ handler[u].msg.layout \in Seq(Sensors)
    BY <2>1, LayoutsType DEF Reports
  <2>3. kern'[v] = kern[v] \/ kern'[v] # Absent
    BY <1>4, <2>2, Present, Maps DEF SchemaSet, IInv
  <2> QED BY <1>4, <2>3, SameStays DEF SchemaSet
<1>5. CASE ByePreserve(u)
  <2>1. state' = [state EXCEPT ![u] = [state[u] EXCEPT !.offline = TRUE]] /\ kern' = kern
    BY <1>5 DEF ByePreserve
  <2>2. CASE u = v
    <3>1. state'[v] = [state[v] EXCEPT !.offline = TRUE] /\ state[v] # Absent
      BY <2>1, <2>2 DEF IInv, TypeOK, KeepsSensors
    <3> QED BY <2>1, <3>1, Marked DEF IInv, Stays
  <2> QED BY <2>1, <2>2, OtherStays
<1>6. CASE ByeInstall(u)
  <2>1. handler[u].keep \in Keeps /\ state' = state
    BY <1>1, <1>6, HandlerShapes DEF ByeInstall
  <2> QED BY <1>6, <2>1, InstallStays DEF ByeInstall
<1>7. CASE ByeInsert(u)
  <2>1. /\ handler[u].keep \in Keeps /\ kern' = kern /\ InsertDefaults(u, handler[u].keep)
        /\ Preserves(u, handler[u].keep)
    BY <1>1, <1>7, HandlerShapes DEF ByeInsert, IInv, Local, Keeping
  <2>2. u # v => \E x : state' = [state EXCEPT ![u] = x]
    BY <2>1 DEF InsertDefaults
  <2> QED BY <2>1, <2>2, InsertStays, OtherStays
<1>8. CASE ByeRemove(u) \/ ByeKernel(u)
  <2>1. u # v
    BY <1>8 DEF ByeRemove, ByeKernel, IInv, Local, Gone, Leaving, KeepsSensors
  <2> QED BY <1>8, <2>1, OtherStays DEF ByeRemove, ByeKernel
<1>9. CASE \E retry \in BOOLEAN : Receive(u, retry)
  <2>1. /\ kern' = kern
        /\ state' = IF state[u] = Absent THEN state
                    ELSE [state EXCEPT ![u] = [state[u] EXCEPT !.offline = FALSE]]
    BY <1>9 DEF Receive
  <2>2. CASE u = v
    <3>1. state[v] \in Runtimes
      BY DEF KeepsSensors, IInv, TypeOK
    <3>2. state'[v] = [state[v] EXCEPT !.offline = FALSE]
      BY <2>1, <2>2 DEF KeepsSensors, IInv, TypeOK
    <3>3. [state[v] EXCEPT !.offline = FALSE] \in Runtimes
      BY <3>1 DEF Runtimes
    <3>4. state'[v] # Absent /\ state'[v].layout = state[v].layout
      BY <3>1, <3>2, <3>3, AbsentAssumption DEF Runtimes
    <3> QED BY <2>1, <3>4 DEF Stays
  <2> QED BY <2>1, <2>2, OtherStays
<1> QED BY <1>2, <1>3, <1>4, <1>5, <1>6, <1>7, <1>8, <1>9 DEF HandlerStep

LEMMA MainStays ==
  ASSUME IInv, NEW v \in Vmids, KeepsSensors(v), MainStep
  PROVE  Stays(v)
<1>1. CASE CheckDone \/ RemovedSnapshot \/ RemovedSave \/ RestoreDone
  <2>1. UNCHANGED << state, kern >>
    BY <1>1 DEF CheckDone, RemovedSnapshot, RemovedSave, RestoreDone
  <2> QED BY <2>1, SameStays
<1>2. CASE CheckHeartbeats
  <2>1. /\ kern' = kern
        /\ state'[v] = state[v] \/ state'[v] = [state[v] EXCEPT !.offline = TRUE]
    BY <1>2 DEF CheckHeartbeats
  <2>2. CASE state'[v] = [state[v] EXCEPT !.offline = TRUE]
    BY <2>1, <2>2, Marked DEF KeepsSensors, IInv, Stays
  <2> QED BY <2>1, <2>2, SameStays
<1>3. ASSUME NEW u \in Vmids, MainSnapshot(u) \/ MainSave(u) \/ MainForgetName(u)
      PROVE  Stays(v)
  BY <1>3, SameStays DEF MainSnapshot, MainSave, MainForgetName
<1>4. ASSUME NEW u \in Vmids, MainInstall(u)
      PROVE  Stays(v)
  <2>1. work[u] \in Keeps /\ state' = state
    BY <1>4, WorkAlone DEF MainInstall, Todo
  <2> QED BY <1>4, <2>1, InstallStays DEF MainInstall
<1>5. ASSUME NEW u \in Vmids, MainInsert(u)
      PROVE  Stays(v)
  <2>1. /\ work[u] \in Keeps /\ kern' = kern /\ InsertDefaults(u, work[u])
        /\ Preserves(u, work[u])
    BY <1>5, WorkAlone DEF MainInsert, IInv, Local, AtWork
  <2>2. u # v => \E x : state' = [state EXCEPT ![u] = x]
    BY <2>1 DEF InsertDefaults
  <2> QED BY <2>1, <2>2, InsertStays, OtherStays
<1>6. ASSUME NEW u \in Vmids, MainRemove(u)
      PROVE  Stays(v)
  <2>1. u # v
    BY <1>6, WorkAlone DEF MainRemove, KeepsSensors, IInv, Local, AtWork
  <2> QED BY <1>6, <2>1, OtherStays DEF MainRemove
<1>7. ASSUME NEW u \in Vmids, Restore(u)
      PROVE  Stays(v)
  <2>1. u # v
    BY <1>7 DEF Restore, KeepsSensors, IInv, Local, Restoring
  <2>2. state' = state \/ \E x : state' = [state EXCEPT ![u] = x]
    BY <1>7 DEF Restore, InsertDefaults
  <2>3. kern' = kern \/ \E x : kern' = [kern EXCEPT ![u] = x]
    BY <1>7 DEF Restore, InstallSucceeds, InstallFails, KernelInstalls
  <2> QED BY <2>1, <2>2, <2>3, OtherStays
<1> QED BY <1>1, <1>2, <1>3, <1>4, <1>5, <1>6, <1>7 DEF MainStep

(* hostd: only a schema of the agent changes which persistent sensors a VM *)
(* has; timeouts, goodbyes and restores keep them and their device.        *)
THEOREM PersistentSensorsKept ==
  ASSUME NoOverlap
  PROVE  Spec => PersistentSensorsStay
<1> DEFINE Kept == \A v \in Vmids : KeepsSensors(v) =>
              \/ SchemaInsert(v) \/ SchemaUpdate(v) \/ Crash
              \/ /\ state'[v] # Absent
                 /\ PersistentPart(state'[v].layout) = PersistentPart(state[v].layout)
                 /\ kern[v] # Absent => kern'[v] # Absent
<1>1. IInv /\ [Next]_vars => [Kept]_vars
  <2> SUFFICES ASSUME IInv, Next, NEW v \in Vmids, KeepsSensors(v),
                      ~SchemaInsert(v), ~SchemaUpdate(v), ~Crash
               PROVE  Stays(v)
    BY DEF Stays
  <2>1. ASSUME NEW u \in Vmids, AgentStep(u) PROVE Stays(v)
    <3>1. UNCHANGED << state, kern >>
      BY <2>1 DEF AgentStep, AgentStart, AgentResync, AgentRescan, AgentSample,
         AgentHeartbeat, AgentGoodbye, AgentCrash, AgentStall, AgentResume, hostVars
    <3> QED BY <3>1, SameStays
  <2> QED BY <2>1, HandlerStays, MainStays DEF Next
<1> QED BY <1>1, Invariance, PTL DEF Spec, PersistentSensorsStay
=============================================================================
