------------------------------ MODULE VsbHwmon ------------------------------
(***************************************************************************)
(* The kernel driver kernel/vsb_hwmon.c: the list of per-VM hwmon devices, *)
(* the three ioctls that change it, module exit, and the sysfs readers of  *)
(* the devices.                                                            *)
(*                                                                         *)
(* Every thread moves at the granularity of the driver's locking: taking   *)
(* vsb_lock is a step, the critical section with its unlock is a step, and *)
(* what runs without the lock (hwmon registration, unregistration, kfree)  *)
(* is one step each, so that other threads run in between.                 *)
(*                                                                         *)
(* Labels, channels and device names never influence the control flow once *)
(* a schema is accepted, so a schema is the map from sensor id to kind.    *)
(***************************************************************************)
EXTENDS Integers, Sequences, VsbSensors

CONSTANTS
  Vmids,          \* VM identifiers (non-zero u32)
  Callers,        \* threads that issue ioctls
  Readers,        \* threads that read a sysfs attribute
  Objects,        \* memory that kzalloc can hand out for a struct vsb_vm
  Schemas,        \* accepted SET_SCHEMA inputs: functions from ids to kinds
  Batches,        \* SET_VALUES inputs: sequences of [id, value]
  SerialModulus,  \* serial is a u32: 2^32 in the code
  NoVm,           \* NULL
  Nobody          \* owner of a free mutex

ASSUME SchemasAssumption ==
  \A s \in Schemas : s \in [DOMAIN s -> Kinds]
ASSUME BatchesAssumption ==
  \A b \in Batches : b \in Seq([id : Nat, value : Int])
ASSUME SerialAssumption == SerialModulus \in Nat \ {0, 1}
ASSUME NullAssumption == NoVm \notin Objects
ASSUME NobodyAssumption == Nobody \notin Callers \cup Readers
ASSUME ThreadsAssumption == Callers \cap Readers = {}

VARIABLES
  loaded,           \* the module accepts new ioctls
  vsb_lock,         \* owner of the mutex
  allocated,        \* objects between kzalloc and kfree
  vm,               \* contents of each object
  vsb_vms,          \* the objects on the list
  registered,       \* objects whose hwmon device exists (hwmon_dev # NULL)
  pc,               \* where each caller is inside its ioctl
  new_vm,           \* the caller's new_vm
  old_vm,           \* the caller's old_vm (also remove's and exit's vm)
  expected_serial,  \* the caller's expected_serial
  victim,           \* argument of the caller's vsb_free_vm
  target,           \* vmid argument of the caller's ioctl
  ret,              \* return value of the caller's ioctl
  reading,          \* object each reader holds an active reference on
  unseen            \* history: updates of its VM that a call has not seen

vars == << loaded, vsb_lock, allocated, vm, vsb_vms, registered, pc, new_vm,
           old_vm, expected_serial, victim, target, ret, reading, unseen >>

callVars == << new_vm, old_vm, expected_serial, victim, target, ret >>

Errors == {"EFAULT", "EINVAL", "ENOMEM", "EBUSY", "ENOENT", "ERANGE"}
Pcs == {"idle", "snapshot", "register", "commit", "values", "remove",
        "unregister", "kfree", "return", "exit"}

BlankVm == [vmid |-> 0, serial |-> 0, sensors |-> << >>]

Init ==
  /\ loaded = TRUE
  /\ vsb_lock = Nobody
  /\ allocated = {}
  /\ vm = [o \in Objects |-> BlankVm]
  /\ vsb_vms = {}
  /\ registered = {}
  /\ pc = [c \in Callers |-> "idle"]
  /\ new_vm = [c \in Callers |-> NoVm]
  /\ old_vm = [c \in Callers |-> NoVm]
  /\ expected_serial = [c \in Callers |-> 0]
  /\ victim = [c \in Callers |-> NoVm]
  /\ target = [c \in Callers |-> 0]
  /\ ret = [c \in Callers |-> "none"]
  /\ reading = [r \in Readers |-> NoVm]
  /\ unseen = [c \in Callers |-> 0]

-----------------------------------------------------------------------------
(* Helpers of the driver.                                                  *)

find_vm(v) ==
  IF \E o \in vsb_vms : vm[o].vmid = v
  THEN CHOOSE o \in vsb_vms : vm[o].vmid = v
  ELSE NoVm

(* Mutant: a missing entry is told apart by the serial -1.                 *)
SerialOfSentinel(o) == IF o = NoVm THEN -1 ELSE vm[o].serial

SerialOf(o) == IF o = NoVm THEN 0 ELSE vm[o].serial

SensorsOf(o) == IF o = NoVm THEN << >> ELSE vm[o].sensors

-----------------------------------------------------------------------------
(* The history variable, which every action keeps: how often the entry of  *)
(* its VM was replaced since a SET_SCHEMA that is under way looked at it.  *)
(* The serial is the driver's own, bounded, account of the same.           *)

(* Between its snapshot and its commit.                                    *)
Underway(c) == pc[c] \in {"register", "commit"}

(* Removing the VM restarts its serial (vsb_hwmon.c:29, 366-367) and a full*)
(* turn of the serial comes back to the same number: both count as         *)
(* SerialModulus, the number that says nothing any more.                   *)
Missed(c) ==
  LET old == find_vm(target[c])
      new == find_vm(target[c])'
  IN IF new = old \/ unseen[c] = SerialModulus THEN unseen[c]
     ELSE IF new = NoVm THEN SerialModulus
     ELSE unseen[c] + 1

CountUnseen ==
  unseen' = [c \in Callers |-> IF Underway(c) /\ Underway(c)' THEN Missed(c) ELSE 0]

-----------------------------------------------------------------------------
(* The mutex.  Callers and readers that need it wait at a known place.     *)

Locking == {"snapshot", "commit", "values", "remove", "exit"}

LockByCaller(c) ==
  /\ pc[c] \in Locking
  /\ vsb_lock = Nobody
  /\ vsb_lock' = c
  /\ UNCHANGED << loaded, allocated, vm, vsb_vms, registered, pc, callVars, reading >>
  /\ CountUnseen

LockByReader(r) ==
  /\ reading[r] # NoVm
  /\ vsb_lock = Nobody
  /\ vsb_lock' = r
  /\ UNCHANGED << loaded, allocated, vm, vsb_vms, registered, pc, callVars, reading >>
  /\ CountUnseen

(* A caller leaves its ioctl: the local variables die with the call.       *)
Finish(c, result) ==
  /\ pc' = [pc EXCEPT ![c] = "return"]
  /\ ret' = [ret EXCEPT ![c] = result]
  /\ new_vm' = [new_vm EXCEPT ![c] = NoVm]
  /\ old_vm' = [old_vm EXCEPT ![c] = NoVm]
  /\ expected_serial' = [expected_serial EXCEPT ![c] = 0]
  /\ victim' = [victim EXCEPT ![c] = NoVm]

Return(c) ==
  /\ pc[c] = "return"
  /\ pc' = [pc EXCEPT ![c] = "idle"]
  /\ ret' = [ret EXCEPT ![c] = "none"]
  /\ target' = [target EXCEPT ![c] = 0]
  /\ UNCHANGED << loaded, vsb_lock, allocated, vm, vsb_vms, registered, new_vm,
                  old_vm, expected_serial, victim, reading >>
  /\ CountUnseen

(* Mutant: the call returns without freeing the object.                    *)
FreeVmLeaks(c, o, result) == Finish(c, result)

(* vsb_free_vm(o): nothing to do for NULL, else unregister and kfree.      *)
FreeVm(c, o, result) ==
  IF o = NoVm
  THEN Finish(c, result)
  ELSE /\ pc' = [pc EXCEPT ![c] = "unregister"]
       /\ victim' = [victim EXCEPT ![c] = o]
       /\ ret' = [ret EXCEPT ![c] = result]
       /\ new_vm' = [new_vm EXCEPT ![c] = NoVm]
       /\ old_vm' = [old_vm EXCEPT ![c] = NoVm]
       /\ expected_serial' = [expected_serial EXCEPT ![c] = 0]

(* An ioctl that ends before it takes the lock: a bad address, an argument *)
(* the driver refuses (vsb_schema_validate, VM 0), a failing kzalloc.      *)
Rejected(c, v) ==
  /\ loaded /\ pc[c] = "idle"
  /\ \E e \in {"EFAULT", "EINVAL", "ENOMEM"} : Finish(c, e)
  /\ target' = [target EXCEPT ![c] = v]
  /\ UNCHANGED << loaded, vsb_lock, allocated, vm, vsb_vms, registered, reading >>
  /\ CountUnseen

-----------------------------------------------------------------------------
(* VSB_IOCTL_SET_SCHEMA                                                    *)

(* kzalloc and the copy of the schema into new_vm, values zero.            *)
SetSchemaStart(c, v, schema) ==
  /\ loaded /\ pc[c] = "idle"
  /\ \E o \in Objects \ allocated :
       /\ allocated' = allocated \cup {o}
       /\ vm' = [vm EXCEPT ![o] =
                   [vmid |-> v, serial |-> 0,
                    sensors |-> Fresh(schema)]]
       /\ new_vm' = [new_vm EXCEPT ![c] = o]
  /\ pc' = [pc EXCEPT ![c] = "snapshot"]
  /\ target' = [target EXCEPT ![c] = v]
  /\ UNCHANGED << loaded, vsb_lock, vsb_vms, registered, old_vm,
                  expected_serial, victim, ret, reading >>
  /\ CountUnseen

(* Step 1: remember the serial and copy the current values by id.          *)
SetSchemaSnapshot(c) ==
  LET o == new_vm[c]
      old == find_vm(target[c])
  IN /\ pc[c] = "snapshot" /\ vsb_lock = c
     /\ old_vm' = [old_vm EXCEPT ![c] = old]
     /\ expected_serial' = [expected_serial EXCEPT ![c] = SerialOf(old)]
     /\ vm' = [vm EXCEPT ![o] =
                 [vmid |-> vm[o].vmid,
                  serial |-> (SerialOf(old) + 1) % SerialModulus,
                  sensors |-> Carry(vm[o].sensors, SensorsOf(old))]]
     /\ pc' = [pc EXCEPT ![c] = "register"]
     /\ vsb_lock' = Nobody
     /\ UNCHANGED << loaded, allocated, vsb_vms, registered, new_vm, victim,
                     target, ret, reading >>
     /\ CountUnseen

(* Mutant: the call goes on although the device was not registered.        *)
SetSchemaRegisterIgnored(c) ==
  /\ pc[c] = "register"
  /\ pc' = [pc EXCEPT ![c] = "commit"]
  /\ UNCHANGED << loaded, vsb_lock, allocated, vm, vsb_vms, registered, callVars,
                  reading >>
  /\ CountUnseen

(* Step 2, without the lock: the hwmon device appears in sysfs.            *)
SetSchemaRegister(c) ==
  /\ pc[c] = "register"
  /\ registered' = registered \cup {new_vm[c]}
  /\ pc' = [pc EXCEPT ![c] = "commit"]
  /\ UNCHANGED << loaded, vsb_lock, allocated, vm, vsb_vms, callVars, reading >>
  /\ CountUnseen

(* Step 2 fails: memory, or the hwmon core refuses the device.             *)
SetSchemaRegisterFails(c) ==
  /\ pc[c] = "register"
  /\ FreeVm(c, new_vm[c], "ENOMEM")
  /\ UNCHANGED << loaded, vsb_lock, allocated, vm, vsb_vms, registered, target,
                  reading >>
  /\ CountUnseen

(* Mutant: the entry is replaced without looking at its serial.            *)
SetSchemaCommitUnchecked(c) ==
  LET old == find_vm(target[c])
  IN /\ pc[c] = "commit" /\ vsb_lock = c
     /\ vsb_vms' = (vsb_vms \ {old}) \cup {new_vm[c]}
     /\ FreeVm(c, old, "OK")
     /\ vsb_lock' = Nobody
     /\ UNCHANGED << loaded, allocated, vm, registered, target, reading >>
     /\ CountUnseen

(* Mutant: step 3 trusts the old_vm that step 1 has found.                 *)
SetSchemaCommitStale(c) ==
  /\ pc[c] = "commit" /\ vsb_lock = c
  /\ vsb_vms' = (vsb_vms \ {old_vm[c]}) \cup {new_vm[c]}
  /\ FreeVm(c, old_vm[c], "OK")
  /\ vsb_lock' = Nobody
  /\ UNCHANGED << loaded, allocated, vm, registered, target, reading >>
  /\ CountUnseen

(* Step 3: the serial is as expected, so new_vm takes the entry's place.   *)
SetSchemaCommit(c) ==
  LET old == find_vm(target[c])
  IN /\ pc[c] = "commit" /\ vsb_lock = c
     /\ SerialOf(old) = expected_serial[c]
     /\ vsb_vms' = (vsb_vms \ {old}) \cup {new_vm[c]}
     /\ FreeVm(c, old, "OK")
     /\ vsb_lock' = Nobody
     /\ UNCHANGED << loaded, allocated, vm, registered, target, reading >>
     /\ CountUnseen

(* Step 3: another call changed the entry meanwhile; roll back.            *)
SetSchemaBusy(c) ==
  /\ pc[c] = "commit" /\ vsb_lock = c
  /\ SerialOf(find_vm(target[c])) # expected_serial[c]
  /\ FreeVm(c, new_vm[c], "EBUSY")
  /\ vsb_lock' = Nobody
  /\ UNCHANGED << loaded, allocated, vm, vsb_vms, registered, target, reading >>
  /\ CountUnseen

-----------------------------------------------------------------------------
(* VSB_IOCTL_SET_VALUES: validate the whole batch, then apply it.          *)

SetValuesStart(c, v) ==
  /\ loaded /\ pc[c] = "idle"
  /\ pc' = [pc EXCEPT ![c] = "values"]
  /\ target' = [target EXCEPT ![c] = v]
  /\ UNCHANGED << loaded, vsb_lock, allocated, vm, vsb_vms, registered, new_vm,
                  old_vm, expected_serial, victim, ret, reading >>
  /\ CountUnseen

(* Mutant: values are stored although the batch is refused.                *)
SetValuesUnvalidated(c, batch) ==
  LET o == find_vm(target[c])
      verdict == IF o = NoVm THEN "ENOENT" ELSE BatchVerdict(vm[o].sensors, batch)
  IN /\ pc[c] = "values" /\ vsb_lock = c
     /\ vm' = IF o # NoVm
              THEN [vm EXCEPT ![o] =
                      [vm[o] EXCEPT !.sensors = Apply(vm[o].sensors, batch)]]
              ELSE vm
     /\ Finish(c, verdict)
     /\ vsb_lock' = Nobody
     /\ UNCHANGED << loaded, allocated, vsb_vms, registered, target, reading >>
     /\ CountUnseen

(* Mutant: a refused batch returns with the lock held.                     *)
SetValuesKeepsLock(c, batch) ==
  LET o == find_vm(target[c])
      verdict == IF o = NoVm THEN "ENOENT" ELSE BatchVerdict(vm[o].sensors, batch)
  IN /\ pc[c] = "values" /\ vsb_lock = c
     /\ vm' = IF verdict = "OK"
              THEN [vm EXCEPT ![o] =
                      [vm[o] EXCEPT !.sensors = Apply(vm[o].sensors, batch)]]
              ELSE vm
     /\ Finish(c, verdict)
     /\ vsb_lock' = IF verdict = "OK" THEN Nobody ELSE vsb_lock
     /\ UNCHANGED << loaded, allocated, vsb_vms, registered, target, reading >>
     /\ CountUnseen

SetValues(c, batch) ==
  LET o == find_vm(target[c])
      verdict == IF o = NoVm THEN "ENOENT" ELSE BatchVerdict(vm[o].sensors, batch)
  IN /\ pc[c] = "values" /\ vsb_lock = c
     /\ vm' = IF verdict = "OK"
              THEN [vm EXCEPT ![o] =
                      [vm[o] EXCEPT !.sensors = Apply(vm[o].sensors, batch)]]
              ELSE vm
     /\ Finish(c, verdict)
     /\ vsb_lock' = Nobody
     /\ UNCHANGED << loaded, allocated, vsb_vms, registered, target, reading >>
     /\ CountUnseen

-----------------------------------------------------------------------------
(* VSB_IOCTL_REMOVE_VM: succeeds whether or not the VM is known.           *)

RemoveVmStart(c, v) ==
  /\ loaded /\ pc[c] = "idle"
  /\ pc' = [pc EXCEPT ![c] = "remove"]
  /\ target' = [target EXCEPT ![c] = v]
  /\ UNCHANGED << loaded, vsb_lock, allocated, vm, vsb_vms, registered, new_vm,
                  old_vm, expected_serial, victim, ret, reading >>
  /\ CountUnseen

RemoveVm(c) ==
  /\ pc[c] = "remove" /\ vsb_lock = c
  /\ vsb_vms' = vsb_vms \ {find_vm(target[c])}
  /\ FreeVm(c, find_vm(target[c]), "OK")
  /\ vsb_lock' = Nobody
  /\ UNCHANGED << loaded, allocated, vm, registered, target, reading >>
  /\ CountUnseen

-----------------------------------------------------------------------------
(* vsb_free_vm.  hwmon_device_unregister first takes the attributes away   *)
(* from new readers and then waits for the readers already inside.         *)

Unregister(c) ==
  /\ pc[c] = "unregister"
  /\ registered' = registered \ {victim[c]}
  /\ pc' = [pc EXCEPT ![c] = "kfree"]
  /\ UNCHANGED << loaded, vsb_lock, allocated, vm, vsb_vms, callVars, reading >>
  /\ CountUnseen

(* Mutant: the object is freed while readers are still inside.             *)
KFreeEarly(c) ==
  /\ pc[c] = "kfree"
  /\ allocated' = allocated \ {victim[c]}
  /\ vm' = [vm EXCEPT ![victim[c]] = BlankVm]
  /\ IF loaded
     THEN Finish(c, ret[c])
     ELSE /\ pc' = [pc EXCEPT ![c] = "exit"]
          /\ victim' = [victim EXCEPT ![c] = NoVm]
          /\ UNCHANGED << new_vm, old_vm, expected_serial, ret >>
  /\ UNCHANGED << loaded, vsb_lock, vsb_vms, registered, target, reading >>
  /\ CountUnseen

KFree(c) ==
  /\ pc[c] = "kfree"
  /\ \A r \in Readers : reading[r] # victim[c]
  /\ allocated' = allocated \ {victim[c]}
  /\ vm' = [vm EXCEPT ![victim[c]] = BlankVm]
  /\ IF loaded
     THEN Finish(c, ret[c])
     ELSE /\ pc' = [pc EXCEPT ![c] = "exit"]
          /\ victim' = [victim EXCEPT ![c] = NoVm]
          /\ UNCHANGED << new_vm, old_vm, expected_serial, ret >>
  /\ UNCHANGED << loaded, vsb_lock, vsb_vms, registered, target, reading >>
  /\ CountUnseen

-----------------------------------------------------------------------------
(* vsb_exit and vsb_init.  The module can go only while no file of the     *)
(* device is open, hence no ioctl is running, and none starts afterwards.  *)

ExitStart(c) ==
  /\ loaded
  /\ \A d \in Callers : pc[d] = "idle"
  /\ loaded' = FALSE
  /\ pc' = [pc EXCEPT ![c] = "exit"]
  /\ UNCHANGED << vsb_lock, allocated, vm, vsb_vms, registered, callVars, reading >>
  /\ CountUnseen

(* One turn of the loop: unlink under the lock, free without it.           *)
ExitUnlink(c) ==
  /\ pc[c] = "exit" /\ vsb_lock = c
  /\ \E o \in vsb_vms :
       /\ vsb_vms' = vsb_vms \ {o}
       /\ FreeVm(c, o, "OK")
  /\ vsb_lock' = Nobody
  /\ UNCHANGED << loaded, allocated, vm, registered, target, reading >>
  /\ CountUnseen

ExitDone(c) ==
  /\ pc[c] = "exit" /\ vsb_lock = c
  /\ vsb_vms = {}
  /\ Finish(c, "OK")
  /\ vsb_lock' = Nobody
  /\ UNCHANGED << loaded, allocated, vm, vsb_vms, registered, target, reading >>
  /\ CountUnseen

Load ==
  /\ ~loaded
  /\ \A d \in Callers : pc[d] = "idle"
  /\ loaded' = TRUE
  /\ UNCHANGED << vsb_lock, allocated, vm, vsb_vms, registered, pc, callVars, reading >>
  /\ CountUnseen

-----------------------------------------------------------------------------
(* A sysfs reader: kernfs grants an active reference while the device is   *)
(* registered; vsb_show_input and vsb_show_label copy under vsb_lock.      *)

ReadEnter(r) ==
  /\ reading[r] = NoVm
  /\ \E o \in registered : reading' = [reading EXCEPT ![r] = o]
  /\ UNCHANGED << loaded, vsb_lock, allocated, vm, vsb_vms, registered, pc, callVars >>
  /\ CountUnseen

(* Mutant: a reader tries again until its VM is on the list.               *)
ReadShowRetries(r) ==
  /\ reading[r] # NoVm /\ vsb_lock = r
  /\ reading' = [reading EXCEPT ![r] = IF @ \in vsb_vms THEN NoVm ELSE @]
  /\ vsb_lock' = Nobody
  /\ UNCHANGED << loaded, allocated, vm, vsb_vms, registered, pc, callVars >>
  /\ CountUnseen

ReadShow(r) ==
  /\ reading[r] # NoVm /\ vsb_lock = r
  /\ reading' = [reading EXCEPT ![r] = NoVm]
  /\ vsb_lock' = Nobody
  /\ UNCHANGED << loaded, allocated, vm, vsb_vms, registered, pc, callVars >>
  /\ CountUnseen

-----------------------------------------------------------------------------

(* What a thread does once it has begun; starting is up to the thread.     *)
CallerStep(c) ==
  \/ SetSchemaSnapshot(c)
  \/ SetSchemaRegister(c)
  \/ SetSchemaRegisterFails(c)
  \/ SetSchemaCommit(c)
  \/ SetSchemaBusy(c)
  \/ \E b \in Batches : SetValues(c, b)
  \/ RemoveVm(c)
  \/ Unregister(c)
  \/ KFree(c)
  \/ ExitUnlink(c)
  \/ ExitDone(c)
  \/ Return(c)

CallerStart(c) ==
  \/ \E v \in Vmids : \/ Rejected(c, v)
                      \/ \E s \in Schemas : SetSchemaStart(c, v, s)
                      \/ SetValuesStart(c, v)
                      \/ RemoveVmStart(c, v)
  \/ ExitStart(c)

Next ==
  \/ \E c \in Callers : CallerStart(c) \/ LockByCaller(c) \/ CallerStep(c)
  \/ \E r \in Readers : ReadEnter(r) \/ LockByReader(r) \/ ReadShow(r)
  \/ Load

Spec == Init /\ [][Next]_vars

(* A thread inside the kernel is scheduled; the mutex hands over to its    *)
(* waiters, so a waiter that finds it free again and again gets it.        *)
Fairness ==
  /\ \A c \in Callers : WF_vars(CallerStep(c)) /\ SF_vars(LockByCaller(c))
  /\ \A r \in Readers : WF_vars(ReadShow(r)) /\ SF_vars(LockByReader(r))

FairSpec == Spec /\ Fairness

-----------------------------------------------------------------------------
(* Properties                                                              *)

(* struct vsb_vm, with its array of struct vsb_sensor as a function.       *)
IsVmStruct(x) ==
  /\ x \in [vmid : Vmids \cup {0}, serial : 0 .. (SerialModulus - 1),
            sensors : {x.sensors}]
  /\ IsSensors(x.sensors)

(* Every variable keeps the shape the code's declarations give it.         *)
TypeOK ==
  /\ loaded \in BOOLEAN
  /\ vsb_lock \in Callers \cup Readers \cup {Nobody}
  /\ allocated \subseteq Objects
  /\ vm = [o \in Objects |-> vm[o]]
  /\ \A o \in Objects : IsVmStruct(vm[o])
  /\ vsb_vms \subseteq Objects
  /\ registered \subseteq Objects
  /\ pc \in [Callers -> Pcs]
  /\ new_vm \in [Callers -> Objects \cup {NoVm}]
  /\ old_vm \in [Callers -> Objects \cup {NoVm}]
  /\ expected_serial \in [Callers -> 0 .. (SerialModulus - 1)]
  /\ victim \in [Callers -> Objects \cup {NoVm}]
  /\ target \in [Callers -> Vmids \cup {0}]
  /\ ret \in [Callers -> Errors \cup {"OK", "none"}]
  /\ reading \in [Readers -> Objects \cup {NoVm}]
  /\ unseen \in [Callers -> 0 .. SerialModulus]

Building(c) == pc[c] \in {"snapshot", "register", "commit"}
Freeing(c) == pc[c] \in {"unregister", "kfree"}

(* Every allocated struct vsb_vm has exactly one owner: the list, the      *)
(* SET_SCHEMA call that is building it, or the call that is freeing it.    *)
(* A leak has no owner, a double free two, a freed list entry is owned by  *)
(* the list without being allocated.                                       *)
Owners(o) ==
  {<< "list", o >> : x \in vsb_vms \cap {o}}
  \cup {<< "new", c >> : c \in {d \in Callers : Building(d) /\ new_vm[d] = o}}
  \cup {<< "victim", c >> : c \in {d \in Callers : Freeing(d) /\ victim[d] = o}}

ExactlyOneOwner ==
  \A o \in Objects :
    IF o \in allocated
    THEN \E w \in Owners(o) : Owners(o) = {w}
    ELSE Owners(o) = {}

(* vsb_show_input and vsb_show_label never touch freed memory, and sysfs   *)
(* never offers a device whose struct vsb_vm is gone (vsb_free_vm orders   *)
(* unregistration before kfree).                                           *)
NoUseAfterFree ==
  /\ registered \subseteq allocated
  /\ \A r \in Readers : reading[r] # NoVm => reading[r] \in allocated

(* vsb_find_vm is meaningful: however ioctls interleave, step 3 of         *)
(* SET_SCHEMA never puts a second entry for a VM on the list.              *)
OneEntryPerVm ==
  \A o1, o2 \in vsb_vms : vm[o1].vmid = vm[o2].vmid => o1 = o2

(* A listed VM has its hwmon device, and once no call is in flight no      *)
(* other device is left in sysfs, also after module exit.                  *)
SysfsMatchesList ==
  /\ vsb_vms \subseteq registered
  /\ (\A c \in Callers : pc[c] \in {"idle", "return"}) => registered = vsb_vms
  /\ ~loaded /\ (\A c \in Callers : pc[c] = "idle") => registered = {}

(* The comment at vsb_hwmon.c:481-491: what sysfs shows for a listed VM    *)
(* passes the limits of the kind it is shown as.  SET_VALUES enforces them,*)
(* SET_SCHEMA carries values to sensors of other kinds without.            *)
ValuesInRange ==
  \A o \in vsb_vms : \A id \in DOMAIN vm[o].sensors :
    InRange(vm[o].sensors[id].kind, vm[o].sensors[id].value)

(* What is true whatever kinds an id changes to: a value of a listed VM    *)
(* has passed the limits of some kind that its id has in a schema, however *)
(* often it was carried over (value_or_default) since it was set.          *)
ValuesAccepted ==
  \A o \in vsb_vms : \A id \in DOMAIN vm[o].sensors :
    \E s \in Schemas : id \in DOMAIN s /\ InRange(s[id], vm[o].sensors[id].value)

(* A SET_SCHEMA that commits overwrites no update its snapshot has not     *)
(* seen, however many calls are between their snapshot and their commit    *)
(* (the check of vsb_hwmon.c:380-396), unless the VM was removed meanwhile *)
(* or its serial went all the way round.                                   *)
SeesUpdates ==
  [][\A c \in Callers :
       SetSchemaCommit(c) /\ unseen[c] # SerialModulus => unseen[c] = 0]_vars

(* The claim of the comment at vsb_hwmon.c:381-383: a commit replaces the  *)
(* very entry its snapshot was taken from.                                 *)
CommitIsAbaSafe ==
  [][\A c \in Callers : SetSchemaCommit(c) => find_vm(target[c]) = old_vm[c]]_vars

(* Every ioctl returns: no path keeps vsb_lock, and none waits for readers *)
(* while holding it.                                                       *)
IoctlReturns == \A c \in Callers : pc[c] # "idle" ~> pc[c] = "idle"

(* A sysfs read completes although ioctls keep taking the lock.            *)
ReadReturns == \A r \in Readers : reading[r] # NoVm ~> reading[r] = NoVm

-----------------------------------------------------------------------------
(* The table of VsbKernelApi: an entry exists while it is on the list, and *)
(* a call has taken effect once nothing but freeing is left.               *)
ApiCall(c) ==
  CASE pc[c] = "idle" -> [op |-> "idle"]
    [] Building(c) -> [op |-> "set_schema", vmid |-> target[c]]
    [] pc[c] = "values" -> [op |-> "set_values", vmid |-> target[c]]
    [] pc[c] = "remove" -> [op |-> "remove", vmid |-> target[c]]
    [] pc[c] = "exit" \/ (Freeing(c) /\ ~loaded) -> [op |-> "exit", vmid |-> 0]
    [] OTHER -> [op |-> "done", result |-> ret[c]]

Api == INSTANCE VsbKernelApi WITH
  known <- {vm[o].vmid : o \in vsb_vms},
  sensors <- [v \in Vmids |-> SensorsOf(find_vm(v))],
  call <- [c \in Callers |-> ApiCall(c)]

(* Ioctls that are serialised behave as atomic operations on the table,    *)
(* although SET_SCHEMA gives the lock up twice and frees after its unlock. *)
ImplementsApi == Api!Spec
=============================================================================
