---------------------------- MODULE VsbKernelApi ----------------------------
(***************************************************************************)
(* What the driver promises its callers: a table of VMs with their sensor  *)
(* values, on which every ioctl takes effect at one instant between its    *)
(* call and its return, or fails and leaves the table alone.  VsbHwmon     *)
(* implements it when its ioctls are serialised, as hostd's mutex around   *)
(* KernelDevice does.                                                      *)
(***************************************************************************)
EXTENDS Integers, Sequences, VsbSensors

CONSTANTS Vmids, Callers, Schemas, Batches

VARIABLES
  known,    \* the VMs with an entry
  sensors,  \* the sensor array of each VM, empty when unknown
  call      \* the call each caller is in

vars == << known, sensors, call >>

Ops == {"set_schema", "set_values", "remove"}

(* A call names its VM; module exit names none.                            *)
Idle == [op |-> "idle"]
Pending(op, v) == [op |-> op, vmid |-> v]
Done(result) == [op |-> "done", result |-> result]

Init ==
  /\ known = {}
  /\ sensors = [v \in Vmids |-> << >>]
  /\ call = [c \in Callers |-> Idle]

Invoke(c) ==
  /\ call[c] = Idle
  /\ \/ \E op \in Ops, v \in Vmids : call' = [call EXCEPT ![c] = Pending(op, v)]
     \/ call' = [call EXCEPT ![c] = Pending("exit", 0)]
  /\ UNCHANGED << known, sensors >>

Finish(c, result) == call' = [call EXCEPT ![c] = Done(result)]

(* Installing a schema keeps the value of every id the VM already had.     *)
SetSchema(c, v, schema) ==
  /\ call[c] = Pending("set_schema", v)
  /\ known' = known \cup {v}
  /\ sensors' = [sensors EXCEPT ![v] = Carry(Fresh(schema), sensors[v])]
  /\ Finish(c, "OK")

(* All values of a batch are stored, or none.                              *)
SetValues(c, v, batch) ==
  /\ call[c] = Pending("set_values", v)
  /\ v \in known
  /\ BatchVerdict(sensors[v], batch) = "OK"
  /\ sensors' = [sensors EXCEPT ![v] = Apply(sensors[v], batch)]
  /\ Finish(c, "OK")
  /\ UNCHANGED known

RefuseValues(c, v, batch) ==
  /\ call[c] = Pending("set_values", v)
  /\ \/ v \notin known /\ Finish(c, "ENOENT")
     \/ /\ v \in known
        /\ BatchVerdict(sensors[v], batch) # "OK"
        /\ Finish(c, BatchVerdict(sensors[v], batch))
  /\ UNCHANGED << known, sensors >>

Forget(v) ==
  /\ known' = known \ {v}
  /\ sensors' = [sensors EXCEPT ![v] = << >>]

RemoveVm(c, v) ==
  /\ call[c] = Pending("remove", v)
  /\ Forget(v)
  /\ Finish(c, "OK")

(* Module exit forgets the VMs one at a time and returns after the last.   *)
ExitOne(c) ==
  /\ call[c] = Pending("exit", 0)
  /\ \E v \in known : Forget(v)
  /\ UNCHANGED call

ExitDone(c) ==
  /\ call[c] = Pending("exit", 0)
  /\ known = {}
  /\ Finish(c, "OK")
  /\ UNCHANGED << known, sensors >>

(* A refused call and a failed SET_SCHEMA have no effect.                  *)
Fail(c) ==
  /\ call[c] = Idle \/ call[c].op = "set_schema"
  /\ \E e \in {"EFAULT", "EINVAL", "ENOMEM", "EBUSY"} : Finish(c, e)
  /\ UNCHANGED << known, sensors >>

Return(c) ==
  /\ call[c].op = "done"
  /\ call' = [call EXCEPT ![c] = Idle]
  /\ UNCHANGED << known, sensors >>

Next ==
  \E c \in Callers :
    \/ Invoke(c)
    \/ \E v \in Vmids : \/ \E s \in Schemas : SetSchema(c, v, s)
                        \/ \E b \in Batches : SetValues(c, v, b) \/ RefuseValues(c, v, b)
                        \/ RemoveVm(c, v)
    \/ ExitOne(c)
    \/ ExitDone(c)
    \/ Fail(c)
    \/ Return(c)

Spec == Init /\ [][Next]_vars
=============================================================================
