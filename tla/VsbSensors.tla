----------------------------- MODULE VsbSensors -----------------------------
(***************************************************************************)
(* The sensor array of a VM in kernel/vsb_hwmon.c as a function from       *)
(* sensor ids to a kind and a value, with the driver's helpers on it.      *)
(***************************************************************************)
EXTENDS Integers, Sequences

Kinds == {"temp", "fan", "in", "curr", "power"}

(* The shape of an array.                                                  *)
IsSensors(f) == f \in [DOMAIN f -> [kind : Kinds, value : Int]]

(* The array of a struct vsb_vm just built from a schema: values zero.     *)
Fresh(schema) ==
  [id \in DOMAIN schema |-> [kind |-> schema[id], value |-> 0]]

(* vsb_vm_value_or_default: looked up by id alone, whatever its kind.      *)
value_or_default(old, id) == IF id \in DOMAIN old THEN old[id].value ELSE 0

(* The loop of SET_SCHEMA that keeps the values of the array it replaces.  *)
Carry(sensors, old) ==
  [id \in DOMAIN sensors |->
     [sensors[id] EXCEPT !.value = value_or_default(old, id)]]

(* The plausibility limits of SET_VALUES.                                  *)
InRange(kind, v) ==
  /\ kind = "temp"  => -273000 <= v /\ v <= 300000
  /\ kind = "fan"   => 0 <= v /\ v <= 500000
  /\ kind = "in"    => -50000 <= v /\ v <= 50000
  /\ kind = "curr"  => -100000 <= v /\ v <= 100000
  /\ kind = "power" => 0 <= v /\ v <= 1000000000

(* Mutant: a value is not compared with the limits of its kind.            *)
EntryErrorAnyValue(sensors, batch, i) ==
  IF batch[i].id \notin DOMAIN sensors THEN "EINVAL"
  ELSE IF \E j \in DOMAIN batch : j > i /\ batch[j].id = batch[i].id THEN "EINVAL"
  ELSE "OK"

(* The verdict of the validation loop on entry i of a batch.               *)
EntryError(sensors, batch, i) ==
  IF batch[i].id \notin DOMAIN sensors THEN "EINVAL"
  ELSE IF ~ InRange(sensors[batch[i].id].kind, batch[i].value) THEN "ERANGE"
  ELSE IF \E j \in DOMAIN batch : j > i /\ batch[j].id = batch[i].id THEN "EINVAL"
  ELSE "OK"

(* The first entry that fails decides the error; "OK" if none does.        *)
BatchVerdict(sensors, batch) ==
  IF \A i \in DOMAIN batch : EntryError(sensors, batch, i) = "OK"
  THEN "OK"
  ELSE LET first == CHOOSE i \in DOMAIN batch :
                      /\ EntryError(sensors, batch, i) # "OK"
                      /\ \A j \in DOMAIN batch :
                           j < i => EntryError(sensors, batch, j) = "OK"
       IN EntryError(sensors, batch, first)

Apply(sensors, batch) ==
  [id \in DOMAIN sensors |->
     IF \E i \in DOMAIN batch : batch[i].id = id
     THEN [sensors[id] EXCEPT !.value =
             batch[CHOOSE i \in DOMAIN batch : batch[i].id = id].value]
     ELSE sensors[id]]
=============================================================================
