--------------------------- MODULE VsbHwmonProofs ---------------------------
(***************************************************************************)
(* Proofs about VsbHwmon for every number of VMs, callers, readers and     *)
(* objects, every set of schemas and batches and every serial modulus:     *)
(* the ownership of memory, then what the objects hold (serials, values),  *)
(* then the refinement of VsbKernelApi.                                    *)
(***************************************************************************)
EXTENDS VsbHwmon, TLAPS, WellFoundedInduction

-----------------------------------------------------------------------------
(* The sensor array keeps its shape under the driver's helpers.            *)

LEMMA FreshType ==
  ASSUME NEW s, s \in [DOMAIN s -> Kinds]
  PROVE  IsSensors(Fresh(s))
BY DEF IsSensors, Fresh

LEMMA CarryType ==
  ASSUME NEW a, NEW b, IsSensors(a), IsSensors(b)
  PROVE  IsSensors(Carry(a, b))
<1>1. ASSUME NEW id \in DOMAIN a
      PROVE  [a[id] EXCEPT !.value = value_or_default(b, id)]
               \in [kind : Kinds, value : Int]
  BY <1>1 DEF IsSensors, value_or_default
<1>2. QED BY <1>1 DEF IsSensors, Carry

LEMMA EntryType ==
  ASSUME NEW S, NEW b \in Seq(S), NEW i \in DOMAIN b
  PROVE  b[i] \in S
OBVIOUS

LEMMA ApplyType ==
  ASSUME NEW a, NEW b \in Batches, IsSensors(a)
  PROVE  IsSensors(Apply(a, b))
<1>1. ASSUME NEW id \in DOMAIN a, NEW i \in DOMAIN b
      PROVE  [a[id] EXCEPT !.value = b[i].value] \in [kind : Kinds, value : Int]
  <2>1. b \in Seq([id : Nat, value : Int])
    BY BatchesAssumption
  <2>b. b[i] \in [id : Nat, value : Int]
    BY <2>1, <1>1, EntryType
  <2>2. QED BY <1>1, <2>b DEF IsSensors
<1>2. ASSUME NEW id \in DOMAIN a
      PROVE  Apply(a, b)[id] \in [kind : Kinds, value : Int]
  BY <1>1, <1>2 DEF IsSensors, Apply
<1>3. QED BY <1>2 DEF IsSensors, Apply

-----------------------------------------------------------------------------
(* vsb_find_vm returns an entry of the VM, or NULL when there is none.     *)

LEMMA FindVm ==
  ASSUME NEW v
  PROVE  \/ find_vm(v) = NoVm /\ \A o \in vsb_vms : vm[o].vmid # v
         \/ find_vm(v) \in vsb_vms /\ vm[find_vm(v)].vmid = v
BY DEF find_vm

LEMMA FreeVmType ==
  ASSUME TypeOK, NEW c \in Callers, NEW o \in Objects \cup {NoVm},
         NEW e \in Errors \cup {"OK"}, FreeVm(c, o, e)
  PROVE  /\ pc' \in [Callers -> Pcs]
         /\ new_vm' \in [Callers -> Objects \cup {NoVm}]
         /\ old_vm' \in [Callers -> Objects \cup {NoVm}]
         /\ expected_serial' \in [Callers -> 0 .. (SerialModulus - 1)]
         /\ victim' \in [Callers -> Objects \cup {NoVm}]
         /\ ret' \in [Callers -> Errors \cup {"OK", "none"}]
BY SerialAssumption DEF TypeOK, FreeVm, Finish, Pcs, Errors

LEMMA FinishType ==
  ASSUME TypeOK, NEW c \in Callers, NEW e \in Errors \cup {"OK", "none"},
         Finish(c, e)
  PROVE  /\ pc' \in [Callers -> Pcs]
         /\ new_vm' \in [Callers -> Objects \cup {NoVm}]
         /\ old_vm' \in [Callers -> Objects \cup {NoVm}]
         /\ expected_serial' \in [Callers -> 0 .. (SerialModulus - 1)]
         /\ victim' \in [Callers -> Objects \cup {NoVm}]
         /\ ret' \in [Callers -> Errors \cup {"OK", "none"}]
BY SerialAssumption DEF TypeOK, Finish, Pcs, Errors

LEMMA VerdictType ==
  ASSUME NEW a, NEW b
  PROVE  BatchVerdict(a, b) \in Errors \cup {"OK"}
<1>1. \A i : EntryError(a, b, i) \in Errors \cup {"OK"}
  BY Zenon DEF EntryError, Errors
<1>2. QED BY <1>1, Zenon DEF BatchVerdict

(* The object a call starts with after kzalloc, and after the snapshot.    *)
LEMMA StructType ==
  ASSUME NEW v \in Vmids \cup {0}, NEW n \in 0 .. (SerialModulus - 1),
         NEW f, IsSensors(f)
  PROVE  IsVmStruct([vmid |-> v, serial |-> n, sensors |-> f])
BY DEF IsVmStruct

LEMMA UpdateStruct ==
  ASSUME NEW x, IsVmStruct(x), NEW f
  PROVE  [x EXCEPT !.sensors = f]
           = [vmid |-> x.vmid, serial |-> x.serial, sensors |-> f]
<1>1. x = [vmid |-> x.vmid, serial |-> x.serial, sensors |-> x.sensors]
  BY DEF IsVmStruct
<1>2. PICK a, b, d : x = [vmid |-> a, serial |-> b, sensors |-> d]
  BY <1>1
<1>3. QED BY <1>2

(* Overwriting one object keeps the shape of all.                          *)
LEMMA VmUpdateType ==
  ASSUME TypeOK, NEW o \in Objects, NEW x, IsVmStruct(x),
         vm' = [vm EXCEPT ![o] = x]
  PROVE  /\ vm' = [p \in Objects |-> vm'[p]]
         /\ \A p \in Objects : IsVmStruct(vm'[p])
BY DEF TypeOK

LEMMA TypeInit == Init => TypeOK
<1>1. IsSensors(<< >>)
  BY DEF IsSensors
<1>2. ASSUME Init
      PROVE  \A o \in Objects : IsVmStruct(vm[o])
  BY <1>1, <1>2, SerialAssumption DEF Init, BlankVm, IsVmStruct
<1>3. QED BY <1>2, SerialAssumption DEF Init, TypeOK, Pcs, Errors

(* A call that builds or frees an object names it.                         *)
Pointers ==
  \A c \in Callers : /\ Building(c) => new_vm[c] \in allocated
                     /\ Freeing(c) => victim[c] \in allocated

LEMMA CountType ==
  ASSUME unseen \in [Callers -> 0 .. SerialModulus], CountUnseen
  PROVE  unseen' \in [Callers -> 0 .. SerialModulus]
<1>1. ASSUME NEW c \in Callers
      PROVE  Missed(c) \in 0 .. SerialModulus
  BY SerialAssumption DEF Missed
<1> QED BY <1>1, SerialAssumption DEF CountUnseen

LEMMA TypeStep ==
  ASSUME TypeOK, Pointers, [Next]_vars
  PROVE  TypeOK'
<1>0. \A v : find_vm(v) \in Objects \cup {NoVm}
  BY FindVm DEF TypeOK
<1>s. \A o \in Objects \cup {NoVm} : SerialOf(o) \in 0 .. (SerialModulus - 1)
  BY SerialAssumption DEF TypeOK, SerialOf, IsVmStruct
<1>u. CountUnseen => unseen' \in [Callers -> 0 .. SerialModulus]
  BY CountType DEF TypeOK
<1>1. ASSUME NEW c \in Callers, NEW v \in Vmids, Rejected(c, v)
      PROVE  TypeOK'
  <2>1. PICK e \in {"EFAULT", "EINVAL", "ENOMEM"} : Finish(c, e)
    BY <1>1 DEF Rejected
  <2>2. e \in Errors \cup {"OK", "none"}
    BY DEF Errors
  <2>3. QED BY <1>u, <1>1, <2>1, <2>2, FinishType DEF Rejected, TypeOK
<1>2. ASSUME NEW c \in Callers, NEW v \in Vmids, NEW s \in Schemas,
             SetSchemaStart(c, v, s)
      PROVE  TypeOK'
  <2>1. PICK o \in Objects \ allocated :
          /\ allocated' = allocated \cup {o}
          /\ vm' = [vm EXCEPT ![o] =
                      [vmid |-> v, serial |-> 0, sensors |-> Fresh(s)]]
          /\ new_vm' = [new_vm EXCEPT ![c] = o]
    BY <1>2 DEF SetSchemaStart
  <2>2. IsVmStruct([vmid |-> v, serial |-> 0, sensors |-> Fresh(s)])
    BY FreshType, SchemasAssumption, StructType, SerialAssumption
  <2>3. /\ vm' = [p \in Objects |-> vm'[p]]
        /\ \A p \in Objects : IsVmStruct(vm'[p])
    BY <2>1, <2>2, VmUpdateType
  <2>4. QED BY <1>u, <1>2, <2>1, <2>3 DEF SetSchemaStart, TypeOK, Pcs
<1>3. ASSUME NEW c \in Callers, SetSchemaSnapshot(c)
      PROVE  TypeOK'
  <2>0. new_vm[c] \in Objects
    BY <1>3 DEF SetSchemaSnapshot, Pointers, Building, TypeOK
  <2> DEFINE o == new_vm[c]
             old == find_vm(target[c])
             x == [vmid |-> vm[o].vmid,
                   serial |-> (SerialOf(old) + 1) % SerialModulus,
                   sensors |-> Carry(vm[o].sensors, SensorsOf(old))]
  <2>1. IsVmStruct(vm[o])
    BY <2>0 DEF TypeOK
  <2>2. vm' = [vm EXCEPT ![o] = x]
    BY <1>3 DEF SetSchemaSnapshot
  <2>3. SerialOf(old) \in 0 .. (SerialModulus - 1)
    BY <1>0, <1>s
  <2>4. (SerialOf(old) + 1) % SerialModulus \in 0 .. (SerialModulus - 1)
    BY <2>3, SerialAssumption
  <2>5. IsSensors(SensorsOf(old))
    BY <1>0 DEF SensorsOf, TypeOK, IsVmStruct, IsSensors
  <2>6. IsVmStruct(x)
    BY <2>1, <2>4, <2>5, CarryType, StructType DEF IsVmStruct
  <2>7. /\ vm' = [p \in Objects |-> vm'[p]]
        /\ \A p \in Objects : IsVmStruct(vm'[p])
    BY <2>0, <2>2, <2>6, VmUpdateType
  <2>8. QED BY <1>u, <1>0, <1>3, <2>3, <2>7 DEF SetSchemaSnapshot, TypeOK, Pcs
<1>4. ASSUME NEW c \in Callers, SetSchemaRegister(c)
      PROVE  TypeOK'
  BY <1>u, <1>4 DEF SetSchemaRegister, Pointers, Building, callVars, TypeOK, Pcs
<1>5. ASSUME NEW c \in Callers, SetSchemaRegisterFails(c)
      PROVE  TypeOK'
  <2>1. new_vm[c] \in Objects \cup {NoVm} /\ "ENOMEM" \in Errors \cup {"OK"}
    BY DEF TypeOK, Errors
  <2>2. QED BY <1>u, <1>5, <2>1, FreeVmType DEF SetSchemaRegisterFails, TypeOK
<1>6. ASSUME NEW c \in Callers, SetSchemaCommit(c)
      PROVE  TypeOK'
  <2>1. FreeVm(c, find_vm(target[c]), "OK")
    BY <1>6 DEF SetSchemaCommit
  <2>2. new_vm[c] \in Objects
    BY <1>6 DEF SetSchemaCommit, Pointers, Building, TypeOK
  <2>3. QED BY <1>u, <1>0, <1>6, <2>1, <2>2, FreeVmType DEF SetSchemaCommit, TypeOK
<1>7. ASSUME NEW c \in Callers, SetSchemaBusy(c)
      PROVE  TypeOK'
  <2>1. new_vm[c] \in Objects \cup {NoVm} /\ "EBUSY" \in Errors \cup {"OK"}
    BY DEF TypeOK, Errors
  <2>2. QED BY <1>u, <1>7, <2>1, FreeVmType DEF SetSchemaBusy, TypeOK
<1>8. ASSUME NEW c \in Callers, NEW b \in Batches, SetValues(c, b)
      PROVE  TypeOK'
  <2> DEFINE o == find_vm(target[c])
             verdict == IF o = NoVm THEN "ENOENT"
                        ELSE BatchVerdict(vm[o].sensors, b)
             x == [vmid |-> vm[o].vmid, serial |-> vm[o].serial,
                   sensors |-> Apply(vm[o].sensors, b)]
  <2>1. verdict \in Errors \cup {"OK", "none"}
    BY VerdictType DEF Errors
  <2>2. Finish(c, verdict)
    BY <1>8 DEF SetValues
  <2>3. /\ vm' = [p \in Objects |-> vm'[p]]
        /\ \A p \in Objects : IsVmStruct(vm'[p])
    <3>1. CASE verdict # "OK"
      BY <1>u, <1>8, <3>1 DEF SetValues, TypeOK
    <3>2. CASE verdict = "OK"
      <4>1. o \in Objects
        BY <1>0, <3>2
      <4>2. IsVmStruct(vm[o])
        BY <4>1 DEF TypeOK
      <4>3. vm' = [vm EXCEPT ![o] = x]
        BY <1>8, <3>2, <4>2, UpdateStruct DEF SetValues
      <4>4. IsVmStruct(x)
        BY <4>2, ApplyType, StructType DEF IsVmStruct
      <4>5. QED BY <4>1, <4>3, <4>4, VmUpdateType
    <3>3. QED BY <3>1, <3>2
  <2>4. QED BY <1>u, <1>8, <2>1, <2>2, <2>3, FinishType DEF SetValues, TypeOK
<1>9. ASSUME NEW c \in Callers, RemoveVm(c)
      PROVE  TypeOK'
  <2>1. FreeVm(c, find_vm(target[c]), "OK")
    BY <1>9 DEF RemoveVm
  <2>2. QED BY <1>u, <1>0, <1>9, <2>1, FreeVmType DEF RemoveVm, TypeOK
<1>10. ASSUME NEW c \in Callers, Unregister(c)
       PROVE  TypeOK'
  BY <1>u, <1>10 DEF Unregister, callVars, TypeOK, Pcs
<1>11. ASSUME NEW c \in Callers, KFree(c)
       PROVE  TypeOK'
  <2>0. victim[c] \in Objects
    BY <1>11 DEF KFree, Pointers, Freeing, TypeOK
  <2>1. IsSensors(<< >>)
    BY DEF IsSensors
  <2>2. IsVmStruct(BlankVm)
    BY <2>1, SerialAssumption DEF BlankVm, IsVmStruct
  <2>3. /\ vm' = [p \in Objects |-> vm'[p]]
        /\ \A p \in Objects : IsVmStruct(vm'[p])
    BY <1>11, <2>0, <2>2, VmUpdateType DEF KFree
  <2>4. CASE loaded
    <3>1. Finish(c, ret[c]) /\ ret[c] \in Errors \cup {"OK", "none"}
      BY <1>u, <1>11, <2>4 DEF KFree, TypeOK
    <3>2. QED BY <1>u, <1>11, <2>3, <3>1, FinishType DEF KFree, TypeOK
  <2>5. CASE ~loaded
    BY <1>u, <1>11, <2>3, <2>5 DEF KFree, TypeOK, Pcs
  <2>6. QED BY <2>4, <2>5
<1>12. ASSUME NEW c \in Callers, ExitUnlink(c)
       PROVE  TypeOK'
  <2>1. PICK o \in vsb_vms : vsb_vms' = vsb_vms \ {o} /\ FreeVm(c, o, "OK")
    BY <1>12 DEF ExitUnlink
  <2>2. o \in Objects \cup {NoVm}
    BY <2>1 DEF TypeOK
  <2>3. QED BY <1>u, <1>12, <2>1, <2>2, FreeVmType DEF ExitUnlink, TypeOK
<1>13. ASSUME NEW c \in Callers, ExitDone(c)
       PROVE  TypeOK'
  BY <1>u, <1>13, FinishType DEF ExitDone, TypeOK
<1>14. ASSUME NEW c \in Callers, Return(c)
       PROVE  TypeOK'
  BY <1>u, <1>14 DEF Return, TypeOK, Pcs
<1>15. ASSUME NEW c \in Callers,
              \/ \E v \in Vmids : SetValuesStart(c, v) \/ RemoveVmStart(c, v)
              \/ ExitStart(c)
       PROVE  TypeOK'
  <2>1. ASSUME NEW v \in Vmids, SetValuesStart(c, v)
        PROVE  TypeOK'
    BY <1>u, <2>1 DEF SetValuesStart, TypeOK, Pcs
  <2>2. ASSUME NEW v \in Vmids, RemoveVmStart(c, v)
        PROVE  TypeOK'
    BY <1>u, <2>2 DEF RemoveVmStart, TypeOK, Pcs
  <2>3. CASE ExitStart(c)
    BY <1>u, <2>3 DEF ExitStart, callVars, TypeOK, Pcs
  <2>4. QED BY <1>15, <2>1, <2>2, <2>3
<1>16. ASSUME NEW c \in Callers, LockByCaller(c)
       PROVE  TypeOK'
  BY <1>u, <1>16 DEF LockByCaller, callVars, TypeOK
<1>17. ASSUME NEW r \in Readers, ReadEnter(r) \/ LockByReader(r) \/ ReadShow(r)
       PROVE  TypeOK'
  BY <1>u, <1>17 DEF ReadEnter, LockByReader, ReadShow, callVars, TypeOK
<1>18. ASSUME Load
       PROVE  TypeOK'
  BY <1>u, <1>18 DEF Load, callVars, TypeOK
<1>19. ASSUME UNCHANGED vars
       PROVE  TypeOK'
  BY <1>19 DEF vars, TypeOK
<1>20. QED BY <1>1, <1>2, <1>3, <1>4, <1>5, <1>6, <1>7, <1>8, <1>9, <1>10,
              <1>11, <1>12, <1>13, <1>14, <1>15, <1>16, <1>17, <1>18, <1>19
           DEF Next, CallerStart, CallerStep

-----------------------------------------------------------------------------
(* The inductive invariant.  Pointers says that what a call builds or      *)
(* frees is allocated; the other parts keep the owners apart, tie the      *)
(* device to the life of its object and the object to its VM.              *)

Unlisted ==
  \A c \in Callers : /\ Building(c) => new_vm[c] \notin vsb_vms
                     /\ Freeing(c) => victim[c] \notin vsb_vms

Apart ==
  \A c, d \in Callers :
    /\ Building(c) /\ Building(d) /\ new_vm[c] = new_vm[d] => c = d
    /\ Freeing(c) /\ Freeing(d) /\ victim[c] = victim[d] => c = d
    /\ Building(c) /\ Freeing(d) => new_vm[c] # victim[d]

Holds(c, o) == \/ Building(c) /\ new_vm[c] = o
               \/ Freeing(c) /\ victim[c] = o

Owned == \A o \in allocated : o \in vsb_vms \/ \E c \in Callers : Holds(c, o)

Devices ==
  /\ vsb_vms \subseteq registered
  /\ registered \subseteq allocated
  /\ \A c \in Callers : /\ pc[c] \in {"snapshot", "register"} => new_vm[c] \notin registered
                        /\ pc[c] = "commit" => new_vm[c] \in registered
                        /\ pc[c] = "kfree" => victim[c] \notin registered

Keys ==
  /\ OneEntryPerVm
  /\ \A c \in Callers : Building(c) => vm[new_vm[c]].vmid = target[c]

Unloading ==
  ~loaded =>
    /\ \A c \in Callers : pc[c] \notin {"snapshot", "register", "commit", "values", "remove"}
    /\ (\A c \in Callers : pc[c] \in {"idle", "return"}) => vsb_vms = {}

Readable == \A r \in Readers : reading[r] # NoVm => reading[r] \in allocated

Ownership == Pointers /\ Unlisted /\ Apart /\ Owned
IInv == TypeOK /\ Ownership /\ Devices /\ Keys /\ Unloading /\ Readable

LEMMA InvInit == Init => IInv
<1> SUFFICES ASSUME Init PROVE IInv
  OBVIOUS
<1>1. TypeOK
  BY TypeInit
<1>2. \A c \in Callers : pc[c] = "idle"
  BY DEF Init
<1>3. Ownership /\ Devices
  BY <1>2 DEF Init, Ownership, Pointers, Unlisted, Apart, Owned, Holds, Devices,
              Building, Freeing
<1>4. Keys /\ Unloading /\ Readable
  BY <1>2 DEF Init, Keys, OneEntryPerVm, Unloading, Readable, Building
<1>5. QED BY <1>1, <1>3, <1>4 DEF IInv

(* Steps that leave the owners, the list and the devices alone and move   *)
(* no caller into or out of building or freeing.                           *)
LEMMA QuietStep ==
  ASSUME Ownership, Devices, Keys,
         UNCHANGED << allocated, vsb_vms, registered >>,
         \A o \in allocated : vm'[o].vmid = vm[o].vmid,
         \A c \in Callers : /\ Building(c)' => Building(c) /\ new_vm'[c] = new_vm[c]
                                                 /\ target'[c] = target[c]
                            /\ Building(c) => Building(c)'
                            /\ Freeing(c)' => Freeing(c) /\ victim'[c] = victim[c]
                            /\ Freeing(c) => Freeing(c)'
                            /\ pc'[c] \in {"snapshot", "register"}
                                 => pc[c] \in {"snapshot", "register"}
                            /\ pc'[c] = "commit" => pc[c] = "commit"
                            /\ pc'[c] = "kfree" => pc[c] = "kfree"
  PROVE  Ownership' /\ Devices' /\ Keys'
<1>1. Pointers' /\ Unlisted'
  BY DEF Ownership, Pointers, Unlisted
<1>2. Apart'
  BY DEF Ownership, Apart
<1>3. Owned'
  BY DEF Ownership, Owned, Holds
<1>4. Devices'
  BY DEF Devices, Building, Freeing
<1>5. Keys'
  BY DEF Keys, OneEntryPerVm, Ownership, Pointers, Devices
<1>6. QED BY <1>1, <1>2, <1>3, <1>4, <1>5 DEF Ownership

(* What the other callers and the caller itself look like after a call     *)
(* ends, or turns to freeing object o.                                     *)
LEMMA FinishEffect ==
  ASSUME TypeOK, NEW c \in Callers, NEW e, Finish(c, e)
  PROVE  /\ pc'[c] = "return"
         /\ ~Building(c)' /\ ~Freeing(c)'
         /\ \A d \in Callers \ {c} :
              /\ pc'[d] = pc[d] /\ new_vm'[d] = new_vm[d] /\ victim'[d] = victim[d]
              /\ Building(d)' = Building(d) /\ Freeing(d)' = Freeing(d)
BY DEF TypeOK, Finish, Building, Freeing

LEMMA FreeVmEffect ==
  ASSUME TypeOK, NEW c \in Callers, NEW o, NEW e, FreeVm(c, o, e), o # NoVm
  PROVE  /\ pc'[c] = "unregister" /\ victim'[c] = o
         /\ ~Building(c)' /\ Freeing(c)'
         /\ \A d \in Callers \ {c} :
              /\ pc'[d] = pc[d] /\ new_vm'[d] = new_vm[d] /\ victim'[d] = victim[d]
              /\ Building(d)' = Building(d) /\ Freeing(d)' = Freeing(d)
BY DEF TypeOK, FreeVm, Building, Freeing

LEMMA StartEffect ==
  ASSUME TypeOK, NEW c \in Callers, NEW v \in Vmids, NEW s \in Schemas,
         SetSchemaStart(c, v, s), IInv
  PROVE  IInv'
<1>1. PICK o \in Objects \ allocated :
        /\ allocated' = allocated \cup {o}
        /\ vm' = [vm EXCEPT ![o] =
                    [vmid |-> v, serial |-> 0, sensors |-> Fresh(s)]]
        /\ new_vm' = [new_vm EXCEPT ![c] = o]
  BY DEF SetSchemaStart
<1>2. /\ pc[c] = "idle" /\ pc'[c] = "snapshot" /\ new_vm'[c] = o /\ target'[c] = v
      /\ Building(c)' /\ ~Building(c) /\ ~Freeing(c) /\ ~Freeing(c)'
      /\ \A d \in Callers \ {c} :
           /\ pc'[d] = pc[d] /\ new_vm'[d] = new_vm[d] /\ victim'[d] = victim[d]
           /\ target'[d] = target[d]
           /\ Building(d)' = Building(d) /\ Freeing(d)' = Freeing(d)
  BY <1>1 DEF SetSchemaStart, TypeOK, Building, Freeing
<1>3. vsb_vms' = vsb_vms /\ registered' = registered /\ victim' = victim
      /\ reading' = reading /\ loaded /\ loaded'
  BY DEF SetSchemaStart
<1>4. /\ vm'[o].vmid = v
      /\ \A p \in Objects \ {o} : vm'[p] = vm[p]
  BY <1>1 DEF TypeOK
<1>5. o \notin registered /\ o \notin vsb_vms
  BY <1>1 DEF IInv, Devices
<1>6. Pointers'
  BY <1>1, <1>2 DEF IInv, Ownership, Pointers
<1>7. Unlisted'
  BY <1>2, <1>3, <1>5 DEF IInv, Ownership, Unlisted
<1>8. Apart'
  BY <1>1, <1>2 DEF IInv, Ownership, Apart, Pointers
<1>9. Owned'
  BY <1>1, <1>2, <1>3 DEF IInv, Ownership, Owned, Holds
<1>10. Devices'
  BY <1>1, <1>2, <1>3, <1>5 DEF IInv, Devices
<1>11. Keys'
  <2>1. OneEntryPerVm'
    BY <1>3, <1>4, <1>5 DEF IInv, Keys, OneEntryPerVm, TypeOK
  <2>2. ASSUME NEW d \in Callers \ {c}, Building(d)'
        PROVE  vm'[new_vm'[d]].vmid = target'[d]
    <3>1. Building(d) /\ new_vm[d] \in Objects \ {o}
      BY <1>1, <1>2, <2>2 DEF IInv, Ownership, Pointers, TypeOK
    <3>2. QED BY <1>2, <1>4, <3>1 DEF IInv, Keys
  <2>3. QED BY <1>2, <1>4, <2>1, <2>2 DEF Keys
<1>12. Unloading' /\ Readable'
  BY <1>1, <1>3 DEF IInv, Unloading, Readable
<1>13. TypeOK'
  BY TypeStep DEF IInv, Ownership, Next, CallerStart
<1>14. QED BY <1>6, <1>7, <1>8, <1>9, <1>10, <1>11, <1>12, <1>13 DEF IInv, Ownership

(* SET_SCHEMA and SET_VALUES write an object, but never its vmid.          *)
LEMMA SnapshotEffect ==
  ASSUME NEW c \in Callers, SetSchemaSnapshot(c), IInv
  PROVE  IInv'
<1>1. new_vm[c] \in allocated /\ new_vm[c] \in Objects
  BY DEF SetSchemaSnapshot, Building, IInv, Ownership, Pointers, TypeOK
<1>2. \A p \in Objects : vm'[p].vmid = vm[p].vmid
  BY <1>1 DEF SetSchemaSnapshot, IInv, TypeOK
<1>3. /\ pc[c] = "snapshot" /\ pc' = [pc EXCEPT ![c] = "register"]
      /\ UNCHANGED << loaded, allocated, vsb_vms, registered, new_vm, victim,
                      target, reading >>
  BY DEF SetSchemaSnapshot
<1>4. Ownership' /\ Devices' /\ Keys'
  <2>1. \A d \in Callers : pc'[d] = IF d = c THEN "register" ELSE pc[d]
    BY <1>3 DEF IInv, TypeOK
  <2>2. \A o \in allocated : vm'[o].vmid = vm[o].vmid
    BY <1>2 DEF IInv, TypeOK
  <2>3. QED BY <1>3, <2>1, <2>2, QuietStep DEF IInv, Building, Freeing
<1>5. Unloading' /\ Readable'
  BY <1>3 DEF IInv, Unloading, Readable
<1>6. TypeOK'
  BY TypeStep DEF IInv, Ownership, Next, CallerStep
<1>7. QED BY <1>4, <1>5, <1>6 DEF IInv

LEMMA SetValuesEffect ==
  ASSUME NEW c \in Callers, NEW b \in Batches, SetValues(c, b), IInv
  PROVE  IInv'
<1>1. \A p \in Objects : vm'[p].vmid = vm[p].vmid
  <2>1. PICK q : \/ vm' = vm
                 \/ /\ q = find_vm(target[c]) /\ q # NoVm
                    /\ vm' = [vm EXCEPT ![q] =
                               [vm[q] EXCEPT !.sensors = Apply(vm[q].sensors, b)]]
    BY DEF SetValues
  <2>2. CASE vm' = vm
    BY <2>2
  <2>3. CASE vm' # vm
    <3>1. q \in Objects
      BY <2>1, <2>3, FindVm DEF IInv, TypeOK
    <3>2. IsVmStruct(vm[q])
      BY <3>1 DEF IInv, TypeOK
    <3>3. [vm[q] EXCEPT !.sensors = Apply(vm[q].sensors, b)].vmid = vm[q].vmid
      BY <3>2, UpdateStruct
    <3>4. QED BY <2>1, <2>3, <3>1, <3>3 DEF IInv, TypeOK
  <2>4. QED BY <2>2, <2>3
<1>2. /\ pc[c] = "values" /\ pc' = [pc EXCEPT ![c] = "return"]
      /\ new_vm' = [new_vm EXCEPT ![c] = NoVm]
      /\ victim' = [victim EXCEPT ![c] = NoVm]
      /\ UNCHANGED << loaded, allocated, vsb_vms, registered, target, reading >>
  BY DEF SetValues, Finish
<1>3. Ownership' /\ Devices' /\ Keys'
  <2>1. \A d \in Callers :
          /\ pc'[d] = IF d = c THEN "return" ELSE pc[d]
          /\ d # c => new_vm'[d] = new_vm[d] /\ victim'[d] = victim[d]
    BY <1>2 DEF IInv, TypeOK
  <2>2. \A o \in allocated : vm'[o].vmid = vm[o].vmid
    BY <1>1 DEF IInv, TypeOK
  <2>3. QED BY <1>2, <2>1, <2>2, QuietStep DEF IInv, Building, Freeing
<1>4. Unloading' /\ Readable'
  BY <1>2 DEF IInv, Unloading, Readable
<1>5. TypeOK'
  BY TypeStep DEF IInv, Ownership, Next, CallerStep
<1>6. QED BY <1>3, <1>4, <1>5 DEF IInv

LEMMA RegisterEffect ==
  ASSUME NEW c \in Callers, SetSchemaRegister(c), IInv
  PROVE  IInv'
<1>1. /\ pc[c] = "register" /\ pc' = [pc EXCEPT ![c] = "commit"]
      /\ registered' = registered \cup {new_vm[c]}
      /\ UNCHANGED << loaded, allocated, vm, vsb_vms, new_vm, victim, target, reading >>
  BY DEF SetSchemaRegister, callVars
<1>2. \A d \in Callers :
        /\ pc'[d] = IF d = c THEN "commit" ELSE pc[d]
        /\ Building(d)' = Building(d) /\ Freeing(d)' = Freeing(d)
  BY <1>1 DEF IInv, TypeOK, Building, Freeing
<1>3. Building(c) /\ new_vm[c] \in allocated
  BY <1>1 DEF Building, IInv, Ownership, Pointers
<1>4. Ownership'
  BY <1>1, <1>2 DEF IInv, Ownership, Pointers, Unlisted, Apart, Owned, Holds
<1>5. Devices'
  <2>1. vsb_vms' \subseteq registered' /\ registered' \subseteq allocated'
    BY <1>1, <1>3 DEF IInv, Devices
  <2>2. ASSUME NEW d \in Callers, pc'[d] \in {"snapshot", "register"}
        PROVE  new_vm'[d] \notin registered'
    BY <1>1, <1>2, <1>3, <2>2 DEF IInv, Devices, Ownership, Apart, Building
  <2>3. ASSUME NEW d \in Callers, pc'[d] = "commit"
        PROVE  new_vm'[d] \in registered'
    BY <1>1, <1>2, <2>3 DEF IInv, Devices
  <2>4. ASSUME NEW d \in Callers, pc'[d] = "kfree"
        PROVE  victim'[d] \notin registered'
    BY <1>1, <1>2, <1>3, <2>4 DEF IInv, Devices, Ownership, Apart, Freeing
  <2>5. QED BY <2>1, <2>2, <2>3, <2>4 DEF Devices
<1>6. Keys'
  BY <1>1, <1>2 DEF IInv, Keys, OneEntryPerVm
<1>7. Unloading' /\ Readable'
  BY <1>1 DEF IInv, Unloading, Readable
<1>8. TypeOK'
  BY TypeStep DEF IInv, Ownership, Next, CallerStep
<1>9. QED BY <1>4, <1>5, <1>6, <1>7, <1>8 DEF IInv

(* The object under construction becomes the object to free: registration  *)
(* failed, or the commit met another update.                               *)
LEMMA RollbackEffect ==
  ASSUME NEW c \in Callers, SetSchemaRegisterFails(c) \/ SetSchemaBusy(c), IInv
  PROVE  IInv'
<1> DEFINE o == new_vm[c]
<1>1. /\ pc[c] \in {"register", "commit"}
      /\ \E e \in {"ENOMEM", "EBUSY"} : FreeVm(c, o, e)
      /\ UNCHANGED << loaded, allocated, vm, vsb_vms, registered, target, reading >>
  BY DEF SetSchemaRegisterFails, SetSchemaBusy
<1>2. /\ Building(c) /\ ~Freeing(c)
      /\ o \in allocated /\ o \notin vsb_vms /\ o # NoVm
  BY <1>1, NullAssumption
     DEF Building, Freeing, IInv, Ownership, Pointers, Unlisted, TypeOK
<1>3. /\ pc'[c] = "unregister" /\ victim'[c] = o /\ ~Building(c)' /\ Freeing(c)'
      /\ \A d \in Callers \ {c} :
           /\ pc'[d] = pc[d] /\ new_vm'[d] = new_vm[d] /\ victim'[d] = victim[d]
           /\ Building(d)' = Building(d) /\ Freeing(d)' = Freeing(d)
  BY <1>1, <1>2, FreeVmEffect DEF IInv
<1>4. Pointers' /\ Unlisted'
  BY <1>1, <1>2, <1>3 DEF IInv, Ownership, Pointers, Unlisted
<1>5. Apart'
  BY <1>1, <1>2, <1>3 DEF IInv, Ownership, Apart
<1>6. Owned'
  <2> SUFFICES ASSUME NEW p \in allocated', p \notin vsb_vms'
                PROVE  \E d \in Callers : Holds(d, p)'
    BY DEF Owned
  <2>1. CASE p = o
    BY <1>1, <1>2, <1>3, <2>1 DEF Holds
  <2>2. CASE p # o
    <3>0. p \in allocated /\ p \notin vsb_vms
      BY <1>1, <1>2, <1>3, <2>2
    <3>1. PICK d \in Callers : Holds(d, p)
      BY <3>0, Zenon DEF IInv, Ownership, Owned
    <3>2. d # c
      BY <1>1, <1>2, <1>3, <2>2, <3>1 DEF Holds
    <3>3. QED BY <1>1, <1>2, <1>3, <3>1, <3>2 DEF Holds
  <2>3. QED BY <2>1, <2>2
<1>7. Devices'
  BY <1>1, <1>3 DEF IInv, Devices
<1>8. Keys'
  BY <1>1, <1>3 DEF IInv, Keys, OneEntryPerVm
<1>9. Unloading' /\ Readable'
  BY <1>1, <1>3 DEF IInv, Unloading, Readable
<1>10. TypeOK'
  BY TypeStep DEF IInv, Ownership, Next, CallerStep
<1>11. QED BY <1>4, <1>5, <1>6, <1>7, <1>8, <1>9, <1>10 DEF IInv, Ownership

(* REMOVE_VM and module exit unlink an entry and keep it to free it.       *)
LEMMA UnlinkEffect ==
  ASSUME NEW c \in Callers, NEW o \in vsb_vms, NEW e,
         ~Building(c), ~Freeing(c), pc[c] \in {"remove", "exit"},
         FreeVm(c, o, e), vsb_vms' = vsb_vms \ {o},
         UNCHANGED << loaded, allocated, vm, registered, target, reading >>,
         IInv, TypeOK'
  PROVE  IInv'
<1>1. o \in allocated /\ o \in registered /\ o # NoVm
  BY NullAssumption DEF IInv, Devices, TypeOK
<1>2. /\ pc'[c] = "unregister" /\ victim'[c] = o /\ ~Building(c)' /\ Freeing(c)'
      /\ \A d \in Callers \ {c} :
           /\ pc'[d] = pc[d] /\ new_vm'[d] = new_vm[d] /\ victim'[d] = victim[d]
           /\ Building(d)' = Building(d) /\ Freeing(d)' = Freeing(d)
  BY <1>1, FreeVmEffect DEF IInv
<1>3. Pointers' /\ Unlisted'
  BY <1>1, <1>2 DEF IInv, Ownership, Pointers, Unlisted
<1>4. Apart'
  BY <1>1, <1>2 DEF IInv, Ownership, Apart, Unlisted
<1>5. Owned'
  BY <1>1, <1>2 DEF IInv, Ownership, Owned, Holds
<1>6. Devices'
  BY <1>1, <1>2 DEF IInv, Devices
<1>7. Keys'
  BY <1>2 DEF IInv, Keys, OneEntryPerVm
<1>8. Unloading' /\ Readable'
  BY <1>2 DEF IInv, Unloading, Readable
<1>9. QED BY <1>3, <1>4, <1>5, <1>6, <1>7, <1>8 DEF IInv, Ownership

(* Step 3 of SET_SCHEMA: new_vm moves from the call to the list, and the   *)
(* entry it replaces, if any, from the list to the call.                   *)
LEMMA CommitEffect ==
  ASSUME NEW c \in Callers, SetSchemaCommit(c), IInv
  PROVE  IInv'
<1> DEFINE o == new_vm[c]
           old == find_vm(target[c])
<1>1. /\ pc[c] = "commit"
      /\ FreeVm(c, old, "OK")
      /\ vsb_vms' = (vsb_vms \ {old}) \cup {o}
      /\ UNCHANGED << loaded, allocated, vm, registered, target, reading >>
  BY DEF SetSchemaCommit
<1>2. /\ Building(c) /\ ~Freeing(c) /\ o \in allocated /\ o \notin vsb_vms
      /\ o \in registered /\ vm[o].vmid = target[c]
  BY <1>1 DEF Building, Freeing, IInv, Ownership, Pointers, Unlisted, Devices, Keys
<1>3. TypeOK'
  BY TypeStep DEF IInv, Ownership, Next, CallerStep
<1>4. OneEntryPerVm'
  BY <1>1, <1>2, FindVm DEF IInv, Keys, OneEntryPerVm
<1>5. CASE old = NoVm
  <2>1. /\ pc'[c] = "return" /\ ~Building(c)' /\ ~Freeing(c)'
        /\ \A d \in Callers \ {c} :
             /\ pc'[d] = pc[d] /\ new_vm'[d] = new_vm[d] /\ victim'[d] = victim[d]
             /\ Building(d)' = Building(d) /\ Freeing(d)' = Freeing(d)
    BY <1>1, <1>5, FinishEffect DEF IInv, FreeVm
  <2>2. NoVm \notin vsb_vms
    BY NullAssumption DEF IInv, TypeOK
  <2>3. vsb_vms' = vsb_vms \cup {o}
    BY <1>1, <1>5, <2>2
  <2>4. Pointers'
    BY <1>1, <2>1 DEF IInv, Ownership, Pointers
  <2>5. Unlisted'
    BY <1>2, <2>1, <2>3 DEF IInv, Ownership, Unlisted, Apart
  <2>6. Apart'
    BY <2>1 DEF IInv, Ownership, Apart
  <2>7. Owned'
    <3> SUFFICES ASSUME NEW p \in allocated', p \notin vsb_vms'
                 PROVE  \E d \in Callers : Holds(d, p)'
      BY DEF Owned
    <3>0. p \in allocated /\ p \notin vsb_vms
      BY <1>1, <1>2, <2>1, <2>3
    <3>1. PICK d \in Callers : Holds(d, p)
      BY <3>0, Zenon DEF IInv, Ownership, Owned
    <3>2. d # c
      BY <1>1, <1>2, <2>1, <2>3, <3>1 DEF Holds
    <3>3. QED BY <1>1, <1>2, <2>1, <2>3, <3>1, <3>2 DEF Holds
  <2>8. Devices'
    BY <1>1, <1>2, <2>1, <2>3 DEF IInv, Devices
  <2>9. Keys'
    BY <1>1, <1>4, <2>1 DEF IInv, Keys
  <2>10. Unloading' /\ Readable'
    BY <1>1 DEF IInv, Unloading, Readable
  <2>11. QED BY <1>3, <2>4, <2>5, <2>6, <2>7, <2>8, <2>9, <2>10 DEF IInv, Ownership
<1>6. CASE old # NoVm
  <2>1. /\ pc'[c] = "unregister" /\ victim'[c] = old /\ ~Building(c)' /\ Freeing(c)'
        /\ \A d \in Callers \ {c} :
             /\ pc'[d] = pc[d] /\ new_vm'[d] = new_vm[d] /\ victim'[d] = victim[d]
             /\ Building(d)' = Building(d) /\ Freeing(d)' = Freeing(d)
    BY <1>1, <1>6, FreeVmEffect DEF IInv
  <2>2. old \in vsb_vms /\ old \in allocated /\ old # o
    BY <1>2, <1>6, FindVm DEF IInv, Devices
  <2>3. Pointers'
    BY <1>1, <2>1, <2>2 DEF IInv, Ownership, Pointers
  <2>4. Unlisted'
    BY <1>1, <1>2, <2>1, <2>2 DEF IInv, Ownership, Unlisted, Apart
  <2>5. Apart'
    BY <2>1, <2>2 DEF IInv, Ownership, Apart, Unlisted
  <2>6. Owned'
    <3> SUFFICES ASSUME NEW p \in allocated', p \notin vsb_vms'
                  PROVE  \E d \in Callers : Holds(d, p)'
      BY DEF Owned
    <3>1. CASE p = old
      BY <1>1, <1>2, <2>1, <2>2, <3>1 DEF Holds
    <3>2. CASE p # old
      <4>0. p \in allocated /\ p \notin vsb_vms
        BY <1>1, <1>2, <2>1, <2>2, <3>2
      <4>1. PICK d \in Callers : Holds(d, p)
        BY <4>0, Zenon DEF IInv, Ownership, Owned
      <4>2. d # c
        BY <1>1, <1>2, <2>1, <2>2, <3>2, <4>1 DEF Holds
      <4>3. QED BY <1>1, <1>2, <2>1, <2>2, <4>1, <4>2 DEF Holds
    <3>3. QED BY <3>1, <3>2
  <2>7. Devices'
    BY <1>1, <1>2, <2>1 DEF IInv, Devices
  <2>8. Keys'
    BY <1>1, <1>4, <2>1 DEF IInv, Keys
  <2>9. Unloading' /\ Readable'
    BY <1>1 DEF IInv, Unloading, Readable
  <2>10. QED BY <1>3, <2>3, <2>4, <2>5, <2>6, <2>7, <2>8, <2>9 DEF IInv, Ownership
<1>7. QED BY <1>5, <1>6

(* vsb_free_vm: the device goes, then the memory.                          *)
LEMMA UnregisterEffect ==
  ASSUME NEW c \in Callers, Unregister(c), IInv
  PROVE  IInv'
<1>1. /\ pc[c] = "unregister" /\ pc' = [pc EXCEPT ![c] = "kfree"]
      /\ registered' = registered \ {victim[c]}
      /\ UNCHANGED << loaded, allocated, vm, vsb_vms, new_vm, victim, target, reading >>
  BY DEF Unregister, callVars
<1>2. \A d \in Callers :
        /\ pc'[d] = IF d = c THEN "kfree" ELSE pc[d]
        /\ Building(d)' = Building(d) /\ Freeing(d)' = Freeing(d)
  BY <1>1 DEF IInv, TypeOK, Building, Freeing
<1>3. Freeing(c) /\ victim[c] \notin vsb_vms
  BY <1>1 DEF Freeing, IInv, Ownership, Unlisted
<1>4. Ownership'
  BY <1>1, <1>2 DEF IInv, Ownership, Pointers, Unlisted, Apart, Owned, Holds
<1>5. Devices'
  <2>1. vsb_vms' \subseteq registered' /\ registered' \subseteq allocated'
    BY <1>1, <1>3 DEF IInv, Devices
  <2>2. ASSUME NEW d \in Callers, pc'[d] = "commit"
        PROVE  new_vm'[d] \in registered'
    BY <1>1, <1>2, <1>3, <2>2 DEF IInv, Devices, Ownership, Apart, Building
  <2>3. QED BY <1>1, <1>2, <2>1, <2>2 DEF IInv, Devices
<1>6. Keys'
  BY <1>1, <1>2 DEF IInv, Keys, OneEntryPerVm
<1>7. Unloading' /\ Readable'
  BY <1>1 DEF IInv, Unloading, Readable
<1>8. TypeOK'
  BY TypeStep DEF IInv, Ownership, Next, CallerStep
<1>9. QED BY <1>4, <1>5, <1>6, <1>7, <1>8 DEF IInv

LEMMA KFreeEffect ==
  ASSUME NEW c \in Callers, KFree(c), IInv
  PROVE  IInv'
<1> DEFINE o == victim[c]
<1>1. /\ pc[c] = "kfree"
      /\ \A r \in Readers : reading[r] # o
      /\ allocated' = allocated \ {o}
      /\ vm' = [vm EXCEPT ![o] = BlankVm]
      /\ UNCHANGED << loaded, vsb_vms, registered, target, reading >>
  BY DEF KFree
<1>2. Freeing(c) /\ ~Building(c) /\ o \notin vsb_vms /\ o \notin registered
  BY <1>1 DEF Freeing, Building, IInv, Ownership, Unlisted, Devices
<1>3. /\ pc'[c] = (IF loaded THEN "return" ELSE "exit")
      /\ ~Building(c)' /\ ~Freeing(c)'
      /\ \A d \in Callers \ {c} :
           /\ pc'[d] = pc[d] /\ new_vm'[d] = new_vm[d] /\ victim'[d] = victim[d]
           /\ Building(d)' = Building(d) /\ Freeing(d)' = Freeing(d)
  BY DEF KFree, Finish, IInv, TypeOK, Building, Freeing
<1>4. \A p \in Objects : p # o => vm'[p] = vm[p]
  BY <1>1 DEF IInv, TypeOK
<1>5. \A d \in Callers \ {c} : /\ Building(d) => new_vm[d] # o
                               /\ Freeing(d) => victim[d] # o
  BY <1>2 DEF IInv, Ownership, Apart
<1>6. Pointers' /\ Unlisted'
  BY <1>1, <1>3, <1>5 DEF IInv, Ownership, Pointers, Unlisted
<1>7. Apart'
  BY <1>3 DEF IInv, Ownership, Apart
<1>8. Owned'
  <2> SUFFICES ASSUME NEW p \in allocated', p \notin vsb_vms'
               PROVE  \E d \in Callers : Holds(d, p)'
    BY DEF Owned
  <2>0. p \in allocated /\ p \notin vsb_vms
    BY <1>1, <1>2, <1>3
  <2>1. PICK d \in Callers : Holds(d, p)
    BY <2>0, Zenon DEF IInv, Ownership, Owned
  <2>2. d # c
    BY <1>1, <1>2, <1>3, <2>1 DEF Holds
  <2>3. QED BY <1>1, <1>2, <1>3, <2>1, <2>2 DEF Holds
<1>9. Devices'
  BY <1>1, <1>2, <1>3 DEF IInv, Devices
<1>10. Keys'
  <2>1. OneEntryPerVm'
    BY <1>1, <1>2, <1>4 DEF IInv, Keys, OneEntryPerVm, TypeOK
  <2>2. ASSUME NEW d \in Callers, Building(d)'
        PROVE  vm'[new_vm'[d]].vmid = target'[d]
    <3>1. d # c /\ Building(d) /\ new_vm[d] \in Objects /\ new_vm[d] # o
      BY <1>3, <1>5, <2>2 DEF IInv, Ownership, Pointers, TypeOK
    <3>2. QED BY <1>1, <1>3, <1>4, <3>1 DEF IInv, Keys
  <2>3. QED BY <2>1, <2>2 DEF Keys
<1>11. Unloading' /\ Readable'
  BY <1>1, <1>3 DEF IInv, Unloading, Readable
<1>12. TypeOK'
  BY TypeStep DEF IInv, Ownership, Next, CallerStep
<1>13. QED BY <1>6, <1>7, <1>8, <1>9, <1>10, <1>11, <1>12 DEF IInv, Ownership

LEMMA RemoveVmEffect ==
  ASSUME NEW c \in Callers, RemoveVm(c), IInv
  PROVE  IInv'
<1> DEFINE o == find_vm(target[c])
<1>1. /\ pc[c] = "remove" /\ FreeVm(c, o, "OK")
      /\ vsb_vms' = vsb_vms \ {o}
      /\ UNCHANGED << loaded, allocated, vm, registered, target, reading >>
  BY DEF RemoveVm
<1>2. ~Building(c) /\ ~Freeing(c)
  BY <1>1 DEF Building, Freeing
<1>3. TypeOK'
  BY TypeStep DEF IInv, Ownership, Next, CallerStep
<1>4. CASE o \in vsb_vms
  BY <1>1, <1>2, <1>3, <1>4, UnlinkEffect
<1>5. CASE o = NoVm
  <2>1. vsb_vms' = vsb_vms
    BY <1>1, <1>5, NullAssumption DEF IInv, TypeOK
  <2>2. /\ pc' = [pc EXCEPT ![c] = "return"]
        /\ new_vm' = [new_vm EXCEPT ![c] = NoVm]
        /\ victim' = [victim EXCEPT ![c] = NoVm]
    BY <1>1, <1>5 DEF FreeVm, Finish
  <2>3. \A d \in Callers :
          /\ pc'[d] = IF d = c THEN "return" ELSE pc[d]
          /\ d # c => new_vm'[d] = new_vm[d] /\ victim'[d] = victim[d]
    BY <2>2 DEF IInv, TypeOK
  <2>4. Ownership' /\ Devices' /\ Keys'
    BY <1>1, <2>1, <2>3, QuietStep DEF IInv, Building, Freeing
  <2>5. Unloading' /\ Readable'
    BY <1>1, <2>1 DEF IInv, Unloading, Readable
  <2>6. QED BY <1>3, <2>4, <2>5 DEF IInv
<1>6. QED BY <1>4, <1>5, FindVm

LEMMA ExitEffect ==
  ASSUME NEW c \in Callers, ExitUnlink(c) \/ ExitDone(c), IInv
  PROVE  IInv'
<1>1. TypeOK'
  BY TypeStep DEF IInv, Ownership, Next, CallerStep
<1>2. pc[c] = "exit" /\ ~Building(c) /\ ~Freeing(c)
  BY DEF ExitUnlink, ExitDone, Building, Freeing
<1>3. CASE ExitUnlink(c)
  BY <1>1, <1>2, <1>3, UnlinkEffect DEF ExitUnlink
<1>4. CASE ExitDone(c)
  <2>1. /\ pc' = [pc EXCEPT ![c] = "return"]
        /\ new_vm' = [new_vm EXCEPT ![c] = NoVm]
        /\ victim' = [victim EXCEPT ![c] = NoVm]
        /\ vsb_vms = {}
        /\ UNCHANGED << loaded, allocated, vm, vsb_vms, registered, target, reading >>
    BY <1>4 DEF ExitDone, Finish
  <2>2. \A d \in Callers :
          /\ pc'[d] = IF d = c THEN "return" ELSE pc[d]
          /\ d # c => new_vm'[d] = new_vm[d] /\ victim'[d] = victim[d]
    BY <2>1 DEF IInv, TypeOK
  <2>3. Ownership' /\ Devices' /\ Keys'
    BY <1>2, <2>1, <2>2, QuietStep DEF IInv, Building, Freeing
  <2>4. Unloading' /\ Readable'
    BY <2>1, <2>2 DEF IInv, Unloading, Readable
  <2>5. QED BY <1>1, <2>3, <2>4 DEF IInv
<1>5. QED BY <1>3, <1>4

(* Steps that only move a program counter between places where the caller  *)
(* owns nothing, or that only lock or read.                                *)
LEMMA OtherEffect ==
  ASSUME IInv,
         \/ \E c \in Callers :
              \/ \E v \in Vmids : \/ Rejected(c, v)
                                  \/ SetValuesStart(c, v)
                                  \/ RemoveVmStart(c, v)
              \/ ExitStart(c) \/ Return(c) \/ LockByCaller(c)
         \/ \E r \in Readers : ReadEnter(r) \/ LockByReader(r) \/ ReadShow(r)
         \/ Load \/ UNCHANGED vars
  PROVE  IInv'
<1>1. TypeOK'
  BY TypeStep DEF IInv, Ownership, Next, CallerStart, CallerStep
<1>2. ASSUME NEW c \in Callers, NEW v \in Vmids,
             Rejected(c, v) \/ SetValuesStart(c, v) \/ RemoveVmStart(c, v)
      PROVE  IInv'
  <2>1. PICK p \in {"return", "values", "remove"} : pc' = [pc EXCEPT ![c] = p]
    BY <1>2 DEF Rejected, Finish, SetValuesStart, RemoveVmStart
  <2>2. /\ loaded /\ pc[c] = "idle"
        /\ UNCHANGED << loaded, allocated, vm, vsb_vms, registered, reading >>
    BY <1>2 DEF Rejected, SetValuesStart, RemoveVmStart
  <2>3. \A d \in Callers :
          /\ pc'[d] = IF d = c THEN p ELSE pc[d]
          /\ d # c => /\ new_vm'[d] = new_vm[d] /\ victim'[d] = victim[d]
                      /\ target'[d] = target[d]
    BY <1>2, <2>1
       DEF Rejected, Finish, SetValuesStart, RemoveVmStart, IInv, TypeOK
  <2>4. Ownership' /\ Devices' /\ Keys'
    BY <2>2, <2>3, QuietStep DEF IInv, Building, Freeing
  <2>5. Unloading' /\ Readable'
    BY <2>2 DEF IInv, Unloading, Readable
  <2>6. QED BY <1>1, <2>4, <2>5 DEF IInv
<1>3. ASSUME NEW c \in Callers, ExitStart(c) \/ Return(c)
      PROVE  IInv'
  <2>1. PICK p \in {"exit", "idle"} : pc' = [pc EXCEPT ![c] = p]
    BY <1>3 DEF ExitStart, Return
  <2>2. /\ pc[c] \in {"idle", "return"}
        /\ UNCHANGED << allocated, vm, vsb_vms, registered, new_vm, victim, reading >>
        /\ \A d \in Callers \ {c} : target'[d] = target[d]
    BY <1>3 DEF ExitStart, Return, callVars, IInv, TypeOK
  <2>3. \A d \in Callers : pc'[d] = IF d = c THEN p ELSE pc[d]
    BY <2>1 DEF IInv, TypeOK
  <2>4. Ownership' /\ Devices' /\ Keys'
    BY <2>2, <2>3, QuietStep DEF IInv, Building, Freeing
  <2>5. Unloading'
    <3>1. CASE ExitStart(c)
      <4>1. pc'[c] = "exit" /\ \A d \in Callers : pc[d] = "idle"
        BY <3>1 DEF ExitStart, IInv, TypeOK
      <4>2. QED BY <2>3, <4>1 DEF Unloading
    <3>2. CASE Return(c)
      BY <2>2, <2>3, <3>2 DEF Return, IInv, Unloading
    <3>3. QED BY <1>3, <3>1, <3>2
  <2>6. Readable'
    BY <2>2 DEF IInv, Readable
  <2>7. QED BY <1>1, <2>4, <2>5, <2>6 DEF IInv
<1>4. ASSUME \/ \E c \in Callers : LockByCaller(c)
             \/ \E r \in Readers : LockByReader(r) \/ ReadEnter(r) \/ ReadShow(r)
             \/ Load \/ UNCHANGED vars
      PROVE  IInv'
  <2>1. UNCHANGED << allocated, vm, vsb_vms, registered, pc, new_vm, victim, target >>
    BY <1>4 DEF LockByCaller, LockByReader, ReadEnter, ReadShow, Load, vars, callVars
  <2>2. Ownership' /\ Devices' /\ Keys'
    BY <2>1, QuietStep DEF IInv, Building, Freeing
  <2>3. Unloading'
    BY <1>4, <2>1
       DEF LockByCaller, LockByReader, ReadEnter, ReadShow, Load, vars, IInv, Unloading
  <2>4. Readable'
    BY <1>4, <2>1
       DEF LockByCaller, LockByReader, ReadEnter, ReadShow, Load, vars, IInv,
           Readable, Devices, TypeOK
  <2>5. QED BY <1>1, <2>2, <2>3, <2>4 DEF IInv
<1>5. QED BY <1>2, <1>3, <1>4

LEMMA InvStep == IInv /\ [Next]_vars => IInv'
BY StartEffect, SnapshotEffect, SetValuesEffect, RegisterEffect, RollbackEffect,
   CommitEffect, UnregisterEffect, KFreeEffect, RemoveVmEffect, ExitEffect,
   OtherEffect
   DEF Next, CallerStart, CallerStep, IInv

-----------------------------------------------------------------------------
(* Every variable of the driver keeps its declared shape.                  *)
THEOREM TypeCorrect == Spec => []TypeOK
<1>1. IInv => TypeOK
  BY DEF IInv
<1>2. QED BY <1>1, InvInit, InvStep, PTL DEF Spec

THEOREM Invariance == Spec => []IInv
BY InvInit, InvStep, PTL DEF Spec

(* No struct vsb_vm leaks, is freed twice or is freed while listed.        *)
THEOREM OwnershipTheorem == Spec => []ExactlyOneOwner
<1>1. ASSUME IInv, NEW o \in Objects, o \in allocated
      PROVE  \E w \in Owners(o) : Owners(o) = {w}
  <2>1. CASE o \in vsb_vms
    <3>1. \A c \in Callers : ~(Building(c) /\ new_vm[c] = o) /\ ~(Freeing(c) /\ victim[c] = o)
      BY <1>1, <2>1 DEF IInv, Ownership, Unlisted
    <3>2. Owners(o) = {<< "list", o >>}
      BY <2>1, <3>1 DEF Owners
    <3>3. QED BY <3>2
  <2>2. ASSUME o \notin vsb_vms, NEW c \in Callers, Building(c), new_vm[c] = o
        PROVE  Owners(o) = {<< "new", c >>}
    <3>1. \A d \in Callers : Building(d) /\ new_vm[d] = o => d = c
      BY <1>1, <2>2 DEF IInv, Ownership, Apart
    <3>2. \A d \in Callers : ~(Freeing(d) /\ victim[d] = o)
      BY <1>1, <2>2 DEF IInv, Ownership, Apart
    <3>3. QED BY <2>2, <3>1, <3>2 DEF Owners
  <2>3. ASSUME o \notin vsb_vms, NEW c \in Callers, Freeing(c), victim[c] = o
        PROVE  Owners(o) = {<< "victim", c >>}
    <3>1. \A d \in Callers : Freeing(d) /\ victim[d] = o => d = c
      BY <1>1, <2>3 DEF IInv, Ownership, Apart
    <3>2. \A d \in Callers : ~(Building(d) /\ new_vm[d] = o)
      BY <1>1, <2>3 DEF IInv, Ownership, Apart
    <3>3. QED BY <2>3, <3>1, <3>2 DEF Owners
  <2>4. QED BY <1>1, <2>1, <2>2, <2>3 DEF IInv, Ownership, Owned, Holds
<1>2. ASSUME IInv, NEW o \in Objects, o \notin allocated
      PROVE  Owners(o) = {}
  <2>1. o \notin vsb_vms
    BY <1>2 DEF IInv, Devices
  <2>2. \A c \in Callers : ~(Building(c) /\ new_vm[c] = o) /\ ~(Freeing(c) /\ victim[c] = o)
    BY <1>2 DEF IInv, Ownership, Pointers
  <2>3. QED BY <2>1, <2>2 DEF Owners
<1>3. IInv => ExactlyOneOwner
  BY <1>1, <1>2 DEF ExactlyOneOwner
<1>4. QED BY <1>3, Invariance, PTL

(* A sysfs reader never touches a freed object.                            *)
THEOREM MemorySafety == Spec => []NoUseAfterFree
<1>1. IInv => NoUseAfterFree
  BY DEF IInv, Devices, Readable, NoUseAfterFree
<1>2. QED BY <1>1, Invariance, PTL

(* The list never holds two entries for one VM.                            *)
THEOREM Uniqueness == Spec => []OneEntryPerVm
<1>1. IInv => OneEntryPerVm
  BY DEF IInv, Keys
<1>2. QED BY <1>1, Invariance, PTL

(* sysfs shows the listed VMs, and nothing else once all calls are over.   *)
THEOREM SysfsTheorem == Spec => []SysfsMatchesList
<1>1. ASSUME IInv PROVE SysfsMatchesList
  <2>1. ASSUME \A c \in Callers : pc[c] \in {"idle", "return"}
        PROVE  registered = vsb_vms
    <3>1. \A c \in Callers : ~Building(c) /\ ~Freeing(c)
      BY <2>1 DEF Building, Freeing
    <3>2. \A o \in allocated : o \in vsb_vms
      BY <1>1, <3>1 DEF IInv, Ownership, Owned, Holds
    <3>3. QED BY <1>1, <3>2 DEF IInv, Devices
  <2>2. ASSUME ~loaded, \A c \in Callers : pc[c] = "idle"
        PROVE  registered = {}
    BY <1>1, <2>1, <2>2 DEF IInv, Unloading
  <2>3. QED BY <1>1, <2>1, <2>2 DEF SysfsMatchesList, IInv, Devices
<1>2. QED BY <1>1, Invariance, PTL

-----------------------------------------------------------------------------
(* The serial.  What a call is about to commit carries the serial after    *)
(* the one its snapshot has seen.                                          *)

Numbered ==
  \A c \in Callers : pc[c] \in {"register", "commit"} =>
    vm[new_vm[c]].serial = (expected_serial[c] + 1) % SerialModulus

(* A step changes the call of one caller, and the serials of objects that  *)
(* no other call builds.                                                   *)
LEMMA NumberedFrame ==
  ASSUME IInv, Numbered, NEW c \in Callers,
         \A d \in Callers \ {c} : /\ pc'[d] = pc[d] /\ new_vm'[d] = new_vm[d]
                                  /\ expected_serial'[d] = expected_serial[d],
         \A d \in Callers \ {c} : Building(d) =>
            vm'[new_vm[d]].serial = vm[new_vm[d]].serial,
         pc'[c] \in {"register", "commit"} =>
            vm'[new_vm'[c]].serial = (expected_serial'[c] + 1) % SerialModulus
  PROVE  Numbered'
BY DEF Numbered, Building

LEMMA NumberedStart ==
  ASSUME IInv, Numbered, NEW c \in Callers, NEW v \in Vmids, NEW s \in Schemas,
         SetSchemaStart(c, v, s)
  PROVE  Numbered'
<1>1. PICK o \in Objects \ allocated :
        /\ vm' = [vm EXCEPT ![o] =
                    [vmid |-> v, serial |-> 0, sensors |-> Fresh(s)]]
        /\ new_vm' = [new_vm EXCEPT ![c] = o]
  BY DEF SetSchemaStart
<1>2. \A d \in Callers : Building(d) => new_vm[d] # o
  BY <1>1 DEF IInv, Ownership, Pointers
<1>3. pc' = [pc EXCEPT ![c] = "snapshot"] /\ UNCHANGED expected_serial
  BY DEF SetSchemaStart
<1>4. \A d \in Callers : Building(d) => vm'[new_vm[d]].serial = vm[new_vm[d]].serial
  BY <1>1, <1>2 DEF IInv, TypeOK
<1>5. pc'[c] = "snapshot"
  BY <1>3 DEF IInv, TypeOK
<1>6. \A d \in Callers \ {c} : /\ pc'[d] = pc[d] /\ new_vm'[d] = new_vm[d]
                              /\ expected_serial'[d] = expected_serial[d]
  BY <1>1, <1>3 DEF IInv, TypeOK
<1> QED BY <1>4, <1>5, <1>6, NumberedFrame

LEMMA NumberedSnapshot ==
  ASSUME IInv, Numbered, NEW c \in Callers, SetSchemaSnapshot(c)
  PROVE  Numbered'
<1> DEFINE old == find_vm(target[c])
           n == (SerialOf(old) + 1) % SerialModulus
<1>1. /\ expected_serial' = [expected_serial EXCEPT ![c] = SerialOf(old)]
      /\ vm' = [vm EXCEPT ![new_vm[c]] =
                  [vmid |-> vm[new_vm[c]].vmid, serial |-> n,
                   sensors |-> Carry(vm[new_vm[c]].sensors, SensorsOf(old))]]
      /\ pc' = [pc EXCEPT ![c] = "register"] /\ UNCHANGED new_vm
      /\ Building(c)
  BY DEF SetSchemaSnapshot, Building
<1>2. new_vm[c] \in Objects
  BY <1>1 DEF IInv, Ownership, Pointers, TypeOK
<1>3. \A d \in Callers \ {c} : Building(d) => new_vm[d] # new_vm[c]
  BY <1>1 DEF IInv, Ownership, Apart
<1>4. vm'[new_vm'[c]].serial = n
  BY <1>1, <1>2 DEF IInv, TypeOK
<1>5. \A d \in Callers \ {c} : Building(d) =>
        vm'[new_vm[d]].serial = vm[new_vm[d]].serial
  BY <1>1, <1>3 DEF IInv, TypeOK
<1>6. expected_serial'[c] = SerialOf(old)
  BY <1>1 DEF IInv, TypeOK
<1>7. \A d \in Callers \ {c} : /\ pc'[d] = pc[d] /\ new_vm'[d] = new_vm[d]
                              /\ expected_serial'[d] = expected_serial[d]
  BY <1>1 DEF IInv, TypeOK
<1> QED BY <1>4, <1>5, <1>6, <1>7, NumberedFrame

LEMMA NumberedValues ==
  ASSUME IInv, Numbered, NEW c \in Callers, NEW b \in Batches, SetValues(c, b)
  PROVE  Numbered'
<1>1. \A p \in Objects : vm'[p].serial = vm[p].serial
  <2>1. PICK q : \/ vm' = vm
                 \/ /\ q = find_vm(target[c]) /\ q # NoVm
                    /\ vm' = [vm EXCEPT ![q] =
                               [vm[q] EXCEPT !.sensors = Apply(vm[q].sensors, b)]]
    BY DEF SetValues
  <2>2. CASE vm' = vm
    BY <2>2
  <2>3. CASE vm' # vm
    <3>1. q \in Objects
      BY <2>1, <2>3, FindVm DEF IInv, TypeOK
    <3>2. IsVmStruct(vm[q])
      BY <3>1 DEF IInv, TypeOK
    <3>3. [vm[q] EXCEPT !.sensors = Apply(vm[q].sensors, b)].serial = vm[q].serial
      BY <3>2, UpdateStruct
    <3> QED BY <2>1, <2>3, <3>1, <3>3 DEF IInv, TypeOK
  <2> QED BY <2>2, <2>3
<1>2. /\ pc' = [pc EXCEPT ![c] = "return"]
      /\ new_vm' = [new_vm EXCEPT ![c] = NoVm]
      /\ expected_serial' = [expected_serial EXCEPT ![c] = 0]
  BY DEF SetValues, Finish
<1>3. \A d \in Callers : Building(d) => new_vm[d] \in Objects
  BY DEF IInv, Ownership, Pointers, TypeOK
<1>4. pc'[c] = "return"
  BY <1>2 DEF IInv, TypeOK
<1>5. \A d \in Callers \ {c} : /\ pc'[d] = pc[d] /\ new_vm'[d] = new_vm[d]
                              /\ expected_serial'[d] = expected_serial[d]
  BY <1>2 DEF IInv, TypeOK
<1> QED BY <1>1, <1>3, <1>4, <1>5, NumberedFrame

(* kfree wipes an object that is being freed, hence not being built.       *)
LEMMA NumberedKFree ==
  ASSUME IInv, Numbered, NEW c \in Callers, KFree(c)
  PROVE  Numbered'
<1>1. Freeing(c) /\ vm' = [vm EXCEPT ![victim[c]] = BlankVm]
  BY DEF KFree, Freeing
<1>2. \A d \in Callers : Building(d) => new_vm[d] # victim[c]
  BY <1>1 DEF IInv, Ownership, Apart
<1>3. \A d \in Callers : Building(d) => vm'[new_vm[d]].serial = vm[new_vm[d]].serial
  BY <1>1, <1>2 DEF IInv, TypeOK
<1>4. pc'[c] \in {"return", "exit"}
  BY DEF KFree, Finish, IInv, TypeOK
<1>5. \A d \in Callers \ {c} : /\ pc'[d] = pc[d] /\ new_vm'[d] = new_vm[d]
                              /\ expected_serial'[d] = expected_serial[d]
  BY DEF KFree, Finish, IInv, TypeOK
<1> QED BY <1>3, <1>4, <1>5, NumberedFrame

(* The other steps of a call write no object.                              *)
OtherStep(c) ==
  \/ SetSchemaRegister(c) \/ SetSchemaRegisterFails(c) \/ SetSchemaCommit(c)
  \/ SetSchemaBusy(c) \/ RemoveVm(c) \/ Unregister(c) \/ ExitUnlink(c)
  \/ ExitDone(c) \/ Return(c) \/ ExitStart(c)
  \/ \E v \in Vmids : Rejected(c, v) \/ SetValuesStart(c, v) \/ RemoveVmStart(c, v)

LEMMA FreeVmLeaves ==
  ASSUME IInv, NEW c \in Callers, NEW o, NEW e, FreeVm(c, o, e)
  PROVE  /\ pc'[c] \in {"return", "unregister"}
         /\ \A d \in Callers \ {c} : /\ pc'[d] = pc[d] /\ new_vm'[d] = new_vm[d]
                                     /\ expected_serial'[d] = expected_serial[d]
<1>1. CASE o = NoVm
  BY <1>1 DEF FreeVm, Finish, IInv, TypeOK
<1>2. CASE o # NoVm
  BY <1>2 DEF FreeVm, IInv, TypeOK
<1> QED BY <1>1, <1>2

LEMMA FinishLeaves ==
  ASSUME IInv, NEW c \in Callers, NEW e, Finish(c, e)
  PROVE  /\ pc'[c] = "return"
         /\ \A d \in Callers \ {c} : /\ pc'[d] = pc[d] /\ new_vm'[d] = new_vm[d]
                                     /\ expected_serial'[d] = expected_serial[d]
BY DEF Finish, IInv, TypeOK

LEMMA NumberedOther ==
  ASSUME IInv, Numbered, NEW c \in Callers, OtherStep(c)
  PROVE  Numbered'
<1>1. UNCHANGED vm
  BY DEF OtherStep, SetSchemaRegister, SetSchemaRegisterFails, SetSchemaCommit,
         SetSchemaBusy, RemoveVm, Unregister, ExitUnlink, ExitDone, Return, ExitStart,
         Rejected, SetValuesStart, RemoveVmStart
<1>2. CASE SetSchemaRegister(c)
  BY <1>1, <1>2 DEF SetSchemaRegister, callVars, Numbered, IInv, TypeOK
<1>3. ASSUME NEW o, NEW e, FreeVm(c, o, e)
      PROVE  Numbered'
  BY <1>1, <1>3, FreeVmLeaves, NumberedFrame
<1>4. CASE \/ SetSchemaRegisterFails(c) \/ SetSchemaCommit(c) \/ SetSchemaBusy(c)
           \/ RemoveVm(c) \/ ExitUnlink(c)
  BY <1>3, <1>4 DEF SetSchemaRegisterFails, SetSchemaCommit, SetSchemaBusy, RemoveVm,
                    ExitUnlink
<1>5. ASSUME NEW e, Finish(c, e)
      PROVE  Numbered'
  BY <1>1, <1>5, FinishLeaves, NumberedFrame
<1>6. CASE ExitDone(c) \/ \E v \in Vmids : Rejected(c, v)
  BY <1>5, <1>6 DEF ExitDone, Rejected
<1>7. CASE \/ Unregister(c) \/ Return(c) \/ ExitStart(c)
           \/ \E v \in Vmids : SetValuesStart(c, v) \/ RemoveVmStart(c, v)
  <2>1. pc'[c] \notin {"register", "commit"}
    BY <1>7 DEF Unregister, Return, ExitStart, SetValuesStart, RemoveVmStart, IInv, TypeOK
  <2>2. \A d \in Callers \ {c} : pc'[d] = pc[d]
    BY <1>7 DEF Unregister, Return, ExitStart, SetValuesStart, RemoveVmStart, IInv, TypeOK
  <2>3. UNCHANGED << new_vm, expected_serial >>
    BY <1>7 DEF Unregister, Return, ExitStart, SetValuesStart, RemoveVmStart, callVars
  <2> QED BY <1>1, <2>1, <2>2, <2>3, NumberedFrame
<1> QED BY <1>2, <1>4, <1>6, <1>7 DEF OtherStep

LEMMA NumberedStep ==
  ASSUME IInv, Numbered, [Next]_vars
  PROVE  Numbered'
<1>1. CASE \/ \E c \in Callers : LockByCaller(c)
           \/ \E r \in Readers : LockByReader(r) \/ ReadEnter(r) \/ ReadShow(r)
           \/ Load \/ UNCHANGED vars
  <2>1. UNCHANGED << vm, pc, new_vm, expected_serial >>
    BY <1>1 DEF LockByCaller, LockByReader, ReadEnter, ReadShow, Load, vars, callVars
  <2> QED BY <2>1 DEF Numbered
<1> QED BY <1>1, NumberedStart, NumberedSnapshot, NumberedValues, NumberedKFree,
           NumberedOther
        DEF Next, CallerStart, CallerStep, OtherStep

-----------------------------------------------------------------------------
(* The history variable, and what the serial says about it: the entry that *)
(* a call finds is as many serials further as updates were missed.         *)

(* The serial n steps after s, for s and n below the modulus.              *)
After(s, n) == IF s + n < SerialModulus THEN s + n ELSE s + n - SerialModulus

Tracked ==
  \A c \in Callers : Underway(c) /\ unseen[c] # SerialModulus =>
    SerialOf(find_vm(target[c])) = After(expected_serial[c], unseen[c])

LEMMA NextSerial ==
  ASSUME NEW n \in 0 .. (SerialModulus - 1)
  PROVE  (n + 1) % SerialModulus = After(n, 1)
<1>1. SerialModulus \in Nat /\ SerialModulus > 1
  BY SerialAssumption
<1>2. CASE n + 1 < SerialModulus
  BY <1>1, <1>2 DEF After
<1>3. CASE n + 1 = SerialModulus
  BY <1>1, <1>3 DEF After
<1> QED BY <1>1, <1>2, <1>3

LEMMA OneMore ==
  ASSUME NEW e \in 0 .. (SerialModulus - 1), NEW n \in 0 .. (SerialModulus - 1)
  PROVE  After(After(e, n), 1) = After(e, n + 1)
BY SerialAssumption DEF After

LEMMA SerialRange ==
  ASSUME IInv, NEW v
  PROVE  SerialOf(find_vm(v)) \in 0 .. (SerialModulus - 1)
BY FindVm, SerialAssumption DEF SerialOf, IInv, TypeOK, IsVmStruct

LEMMA Entry ==
  ASSUME IInv, NEW v
  PROVE  \A o \in vsb_vms : vm[o].vmid = v <=> o = find_vm(v)
<1>1. OneEntryPerVm /\ NoVm \notin vsb_vms
  BY NullAssumption DEF IInv, Keys, TypeOK
<1> QED BY <1>1, FindVm DEF OneEntryPerVm

LEMMA EntryNext ==
  ASSUME IInv', NEW v
  PROVE  /\ \A o \in vsb_vms' : vm'[o].vmid = v <=> o = find_vm(v)'
         /\ find_vm(v)' = NoVm \/ find_vm(v)' \in vsb_vms'
<1>1. OneEntryPerVm' /\ NoVm \notin vsb_vms'
  BY NullAssumption DEF IInv, Keys, TypeOK
<1> QED BY <1>1 DEF OneEntryPerVm, find_vm

(* What a step does to the entry that is found for VM v.                   *)
EntryKept(v) ==
  find_vm(v)' = find_vm(v) /\ SerialOf(find_vm(v))' = SerialOf(find_vm(v))
EntryGone(v) == find_vm(v)' # find_vm(v) /\ find_vm(v)' = NoVm
EntryRenewed(v) ==
  /\ find_vm(v)' # find_vm(v) /\ find_vm(v)' # NoVm
  /\ SerialOf(find_vm(v))' = (SerialOf(find_vm(v)) + 1) % SerialModulus

(* A step that adds nothing to the list, and writes no serial on it.       *)
LEMMA NothingAdded ==
  ASSUME IInv, IInv', NEW v, vsb_vms' \subseteq vsb_vms,
         \A o \in vsb_vms' : vm'[o].vmid = vm[o].vmid /\ vm'[o].serial = vm[o].serial
  PROVE  EntryKept(v) \/ EntryGone(v)
<1>0. NoVm \notin vsb_vms /\ NoVm \notin vsb_vms'
  BY NullAssumption DEF IInv, TypeOK
<1>1. CASE find_vm(v)' = NoVm
  BY <1>1 DEF EntryKept, EntryGone, SerialOf
<1>2. CASE find_vm(v)' # NoVm
  <2>1. find_vm(v)' \in vsb_vms'
    BY <1>2, EntryNext
  <2>2. vm'[find_vm(v)'].vmid = v
    BY <2>1, EntryNext
  <2>3. find_vm(v)' = find_vm(v)
    BY <2>1, <2>2, Entry
  <2>4. find_vm(v) \in vsb_vms'
    BY <2>1, <2>3
  <2>5. SerialOf(find_vm(v))' = vm'[find_vm(v)'].serial
    BY <1>2 DEF SerialOf
  <2>6. SerialOf(find_vm(v)) = vm[find_vm(v)].serial
    BY <1>2, <2>3 DEF SerialOf
  <2> QED BY <2>3, <2>4, <2>5, <2>6 DEF EntryKept
<1> QED BY <1>1, <1>2

LEMMA CommitRenews ==
  ASSUME IInv, IInv', Numbered, NEW c \in Callers, SetSchemaCommit(c), NEW v
  PROVE  EntryKept(v) \/ (v = target[c] /\ EntryRenewed(v))
<1> DEFINE old == find_vm(target[c])
<1>1. /\ pc[c] = "commit" /\ Building(c) /\ SerialOf(old) = expected_serial[c]
      /\ vsb_vms' = (vsb_vms \ {old}) \cup {new_vm[c]} /\ UNCHANGED vm
  BY DEF SetSchemaCommit, Building
<1>2. new_vm[c] \notin vsb_vms /\ vm[new_vm[c]].vmid = target[c] /\ new_vm[c] # NoVm
  BY <1>1, NullAssumption DEF IInv, Ownership, Unlisted, Pointers, Keys, TypeOK
<1>3. \A o \in vsb_vms : vm[o].vmid = target[c] <=> o = old
  BY Entry
<1> HIDE DEF old
<1>4. CASE v = target[c]
  <2>1. find_vm(v)' = new_vm[c]
    BY <1>1, <1>2, <1>4, EntryNext
  <2>2. new_vm[c] # find_vm(v)
    BY <1>2, FindVm
  <2>3. SerialOf(find_vm(v))' = vm[new_vm[c]].serial
    BY <1>1, <1>2, <2>1 DEF SerialOf
  <2>4. vm[new_vm[c]].serial = (SerialOf(find_vm(v)) + 1) % SerialModulus
    BY <1>1, <1>4 DEF Numbered, old
  <2> QED BY <1>2, <1>4, <2>1, <2>2, <2>3, <2>4 DEF EntryRenewed
<1>5. CASE v # target[c]
  <2>1. \A o : o \in vsb_vms' /\ vm'[o].vmid = v <=> o \in vsb_vms /\ vm[o].vmid = v
    BY <1>1, <1>2, <1>3, <1>5
  <2>2. find_vm(v)' = find_vm(v)
    BY <2>1, Entry, EntryNext, FindVm
  <2> QED BY <1>1, <2>2 DEF EntryKept, SerialOf
<1> QED BY <1>4, <1>5

(* The list and the serials on it, step by step.                           *)
LEMMA ListKept ==
  ASSUME IInv, [Next]_vars, \A c \in Callers : ~SetSchemaCommit(c)
  PROVE  /\ vsb_vms' \subseteq vsb_vms
         /\ \A o \in vsb_vms' : vm'[o].vmid = vm[o].vmid /\ vm'[o].serial = vm[o].serial
<1>1. CASE \E c \in Callers, v \in Vmids, s \in Schemas : SetSchemaStart(c, v, s)
  BY <1>1 DEF SetSchemaStart, IInv, TypeOK, Devices
<1>2. ASSUME NEW c \in Callers, SetSchemaSnapshot(c)
      PROVE  /\ vsb_vms' \subseteq vsb_vms
             /\ \A o \in vsb_vms' : vm'[o] = vm[o]
  <2>1. new_vm[c] \notin vsb_vms
    BY <1>2 DEF SetSchemaSnapshot, Building, IInv, Ownership, Unlisted
  <2> QED BY <1>2, <2>1 DEF SetSchemaSnapshot, IInv, TypeOK
<1>3. ASSUME NEW c \in Callers, NEW b \in Batches, SetValues(c, b)
      PROVE  /\ vsb_vms' = vsb_vms
             /\ \A o \in vsb_vms : vm'[o].vmid = vm[o].vmid /\ vm'[o].serial = vm[o].serial
  <2>1. UNCHANGED vsb_vms
    BY <1>3 DEF SetValues
  <2>2. PICK q : \/ vm' = vm
                 \/ vm' = [vm EXCEPT ![q] =
                             [vm[q] EXCEPT !.sensors = Apply(vm[q].sensors, b)]]
    BY <1>3 DEF SetValues
  <2>3. ASSUME NEW o \in vsb_vms
        PROVE  vm'[o].vmid = vm[o].vmid /\ vm'[o].serial = vm[o].serial
    <3>1. o \in Objects /\ IsVmStruct(vm[o])
      BY DEF IInv, TypeOK
    <3>2. vm'[o] = vm[o] \/ vm'[o] = [vm[o] EXCEPT !.sensors = Apply(vm[o].sensors, b)]
      BY <2>2, <3>1 DEF IInv, TypeOK
    <3> QED BY <3>1, <3>2, UpdateStruct
  <2> QED BY <2>1, <2>3
<1>4. ASSUME NEW c \in Callers, KFree(c)
      PROVE  /\ vsb_vms' \subseteq vsb_vms
             /\ \A o \in vsb_vms' : vm'[o] = vm[o]
  <2>1. victim[c] \notin vsb_vms
    BY <1>4 DEF KFree, Freeing, IInv, Ownership, Unlisted
  <2> QED BY <1>4, <2>1 DEF KFree, IInv, TypeOK
<1>5. CASE \/ \E c \in Callers : OtherStep(c) \/ LockByCaller(c)
           \/ \E r \in Readers : LockByReader(r) \/ ReadEnter(r) \/ ReadShow(r)
           \/ Load \/ UNCHANGED vars
  <2>1. vsb_vms' \subseteq vsb_vms /\ UNCHANGED vm
    BY ZenonT(60), <1>5 DEF OtherStep, LockByCaller, LockByReader, ReadEnter, ReadShow,
         Load, vars, SetSchemaRegister, SetSchemaRegisterFails, SetSchemaBusy, RemoveVm,
         Unregister, ExitUnlink, ExitDone, Return, ExitStart, Rejected, SetValuesStart,
         RemoveVmStart
  <2> QED BY <2>1
<1> QED BY <1>1, <1>2, <1>3, <1>4, <1>5 DEF Next, CallerStart, CallerStep, OtherStep

LEMMA Fate ==
  ASSUME IInv, IInv', Numbered, [Next]_vars, NEW v
  PROVE  EntryKept(v) \/ EntryGone(v) \/ EntryRenewed(v)
BY CommitRenews, ListKept, NothingAdded

(* A call gets between snapshot and commit by its snapshot, and keeps what *)
(* it has noted while it is there.                                         *)
LEMMA StillUnderway ==
  ASSUME IInv, [Next]_vars, NEW c \in Callers, Underway(c)'
  PROVE  \/ SetSchemaSnapshot(c)
         \/ /\ Underway(c)
            /\ expected_serial'[c] = expected_serial[c] /\ target'[c] = target[c]
<1> DEFINE Same == /\ pc'[c] = pc[c] /\ expected_serial'[c] = expected_serial[c]
                   /\ target'[c] = target[c]
<1>0. Same => Underway(c) /\ expected_serial'[c] = expected_serial[c] /\ target'[c] = target[c]
  BY DEF Underway
<1>1. ASSUME NEW d \in Callers, NEW o, NEW e, FreeVm(d, o, e), UNCHANGED target
      PROVE  Same
  BY <1>1, FreeVmLeaves DEF Underway
<1>2. ASSUME NEW d \in Callers, NEW e, Finish(d, e), d = c \/ target'[c] = target[c]
      PROVE  Same
  BY <1>2, FinishLeaves DEF Underway
<1>3. ASSUME NEW d \in Callers, SetSchemaSnapshot(d), d # c
      PROVE  Same
  BY <1>3 DEF SetSchemaSnapshot, IInv, TypeOK
<1>4. CASE SetSchemaRegister(c)
  BY <1>4 DEF SetSchemaRegister, Underway, callVars
<1>5. ASSUME NEW d \in Callers, SetSchemaRegister(d), d # c
      PROVE  Same
  BY <1>5 DEF SetSchemaRegister, callVars, IInv, TypeOK
<1>6. ASSUME NEW d \in Callers,
             \/ SetSchemaRegisterFails(d) \/ SetSchemaCommit(d) \/ SetSchemaBusy(d)
             \/ RemoveVm(d) \/ ExitUnlink(d)
      PROVE  Same
  BY <1>1, <1>6 DEF SetSchemaRegisterFails, SetSchemaCommit, SetSchemaBusy, RemoveVm,
                    ExitUnlink
<1>7. ASSUME NEW d \in Callers,
             \/ ExitDone(d) \/ \E b \in Batches : SetValues(d, b)
             \/ \E v \in Vmids : Rejected(d, v)
      PROVE  Same
  <2>1. \E e : Finish(d, e)
    BY <1>7 DEF ExitDone, SetValues, Rejected
  <2>2. d = c \/ target'[c] = target[c]
    BY <1>7 DEF ExitDone, SetValues, Rejected, IInv, TypeOK
  <2> QED BY <1>2, <2>1, <2>2
<1>8. ASSUME NEW d \in Callers, KFree(d)
      PROVE  Same
  <2>1. d = c => ~Underway(c)'
    BY <1>8 DEF KFree, Finish, Underway, IInv, TypeOK
  <2>2. d # c => Same
    BY <1>8 DEF KFree, Finish, IInv, TypeOK
  <2> QED BY <2>1, <2>2
<1>9. ASSUME NEW d \in Callers,
             \/ Unregister(d) \/ Return(d) \/ ExitStart(d)
             \/ \E v \in Vmids : \/ SetValuesStart(d, v) \/ RemoveVmStart(d, v)
                                 \/ \E s \in Schemas : SetSchemaStart(d, v, s)
      PROVE  Same
  <2>1. d = c => ~Underway(c)'
    BY <1>9 DEF Unregister, Return, ExitStart, SetValuesStart, RemoveVmStart,
                SetSchemaStart, Underway, IInv, TypeOK
  <2>2. d # c => Same
    BY <1>9 DEF Unregister, Return, ExitStart, SetValuesStart, RemoveVmStart,
                SetSchemaStart, callVars, IInv, TypeOK
  <2> QED BY <2>1, <2>2
<1>10. CASE \/ \E d \in Callers : LockByCaller(d)
            \/ \E r \in Readers : LockByReader(r) \/ ReadEnter(r) \/ ReadShow(r)
            \/ Load \/ UNCHANGED vars
  <2>1. Same
    BY <1>10 DEF LockByCaller, LockByReader, ReadEnter, ReadShow, Load, vars, callVars
  <2> QED BY <1>0, <2>1
<1> HIDE DEF Same
<1> QED BY <1>0, <1>3, <1>4, <1>5, <1>6, <1>7, <1>8, <1>9, <1>10
        DEF Next, CallerStart, CallerStep

LEMMA Counted ==
  ASSUME Next
  PROVE  CountUnseen
BY DEF Next, CallerStart, CallerStep, LockByCaller, LockByReader, ReadEnter, ReadShow,
       Load, Rejected, SetSchemaStart, SetSchemaSnapshot, SetSchemaRegister,
       SetSchemaRegisterFails, SetSchemaCommit, SetSchemaBusy, SetValuesStart, SetValues,
       RemoveVmStart, RemoveVm, Unregister, KFree, ExitStart, ExitUnlink, ExitDone, Return

LEMMA TrackedStep ==
  ASSUME IInv, IInv', Numbered, Tracked, [Next]_vars
  PROVE  Tracked'
<1>1. CASE UNCHANGED vars
  <2>1. \A c \in Callers : /\ Underway(c)' = Underway(c)
                           /\ SerialOf(find_vm(target[c]))' = SerialOf(find_vm(target[c]))
    BY <1>1 DEF vars, callVars, Underway, SerialOf, find_vm
  <2>2. UNCHANGED << unseen, expected_serial >>
    BY <1>1 DEF vars, callVars
  <2> QED BY <2>1, <2>2 DEF Tracked
<1>2. ASSUME Next, NEW c \in Callers, Underway(c)', unseen'[c] # SerialModulus
      PROVE  SerialOf(find_vm(target[c]))' = After(expected_serial'[c], unseen'[c])
  <2>0. [Next]_vars /\ unseen'[c] = IF Underway(c) /\ Underway(c)' THEN Missed(c) ELSE 0
    BY <1>2, Counted DEF CountUnseen
  <2>1. CASE SetSchemaSnapshot(c)
    <3>1. /\ ~Underway(c) /\ pc[c] = "snapshot" /\ vsb_vms' = vsb_vms
          /\ target'[c] = target[c]
          /\ expected_serial'[c] = SerialOf(find_vm(target[c]))
      BY <2>1 DEF SetSchemaSnapshot, Underway, IInv, TypeOK
    <3>2. unseen'[c] = 0
      BY <2>0, <3>1
    <3>3. \A d \in Callers : ~SetSchemaCommit(d)
      BY <2>1 DEF SetSchemaSnapshot, SetSchemaCommit, IInv, TypeOK
    <3>4. EntryKept(target[c]) \/ EntryGone(target[c])
      BY <2>0, <3>3, ListKept, NothingAdded
    <3>5. ~EntryGone(target[c])
      <4>1. ASSUME find_vm(target[c]) # NoVm, find_vm(target[c])' = NoVm
            PROVE  FALSE
        <5>1. PICK o \in vsb_vms : o = find_vm(target[c]) /\ vm[o].vmid = target[c]
          BY <4>1, FindVm
        <5>2. vm'[o].vmid = target[c] /\ o \in vsb_vms'
          BY <2>0, <3>1, <3>3, <5>1, ListKept
        <5>3. o = find_vm(target[c])'
          BY <3>1, <5>2, EntryNext
        <5>4. o # NoVm
          BY <4>1, <5>1
        <5> QED BY <4>1, <5>3, <5>4
      <4> QED BY <4>1 DEF EntryGone
    <3>6. SerialOf(find_vm(target[c]))' = SerialOf(find_vm(target[c]))
      BY <3>1, <3>4, <3>5 DEF EntryKept
    <3>7. SerialOf(find_vm(target[c])) \in 0 .. (SerialModulus - 1)
      BY SerialRange
    <3> QED BY <3>1, <3>2, <3>6, <3>7, SerialAssumption DEF After
  <2>2. CASE /\ Underway(c)
             /\ expected_serial'[c] = expected_serial[c] /\ target'[c] = target[c]
    <3> DEFINE v == target[c]
               e == expected_serial[c]
    <3>1. unseen'[c] = Missed(c) /\ find_vm(target[c])' = find_vm(v)'
      BY <1>2, <2>0, <2>2 DEF find_vm
    <3>2. SerialOf(find_vm(target[c]))' = SerialOf(find_vm(v))'
      BY <2>2 DEF SerialOf, find_vm
    <3>3. unseen[c] \in 0 .. SerialModulus /\ e \in 0 .. (SerialModulus - 1)
      BY DEF IInv, TypeOK
    <3>4. CASE unseen[c] = SerialModulus
      BY <1>2, <3>1, <3>4, SerialAssumption DEF Missed
    <3>5. CASE unseen[c] # SerialModulus
      <4>1. SerialOf(find_vm(v)) = After(e, unseen[c])
        BY <1>2, <2>2, <3>5 DEF Tracked
      <4>2. CASE EntryKept(v)
        <5>1. Missed(c) = unseen[c]
          BY <3>1, <4>2 DEF EntryKept, Missed
        <5> QED BY <2>2, <3>1, <3>2, <4>1, <4>2, <5>1 DEF EntryKept
      <4>3. CASE EntryGone(v)
        <5>1. Missed(c) = SerialModulus
          BY <3>1, <3>5, <4>3 DEF EntryGone, Missed
        <5> QED BY <1>2, <3>1, <5>1
      <4>4. CASE EntryRenewed(v)
        <5>1. Missed(c) = unseen[c] + 1
          BY <3>1, <3>5, <4>4 DEF EntryRenewed, Missed
        <5>2. unseen[c] \in 0 .. (SerialModulus - 1)
          BY <3>3, <3>5, SerialAssumption
        <5>3. SerialOf(find_vm(v))' = After(After(e, unseen[c]), 1)
          BY <4>1, <4>4, NextSerial, SerialRange DEF EntryRenewed
        <5>4. After(After(e, unseen[c]), 1) = After(e, unseen[c] + 1)
          BY <3>3, <5>2, OneMore
        <5> QED BY <2>2, <3>1, <3>2, <5>1, <5>3, <5>4
      <4> QED BY <2>0, <4>2, <4>3, <4>4, Fate
    <3> QED BY <3>4, <3>5
  <2> QED BY <1>2, <2>0, <2>1, <2>2, StillUnderway
<1> QED BY <1>1, <1>2 DEF Tracked

(* A SET_SCHEMA commits over updates it has not seen only if the VM was    *)
(* removed since its snapshot or its serial went all the way round.        *)
THEOREM SerialTheorem == Spec => SeesUpdates
<1>1. Init => Numbered /\ Tracked
  BY SerialAssumption DEF Init, Numbered, Tracked, Underway
<1>2. IInv /\ IInv' /\ Numbered /\ Tracked /\ [Next]_vars => Numbered' /\ Tracked'
  BY NumberedStep, TrackedStep
<1>3. IInv /\ Tracked /\ [Next]_vars =>
        [\A c \in Callers :
           SetSchemaCommit(c) /\ unseen[c] # SerialModulus => unseen[c] = 0]_vars
  <2> SUFFICES ASSUME IInv, Tracked, NEW c \in Callers, SetSchemaCommit(c),
                      unseen[c] # SerialModulus
               PROVE  unseen[c] = 0
    OBVIOUS
  <2>1. pc[c] = "commit" /\ SerialOf(find_vm(target[c])) = expected_serial[c]
    BY DEF SetSchemaCommit
  <2>2. After(expected_serial[c], unseen[c]) = expected_serial[c]
    BY <2>1 DEF Tracked, Underway
  <2>3. unseen[c] \in 0 .. (SerialModulus - 1) /\ expected_serial[c] \in 0 .. (SerialModulus - 1)
    BY SerialAssumption DEF IInv, TypeOK
  <2> QED BY <2>2, <2>3, SerialAssumption DEF After
<1> QED BY <1>1, <1>2, <1>3, Invariance, PTL DEF Spec, SeesUpdates

-----------------------------------------------------------------------------
(* The values.  SET_SCHEMA carries them over by id alone, so what is kept  *)
(* of a value is that some kind of its id accepts it.                      *)
Passes(id, n) == \E s \in Schemas : id \in DOMAIN s /\ InRange(s[id], n)

(* An array made from a schema, with values that have passed some limits.  *)
Conforms(f) ==
  /\ \E s \in Schemas : DOMAIN f = DOMAIN s /\ \A id \in DOMAIN f : f[id].kind = s[id]
  /\ \A id \in DOMAIN f : Passes(id, f[id].value)

Sane == \A o \in allocated : Conforms(vm[o].sensors)

LEMMA LeastIndex ==
  ASSUME NEW T \in SUBSET Nat, T # {}
  PROVE  \E x \in T : \A y \in T : ~ (y < x)
<1> DEFINE R == {ss \in Nat \X Nat : ss[1] < ss[2]}
<1>1. IsWellFoundedOn(R, Nat)
  BY NatLessThanWellFounded DEF OpToRel
<1> HIDE DEF R
<1>2. PICK x \in T : \A y \in T : ~ (<< y, x >> \in R)
  BY <1>1, WFMin
<1>3. \A y \in T : y < x => << y, x >> \in R
  BY DEF R
<1> QED BY <1>2, <1>3

(* A batch is accepted only if every entry is: the first entry that fails  *)
(* decides, and there is a first.                                          *)
LEMMA AcceptedEntries ==
  ASSUME NEW a, NEW b \in Batches, BatchVerdict(a, b) = "OK", NEW i \in DOMAIN b
  PROVE  EntryError(a, b, i) = "OK"
<1> DEFINE Bad == {j \in DOMAIN b : EntryError(a, b, j) # "OK"}
           First(j) == /\ EntryError(a, b, j) # "OK"
                       /\ \A k \in DOMAIN b : k < j => EntryError(a, b, k) = "OK"
<1> SUFFICES ASSUME EntryError(a, b, i) # "OK" PROVE FALSE
  OBVIOUS
<1>1. b \in Seq([id : Nat, value : Int])
  BY BatchesAssumption
<1>2. DOMAIN b \subseteq Nat
  BY <1>1
<1>3. Bad \in SUBSET Nat /\ Bad # {}
  BY <1>2
<1>4. PICK x \in Bad : \A y \in Bad : ~ (y < x)
  BY <1>3, LeastIndex
<1>5. x \in DOMAIN b /\ First(x)
  BY <1>4
<1>6. First(CHOOSE j \in DOMAIN b : First(j))
  BY <1>5
<1>7. BatchVerdict(a, b) = EntryError(a, b, CHOOSE j \in DOMAIN b : First(j))
  BY DEF BatchVerdict
<1> QED BY <1>6, <1>7

LEMMA AcceptedValue ==
  ASSUME NEW a, NEW b, NEW i, EntryError(a, b, i) = "OK"
  PROVE  b[i].id \in DOMAIN a /\ InRange(a[b[i].id].kind, b[i].value)
BY Zenon DEF EntryError

(* Zero passes the limits of every kind.                                   *)
LEMMA NullInRange ==
  ASSUME NEW k, NEW z \in Int, z = 0
  PROVE  InRange(k, z)
BY DEF InRange

LEMMA ZeroInRange == \A k : InRange(k, 0)
<1>1. \A k : \A z \in Int : z = 0 => InRange(k, z)
  BY NullInRange
<1> QED BY <1>1

LEMMA ZeroPasses ==
  ASSUME NEW s \in Schemas, NEW id \in DOMAIN s
  PROVE  Passes(id, 0)
BY ZeroInRange DEF Passes

LEMMA FreshConforms ==
  ASSUME NEW s \in Schemas
  PROVE  Conforms(Fresh(s))
<1>1. DOMAIN Fresh(s) = DOMAIN s
  BY DEF Fresh
<1>2. \A id \in DOMAIN s : Fresh(s)[id].kind = s[id] /\ Fresh(s)[id].value = 0
  BY DEF Fresh
<1> QED BY <1>1, <1>2, ZeroPasses DEF Conforms

(* Values carried over from an array that conforms, whatever its kinds.    *)
LEMMA CarryConforms ==
  ASSUME NEW a, IsSensors(a), Conforms(a), NEW b, b = << >> \/ Conforms(b)
  PROVE  Conforms(Carry(a, b))
<1>1. PICK s \in Schemas : DOMAIN a = DOMAIN s /\ \A id \in DOMAIN a : a[id].kind = s[id]
  BY DEF Conforms
<1>2. ASSUME NEW id \in DOMAIN a
      PROVE  /\ Carry(a, b)[id].kind = s[id]
             /\ Carry(a, b)[id].value = value_or_default(b, id)
  BY <1>1, <1>2 DEF Carry, IsSensors
<1>3. ASSUME NEW id \in DOMAIN a
      PROVE  Passes(id, value_or_default(b, id))
  <2>1. CASE id \in DOMAIN b
    BY <2>1 DEF value_or_default, Conforms
  <2>2. CASE id \notin DOMAIN b
    BY <1>1, <1>3, <2>2, ZeroPasses DEF value_or_default
  <2> QED BY <2>1, <2>2
<1>4. DOMAIN Carry(a, b) = DOMAIN s
  BY <1>1 DEF Carry
<1> HIDE DEF value_or_default
<1> QED BY <1>1, <1>2, <1>3, <1>4 DEF Conforms

LEMMA ApplyConforms ==
  ASSUME NEW a, IsSensors(a), Conforms(a), NEW b \in Batches, BatchVerdict(a, b) = "OK"
  PROVE  Conforms(Apply(a, b))
<1>1. PICK s \in Schemas : DOMAIN a = DOMAIN s /\ \A id \in DOMAIN a : a[id].kind = s[id]
  BY DEF Conforms
<1>2. ASSUME NEW id \in DOMAIN a
      PROVE  Apply(a, b)[id].kind = s[id] /\ Passes(id, Apply(a, b)[id].value)
  <2>1. CASE \E i \in DOMAIN b : b[i].id = id
    <3> DEFINE i == CHOOSE i \in DOMAIN b : b[i].id = id
    <3>1. i \in DOMAIN b /\ b[i].id = id
      BY <2>1
    <3>2. Apply(a, b)[id] = [a[id] EXCEPT !.value = b[i].value]
      BY <1>2, <2>1 DEF Apply
    <3> HIDE DEF i
    <3>3. a[id] \in [kind : Kinds, value : Int]
      BY <1>2 DEF IsSensors
    <3>4. Apply(a, b)[id].kind = a[id].kind /\ Apply(a, b)[id].value = b[i].value
      BY <3>2, <3>3
    <3>5. InRange(a[id].kind, b[i].value)
      BY <3>1, AcceptedEntries, AcceptedValue
    <3> QED BY <1>1, <1>2, <3>4, <3>5 DEF Passes
  <2>2. CASE ~\E i \in DOMAIN b : b[i].id = id
    <3>1. Apply(a, b)[id] = a[id]
      BY <1>2, <2>2 DEF Apply
    <3> QED BY <1>1, <1>2, <3>1 DEF Conforms
  <2> QED BY <2>1, <2>2
<1>3. DOMAIN Apply(a, b) = DOMAIN s
  BY <1>1 DEF Apply
<1> QED BY <1>1, <1>2, <1>3 DEF Conforms

-----------------------------------------------------------------------------
(* The steps that write an object.                                         *)

LEMMA SaneUpdate ==
  ASSUME IInv, Sane, NEW o \in Objects, NEW x, Conforms(x.sensors),
         vm' = [vm EXCEPT ![o] = x], allocated' \subseteq allocated \cup {o}
  PROVE  Sane'
BY DEF Sane, IInv, TypeOK

LEMMA SaneStart ==
  ASSUME IInv, Sane, NEW c \in Callers, NEW v \in Vmids, NEW s \in Schemas,
         SetSchemaStart(c, v, s)
  PROVE  Sane'
<1>1. PICK o \in Objects \ allocated :
        /\ vm' = [vm EXCEPT ![o] =
                    [vmid |-> v, serial |-> 0, sensors |-> Fresh(s)]]
        /\ allocated' = allocated \cup {o}
  BY DEF SetSchemaStart
<1>2. Conforms([vmid |-> v, serial |-> 0, sensors |-> Fresh(s)].sensors)
  BY FreshConforms
<1> QED BY <1>1, <1>2, SaneUpdate

LEMMA SaneSnapshot ==
  ASSUME IInv, Sane, NEW c \in Callers, SetSchemaSnapshot(c)
  PROVE  Sane'
<1> DEFINE o == new_vm[c]
           old == find_vm(target[c])
           x == [vmid |-> vm[o].vmid, serial |-> (SerialOf(old) + 1) % SerialModulus,
                 sensors |-> Carry(vm[o].sensors, SensorsOf(old))]
<1>1. vm' = [vm EXCEPT ![o] = x] /\ UNCHANGED allocated /\ Building(c)
  BY DEF SetSchemaSnapshot, Building
<1>2. o \in allocated /\ o \in Objects
  BY <1>1 DEF IInv, Ownership, Pointers, TypeOK
<1>3. SensorsOf(old) = << >> \/ Conforms(SensorsOf(old))
  <2>1. CASE old = NoVm
    BY <2>1 DEF SensorsOf
  <2>2. CASE old \in vsb_vms
    <3>1. old \in allocated /\ old # NoVm
      BY <2>2, NullAssumption DEF IInv, Devices, TypeOK
    <3> QED BY <3>1 DEF SensorsOf, Sane
  <2> QED BY <2>1, <2>2, FindVm
<1>4. IsSensors(vm[o].sensors) /\ Conforms(vm[o].sensors)
  BY <1>2 DEF IInv, TypeOK, IsVmStruct, Sane
<1>5. Conforms(x.sensors)
  BY <1>3, <1>4, CarryConforms
<1> HIDE DEF x
<1> QED BY <1>1, <1>2, <1>5, SaneUpdate

LEMMA SaneValues ==
  ASSUME IInv, Sane, NEW c \in Callers, NEW b \in Batches, SetValues(c, b)
  PROVE  Sane'
<1> DEFINE o == find_vm(target[c])
           x == [vm[o] EXCEPT !.sensors = Apply(vm[o].sensors, b)]
<1>1. UNCHANGED allocated
  BY DEF SetValues
<1>2. CASE vm' = vm
  BY <1>1, <1>2 DEF Sane
<1>3. CASE vm' # vm
  <2>1. o # NoVm /\ BatchVerdict(vm[o].sensors, b) = "OK" /\ vm' = [vm EXCEPT ![o] = x]
    BY <1>3 DEF SetValues
  <2>2. o \in vsb_vms
    BY <2>1, FindVm
  <2>3. o \in Objects /\ o \in allocated
    BY <2>2 DEF IInv, Devices, TypeOK
  <2>4. IsVmStruct(vm[o]) /\ Conforms(vm[o].sensors)
    BY <2>3 DEF IInv, TypeOK, Sane
  <2>5. Conforms(Apply(vm[o].sensors, b))
    BY <2>1, <2>4, ApplyConforms DEF IsVmStruct
  <2>6. x = [vmid |-> vm[o].vmid, serial |-> vm[o].serial,
             sensors |-> Apply(vm[o].sensors, b)]
    BY <2>4, UpdateStruct
  <2>7. Conforms(x.sensors)
    BY <2>5, <2>6
  <2> HIDE DEF x, o
  <2> QED BY <1>1, <2>1, <2>3, <2>7, SaneUpdate
<1> QED BY <1>2, <1>3

LEMMA SaneKFree ==
  ASSUME IInv, Sane, NEW c \in Callers, KFree(c)
  PROVE  Sane'
BY DEF KFree, Sane, IInv, TypeOK

LEMMA SaneStep ==
  ASSUME IInv, Sane, [Next]_vars
  PROVE  Sane'
<1>1. CASE \/ \E c \in Callers : LockByCaller(c) \/ OtherStep(c)
           \/ \E r \in Readers : LockByReader(r) \/ ReadEnter(r) \/ ReadShow(r)
           \/ Load \/ UNCHANGED vars
  <2>1. UNCHANGED << vm, allocated >>
    BY <1>1 DEF LockByCaller, LockByReader, ReadEnter, ReadShow, Load, vars,
         OtherStep, SetSchemaRegister, SetSchemaRegisterFails, SetSchemaCommit,
         SetSchemaBusy, RemoveVm, Unregister, ExitUnlink, ExitDone, Return, ExitStart,
         Rejected, SetValuesStart, RemoveVmStart
  <2> QED BY <2>1 DEF Sane
<1> QED BY <1>1, SaneStart, SaneSnapshot, SaneValues, SaneKFree
        DEF Next, CallerStart, CallerStep, OtherStep

(* However schemas change the kind of an id, sysfs never shows a value     *)
(* that SET_VALUES would refuse for every kind the id has: SET_SCHEMA only *)
(* moves values that have passed some limits.                              *)
THEOREM RangeTheorem == Spec => []ValuesAccepted
<1>1. Init => Sane
  BY DEF Init, Sane
<1>2. IInv /\ Sane /\ [Next]_vars => Sane'
  BY SaneStep
<1>3. IInv /\ Sane => ValuesAccepted
  BY DEF IInv, Devices, Sane, Conforms, Passes, ValuesAccepted
<1> QED BY <1>1, <1>2, <1>3, Invariance, PTL DEF Spec

-----------------------------------------------------------------------------
(* The ioctls as atomic operations.  hostd's mutex around KernelDevice     *)
(* leaves one caller at a time in the driver.                              *)
OneCaller == \A c, d \in Callers : c = d

(* The table of VsbKernelApi as the driver's list shows it.                *)
Known == {vm[o].vmid : o \in vsb_vms}
Table == [v \in Vmids |-> SensorsOf(find_vm(v))]
Calls == [c \in Callers |-> ApiCall(c)]

LEMMA SameHelpers ==
  /\ \A s : Api!Fresh(s) = Fresh(s)
  /\ \A a, b : Api!Carry(a, b) = Carry(a, b)
  /\ \A a, b : Api!BatchVerdict(a, b) = BatchVerdict(a, b)
  /\ \A a, b : Api!Apply(a, b) = Apply(a, b)
<1>1. \A s : Api!Fresh(s) = Fresh(s)
  BY DEF Fresh, Api!Fresh
<1>2. \A a, b : Api!Carry(a, b) = Carry(a, b)
  BY DEF Carry, Api!Carry, value_or_default, Api!value_or_default
<1>3. \A a, b : Api!Apply(a, b) = Apply(a, b)
  BY DEF Apply, Api!Apply
<1>4. \A a, b, i : Api!EntryError(a, b, i) = EntryError(a, b, i)
  BY DEF EntryError, Api!EntryError, InRange, Api!InRange
<1>5. ASSUME NEW a, NEW b
      PROVE  Api!BatchVerdict(a, b) = BatchVerdict(a, b)
  <2>1. \A i : Api!EntryError(a, b, i) = EntryError(a, b, i)
    BY <1>4
  <2>2. \A i : /\ Api!EntryError(a, b, i) # "OK"
               /\ \A j \in DOMAIN b : j < i => Api!EntryError(a, b, j) = "OK"
             <=>
               /\ EntryError(a, b, i) # "OK"
               /\ \A j \in DOMAIN b : j < i => EntryError(a, b, j) = "OK"
    BY <2>1
  <2>3. (CHOOSE i \in DOMAIN b :
            /\ Api!EntryError(a, b, i) # "OK"
            /\ \A j \in DOMAIN b : j < i => Api!EntryError(a, b, j) = "OK")
        = CHOOSE i \in DOMAIN b :
            /\ EntryError(a, b, i) # "OK"
            /\ \A j \in DOMAIN b : j < i => EntryError(a, b, j) = "OK"
    BY <2>2
  <2> QED BY <2>1, <2>3, Zenon DEF BatchVerdict, Api!BatchVerdict
<1> QED BY <1>1, <1>2, <1>3, <1>5

(* A VM is looked up through the one entry it has.                         *)
LEMMA Lookup ==
  ASSUME TypeOK, OneEntryPerVm, NEW v
  PROVE  /\ \A o \in vsb_vms : vm[o].vmid = v =>
              find_vm(v) = o /\ SensorsOf(find_vm(v)) = vm[o].sensors
         /\ v \notin Known => find_vm(v) = NoVm /\ SensorsOf(find_vm(v)) = << >>
<1>1. NoVm \notin vsb_vms
  BY NullAssumption DEF TypeOK
<1>2. ASSUME NEW o \in vsb_vms, vm[o].vmid = v
      PROVE  find_vm(v) = o
  BY <1>2, FindVm DEF OneEntryPerVm
<1>3. ASSUME v \notin Known
      PROVE  find_vm(v) = NoVm
  BY <1>3, FindVm DEF Known
<1> QED BY <1>1, <1>2, <1>3 DEF SensorsOf

LEMMA LookupNext ==
  ASSUME TypeOK', OneEntryPerVm', NEW v
  PROVE  /\ \A o \in vsb_vms' : vm'[o].vmid = v =>
              SensorsOf(find_vm(v))' = vm'[o].sensors
         /\ v \notin Known' => SensorsOf(find_vm(v))' = << >>
<1>1. NoVm \notin vsb_vms'
  BY NullAssumption DEF TypeOK
<1>2. ASSUME NEW o \in vsb_vms', vm'[o].vmid = v
      PROVE  find_vm(v)' = o
  BY <1>2 DEF OneEntryPerVm, find_vm
<1>3. ASSUME v \notin Known'
      PROVE  find_vm(v)' = NoVm
  BY <1>3 DEF Known, find_vm
<1> QED BY <1>1, <1>2, <1>3 DEF SensorsOf

LEMMA EntryOf ==
  ASSUME IInv, NEW v
  PROVE  \A o \in vsb_vms : vm[o].vmid = v <=> o = find_vm(v)
<1>1. TypeOK /\ OneEntryPerVm /\ NoVm \notin vsb_vms
  BY NullAssumption DEF IInv, Keys, TypeOK
<1> QED BY <1>1, Lookup, FindVm

(* A step that writes no listed object leaves the table alone.             *)
LEMMA TableKept ==
  ASSUME IInv, IInv', vsb_vms' = vsb_vms, \A o \in vsb_vms : vm'[o] = vm[o]
  PROVE  Known' = Known /\ Table' = Table
<1>1. Known' = Known
  BY DEF Known
<1>2. ASSUME NEW v \in Vmids
      PROVE  SensorsOf(find_vm(v))' = SensorsOf(find_vm(v))
  <2>1. TypeOK /\ TypeOK' /\ OneEntryPerVm /\ OneEntryPerVm'
    BY DEF IInv, Keys
  <2>2. CASE v \in Known
    <3>1. PICK o \in vsb_vms : vm[o].vmid = v
      BY <2>2 DEF Known
    <3> QED BY <2>1, <3>1, Lookup, LookupNext
  <2>3. CASE v \notin Known
    BY <1>1, <2>1, <2>3, Lookup, LookupNext
  <2> QED BY <2>2, <2>3
<1> QED BY <1>1, <1>2 DEF Table

(* A step that changes the entry of one VM changes one row of the table.   *)
LEMMA RowChanged ==
  ASSUME IInv, IInv', NEW v, NEW f,
         \A o : vm[o].vmid # v => (o \in vsb_vms' <=> o \in vsb_vms),
         \A o : o \in vsb_vms /\ vm[o].vmid # v => vm'[o] = vm[o],
         \A o \in vsb_vms' : vm'[o].vmid = vm[o].vmid,
         \A o \in vsb_vms' : vm[o].vmid = v => vm'[o].sensors = f,
         v \notin Known' => f = << >>
  PROVE  /\ Table' = [Table EXCEPT ![v] = f]
         /\ Known' \ {v} = Known \ {v}
<1>0. TypeOK /\ TypeOK' /\ OneEntryPerVm /\ OneEntryPerVm'
  BY DEF IInv, Keys
<1>1. ASSUME NEW u, u # v
      PROVE  u \in Known' <=> u \in Known
  BY <1>1 DEF Known
<1>2. ASSUME NEW u \in Vmids, u # v
      PROVE  SensorsOf(find_vm(u))' = SensorsOf(find_vm(u))
  <2>1. CASE u \in Known
    <3>1. PICK o \in vsb_vms : vm[o].vmid = u
      BY <2>1 DEF Known
    <3>2. o \in vsb_vms' /\ vm'[o] = vm[o]
      BY <1>2, <3>1
    <3> QED BY <1>0, <3>1, <3>2, Lookup, LookupNext
  <2>2. CASE u \notin Known
    BY <1>0, <1>1, <1>2, <2>2, Lookup, LookupNext
  <2> QED BY <2>1, <2>2
<1>3. SensorsOf(find_vm(v))' = f
  <2>1. CASE v \in Known'
    <3>1. PICK o \in vsb_vms' : vm'[o].vmid = v
      BY <2>1 DEF Known
    <3> QED BY <1>0, <3>1, LookupNext
  <2>2. CASE v \notin Known'
    BY <1>0, <2>2, LookupNext
  <2> QED BY <2>1, <2>2
<1> QED BY <1>1, <1>2, <1>3 DEF Table

(* The call that the table sees, by the place of the caller.               *)
LEMMA ApiCalls ==
  ASSUME NEW c
  PROVE  /\ pc[c] = "idle" => ApiCall(c) = [op |-> "idle"]
         /\ Building(c) => ApiCall(c) = [op |-> "set_schema", vmid |-> target[c]]
         /\ pc[c] = "values" => ApiCall(c) = [op |-> "set_values", vmid |-> target[c]]
         /\ pc[c] = "remove" => ApiCall(c) = [op |-> "remove", vmid |-> target[c]]
         /\ pc[c] = "exit" \/ (Freeing(c) /\ ~loaded) =>
              ApiCall(c) = [op |-> "exit", vmid |-> 0]
         /\ pc[c] = "return" \/ (Freeing(c) /\ loaded) =>
              ApiCall(c) = [op |-> "done", result |-> ret[c]]
BY DEF ApiCall, Building, Freeing

LEMMA ApiCallsNext ==
  ASSUME NEW c
  PROVE  /\ pc'[c] = "idle" => ApiCall(c)' = [op |-> "idle"]
         /\ Building(c)' => ApiCall(c)' = [op |-> "set_schema", vmid |-> target'[c]]
         /\ pc'[c] = "values" => ApiCall(c)' = [op |-> "set_values", vmid |-> target'[c]]
         /\ pc'[c] = "remove" => ApiCall(c)' = [op |-> "remove", vmid |-> target'[c]]
         /\ pc'[c] = "exit" \/ (Freeing(c)' /\ ~loaded') =>
              ApiCall(c)' = [op |-> "exit", vmid |-> 0]
         /\ pc'[c] = "return" \/ (Freeing(c)' /\ loaded') =>
              ApiCall(c)' = [op |-> "done", result |-> ret'[c]]
BY DEF ApiCall, Building, Freeing

LEMMA CallChanged ==
  ASSUME OneCaller, NEW c \in Callers, NEW x, ApiCall(c)' = x
  PROVE  Calls' = [Calls EXCEPT ![c] = x]
<1>1. \A d \in Callers : d = c
  BY DEF OneCaller
<1> QED BY <1>1 DEF Calls

LEMMA CallKept ==
  ASSUME OneCaller, NEW c \in Callers, ApiCall(c)' = ApiCall(c)
  PROVE  Calls' = Calls
<1>1. \A d \in Callers : d = c
  BY DEF OneCaller
<1> QED BY <1>1 DEF Calls

(* What a call is building: the schema it was given, and after the         *)
(* snapshot with the values of the entry it is going to replace.  Nobody   *)
(* else can change that entry in between.                                  *)
Carried ==
  \A c \in Callers :
    /\ pc[c] = "snapshot" => \E s \in Schemas : vm[new_vm[c]].sensors = Fresh(s)
    /\ pc[c] \in {"register", "commit"} =>
         \E s \in Schemas :
           vm[new_vm[c]].sensors = Carry(Fresh(s), SensorsOf(find_vm(target[c])))

(* An ioctl that is inside the driver names a VM.                          *)
Named ==
  \A c \in Callers :
    Building(c) \/ pc[c] \in {"values", "remove"} => target[c] \in Vmids

Exiting == \A c \in Callers : pc[c] = "exit" => ~loaded

Simulates == [Api!Next]_(Api!vars)

LEMMA Stutters ==
  ASSUME Known' = Known, Table' = Table, Calls' = Calls
  PROVE  Simulates
BY DEF Simulates, Known, Table, Calls, Api!vars

LEMMA Invokes ==
  ASSUME NEW c \in Callers, pc[c] = "idle", Known' = Known, Table' = Table,
         NEW x, \/ \E op \in {"set_schema", "set_values", "remove"}, v \in Vmids :
                     x = [op |-> op, vmid |-> v]
                \/ x = [op |-> "exit", vmid |-> 0],
         Calls' = [Calls EXCEPT ![c] = x]
  PROVE  Simulates
<1>1. Calls[c] = [op |-> "idle"]
  BY ApiCalls DEF Calls
<1>2. Api!Invoke(c)
  BY ZenonT(60), <1>1 DEF Api!Invoke, Api!Idle, Api!Pending, Api!Ops, Calls, Known, Table
<1> QED BY <1>2 DEF Simulates, Api!Next

LEMMA Fails ==
  ASSUME NEW c \in Callers, pc[c] = "idle" \/ Building(c), Known' = Known, Table' = Table,
         NEW e \in {"EFAULT", "EINVAL", "ENOMEM", "EBUSY"},
         Calls' = [Calls EXCEPT ![c] = [op |-> "done", result |-> e]]
  PROVE  Simulates
<1>1. Calls[c] = [op |-> "idle"] \/ Calls[c].op = "set_schema"
  <2>1. CASE pc[c] = "idle"
    BY <2>1, ApiCalls DEF Calls
  <2>2. CASE Building(c)
    BY <2>2, ApiCalls DEF Calls
  <2> QED BY <2>1, <2>2
<1>2. Api!Fail(c)
  BY <1>1 DEF Api!Fail, Api!Idle, Api!Finish, Api!Done, Calls, Known, Table
<1> QED BY <1>2 DEF Simulates, Api!Next

(* The steps that write no listed object and change no entry.              *)

LEMMA SimRejected ==
  ASSUME IInv, IInv', OneCaller, NEW c \in Callers, NEW v, Rejected(c, v)
  PROVE  Simulates
<1>1. PICK e \in {"EFAULT", "EINVAL", "ENOMEM"} : Finish(c, e)
  BY DEF Rejected
<1>2. pc[c] = "idle" /\ pc'[c] = "return" /\ ret'[c] = e
  BY <1>1 DEF Rejected, Finish, IInv, TypeOK
<1>3. Calls' = [Calls EXCEPT ![c] = [op |-> "done", result |-> e]]
  BY <1>2, ApiCallsNext, CallChanged
<1>4. Known' = Known /\ Table' = Table
  BY TableKept DEF Rejected
<1> QED BY <1>2, <1>3, <1>4, Fails

LEMMA SimStart ==
  ASSUME IInv, IInv', OneCaller, NEW c \in Callers, NEW v \in Vmids, NEW s,
         SetSchemaStart(c, v, s)
  PROVE  Simulates
<1>1. PICK o \in Objects \ allocated :
        vm' = [vm EXCEPT ![o] = [vmid |-> v, serial |-> 0, sensors |-> Fresh(s)]]
  BY DEF SetSchemaStart
<1>2. pc[c] = "idle" /\ pc'[c] = "snapshot" /\ target'[c] = v
  BY DEF SetSchemaStart, IInv, TypeOK
<1>3. Calls' = [Calls EXCEPT ![c] = [op |-> "set_schema", vmid |-> v]]
  BY <1>2, ApiCallsNext, CallChanged DEF Building
<1>4. \A p \in vsb_vms : vm'[p] = vm[p]
  BY <1>1 DEF IInv, Devices, TypeOK
<1>5. Known' = Known /\ Table' = Table
  BY <1>4, TableKept DEF SetSchemaStart
<1> QED BY <1>2, <1>3, <1>5, Invokes

LEMMA SimOtherStart ==
  ASSUME IInv, IInv', OneCaller, NEW c \in Callers,
         NEW v, \/ v \in Vmids /\ (SetValuesStart(c, v) \/ RemoveVmStart(c, v))
                \/ ExitStart(c)
  PROVE  Simulates
<1>1. pc[c] = "idle" /\ UNCHANGED << vm, vsb_vms >>
  BY DEF SetValuesStart, RemoveVmStart, ExitStart
<1>2. Known' = Known /\ Table' = Table
  BY <1>1, TableKept
<1>3. CASE v \in Vmids /\ SetValuesStart(c, v)
  <2>1. pc'[c] = "values" /\ target'[c] = v
    BY <1>3 DEF SetValuesStart, IInv, TypeOK
  <2>2. Calls' = [Calls EXCEPT ![c] = [op |-> "set_values", vmid |-> v]]
    BY <2>1, ApiCallsNext, CallChanged
  <2> QED BY <1>1, <1>2, <1>3, <2>2, Invokes
<1>4. CASE v \in Vmids /\ RemoveVmStart(c, v)
  <2>1. pc'[c] = "remove" /\ target'[c] = v
    BY <1>4 DEF RemoveVmStart, IInv, TypeOK
  <2>2. Calls' = [Calls EXCEPT ![c] = [op |-> "remove", vmid |-> v]]
    BY <2>1, ApiCallsNext, CallChanged
  <2> QED BY <1>1, <1>2, <1>4, <2>2, Invokes
<1>5. CASE ExitStart(c)
  <2>1. pc'[c] = "exit"
    BY <1>5 DEF ExitStart, IInv, TypeOK
  <2>2. Calls' = [Calls EXCEPT ![c] = [op |-> "exit", vmid |-> 0]]
    BY <2>1, ApiCallsNext, CallChanged
  <2> QED BY <1>1, <1>2, <2>2, Invokes
<1> QED BY <1>3, <1>4, <1>5

(* Rolling back: the object that is freed was never listed.                *)
LEMMA SimRollback ==
  ASSUME IInv, IInv', OneCaller, NEW c \in Callers,
         SetSchemaRegisterFails(c) \/ SetSchemaBusy(c)
  PROVE  Simulates
<1>1. PICK e \in {"ENOMEM", "EBUSY"} : FreeVm(c, new_vm[c], e)
  BY DEF SetSchemaRegisterFails, SetSchemaBusy
<1>2. Building(c) /\ UNCHANGED << vm, vsb_vms, loaded >>
  BY DEF SetSchemaRegisterFails, SetSchemaBusy, Building
<1>3. new_vm[c] # NoVm /\ loaded
  BY <1>2, NullAssumption DEF IInv, Ownership, Pointers, Unloading, Building, TypeOK
<1>4. pc'[c] = "unregister" /\ ret'[c] = e
  BY <1>1, <1>3 DEF FreeVm, IInv, TypeOK
<1>5. Calls' = [Calls EXCEPT ![c] = [op |-> "done", result |-> e]]
  BY <1>2, <1>3, <1>4, ApiCallsNext, CallChanged DEF Freeing
<1>6. Known' = Known /\ Table' = Table
  BY <1>2, TableKept
<1> QED BY <1>2, <1>5, <1>6, Fails

(* Steps the table does not see.                                           *)
LEMMA SimQuiet ==
  ASSUME IInv, IInv', OneCaller, NEW c \in Callers,
         \/ SetSchemaSnapshot(c) \/ SetSchemaRegister(c) \/ Unregister(c) \/ KFree(c)
         \/ LockByCaller(c)
  PROVE  Simulates
<1>1. vsb_vms' = vsb_vms /\ \A o \in vsb_vms : vm'[o] = vm[o]
  <2>1. CASE SetSchemaSnapshot(c)
    <3>1. vsb_vms' = vsb_vms /\ new_vm[c] \notin vsb_vms
      BY <2>1 DEF SetSchemaSnapshot, IInv, Ownership, Unlisted, Building
    <3> QED BY <2>1, <3>1 DEF SetSchemaSnapshot, IInv, TypeOK
  <2>2. CASE KFree(c)
    <3>1. vsb_vms' = vsb_vms /\ victim[c] \notin vsb_vms
      BY <2>2 DEF KFree, IInv, Ownership, Unlisted, Freeing
    <3> QED BY <2>2, <3>1 DEF KFree, IInv, TypeOK
  <2>3. CASE SetSchemaRegister(c) \/ Unregister(c) \/ LockByCaller(c)
    BY <2>3 DEF SetSchemaRegister, Unregister, LockByCaller
  <2> QED BY <2>1, <2>2, <2>3
<1>2. Known' = Known /\ Table' = Table
  BY <1>1, TableKept
<1>3. ApiCall(c)' = ApiCall(c)
  <2>1. CASE SetSchemaSnapshot(c) \/ SetSchemaRegister(c)
    <3>1. Building(c) /\ Building(c)' /\ target'[c] = target[c]
      BY <2>1 DEF SetSchemaSnapshot, SetSchemaRegister, Building, callVars, IInv, TypeOK
    <3> QED BY <3>1, ApiCalls, ApiCallsNext
  <2>2. CASE Unregister(c)
    <3>1. Freeing(c) /\ Freeing(c)' /\ ret'[c] = ret[c] /\ loaded' = loaded
      BY <2>2 DEF Unregister, Freeing, callVars, IInv, TypeOK
    <3> QED BY <3>1, ApiCalls, ApiCallsNext
  <2>3. CASE KFree(c)
    <3>1. CASE loaded
      <4>1. Freeing(c) /\ pc'[c] = "return" /\ ret'[c] = ret[c]
        BY <2>3, <3>1 DEF KFree, Finish, Freeing, IInv, TypeOK
      <4> QED BY <3>1, <4>1, ApiCalls, ApiCallsNext
    <3>2. CASE ~loaded
      <4>1. Freeing(c) /\ pc'[c] = "exit"
        BY <2>3, <3>2 DEF KFree, Freeing, IInv, TypeOK
      <4> QED BY <3>2, <4>1, ApiCalls, ApiCallsNext
    <3> QED BY <3>1, <3>2
  <2>4. CASE LockByCaller(c)
    BY <2>4 DEF LockByCaller, callVars, ApiCall, Building, Freeing
  <2> QED BY <2>1, <2>2, <2>3, <2>4
<1> QED BY <1>2, <1>3, CallKept, Stutters

LEMMA SimNoCaller ==
  ASSUME IInv, IInv',
         \/ Load \/ UNCHANGED vars
         \/ \E r \in Readers : ReadEnter(r) \/ LockByReader(r) \/ ReadShow(r)
  PROVE  Simulates
<1>1. UNCHANGED << vm, vsb_vms, pc, target, ret >>
  BY DEF Load, ReadEnter, LockByReader, ReadShow, vars, callVars
<1>2. Known' = Known /\ Table' = Table
  BY <1>1, TableKept
<1>3. ASSUME NEW c \in Callers
      PROVE  ApiCall(c)' = ApiCall(c)
  <2>1. CASE Load
    <3>1. pc[c] = "idle" /\ pc' = pc
      BY <2>1 DEF Load
    <3> QED BY <3>1, ApiCalls, ApiCallsNext
  <2>2. CASE ~Load
    <3>1. loaded' = loaded
      BY <2>2 DEF ReadEnter, LockByReader, ReadShow, vars
    <3> QED BY <1>1, <3>1 DEF ApiCall, Building, Freeing
  <2> QED BY <2>1, <2>2
<1>4. Calls' = Calls
  BY <1>3 DEF Calls
<1> QED BY <1>2, <1>4, Stutters

LEMMA SimReturn ==
  ASSUME IInv, IInv', OneCaller, NEW c \in Callers, Return(c)
  PROVE  Simulates
<1>1. /\ pc[c] = "return" /\ pc'[c] = "idle" /\ UNCHANGED << vm, vsb_vms >>
  BY DEF Return, IInv, TypeOK
<1>2. Known' = Known /\ Table' = Table
  BY <1>1, TableKept
<1>3. Calls' = [Calls EXCEPT ![c] = [op |-> "idle"]]
  BY <1>1, ApiCallsNext, CallChanged
<1>4. Calls[c].op = "done"
  BY <1>1, ApiCalls DEF Calls
<1>5. Api!Return(c)
  BY <1>2, <1>3, <1>4 DEF Api!Return, Api!Idle, Calls, Known, Table
<1> QED BY <1>5 DEF Simulates, Api!Next

LEMMA SimExitDone ==
  ASSUME IInv, IInv', OneCaller, NEW c \in Callers, ExitDone(c)
  PROVE  Simulates
<1>1. /\ pc[c] = "exit" /\ pc'[c] = "return" /\ ret'[c] = "OK"
      /\ vsb_vms = {} /\ UNCHANGED << vm, vsb_vms >>
  BY DEF ExitDone, Finish, IInv, TypeOK
<1>2. Known' = Known /\ Table' = Table
  BY <1>1, TableKept
<1>3. Calls' = [Calls EXCEPT ![c] = [op |-> "done", result |-> "OK"]]
  BY <1>1, ApiCallsNext, CallChanged
<1>4. Calls[c] = [op |-> "exit", vmid |-> 0] /\ Known = {}
  BY <1>1, ApiCalls DEF Calls, Known
<1>5. Api!ExitDone(c)
  BY <1>2, <1>3, <1>4 DEF Api!ExitDone, Api!Finish, Api!Done, Api!Pending, Calls, Known, Table
<1> QED BY <1>5 DEF Simulates, Api!Next

-----------------------------------------------------------------------------
(* The steps that change the table.                                        *)

(* The commit: new_vm takes the place of the entry it has its values from. *)
LEMMA SimCommit ==
  ASSUME IInv, IInv', OneCaller, Carried, Named, NEW c \in Callers, SetSchemaCommit(c)
  PROVE  Simulates
<1> DEFINE v == target[c]
           old == find_vm(v)
<1>1. /\ pc[c] = "commit" /\ Building(c) /\ UNCHANGED << vm, loaded >>
      /\ vsb_vms' = (vsb_vms \ {old}) \cup {new_vm[c]}
      /\ FreeVm(c, old, "OK")
  BY DEF SetSchemaCommit, Building
<1>2. v \in Vmids /\ loaded
  BY <1>1 DEF Named, IInv, Unloading
<1>3. PICK s \in Schemas : vm[new_vm[c]].sensors = Carry(Fresh(s), SensorsOf(old))
  BY <1>1 DEF Carried
<1>4. vm[new_vm[c]].vmid = v /\ new_vm[c] \notin vsb_vms
  BY <1>1 DEF IInv, Ownership, Unlisted, Keys
<1>5. \A o \in vsb_vms : vm[o].vmid = v <=> o = old
  BY EntryOf
<1>6. v \in Known'
  BY <1>1, <1>4 DEF Known
<1>7. /\ Table' = [Table EXCEPT ![v] = Carry(Fresh(s), SensorsOf(old))]
      /\ Known' \ {v} = Known \ {v}
  <2> HIDE DEF v, old
  <2>1. \A o : vm[o].vmid # v => (o \in vsb_vms' <=> o \in vsb_vms)
    BY <1>1, <1>4, <1>5
  <2>2. \A o \in vsb_vms' : vm[o].vmid = v => vm'[o].sensors = Carry(Fresh(s), SensorsOf(old))
    BY <1>1, <1>3, <1>4, <1>5
  <2> QED BY <1>1, <1>6, <2>1, <2>2, RowChanged
<1>8. Known' = Known \cup {v}
  BY <1>6, <1>7
<1>9. Table[v] = SensorsOf(old)
  BY <1>2 DEF Table
<1>10. pc'[c] = "return" \/ pc'[c] = "unregister"
  BY <1>1 DEF FreeVm, Finish, IInv, TypeOK
<1>11. ret'[c] = "OK"
  BY <1>1 DEF FreeVm, Finish, IInv, TypeOK
<1>12. Calls' = [Calls EXCEPT ![c] = [op |-> "done", result |-> "OK"]]
  BY <1>1, <1>2, <1>10, <1>11, ApiCallsNext, CallChanged DEF Freeing
<1>13. Calls[c] = [op |-> "set_schema", vmid |-> v]
  BY <1>1, ApiCalls DEF Calls
<1>14. Table' = [Table EXCEPT ![v] = Api!Carry(Api!Fresh(s), Table[v])]
  BY <1>7, <1>9, SameHelpers
<1>15. Api!SetSchema(c, v, s)
  <2> HIDE DEF v, old
  <2> QED BY <1>8, <1>12, <1>13, <1>14
          DEF Api!SetSchema, Api!Pending, Api!Finish, Api!Done, Calls, Known, Table
<1> HIDE DEF v, old
<1> QED BY <1>2, <1>15 DEF Simulates, Api!Next

LEMMA SimRemove ==
  ASSUME IInv, IInv', OneCaller, Named, NEW c \in Callers, RemoveVm(c)
  PROVE  Simulates
<1>0. PICK v : v = target[c]
  OBVIOUS
<1> DEFINE old == find_vm(v)
<1>1. /\ pc[c] = "remove" /\ UNCHANGED << vm, loaded >>
      /\ vsb_vms' = vsb_vms \ {old} /\ FreeVm(c, old, "OK")
  BY <1>0 DEF RemoveVm
<1>2. v \in Vmids /\ loaded
  BY <1>0, <1>1 DEF Named, IInv, Unloading
<1>3. \A o \in vsb_vms : vm[o].vmid = v <=> o = old
  BY EntryOf
<1>4. v \notin Known'
  BY <1>1, <1>3 DEF Known
<1>5. Table' = [Table EXCEPT ![v] = << >>] /\ Known' \ {v} = Known \ {v}
  <2> HIDE DEF old
  <2>1. \A o : vm[o].vmid # v => (o \in vsb_vms' <=> o \in vsb_vms)
    BY <1>1, <1>3
  <2>2. \A o \in vsb_vms' : vm[o].vmid # v
    BY <1>1, <1>3
  <2> QED BY <1>1, <2>1, <2>2, RowChanged
<1>6. Known' = Known \ {v}
  BY <1>4, <1>5
<1>7. (pc'[c] = "return" \/ pc'[c] = "unregister") /\ ret'[c] = "OK"
  BY <1>1 DEF FreeVm, Finish, IInv, TypeOK
<1>8. Calls' = [Calls EXCEPT ![c] = [op |-> "done", result |-> "OK"]]
  BY <1>1, <1>2, <1>7, ApiCallsNext, CallChanged DEF Freeing
<1>9. Calls[c] = [op |-> "remove", vmid |-> v]
  BY <1>0, <1>1, ApiCalls DEF Calls
<1>10. Api!RemoveVm(c, v)
  <2> HIDE DEF old
  <2> QED BY <1>5, <1>6, <1>8, <1>9
          DEF Api!RemoveVm, Api!Forget, Api!Pending, Api!Finish, Api!Done, Calls, Known, Table
<1> HIDE DEF old
<1>11. \E u \in Vmids : Api!RemoveVm(c, u)
  BY <1>2, <1>10
<1>12. Api!Next
  BY <1>11 DEF Api!Next
<1> QED BY <1>12 DEF Simulates

(* Module exit takes the entries off one by one.                           *)
LEMMA SimExitUnlink ==
  ASSUME IInv, IInv', OneCaller, Exiting, NEW c \in Callers, ExitUnlink(c)
  PROVE  Simulates
<1>1. PICK o \in vsb_vms : vsb_vms' = vsb_vms \ {o} /\ FreeVm(c, o, "OK")
  BY DEF ExitUnlink
<1>2. pc[c] = "exit" /\ UNCHANGED << vm, loaded >>
  BY DEF ExitUnlink
<1> DEFINE v == vm[o].vmid
<1>3. \A p \in vsb_vms : vm[p].vmid = v <=> p = o
  BY DEF IInv, Keys, OneEntryPerVm
<1>4. v \in Known /\ v \notin Known'
  BY <1>1, <1>2, <1>3 DEF Known
<1>5. Table' = [Table EXCEPT ![v] = << >>] /\ Known' \ {v} = Known \ {v}
  <2> HIDE DEF v
  <2>1. \A p : vm[p].vmid # v => (p \in vsb_vms' <=> p \in vsb_vms)
    BY <1>1, <1>3
  <2>2. \A p \in vsb_vms' : vm[p].vmid # v
    BY <1>1, <1>3
  <2> QED BY <1>2, <2>1, <2>2, RowChanged
<1>6. Known' = Known \ {v}
  BY <1>4, <1>5
<1>7. Freeing(c)' /\ ~loaded'
  <2>1. o # NoVm
    BY NullAssumption DEF IInv, TypeOK
  <2>2. pc'[c] = "unregister"
    BY <1>1, <2>1 DEF FreeVm, IInv, TypeOK
  <2>3. ~loaded
    BY <1>2 DEF Exiting
  <2> QED BY <1>2, <2>2, <2>3 DEF Freeing
<1>8. Calls[c] = [op |-> "exit", vmid |-> 0] /\ Calls' = Calls
  BY <1>2, <1>7, ApiCalls, ApiCallsNext, CallKept DEF Calls
<1>9. Api!ExitOne(c)
  <2> HIDE DEF v
  <2> QED BY <1>4, <1>5, <1>6, <1>8
          DEF Api!ExitOne, Api!Forget, Api!Pending, Calls, Known, Table
<1> QED BY <1>9 DEF Simulates, Api!Next

(* A batch is stored as a whole, or refused with the error of the table.   *)
LEMMA SimSetValues ==
  ASSUME IInv, IInv', OneCaller, Named, NEW c \in Callers, NEW b \in Batches, SetValues(c, b)
  PROVE  Simulates
<1> DEFINE v == target[c]
           o == find_vm(v)
           verdict == IF o = NoVm THEN "ENOENT" ELSE BatchVerdict(vm[o].sensors, b)
<1>1. /\ pc[c] = "values" /\ UNCHANGED vsb_vms /\ Finish(c, verdict)
      /\ vm' = IF verdict = "OK"
               THEN [vm EXCEPT ![o] = [vm[o] EXCEPT !.sensors = Apply(vm[o].sensors, b)]]
               ELSE vm
  BY DEF SetValues
<1>2. v \in Vmids /\ TypeOK /\ OneEntryPerVm
  BY <1>1 DEF Named, IInv, Keys
<1>3. pc'[c] = "return" /\ ret'[c] = verdict
  BY <1>1 DEF Finish, IInv, TypeOK
<1>4. Calls' = [Calls EXCEPT ![c] = [op |-> "done", result |-> verdict]]
  BY <1>3, ApiCallsNext, CallChanged
<1>5. Calls[c] = [op |-> "set_values", vmid |-> v]
  BY <1>1, ApiCalls DEF Calls
<1>6. CASE o = NoVm
  <2>1. v \notin Known
    BY <1>2, <1>6, FindVm, NullAssumption DEF Known, TypeOK
  <2>2. Known' = Known /\ Table' = Table
    BY <1>1, <1>6, TableKept
  <2>3. verdict = "ENOENT"
    BY <1>6
  <2>4. Api!RefuseValues(c, v, b)
    <3> HIDE DEF v, o, verdict
    <3> QED BY <1>4, <1>5, <2>1, <2>2, <2>3
            DEF Api!RefuseValues, Api!Pending, Api!Finish, Api!Done, Calls, Known, Table
  <2> QED BY <1>2, <2>4 DEF Simulates, Api!Next
<1>7. CASE o # NoVm
  <2>1. o \in vsb_vms /\ vm[o].vmid = v /\ o \in Objects
    BY <1>2, <1>7, FindVm DEF TypeOK
  <2>2. v \in Known /\ Table[v] = vm[o].sensors
    BY <1>2, <2>1, Lookup DEF Known, Table
  <2>3. verdict = Api!BatchVerdict(Table[v], b)
    BY <1>7, <2>2, SameHelpers
  <2>4. CASE verdict # "OK"
    <3>1. Known' = Known /\ Table' = Table
      BY <1>1, <2>4, TableKept
    <3>2. Api!RefuseValues(c, v, b)
      <4> HIDE DEF v, o, verdict
      <4> QED BY <1>4, <1>5, <2>2, <2>3, <2>4, <3>1
              DEF Api!RefuseValues, Api!Pending, Api!Finish, Api!Done, Calls, Known, Table
    <3> QED BY <1>2, <3>2 DEF Simulates, Api!Next
  <2>5. CASE verdict = "OK"
    <3> DEFINE x == [vmid |-> vm[o].vmid, serial |-> vm[o].serial,
                     sensors |-> Apply(vm[o].sensors, b)]
    <3>1. IsVmStruct(vm[o])
      BY <2>1 DEF IInv, TypeOK
    <3>2. vm' = [vm EXCEPT ![o] = x]
      BY <1>1, <2>5, <3>1, UpdateStruct
    <3>3. /\ vm'[o].vmid = vm[o].vmid /\ vm'[o].sensors = Apply(vm[o].sensors, b)
          /\ \A p \in Objects : p # o => vm'[p] = vm[p]
      BY <2>1, <3>2 DEF IInv, TypeOK
    <3>4. \A p \in vsb_vms : vm[p].vmid = v <=> p = o
      BY EntryOf
    <3>5. vsb_vms' = vsb_vms /\ vsb_vms \subseteq Objects
      BY <1>1 DEF IInv, TypeOK
    <3>6. Known' = Known
      BY <3>3, <3>5 DEF Known
    <3>7. Table' = [Table EXCEPT ![v] = Apply(vm[o].sensors, b)]
      <4> HIDE DEF v, o, verdict, x
      <4>1. \A p \in vsb_vms' : vm'[p].vmid = vm[p].vmid
        BY <3>3, <3>5
      <4>2. \A p \in vsb_vms' : vm[p].vmid = v => vm'[p].sensors = Apply(vm[o].sensors, b)
        BY <3>3, <3>4, <3>5
      <4>3. \A p : p \in vsb_vms /\ vm[p].vmid # v => vm'[p] = vm[p]
        BY <2>1, <3>3, <3>5
      <4> QED BY <2>2, <3>5, <3>6, <4>1, <4>2, <4>3, RowChanged
    <3>8. Table' = [Table EXCEPT ![v] = Api!Apply(Table[v], b)]
      BY <2>2, <3>7, SameHelpers
    <3>9. Api!SetValues(c, v, b)
      <4> HIDE DEF v, o, verdict
      <4> QED BY <1>4, <1>5, <2>2, <2>3, <2>5, <3>6, <3>8
              DEF Api!SetValues, Api!Pending, Api!Finish, Api!Done, Calls, Known, Table
    <3> QED BY <1>2, <3>9 DEF Simulates, Api!Next
  <2> QED BY <2>4, <2>5
<1> QED BY <1>6, <1>7

LEMMA SimStep ==
  ASSUME IInv, IInv', OneCaller, Carried, Named, Exiting, [Next]_vars
  PROVE  Simulates
BY SimRejected, SimStart, SimOtherStart, SimRollback, SimQuiet, SimNoCaller, SimReturn,
   SimExitDone, SimCommit, SimRemove, SimExitUnlink, SimSetValues
   DEF Next, CallerStart, CallerStep

-----------------------------------------------------------------------------
(* The invariant of a caller that is alone.                                *)
Alone == Carried /\ Named /\ Exiting

LEMMA AloneStart ==
  ASSUME IInv, OneCaller, NEW c \in Callers, NEW v \in Vmids, NEW s \in Schemas,
         SetSchemaStart(c, v, s)
  PROVE  Alone'
<1>1. PICK o \in Objects :
        /\ vm' = [vm EXCEPT ![o] = [vmid |-> v, serial |-> 0, sensors |-> Fresh(s)]]
        /\ new_vm' = [new_vm EXCEPT ![c] = o]
  BY DEF SetSchemaStart
<1>2. pc'[c] = "snapshot" /\ target'[c] = v
  BY DEF SetSchemaStart, IInv, TypeOK
<1>3. new_vm'[c] = o /\ vm'[o].sensors = Fresh(s)
  BY <1>1 DEF IInv, TypeOK
<1>4. \A d \in Callers : d = c
  BY DEF OneCaller
<1> QED BY <1>2, <1>3, <1>4 DEF Alone, Carried, Named, Exiting

LEMMA AloneSnapshot ==
  ASSUME IInv, IInv', OneCaller, Alone, NEW c \in Callers, SetSchemaSnapshot(c)
  PROVE  Alone'
<1> DEFINE o == new_vm[c]
           old == find_vm(target[c])
<1>1. PICK s \in Schemas : vm[o].sensors = Fresh(s)
  BY DEF Alone, Carried, SetSchemaSnapshot
<1>2. o \in Objects /\ o \notin vsb_vms
  BY DEF SetSchemaSnapshot, IInv, Ownership, Pointers, Unlisted, Building, TypeOK
<1>3. /\ vm'[o].sensors = Carry(Fresh(s), SensorsOf(old))
      /\ \A p \in vsb_vms : vm'[p] = vm[p]
  BY <1>1, <1>2 DEF SetSchemaSnapshot, IInv, TypeOK
<1>4. /\ pc'[c] = "register" /\ new_vm'[c] = o /\ target'[c] = target[c]
      /\ vsb_vms' = vsb_vms /\ pc[c] = "snapshot"
  BY DEF SetSchemaSnapshot, IInv, TypeOK
<1>5. target[c] \in Vmids
  BY <1>4 DEF Alone, Named, Building
<1>6. SensorsOf(find_vm(target[c]))' = SensorsOf(old)
  <2>1. Table' = Table
    BY <1>3, <1>4, TableKept
  <2>2. Table[target[c]] = SensorsOf(old)
    BY <1>5 DEF Table
  <2>3. Table'[target'[c]] = SensorsOf(find_vm(target[c]))'
    BY <1>4, <1>5 DEF Table
  <2> QED BY <1>4, <2>1, <2>2, <2>3
<1>7. \A d \in Callers : d = c
  BY DEF OneCaller
<1> HIDE DEF o, old
<1>8. Carried'
  BY <1>3, <1>4, <1>6, <1>7 DEF Carried
<1> QED BY <1>4, <1>5, <1>7, <1>8 DEF Alone, Named, Exiting, Building

LEMMA AloneRegister ==
  ASSUME IInv, OneCaller, Alone, NEW c \in Callers, SetSchemaRegister(c)
  PROVE  Alone'
<1>1. /\ pc[c] = "register" /\ pc'[c] = "commit"
      /\ UNCHANGED << vm, vsb_vms, new_vm, target, loaded >>
  BY DEF SetSchemaRegister, callVars, IInv, TypeOK
<1>2. \A d \in Callers : d = c
  BY DEF OneCaller
<1> QED BY <1>1, <1>2 DEF Alone, Carried, Named, Exiting, Building, find_vm, SensorsOf

LEMMA AloneQuiet ==
  ASSUME Alone,
         \/ \E c \in Callers : LockByCaller(c)
         \/ Load \/ UNCHANGED vars
         \/ \E r \in Readers : ReadEnter(r) \/ LockByReader(r) \/ ReadShow(r)
  PROVE  Alone'
<1>1. UNCHANGED << vm, vsb_vms, pc, new_vm, target >>
  BY DEF LockByCaller, Load, ReadEnter, LockByReader, ReadShow, vars, callVars
<1>2. Carried' /\ Named'
  BY <1>1 DEF Alone, Carried, Named, Building, find_vm, SensorsOf
<1>3. loaded' = loaded \/ \A d \in Callers : pc[d] = "idle"
  BY DEF LockByCaller, Load, ReadEnter, LockByReader, ReadShow, vars
<1> QED BY <1>1, <1>2, <1>3 DEF Alone, Exiting

(* Where the other steps lead nothing is carried.                          *)
LEMMA AloneOther ==
  ASSUME IInv, OneCaller, Alone, NEW c \in Callers,
         \/ \E v \in Vmids : Rejected(c, v) \/ SetValuesStart(c, v) \/ RemoveVmStart(c, v)
         \/ ExitStart(c) \/ SetSchemaRegisterFails(c) \/ SetSchemaCommit(c)
         \/ SetSchemaBusy(c) \/ (\E b \in Batches : SetValues(c, b)) \/ RemoveVm(c)
         \/ Unregister(c) \/ KFree(c) \/ ExitUnlink(c) \/ ExitDone(c) \/ Return(c)
  PROVE  Alone'
<1>1. \A d \in Callers : d = c
  BY DEF OneCaller
<1>2. /\ pc'[c] \notin {"snapshot", "register", "commit"}
      /\ pc'[c] = "exit" => ~loaded'
      /\ pc'[c] \in {"values", "remove"} => target'[c] \in Vmids
  BY DEF Rejected, SetValuesStart, RemoveVmStart, ExitStart, SetSchemaRegisterFails,
         SetSchemaCommit, SetSchemaBusy, SetValues, RemoveVm, Unregister, KFree,
         ExitUnlink, ExitDone, Return, Finish, FreeVm, IInv, TypeOK
<1> QED BY <1>1, <1>2 DEF Alone, Carried, Named, Exiting, Building

LEMMA AloneStep ==
  ASSUME IInv, IInv', OneCaller, Alone, [Next]_vars
  PROVE  Alone'
BY AloneStart, AloneSnapshot, AloneRegister, AloneQuiet, AloneOther
   DEF Next, CallerStart, CallerStep

LEMMA ApiInit == Init => Api!Init
<1> SUFFICES ASSUME Init PROVE Api!Init
  OBVIOUS
<1>1. vsb_vms = {} /\ \A c \in Callers : pc[c] = "idle"
  BY DEF Init
<1>2. Known = {} /\ \A v \in Vmids : SensorsOf(find_vm(v)) = << >>
  BY <1>1 DEF Known, find_vm, SensorsOf
<1>3. \A c \in Callers : ApiCall(c) = [op |-> "idle"]
  BY <1>1, ApiCalls
<1> QED BY <1>2, <1>3 DEF Api!Init, Api!Idle, Known

(* Behind a mutex that lets one ioctl into the driver at a time, as that   *)
(* around hostd's KernelDevice, every ioctl is an atomic operation on a    *)
(* table of VMs: SET_SCHEMA carries over the values the table holds when   *)
(* it takes effect, SET_VALUES stores a whole batch or nothing, and a      *)
(* failing call leaves no trace.                                           *)
THEOREM ApiTheorem ==
  ASSUME OneCaller
  PROVE  Spec => ImplementsApi
<1>1. Init => Alone
  BY DEF Init, Alone, Carried, Named, Exiting, Building
<1>2. IInv /\ IInv' /\ Alone /\ [Next]_vars => Alone'
  BY AloneStep
<1>3. IInv /\ IInv' /\ Alone /\ [Next]_vars => [Api!Next]_(Api!vars)
  BY SimStep DEF Alone, Simulates
<1> QED BY <1>1, <1>2, <1>3, ApiInit, Invariance, PTL DEF Spec, ImplementsApi, Api!Spec
=============================================================================
