-------------------------------- MODULE QmArgs --------------------------------
(***************************************************************************)
(* vsbctl attach and detach (vsbctl/src/qm.rs): each reads the QEMU        *)
(* arguments of a VM with "qm config" and writes them back, changed, with  *)
(* "qm set".  Proxmox is external: each qm command is atomic, other tools  *)
(* edit the arguments too, and a VM can be recreated as a clone of another.*)
(*                                                                         *)
(* An option and its value are one element: "chardev" with the VM whose    *)
(* socket it names, the two devices of the channel, or one of Others.      *)
(***************************************************************************)
EXTENDS Sequences, SequencesExt, Filter

CONSTANTS
    Admins,       \* who runs vsbctl
    Vmid,         \* the VM
    Sources,      \* VMs it can be cloned from
    Others        \* options that have nothing to do with the channel

QmAssumption == Vmid \notin Sources

VARIABLES
    args,         \* the arguments of the VM
    job,          \* what each administrator's command will write
    others,       \* ghost: the other options as their owners want them
    met,          \* ghost: a command wrote what was out of date
    cloned        \* ghost: the VM began as a clone

vars == <<args, job, others, met, cloned>>

Idle == [state |-> "idle"]
Chardev(v) == <<"chardev", v>>
Serial == <<"virtio-serial-pci">>
Port == <<"virtserialport">>
Other(o) == <<"other", o>>

Theirs == {Other(o) : o \in Others}
Options == {Chardev(v) : v \in Sources \cup {Vmid}} \cup {Serial, Port} \cup Theirs

channel_args(v) == <<Chardev(v), Serial, Port>>
is_bridge_device_arg(x) == x \in {Serial, Port}

(* Mutant: the character device stays.                                     *)
remove_devices_only(s) == Filter(s, {x \in Options : ~is_bridge_device_arg(x)})
remove_bridge_channel(s) ==
    Filter(s, {x \in Options : ~is_bridge_device_arg(x) /\ x # Chardev(Vmid)})
has_bridge_channel(s) == \E i \in DOMAIN s : is_bridge_device_arg(s[i])

Without(s, x) == Filter(s, Options \ {x})
-----------------------------------------------------------------------------
Init ==
    /\ args = <<>> /\ others = <<>>
    /\ job = [a \in Admins |-> Idle]
    /\ met = FALSE /\ cloned = FALSE

Read(a, next) ==
    /\ job' = [job EXCEPT ![a] = [state |-> "fresh", next |-> next]]
    /\ UNCHANGED <<args, others, met, cloned>>

attach(a) ==
    /\ job[a] = Idle
    /\ ~has_bridge_channel(args)
    /\ Read(a, args \o channel_args(Vmid))

detach(a) ==
    /\ job[a] = Idle
    /\ remove_bridge_channel(args) # args
    /\ Read(a, remove_bridge_channel(args))

(* Whoever writes makes what the others have read out of date.             *)
Stale == [a \in Admins |-> IF job[a] = Idle THEN Idle
                                            ELSE [job[a] EXCEPT !.state = "stale"]]

qm_set_args(a) ==
    /\ job[a] # Idle
    /\ args' = job[a].next
    /\ met' = (met \/ job[a].state = "stale")
    /\ job' = [Stale EXCEPT ![a] = Idle]
    /\ UNCHANGED <<others, cloned>>

(* qm fails, or vsbctl is interrupted.                                     *)
GiveUp(a) ==
    /\ job[a] # Idle
    /\ job' = [job EXCEPT ![a] = Idle]
    /\ UNCHANGED <<args, others, met, cloned>>

(* Another tool adds or removes an option.                                 *)
Edit ==
    /\ \E x \in Theirs :
          LET edited(s) == IF Contains(args, x) THEN Without(s, x)
                                                ELSE Append(Without(s, x), x)
          IN args' = edited(args) /\ others' = edited(others)
    /\ job' = Stale
    /\ UNCHANGED <<met, cloned>>

(* With no command under way the VM is recreated as a clone.               *)
Clone ==
    /\ \A a \in Admins : job[a] = Idle
    /\ \E v \in Sources : args' = channel_args(v)
    /\ others' = <<>> /\ cloned' = TRUE /\ met' = FALSE
    /\ UNCHANGED job

Next ==
    \/ \E a \in Admins : attach(a) \/ detach(a) \/ qm_set_args(a) \/ GiveUp(a)
    \/ Edit \/ Clone

Spec == Init /\ [][Next]_vars
-----------------------------------------------------------------------------
(* A VM that is no clone has the whole channel, to its own socket, or none *)
(* of it, and no device twice (QEMU would not start), whoever attaches and *)
(* detaches at the same time; and the other options are as their owners    *)
(* left them, unless somebody wrote between a command's read and its       *)
(* write.                                                                  *)
ArgsAreSound ==
    /\ ~cloned => Filter(args, Options \ Theirs) \in {<<>>, channel_args(Vmid)}
    /\ ~met => Filter(args, Theirs) = others
=============================================================================
