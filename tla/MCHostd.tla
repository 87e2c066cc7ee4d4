------------------------------- MODULE MCHostd -------------------------------
(* Instances of Hostd.  Sensor "p" is persistent and second in the full    *)
(* layout, so that preserving it renumbers the device.                     *)
EXTENDS Hostd

MixedLayouts == {<< "d", "p" >>, << "d" >>}
MixedPersistent == {"p"}

(* Bound of the run with two VMs: only VM 100 ever has a persistent sensor. *)
OnePersistentVm ==
  \A v \in Vmids : agent[v].mode = "up" /\ v # 100 => agent[v].layout = << "d" >>
=============================================================================
