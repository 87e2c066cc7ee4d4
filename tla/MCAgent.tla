------------------------------- MODULE MCAgent -------------------------------
(* Guests that differ in hardware and configuration: two directories with  *)
(* a sensor that matches both chips; a chip and a disk shown as they are;  *)
(* a persistent disk beside a controller; a persistent controller.         *)
EXTENDS Agent
CONSTANTS s1, s2, c1, c2, d1, d2, h1, p1
MCOrder == <<s1, s2, h1, d1, d2, p1>>
Guest(ss, ds, hs, source) ==
    [slots |-> ss, disks |-> ds, iocs |-> hs, persistent |-> [p \in {p1} |-> source]]
MCMachines ==
    {Guest({s1, s2}, {}, {}, {c1, c2}), Guest({s1}, {d1}, {}, {c1}),
     Guest({}, {d1, d2}, {}, d1), Guest({}, {}, {h1}, h1)}
=============================================================================
