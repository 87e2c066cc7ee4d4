----------------------------- MODULE SchemaRate -----------------------------
(***************************************************************************)
(* The limiter of schema updates in apply_schema (hostd/src/linux.rs): per *)
(* VM a window with its start and a count, kept in a map of its own that   *)
(* no removal of the VM touches.  A window starts with the first schema    *)
(* that finds the previous one over; it does not slide.                    *)
(*                                                                         *)
(* The decision is one step: it runs under the state lock, so that the     *)
(* handler threads of several VMs do not interleave inside it.             *)
(***************************************************************************)
EXTENDS Integers, Sequences

CONSTANTS
  Vmids,    \* the VMs
  Max,      \* MAX_SCHEMA_UPDATES_PER_MINUTE
  Window,   \* SCHEMA_RATE_WINDOW in ticks of the clock
  Horizon,  \* bound on the clock
  MaxCount, \* bound on the schemas a window counts
  NoWindow  \* no entry in the map

ASSUME MaxAssumption == Max \in Nat \ {0}
ASSUME WindowAssumption == Window \in Nat \ {0}
ASSUME BoundsAssumption == Horizon \in Nat /\ MaxCount \in Nat /\ MaxCount > Max
ASSUME NoWindowAssumption == NoWindow \notin [count : Nat, start : Nat]

VARIABLES
  now,          \* Instant::now()
  schema_rate,  \* the window of each VM
  accepted      \* history: the accepted schemas of each VM, oldest first,
                \* with their time and the start of their window

vars == << now, schema_rate, accepted >>

Init ==
  /\ now = 0
  /\ schema_rate = [v \in Vmids |-> NoWindow]
  /\ accepted = [v \in Vmids |-> << >>]

(* Mutant: a window starts one tick early.                                 *)
FreshEarly == [count |-> 0, start |-> now - 1]

Fresh == [count |-> 0, start |-> now]

(* Mutant: a window is over one tick late.                                 *)
WindowOfLate(v) ==
  IF schema_rate[v] = NoWindow THEN Fresh
  ELSE IF now - schema_rate[v].start > Window THEN Fresh
  ELSE schema_rate[v]

(* The window that a schema of VM v arriving now belongs to.               *)
WindowOf(v) ==
  IF schema_rate[v] = NoWindow THEN Fresh
  ELSE IF now - schema_rate[v].start >= Window THEN Fresh
  ELSE schema_rate[v]

(* Every schema is counted, the dropped ones too.                          *)
Counted(v) ==
  schema_rate' = [schema_rate EXCEPT ![v] =
                    [count |-> WindowOf(v).count + 1, start |-> WindowOf(v).start]]

(* Mutant: the limit is compared before the schema is counted.             *)
AcceptOneMore(v) ==
  /\ WindowOf(v).count <= Max
  /\ Counted(v)
  /\ accepted' = [accepted EXCEPT ![v] =
                    Append(@, [time |-> now, start |-> WindowOf(v).start])]
  /\ UNCHANGED now

Accept(v) ==
  /\ WindowOf(v).count + 1 <= Max
  /\ Counted(v)
  /\ accepted' = [accepted EXCEPT ![v] =
                    Append(@, [time |-> now, start |-> WindowOf(v).start])]
  /\ UNCHANGED now

Drop(v) ==
  /\ WindowOf(v).count + 1 > Max
  /\ WindowOf(v).count < MaxCount
  /\ Counted(v)
  /\ UNCHANGED << now, accepted >>

Tick ==
  /\ now < Horizon
  /\ now' = now + 1
  /\ UNCHANGED << schema_rate, accepted >>

Next == Tick \/ \E v \in Vmids : Accept(v) \/ Drop(v)

Spec == Init /\ [][Next]_vars

-----------------------------------------------------------------------------
(* Properties                                                              *)

Entries == [time : Nat, start : Nat]

(* Every variable keeps its type.                                          *)
TypeOK ==
  /\ now \in Nat
  /\ schema_rate \in [Vmids -> [count : Nat, start : Nat] \cup {NoWindow}]
  /\ accepted \in [Vmids -> Seq(Entries)]

(* Any n + 1 consecutive accepted schemas of a VM span at least a window:  *)
(* no interval shorter than that holds more than n of them.                *)
AtMost(n) ==
  \A v \in Vmids : \A i \in DOMAIN accepted[v] :
    i + n \in DOMAIN accepted[v] =>
      accepted[v][i + n].time - accepted[v][i].time >= Window

(* What the comment of apply_schema says (hostd/src/linux.rs:441-442): "at *)
(* most MAX_SCHEMA_UPDATES_PER_MINUTE updates in any 60-second sliding     *)
(* window".  The window does not slide, so the code does not keep to it: a *)
(* burst at the end of a window and one at the start of the next.          *)
SlidingWindow == AtMost(Max)

(* The bound the limiter does enforce on a VM, also one that comes and     *)
(* goes: twice MAX_SCHEMA_UPDATES_PER_MINUTE in any 60 seconds.            *)
AtMostTwice == AtMost(2 * Max)

(* The limiter is not stricter than it says: a schema is dropped only if   *)
(* Max others were accepted less than a window ago, however many have been *)
(* dropped, and counted, since.                                            *)
DropIsJustified ==
  [][\A v \in Vmids : Drop(v) =>
       /\ Len(accepted[v]) >= Max
       /\ now - accepted[v][Len(accepted[v]) - Max + 1].time < Window]_vars
=============================================================================
