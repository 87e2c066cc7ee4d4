---------------------------- MODULE PartsProofs -----------------------------
(***************************************************************************)
(* Proofs about Parts, for any values of its constants: each component     *)
(* keeps its properties, whether it is the one that takes steps or rests.  *)
(*                                                                         *)
(* The proofs about the port and the cache are those of WireProofs and     *)
(* CacheFileProofs, for the instances of Parts; that a behaviour of Parts  *)
(* is one of theirs is all there is to show.                               *)
(***************************************************************************)
EXTENDS Parts, FilterProofs, TLAPS

-----------------------------------------------------------------------------
(* The QEMU arguments                                                      *)

(* The options that are not other people's.                                *)
Ours == Qm!Options \ Qm!Theirs
OwnChannel == Qm!channel_args(Vmid)

(* The proofs about Filter are about the same operator.                    *)
LEMMA SameFilter ==
  ASSUME NEW s, NEW T
  PROVE  Qm!Filter(s, T) = Filter(s, T)
BY DEF Qm!Filter, Filter, Qm!FilterPrefixes, FilterPrefixes

(* The elements of a channel: a socket and the two devices.                *)
LEMMA ChannelElements ==
  ASSUME NEW v \in Sources \cup {Vmid}
  PROVE  /\ Qm!Chardev(v) \in Ours /\ Qm!Serial \in Ours /\ Qm!Port \in Ours
         /\ Qm!channel_args(v) = << Qm!Chardev(v), Qm!Serial, Qm!Port >>
         /\ Ours \subseteq Qm!Options
         /\ Qm!Theirs \subseteq Qm!Options
         /\ Qm!Theirs \cap Ours = {}
<1>1. \A o \in Others : Qm!Other(o) # Qm!Chardev(v)
  BY DEF Qm!Other, Qm!Chardev
<1>2. \A o \in Others : Qm!Other(o) # Qm!Serial /\ Qm!Other(o) # Qm!Port
  <2>1. ASSUME NEW o PROVE Len(<< "other", o >>) = 2
    OBVIOUS
  <2>2. Len(<< "virtio-serial-pci" >>) = 1 /\ Len(<< "virtserialport" >>) = 1
    OBVIOUS
  <2> QED BY <2>1, <2>2 DEF Qm!Other, Qm!Serial, Qm!Port
<1>3. /\ Qm!Chardev(v) \in Qm!Options /\ Qm!Serial \in Qm!Options /\ Qm!Port \in Qm!Options
      /\ Qm!Theirs \subseteq Qm!Options
  BY DEF Qm!Options
<1> QED BY <1>1, <1>2, <1>3 DEF Ours, Qm!Theirs, Qm!channel_args

(* Three options at the end.                                               *)
LEMMA AppendThree ==
  ASSUME NEW S, NEW x \in S, NEW y \in S, NEW z \in S
  PROVE  Append(Append(Append(<< >>, x), y), z) = << x, y, z >>
<1>1. PICK a \in Seq(S) : a = << x >>
  <2>1. << x >> \in Seq(S)
    OBVIOUS
  <2> QED BY <2>1
<1>2. Len(a) = 1 /\ a[1] = x
  BY <1>1
<1>3. PICK b \in Seq(S) : b = Append(a, y)
  <2>1. Append(a, y) \in Seq(S)
    OBVIOUS
  <2> QED BY <2>1
<1>4. Len(b) = 2 /\ b[1] = x /\ b[2] = y
  BY <1>2, <1>3
<1>5. PICK t \in Seq(S) : t = Append(b, z)
  <2>1. Append(b, z) \in Seq(S)
    OBVIOUS
  <2> QED BY <2>1
<1>6. Len(t) = 3 /\ t[1] = x /\ t[2] = y /\ t[3] = z
  <2>1. Len(t) = Len(b) + 1 /\ t[Len(b) + 1] = z /\ \A i \in 1 .. Len(b) : t[i] = b[i]
    BY <1>5
  <2> QED BY <1>4, <2>1
<1>7. PICK c \in Seq(S) : c = << x, y, z >>
  <2>1. << x, y, z >> \in Seq(S)
    OBVIOUS
  <2> QED BY <2>1
<1>8. Len(c) = 3 /\ c[1] = x /\ c[2] = y /\ c[3] = z
  BY <1>7
<1>9. \A i \in 1 .. Len(t) : t[i] = c[i]
  BY <1>6, <1>8
<1>10. t = c
  BY <1>6, <1>8, <1>9, SeqEqual
<1>11. Append(<< >>, x) = a
  BY <1>1
<1> QED BY <1>3, <1>5, <1>7, <1>10, <1>11

LEMMA FilterThree ==
  ASSUME NEW S, NEW s \in Seq(S), NEW x \in S, NEW y \in S, NEW z \in S, NEW T
  PROVE  /\ s \o << x, y, z >> \in Seq(S)
         /\ x \in T /\ y \in T /\ z \in T =>
              Filter(s \o << x, y, z >>, T) = Append(Append(Append(Filter(s, T), x), y), z)
         /\ {x, y, z} \cap T = {} =>
              Filter(s \o << x, y, z >>, T) = Filter(s, T)
<1>1. PICK p \in Seq(S) : p = Append(s, x)
  <2>1. Append(s, x) \in Seq(S)
    OBVIOUS
  <2> QED BY <2>1
<1>2. PICK q \in Seq(S) : q = Append(p, y)
  <2>1. Append(p, y) \in Seq(S)
    OBVIOUS
  <2> QED BY <2>1
<1>3. Append(q, z) \in Seq(S)
  OBVIOUS
<1>4. s \o << x, y, z >> = Append(q, z)
  <2>1. << x, y, z >> \in Seq(S)
    OBVIOUS
  <2>2. s \o << x, y, z >> = Append(Append(Append(s, x), y), z)
    OBVIOUS
  <2> QED BY <1>1, <1>2, <2>2
<1>5. /\ Filter(p, T) = IF x \in T THEN Append(Filter(s, T), x) ELSE Filter(s, T)
      /\ Filter(q, T) = IF y \in T THEN Append(Filter(p, T), y) ELSE Filter(p, T)
      /\ Filter(Append(q, z), T) = IF z \in T THEN Append(Filter(q, T), z) ELSE Filter(q, T)
  <2>1. Filter(Append(s, x), T) = IF x \in T THEN Append(Filter(s, T), x) ELSE Filter(s, T)
    BY FilterAppend
  <2>2. Filter(Append(p, y), T) = IF y \in T THEN Append(Filter(p, T), y) ELSE Filter(p, T)
    BY FilterAppend
  <2>3. Filter(Append(q, z), T) = IF z \in T THEN Append(Filter(q, T), z) ELSE Filter(q, T)
    BY FilterAppend
  <2> QED BY <1>1, <1>2, <2>1, <2>2, <2>3
<1> QED BY <1>3, <1>4, <1>5

(* Arguments without the devices of a channel have none of it if they have *)
(* a whole one or nothing.                                                 *)
LEMMA NoDevices ==
  ASSUME NEW s \in Seq(Qm!Options), ~Qm!has_bridge_channel(s),
         Filter(s, Ours) \in {<< >>, OwnChannel}
  PROVE  Filter(s, Ours) = << >>
<1> DEFINE S == Qm!Options \ {Qm!Serial}
<1>1. \A i \in 1 .. Len(s) : s[i] \in Qm!Options /\ s[i] # Qm!Serial
  BY DEF Qm!has_bridge_channel, Qm!is_bridge_device_arg
<1>2. s \in Seq(S)
  <2>1. s = [i \in 1 .. Len(s) |-> s[i]] /\ Len(s) \in Nat
    OBVIOUS
  <2> QED BY <1>1, <2>1
<1>3. Filter(s, Ours) \in Seq(S \cap Ours)
  <2> HIDE DEF S
  <2> QED BY <1>2, FilterType
<1>4. OwnChannel[2] = Qm!Serial /\ Len(OwnChannel) = 3
  BY DEF OwnChannel, Qm!channel_args
<1>5. OwnChannel \notin Seq(S \cap Ours)
  <2> SUFFICES ASSUME OwnChannel \in Seq(S \cap Ours) PROVE FALSE
    OBVIOUS
  <2>1. 2 \in 1 .. Len(OwnChannel)
    BY <1>4
  <2>2. OwnChannel[2] \in S \cap Ours
    <3>1. PICK c \in Seq(S \cap Ours) : c = OwnChannel
      OBVIOUS
    <3> QED BY <2>1, <3>1
  <2> QED BY <1>4, <2>2
<1> QED BY <1>3, <1>5

(* Attaching a channel to arguments without one.                           *)
LEMMA AttachKeeps ==
  ASSUME NEW s \in Seq(Qm!Options)
  PROVE  /\ s \o OwnChannel \in Seq(Qm!Options)
         /\ Filter(s \o OwnChannel, Qm!Theirs) = Filter(s, Qm!Theirs)
         /\ Filter(s, Ours) = << >> => Filter(s \o OwnChannel, Ours) = OwnChannel
<1>1. PICK x, y, z : x = Qm!Chardev(Vmid) /\ y = Qm!Serial /\ z = Qm!Port
  OBVIOUS
<1>2. /\ x \in Qm!Options /\ y \in Qm!Options /\ z \in Qm!Options
      /\ {x, y, z} \subseteq Ours /\ {x, y, z} \cap Qm!Theirs = {}
      /\ OwnChannel = << x, y, z >>
  BY <1>1, ChannelElements DEF OwnChannel
<1>3. /\ s \o << x, y, z >> \in Seq(Qm!Options)
      /\ Filter(s \o << x, y, z >>, Ours) = Append(Append(Append(Filter(s, Ours), x), y), z)
      /\ Filter(s \o << x, y, z >>, Qm!Theirs) = Filter(s, Qm!Theirs)
  <2>1. x \in Qm!Options /\ y \in Qm!Options /\ z \in Qm!Options
    BY <1>2
  <2>2. x \in Ours /\ y \in Ours /\ z \in Ours =>
             Filter(s \o << x, y, z >>, Ours) = Append(Append(Append(Filter(s, Ours), x), y), z)
    BY <2>1, FilterThree
  <2>3. {x, y, z} \cap Qm!Theirs = {} =>
             Filter(s \o << x, y, z >>, Qm!Theirs) = Filter(s, Qm!Theirs)
    BY <2>1, FilterThree
  <2>4. s \o << x, y, z >> \in Seq(Qm!Options)
    BY <2>1
  <2> QED BY <1>2, <2>2, <2>3, <2>4
<1>4. Append(Append(Append(<< >>, x), y), z) = << x, y, z >>
  <2>1. x \in Qm!Options /\ y \in Qm!Options /\ z \in Qm!Options
    BY <1>2
  <2> QED BY <2>1, AppendThree
<1> QED BY <1>2, <1>3, <1>4

(* The options that detach keeps.                                          *)
Kept == {x \in Qm!Options : ~Qm!is_bridge_device_arg(x) /\ x # Qm!Chardev(Vmid)}

(* Detaching the channel, if there is one.                                 *)
LEMMA DetachKeeps ==
  ASSUME NEW s \in Seq(Qm!Options)
  PROVE  /\ Qm!remove_bridge_channel(s) \in Seq(Qm!Options)
         /\ Filter(Qm!remove_bridge_channel(s), Qm!Theirs) = Filter(s, Qm!Theirs)
         /\ Filter(s, Ours) \in {<< >>, OwnChannel} =>
              Filter(Qm!remove_bridge_channel(s), Ours) = << >>
<1>1. Qm!remove_bridge_channel(s) = Filter(s, Kept)
  BY SameFilter DEF Qm!remove_bridge_channel, Kept
<1>2. Filter(s, Kept) \in Seq(Qm!Options \cap Kept)
  BY FilterType
<1>3. Seq(Qm!Options \cap Kept) \subseteq Seq(Qm!Options)
  OBVIOUS
<1>4. Kept \cap Qm!Theirs = Qm!Theirs
  BY ChannelElements DEF Kept, Qm!is_bridge_device_arg
<1>5. Filter(Filter(s, Kept), Qm!Theirs) = Filter(s, Kept \cap Qm!Theirs)
  BY FilterFilter
<1>6. Filter(Filter(s, Kept), Ours) = Filter(Filter(s, Ours), Kept)
  <2>1. Filter(Filter(s, Kept), Ours) = Filter(s, Kept \cap Ours)
    BY FilterFilter
  <2>2. Filter(Filter(s, Ours), Kept) = Filter(s, Ours \cap Kept)
    BY FilterFilter
  <2>3. Kept \cap Ours = Ours \cap Kept
    OBVIOUS
  <2> QED BY <2>1, <2>2, <2>3
<1>7. Filter(OwnChannel, Kept) = << >>
  <2>1. PICK x, y, z : x = Qm!Chardev(Vmid) /\ y = Qm!Serial /\ z = Qm!Port
    OBVIOUS
  <2>2. OwnChannel = << x, y, z >> /\ x \notin Kept /\ y \notin Kept /\ z \notin Kept
    BY <2>1, ChannelElements DEF OwnChannel, Kept, Qm!is_bridge_device_arg
  <2>3. << x, y, z >> \in Seq({x, y, z})
    OBVIOUS
  <2>4. \A i \in 1 .. Len(<< x, y, z >>) : << x, y, z >>[i] \notin Kept
    BY <2>2
  <2>5. PICK S : S = {x, y, z}
    OBVIOUS
  <2>6. Filter(<< x, y, z >>, Kept) = << >>
    BY <2>3, <2>4, <2>5, FilterNone
  <2> QED BY <2>2, <2>6
<1>8. Filter(<< >>, Kept) = << >>
  BY FilterEmpty
<1> QED BY <1>1, <1>2, <1>3, <1>4, <1>5, <1>6, <1>7, <1>8

(* What other tools do to the arguments.                                   *)
LEMMA WithoutKeeps ==
  ASSUME NEW s \in Seq(Qm!Options), NEW x \in Qm!Theirs
  PROVE  /\ Qm!Without(s, x) \in Seq(Qm!Options)
         /\ Filter(Qm!Without(s, x), Qm!Theirs) = Qm!Without(Filter(s, Qm!Theirs), x)
         /\ Filter(Qm!Without(s, x), Ours) = Filter(s, Ours)
<1> DEFINE O == Qm!Options \ {x}
<1>1. \A t : Qm!Without(t, x) = Filter(t, O)
  BY SameFilter DEF Qm!Without
<1>2. O \cap Qm!Theirs = Qm!Theirs \cap O /\ O \cap Ours = Ours
  BY ChannelElements
<1>3. Seq(Qm!Options \cap O) \subseteq Seq(Qm!Options)
  OBVIOUS
<1> HIDE DEF O
<1>4. Filter(s, O) \in Seq(Qm!Options \cap O)
  BY FilterType
<1>5. Filter(Filter(s, O), Qm!Theirs) = Filter(s, O \cap Qm!Theirs)
  BY FilterFilter
<1>6. Filter(Filter(s, Qm!Theirs), O) = Filter(s, Qm!Theirs \cap O)
  BY FilterFilter
<1>7. Filter(Filter(s, O), Ours) = Filter(s, O \cap Ours)
  BY FilterFilter
<1> QED BY <1>1, <1>2, <1>3, <1>4, <1>5, <1>6, <1>7

LEMMA AppendKeeps ==
  ASSUME NEW s \in Seq(Qm!Options), NEW x \in Qm!Theirs
  PROVE  /\ Append(s, x) \in Seq(Qm!Options)
         /\ Filter(Append(s, x), Qm!Theirs) = Append(Filter(s, Qm!Theirs), x)
         /\ Filter(Append(s, x), Ours) = Filter(s, Ours)
<1>1. x \in Qm!Options /\ x \notin Ours
  BY ChannelElements
<1>2. Append(s, x) \in Seq(Qm!Options)
  BY <1>1
<1>3. Filter(Append(s, x), Qm!Theirs) =
        IF x \in Qm!Theirs THEN Append(Filter(s, Qm!Theirs), x) ELSE Filter(s, Qm!Theirs)
  BY <1>1, FilterAppend
<1>4. Filter(Append(s, x), Ours) =
        IF x \in Ours THEN Append(Filter(s, Ours), x) ELSE Filter(s, Ours)
  BY <1>1, FilterAppend
<1> QED BY <1>1, <1>2, <1>3, <1>4

(* Nobody has anything but options; what a command will write is options   *)
(* and, unless the VM is a clone, has the whole channel or nothing of it;  *)
(* and what is not out of date has the options of others as they are.      *)
ChannelOrNothing(s) == Filter(s, Ours) \in {<< >>, OwnChannel}
Jobs == [state : {"fresh", "stale"}, next : Seq(Qm!Options)]

QmInv ==
  /\ args \in Seq(Qm!Options) /\ cloned \in BOOLEAN /\ met \in BOOLEAN
  /\ job \in [Admins -> Jobs \cup {Qm!Idle}]
  /\ ~cloned => ChannelOrNothing(args)
  /\ \A a \in Admins : job[a] # Qm!Idle /\ ~cloned => ChannelOrNothing(job[a].next)
  /\ ~met => Filter(args, Qm!Theirs) = others
  /\ \A a \in Admins : job[a] # Qm!Idle /\ job[a].state = "fresh" /\ ~met =>
       Filter(job[a].next, Qm!Theirs) = others

LEMMA QmInit == Qm!Init => QmInv
<1> SUFFICES ASSUME Qm!Init PROVE QmInv
  OBVIOUS
<1>1. << >> \in Seq(Qm!Options)
  OBVIOUS
<1>2. Filter(<< >>, Ours) = << >> /\ Filter(<< >>, Qm!Theirs) = << >>
  BY FilterEmpty
<1> QED BY <1>1, <1>2 DEF Qm!Init, QmInv, ChannelOrNothing

(* An idle command is no job.                                              *)
LEMMA IdleIsNoJob ==
  ASSUME NEW n, NEW m
  PROVE  [state |-> m, next |-> n] # Qm!Idle
<1>1. DOMAIN [state |-> m, next |-> n] = {"state", "next"}
  OBVIOUS
<1>2. DOMAIN Qm!Idle = {"state"}
  BY DEF Qm!Idle
<1> QED BY <1>1, <1>2

(* A command that has read the arguments.                                  *)
LEMMA ReadKeeps ==
  ASSUME QmInv, NEW a \in Admins, NEW n \in Seq(Qm!Options), Qm!Read(a, n),
         Filter(n, Qm!Theirs) = Filter(args, Qm!Theirs),
         ChannelOrNothing(args) => ChannelOrNothing(n)
  PROVE  QmInv'
<1>1. /\ job' = [job EXCEPT ![a] = [state |-> "fresh", next |-> n]]
      /\ UNCHANGED << args, others, met, cloned >>
  BY DEF Qm!Read
<1>2. job'[a] = [state |-> "fresh", next |-> n] /\ \A b \in Admins \ {a} : job'[b] = job[b]
  BY <1>1 DEF QmInv
<1>3. job' \in [Admins -> Jobs \cup {Qm!Idle}]
  <2>1. [state |-> "fresh", next |-> n] \in Jobs
    BY DEF Jobs
  <2> QED BY <1>1, <2>1 DEF QmInv
<1>4. ASSUME NEW b \in Admins, job'[b] # Qm!Idle, ~cloned
      PROVE  ChannelOrNothing(job'[b].next)
  BY <1>2, <1>4 DEF QmInv
<1>5. ASSUME NEW b \in Admins, job'[b] # Qm!Idle, job'[b].state = "fresh", ~met
      PROVE  Filter(job'[b].next, Qm!Theirs) = others
  BY <1>2, <1>5 DEF QmInv
<1> QED BY <1>1, <1>3, <1>4, <1>5 DEF QmInv, ChannelOrNothing

(* A step of the commands, of another tool, or of Proxmox.                 *)
LEMMA QmStep ==
  ASSUME QmInv, [Qm!Next]_(Qm!vars)
  PROVE  QmInv'
<1>1. ASSUME NEW a \in Admins, Qm!attach(a) PROVE QmInv'
  <2>1. Qm!Read(a, args \o OwnChannel) /\ ~Qm!has_bridge_channel(args)
    BY <1>1 DEF Qm!attach, OwnChannel
  <2>2. args \in Seq(Qm!Options)
    BY DEF QmInv
  <2>3. /\ args \o OwnChannel \in Seq(Qm!Options)
        /\ Filter(args \o OwnChannel, Qm!Theirs) = Filter(args, Qm!Theirs)
        /\ Filter(args, Ours) = << >> => Filter(args \o OwnChannel, Ours) = OwnChannel
    BY <2>2, AttachKeeps
  <2>4. ChannelOrNothing(args) => Filter(args, Ours) = << >>
    BY <2>1, <2>2, NoDevices DEF ChannelOrNothing
  <2>5. ChannelOrNothing(args) => ChannelOrNothing(args \o OwnChannel)
    BY <2>3, <2>4 DEF ChannelOrNothing
  <2> QED BY <2>1, <2>3, <2>5, ReadKeeps
<1>2. ASSUME NEW a \in Admins, Qm!detach(a) PROVE QmInv'
  <2> DEFINE n == Qm!remove_bridge_channel(args)
  <2>1. Qm!Read(a, n)
    BY <1>2 DEF Qm!detach
  <2>2. args \in Seq(Qm!Options)
    BY DEF QmInv
  <2>3. /\ n \in Seq(Qm!Options) /\ Filter(n, Qm!Theirs) = Filter(args, Qm!Theirs)
        /\ Filter(args, Ours) \in {<< >>, OwnChannel} => Filter(n, Ours) = << >>
    BY <2>2, DetachKeeps
  <2>4. ChannelOrNothing(args) => ChannelOrNothing(n)
    BY <2>3 DEF ChannelOrNothing
  <2> HIDE DEF n
  <2> QED BY <2>1, <2>3, <2>4, ReadKeeps
<1>3. ASSUME NEW a \in Admins, Qm!qm_set_args(a) PROVE QmInv'
  <2>1. /\ job[a] # Qm!Idle /\ args' = job[a].next
        /\ met' = (met \/ job[a].state = "stale")
        /\ job' = [Qm!Stale EXCEPT ![a] = Qm!Idle]
        /\ others' = others /\ cloned' = cloned
    BY <1>3 DEF Qm!qm_set_args
  <2>2. job[a] \in Jobs
    BY <2>1 DEF QmInv
  <2>3. args' \in Seq(Qm!Options) /\ met' \in BOOLEAN /\ job[a].state \in {"fresh", "stale"}
    BY <2>1, <2>2 DEF Jobs, QmInv
  <2>4. /\ job' \in [Admins -> Jobs \cup {Qm!Idle}]
        /\ \A b \in Admins : job'[b] # Qm!Idle =>
             job[b] # Qm!Idle /\ job'[b].state = "stale" /\ job'[b].next = job[b].next
    BY <2>1 DEF QmInv, Qm!Stale, Jobs
  <2>5. ~cloned' => ChannelOrNothing(args')
    BY <2>1 DEF QmInv
  <2>6. ASSUME ~met' PROVE Filter(args', Qm!Theirs) = others'
    BY <2>1, <2>3, <2>6 DEF QmInv
  <2> QED BY <2>1, <2>3, <2>4, <2>5, <2>6 DEF QmInv, ChannelOrNothing
<1>4. ASSUME NEW a \in Admins, Qm!GiveUp(a) PROVE QmInv'
  BY <1>4 DEF Qm!GiveUp, QmInv, ChannelOrNothing
<1>5. CASE Qm!Edit
  <2>1. PICK x \in Qm!Theirs :
          /\ args' = IF Qm!Contains(args, x) THEN Qm!Without(args, x)
                     ELSE Append(Qm!Without(args, x), x)
          /\ others' = IF Qm!Contains(args, x) THEN Qm!Without(others, x)
                       ELSE Append(Qm!Without(others, x), x)
    BY <1>5 DEF Qm!Edit
  <2>2. job' = Qm!Stale /\ met' = met /\ cloned' = cloned
    BY <1>5 DEF Qm!Edit
  <2>3. args \in Seq(Qm!Options)
    BY DEF QmInv
  <2>4. PICK s \in Seq(Qm!Options) : s = Qm!Without(args, x)
    BY <2>3, WithoutKeeps
  <2>5. /\ Filter(s, Qm!Theirs) = Qm!Without(Filter(args, Qm!Theirs), x)
        /\ Filter(s, Ours) = Filter(args, Ours)
    BY <2>3, <2>4, WithoutKeeps
  <2>6. /\ Append(s, x) \in Seq(Qm!Options)
        /\ Filter(Append(s, x), Qm!Theirs) = Append(Filter(s, Qm!Theirs), x)
        /\ Filter(Append(s, x), Ours) = Filter(s, Ours)
    BY AppendKeeps
  <2>7. args' = IF Qm!Contains(args, x) THEN s ELSE Append(s, x)
    BY <2>1, <2>4
  <2>8. args' \in Seq(Qm!Options) /\ Filter(args', Ours) = Filter(args, Ours)
    BY <2>5, <2>6, <2>7
  <2>9. Filter(args, Qm!Theirs) = others => Filter(args', Qm!Theirs) = others'
    BY <2>1, <2>5, <2>6, <2>7
  <2>10. /\ job' \in [Admins -> Jobs \cup {Qm!Idle}]
         /\ \A b \in Admins : job'[b] # Qm!Idle =>
              job[b] # Qm!Idle /\ job'[b].state = "stale" /\ job'[b].next = job[b].next
    BY <2>2 DEF QmInv, Qm!Stale, Jobs
  <2> QED BY <2>2, <2>8, <2>9, <2>10 DEF QmInv, ChannelOrNothing
<1>6. CASE Qm!Clone
  <2>1. PICK v \in Sources : args' = Qm!channel_args(v)
    BY <1>6 DEF Qm!Clone
  <2>2. /\ others' = << >> /\ cloned' = TRUE /\ met' = FALSE /\ job' = job
        /\ \A a \in Admins : job[a] = Qm!Idle
    BY <1>6 DEF Qm!Clone
  <2>3. PICK x, y, z : x = Qm!Chardev(v) /\ y = Qm!Serial /\ z = Qm!Port
    OBVIOUS
  <2>4. /\ {x, y, z} \subseteq Qm!Options /\ {x, y, z} \cap Qm!Theirs = {}
        /\ args' = << x, y, z >>
    BY <2>1, <2>3, ChannelElements
  <2>5. << x, y, z >> \in Seq(Qm!Options)
    BY <2>4
  <2>6. \A i \in 1 .. Len(<< x, y, z >>) : << x, y, z >>[i] \notin Qm!Theirs
    BY <2>4
  <2>7. Filter(<< x, y, z >>, Qm!Theirs) = << >>
    BY <2>5, <2>6, FilterNone
  <2> QED BY <2>2, <2>4, <2>5, <2>7 DEF QmInv
<1>7. CASE UNCHANGED Qm!vars
  BY <1>7 DEF Qm!vars, QmInv, ChannelOrNothing
<1> QED BY <1>1, <1>2, <1>3, <1>4, <1>5, <1>6, <1>7 DEF Qm!Next

(* attach and detach leave the whole channel of the VM or nothing of it,   *)
(* and the options of others, whoever runs them at the same time.          *)
THEOREM ArgsTheorem == PartsSpec => []ArgsAreSound
<1>1. PartsInit => QmInv
  BY QmInit DEF PartsInit
<1>2. QmInv /\ [PartsNext]_partsVars => QmInv'
  <2>1. [PartsNext]_partsVars => [Qm!Next]_(Qm!vars)
    BY DEF PartsNext, partsVars, QmRests, QmVars, Qm!vars
  <2> QED BY <2>1, QmStep
<1>3. QmInv => ArgsAreSound
  BY SameFilter DEF QmInv, ArgsAreSound, Qm!ArgsAreSound, ChannelOrNothing, Ours, OwnChannel
<1> QED BY <1>1, <1>2, <1>3, PTL DEF PartsSpec

-----------------------------------------------------------------------------
(* What vsbctl status tells                                                *)

Tasks ==
  {Told!Nothing} \cup [do : {"find"}, offline : BOOLEAN] \cup [do : {"remove"}]
    \cup [do : {"insert"}, offline : BOOLEAN, path : Dirs \cup {Absent}]
Rows == [path : Dirs \cup {Absent}, seen : 0 .. Timeout, offline_reported : BOOLEAN]

ToldTypes ==
  /\ home \in Dirs \cup {Absent} /\ otherHome \in Dirs \cup {Absent}
  /\ row \in SUBSET Rows /\ task \in [Told!Actors -> Tasks]
  /\ heard \in 0 .. Timeout /\ clash \in BOOLEAN

(* The runtime was never seen later than the VM was heard, and at the same *)
(* time unless it stands for the defaults.                                 *)
SeenIsHeard ==
  \A r \in row : r.seen <= heard /\ (~r.offline_reported => r.seen = heard)

(* While nothing clashes one actor at a time installs or removes; the path *)
(* it has found is the new home; and when it is done the runtime's is.     *)
OneAtATime ==
  \A a, b \in Told!Actors : task[a] # Told!Nothing /\ task[b] # Told!Nothing => a = b
UnderWay ==
  \A a \in Told!Actors :
    /\ task[a].do = "find" => home # Absent
    /\ task[a].do = "insert" => home # Absent /\ (~sameName => task[a].path = home)
    /\ task[a].do = "remove" => row = {}
AtRest ==
  (\A a \in Told!Actors : task[a] = Told!Nothing) /\ ~sameName =>
    \A r \in row : r.path = home /\ home # Absent

ToldInv ==
  /\ ToldTypes /\ SeenIsHeard
  /\ ~clash => OneAtATime /\ UnderWay /\ AtRest

(* There is always a directory for a device.                               *)
LEMMA SmallestIsFree ==
  ASSUME Told!StatusAssumption
  PROVE  Told!Smallest \in Dirs
<1> DEFINE F == Told!Free
<1>1. F \in SUBSET Nat /\ F \subseteq Dirs
  BY DEF Told!StatusAssumption, Told!Free
<1>2. F # {}
  <2>1. PICK a, b, c \in Dirs : a # b /\ b # c /\ a # c
    BY DEF Told!StatusAssumption
  <2>2. a \in F \/ b \in F \/ c \in F
    BY <2>1 DEF Told!Free
  <2> QED BY <2>2
<1>3. PICK d \in F : \A e \in F : ~ (e < d)
  <2> HIDE DEF F
  <2> QED BY <1>1, <1>2, Least
<1>4. \A e \in F : d <= e
  BY <1>1, <1>3
<1>5. Told!Smallest \in F
  BY <1>3, <1>4 DEF Told!Smallest
<1> QED BY <1>1, <1>5

LEMMA ToldInit ==
  ASSUME Told!StatusAssumption, Told!Init
  PROVE  ToldInv
<1>1. ToldTypes
  <2>1. Told!Nothing \in Tasks /\ Timeout \in 0 .. Timeout
    BY DEF Tasks, Told!StatusAssumption
  <2>2. task \in [Told!Actors -> Tasks]
    BY <2>1 DEF Told!Init
  <2>3. row \in SUBSET Rows /\ clash \in BOOLEAN
    BY DEF Told!Init
  <2> QED BY <2>1, <2>2, <2>3 DEF Told!Init, ToldTypes
<1>2. SeenIsHeard /\ AtRest
  BY DEF Told!Init, SeenIsHeard, AtRest
<1>3. OneAtATime /\ UnderWay
  BY DEF Told!Init, OneAtATime, UnderWay, Told!Nothing
<1> QED BY <1>1, <1>2, <1>3 DEF ToldInv

(* Passing time, signs of life, and a warning leave homes and tasks alone. *)
LEMMA RowKeeps ==
  ASSUME Told!StatusAssumption, ToldInv,
         Told!Tick \/ Told!mark_seen \/ Told!Warn
  PROVE  ToldInv'
<1>1. Timeout \in Nat \ {0}
  BY DEF Told!StatusAssumption
<1>2. UNCHANGED << sameName, home, otherHome, task, clash >>
  BY DEF Told!Tick, Told!mark_seen, Told!Warn
<1>3. /\ heard' \in 0 .. Timeout
      /\ \A s \in row' : \E r \in row :
           /\ s \in Rows /\ s.path = r.path
           /\ s.seen <= heard' /\ (~s.offline_reported => s.seen = heard')
  <2>1. CASE Told!Tick
    <3>1. ASSUME NEW r \in row
          PROVE  /\ [r EXCEPT !.seen = Told!Later(@)] \in Rows
                 /\ Told!Later(r.seen) <= Told!Later(heard)
                 /\ ~r.offline_reported => Told!Later(r.seen) = Told!Later(heard)
      <4>1. r \in Rows /\ r.seen <= heard /\ (~r.offline_reported => r.seen = heard)
        BY DEF ToldInv, ToldTypes, SeenIsHeard
      <4>2. heard \in 0 .. Timeout /\ r.seen \in 0 .. Timeout
        BY <4>1 DEF ToldInv, ToldTypes, Rows
      <4>3. Told!Later(r.seen) \in 0 .. Timeout
        BY <1>1, <4>2 DEF Told!Later
      <4> QED BY <1>1, <4>1, <4>2, <4>3 DEF Told!Later, Rows
    <3>2. heard' = Told!Later(heard) /\ heard' \in 0 .. Timeout
      BY <1>1, <2>1 DEF Told!Tick, Told!Later, ToldInv, ToldTypes
    <3>3. row' = {[r EXCEPT !.seen = Told!Later(@)] : r \in row}
      BY <2>1 DEF Told!Tick
    <3>4. ASSUME NEW r \in row
          PROVE  /\ [r EXCEPT !.seen = Told!Later(@)].path = r.path
                 /\ [r EXCEPT !.seen = Told!Later(@)].seen = Told!Later(r.seen)
                 /\ [r EXCEPT !.seen = Told!Later(@)].offline_reported = r.offline_reported
      BY DEF ToldInv, ToldTypes, Rows
    <3> SUFFICES ASSUME NEW s \in row'
                 PROVE  \E r \in row :
                          /\ s \in Rows /\ s.path = r.path
                          /\ s.seen <= heard' /\ (~s.offline_reported => s.seen = heard')
      BY <3>2
    <3>5. PICK r \in row : s = [r EXCEPT !.seen = Told!Later(@)]
      BY <3>3
    <3> QED BY <3>1, <3>2, <3>4, <3>5
  <2>2. CASE Told!mark_seen
    <3>1. heard' = 0
          /\ row' = {[r EXCEPT !.seen = 0, !.offline_reported = FALSE] : r \in row}
      BY <2>2 DEF Told!mark_seen
    <3>2. ASSUME NEW r \in row
          PROVE  /\ [r EXCEPT !.seen = 0, !.offline_reported = FALSE] \in Rows
                 /\ [r EXCEPT !.seen = 0, !.offline_reported = FALSE].path = r.path
                 /\ [r EXCEPT !.seen = 0, !.offline_reported = FALSE].seen = 0
      <4>1. r \in Rows /\ 0 \in 0 .. Timeout
        BY <1>1 DEF ToldInv, ToldTypes
      <4> QED BY <4>1 DEF Rows
    <3>3. heard' = 0 /\ heard' \in 0 .. Timeout
      <4>1. heard' = 0
        BY <2>2 DEF Told!mark_seen
      <4> QED BY <1>1, <4>1
    <3>4. ASSUME NEW s \in row'
          PROVE  \E r \in row :
                   /\ s \in Rows /\ s.path = r.path
                   /\ s.seen <= heard' /\ (~s.offline_reported => s.seen = heard')
      <4>1. PICK r \in row : s = [r EXCEPT !.seen = 0, !.offline_reported = FALSE]
        BY <3>1
      <4>2. s \in Rows /\ s.path = r.path /\ s.seen = 0
        BY <3>2, <4>1
      <4>3. s.seen <= heard' /\ s.seen = heard'
        BY <3>3, <4>2
      <4> QED BY <4>2, <4>3
    <3> QED BY <3>3, <3>4
  <2>3. CASE Told!Warn
    <3>1. PICK r \in row : row' = {[r EXCEPT !.offline_reported = TRUE]}
      BY <2>3 DEF Told!Warn
    <3>2. r \in Rows /\ r.seen <= heard /\ heard \in 0 .. Timeout
      BY DEF ToldInv, ToldTypes, SeenIsHeard
    <3>3. /\ [r EXCEPT !.offline_reported = TRUE] \in Rows
          /\ [r EXCEPT !.offline_reported = TRUE].path = r.path
          /\ [r EXCEPT !.offline_reported = TRUE].seen = r.seen
          /\ [r EXCEPT !.offline_reported = TRUE].offline_reported = TRUE
      BY <3>2 DEF Rows
    <3>4. heard' = heard
      BY <2>3 DEF Told!Warn
    <3> QED BY <3>1, <3>2, <3>3, <3>4
  <2> QED BY <2>1, <2>2, <2>3
<1>4. ToldTypes' /\ SeenIsHeard'
  BY <1>2, <1>3 DEF ToldInv, ToldTypes, SeenIsHeard
<1>5. ASSUME ~clash' PROVE OneAtATime' /\ UnderWay' /\ AtRest'
  <2>1. OneAtATime /\ UnderWay /\ AtRest
    BY <1>2, <1>5 DEF ToldInv
  <2>2. OneAtATime'
    BY <1>2, <2>1 DEF OneAtATime
  <2>3. row = {} => row' = {}
    BY <1>3
  <2>4. UnderWay'
    BY <1>2, <2>1, <2>3 DEF UnderWay
  <2>5. AtRest'
    BY <1>2, <1>3, <2>1 DEF AtRest
  <2> QED BY <2>2, <2>4, <2>5
<1> QED BY <1>4, <1>5 DEF ToldInv

(* An actor goes on to what is left of its task.                           *)
LEMMA GoOn ==
  ASSUME ToldTypes, NEW a \in Told!Actors, NEW t \in Tasks, Told!Set(a, t)
  PROVE  /\ task' \in [Told!Actors -> Tasks] /\ task'[a] = t
         /\ \A b \in Told!Actors : b # a => task'[b] = task[b]
BY DEF ToldTypes, Told!Set

LEMMA TaskKinds ==
  /\ Told!Nothing \in Tasks /\ Told!Nothing.do = "nothing"
  /\ \A o \in BOOLEAN : [do |-> "find", offline |-> o] \in Tasks
  /\ \A o \in BOOLEAN, p \in Dirs \cup {Absent} :
       [do |-> "insert", offline |-> o, path |-> p] \in Tasks
  /\ [do |-> "remove"] \in Tasks
  /\ \A t \in Tasks : t.do = "nothing" => t = Told!Nothing
  /\ \A t \in Tasks : t.do \in {"find", "insert"} => t.offline \in BOOLEAN
  /\ \A t \in Tasks : t.do = "insert" => t.path \in Dirs \cup {Absent}
BY DEF Tasks, Told!Nothing

(* SET_SCHEMA gives the VM a home.                                         *)
LEMMA RegisterKeeps ==
  ASSUME Told!StatusAssumption, ToldInv, NEW a \in Told!Actors, NEW offline \in BOOLEAN,
         Told!Register(a, offline)
  PROVE  ToldInv'
<1> DEFINE t == [do |-> "find", offline |-> offline]
<1>1. /\ task[a] = Told!Nothing /\ home' = Told!Smallest
      /\ Told!Set(a, t) /\ Told!Begin
      /\ UNCHANGED << sameName, otherHome, row, heard, query >>
  BY DEF Told!Register
<1>2. home' \in Dirs /\ home' # Absent
  BY <1>1, SmallestIsFree DEF Told!StatusAssumption
<1>3. t \in Tasks /\ t.do = "find"
  BY TaskKinds
<1> HIDE DEF t
<1>4. /\ task' \in [Told!Actors -> Tasks] /\ task'[a] = t
      /\ \A b \in Told!Actors : b # a => task'[b] = task[b]
  BY <1>1, <1>3, GoOn DEF ToldInv
<1>5. ToldTypes' /\ SeenIsHeard'
  BY <1>1, <1>2, <1>4 DEF ToldInv, ToldTypes, SeenIsHeard, Told!Begin
<1>6. ASSUME ~clash' PROVE OneAtATime' /\ UnderWay' /\ AtRest'
  <2>1. \A b \in Told!Actors : b # a => task'[b] = Told!Nothing
    BY <1>1, <1>4, <1>6 DEF Told!Begin
  <2>2. task'[a].do = "find" /\ task'[a] # Told!Nothing
    BY <1>3, <1>4, TaskKinds
  <2>3. OneAtATime'
    BY <2>1 DEF OneAtATime
  <2>4. UnderWay'
    BY <1>2, <2>1, <2>2, TaskKinds DEF UnderWay
  <2>5. AtRest'
    BY <2>2 DEF AtRest
  <2> QED BY <2>3, <2>4, <2>5
<1> QED BY <1>5, <1>6 DEF ToldInv

(* The path that is found is the home, unless the name is another VM's.    *)
LEMMA FindPathKeeps ==
  ASSUME Told!StatusAssumption, ToldInv, NEW a \in Told!Actors, Told!FindPath(a)
  PROVE  ToldInv'
<1>1. /\ task[a].do = "find" /\ task[a] \in Tasks
      /\ UNCHANGED << sameName, home, otherHome, row, heard, clash, query >>
  BY DEF Told!FindPath, ToldInv, ToldTypes
<1>2. PICK p \in Told!find_hwmon_path :
        Told!Set(a, [do |-> "insert", offline |-> task[a].offline, path |-> p])
  BY DEF Told!FindPath
<1> DEFINE t == [do |-> "insert", offline |-> task[a].offline, path |-> p]
<1>3. p \in Dirs \cup {Absent} /\ (~sameName => p = home)
  BY <1>2 DEF Told!find_hwmon_path, ToldInv, ToldTypes
<1>4. t \in Tasks
  BY <1>1, <1>3, TaskKinds
<1>5. t.do = "insert" /\ t.path = p
  OBVIOUS
<1>6. Told!Set(a, t)
  BY <1>2
<1> HIDE DEF t
<1>7. /\ task' \in [Told!Actors -> Tasks] /\ task'[a] = t
      /\ \A b \in Told!Actors : b # a => task'[b] = task[b]
  BY <1>4, <1>6, GoOn DEF ToldInv
<1>8. ToldTypes' /\ SeenIsHeard'
  BY <1>1, <1>7 DEF ToldInv, ToldTypes, SeenIsHeard
<1>9. ASSUME ~clash' PROVE OneAtATime' /\ UnderWay' /\ AtRest'
  <2>1. OneAtATime /\ UnderWay /\ AtRest
    BY <1>1, <1>9 DEF ToldInv
  <2>2. task[a] # Told!Nothing /\ task'[a] # Told!Nothing
    BY <1>1, <1>5, <1>7, TaskKinds
  <2>3. \A b \in Told!Actors : b # a => task'[b] = Told!Nothing
    BY <1>7, <2>1, <2>2 DEF OneAtATime
  <2>4. OneAtATime'
    BY <2>3 DEF OneAtATime
  <2>5. home # Absent
    BY <1>1, <2>1 DEF UnderWay
  <2>6. UnderWay'
    BY <1>1, <1>3, <1>5, <1>7, <2>3, <2>5, TaskKinds DEF UnderWay
  <2>7. AtRest'
    BY <2>2 DEF AtRest
  <2> QED BY <2>4, <2>6, <2>7
<1> QED BY <1>8, <1>9 DEF ToldInv

(* The runtime takes over the path.                                        *)
LEMMA InsertKeeps ==
  ASSUME Told!StatusAssumption, ToldInv, NEW a \in Told!Actors, Told!Insert(a)
  PROVE  ToldInv'
<1> DEFINE r == [path |-> task[a].path, seen |-> 0, offline_reported |-> task[a].offline]
<1>1. /\ task[a].do = "insert" /\ row' = {r} /\ Told!Set(a, Told!Nothing)
      /\ heard' = IF task[a].offline THEN heard ELSE 0
      /\ UNCHANGED << sameName, home, otherHome, clash, query >>
  BY DEF Told!Insert
<1>2. task[a] \in Tasks
  BY DEF ToldInv, ToldTypes
<1>3. task[a].offline \in BOOLEAN /\ task[a].path \in Dirs \cup {Absent}
  BY <1>1, <1>2, TaskKinds
<1>4. 0 \in 0 .. Timeout /\ heard \in 0 .. Timeout
  BY DEF Told!StatusAssumption, ToldInv, ToldTypes
<1>5. /\ r \in Rows /\ r.path = task[a].path /\ r.seen = 0
      /\ r.offline_reported = task[a].offline
  BY <1>3, <1>4 DEF Rows
<1> HIDE DEF r
<1>6. heard' \in 0 .. Timeout
  BY <1>1, <1>4
<1>7. r.seen <= heard' /\ (~r.offline_reported => r.seen = heard')
  BY <1>1, <1>4, <1>5
<1>8. SeenIsHeard'
  BY <1>1, <1>7 DEF SeenIsHeard
<1>9. /\ task' \in [Told!Actors -> Tasks] /\ task'[a] = Told!Nothing
      /\ \A b \in Told!Actors : b # a => task'[b] = task[b]
  BY <1>1, TaskKinds, GoOn DEF ToldInv
<1>10. ToldTypes'
  BY <1>1, <1>5, <1>6, <1>9 DEF ToldInv, ToldTypes
<1>11. ASSUME ~clash' PROVE OneAtATime' /\ UnderWay' /\ AtRest'
  <2>1. OneAtATime /\ UnderWay
    BY <1>1, <1>11 DEF ToldInv
  <2>2. task[a] # Told!Nothing
    BY <1>1, TaskKinds
  <2>3. \A b \in Told!Actors : task'[b] = Told!Nothing
    BY <1>9, <2>1, <2>2 DEF OneAtATime
  <2>4. OneAtATime'
    BY <2>3 DEF OneAtATime
  <2>5. UnderWay'
    BY <2>3, TaskKinds DEF UnderWay
  <2>6. home # Absent /\ (~sameName => task[a].path = home)
    BY <1>1, <2>1 DEF UnderWay
  <2>7. AtRest'
    BY <1>1, <1>5, <2>6 DEF AtRest
  <2> QED BY <2>4, <2>5, <2>7
<1> QED BY <1>8, <1>10, <1>11 DEF ToldInv

(* A VM goes: first its runtime, ...                                       *)
LEMMA ForgetKeeps ==
  ASSUME Told!StatusAssumption, ToldInv, NEW a \in Told!Actors, Told!Forget(a)
  PROVE  ToldInv'
<1> DEFINE t == [do |-> "remove"]
<1>1. /\ task[a] = Told!Nothing /\ row' = {} /\ Told!Set(a, t) /\ Told!Begin
      /\ UNCHANGED << sameName, home, otherHome, heard, query >>
  BY DEF Told!Forget
<1>2. t \in Tasks /\ t.do = "remove"
  BY TaskKinds
<1> HIDE DEF t
<1>3. /\ task' \in [Told!Actors -> Tasks] /\ task'[a] = t
      /\ \A b \in Told!Actors : b # a => task'[b] = task[b]
  BY <1>1, <1>2, GoOn DEF ToldInv
<1>4. ToldTypes' /\ SeenIsHeard'
  BY <1>1, <1>3 DEF ToldInv, ToldTypes, SeenIsHeard, Told!Begin
<1>5. ASSUME ~clash' PROVE OneAtATime' /\ UnderWay' /\ AtRest'
  <2>1. \A b \in Told!Actors : b # a => task'[b] = Told!Nothing
    BY <1>1, <1>3, <1>5 DEF Told!Begin
  <2>2. OneAtATime'
    BY <2>1 DEF OneAtATime
  <2>3. UnderWay'
    BY <1>1, <1>2, <1>3, <2>1, TaskKinds DEF UnderWay
  <2>4. AtRest'
    BY <1>1 DEF AtRest
  <2> QED BY <2>2, <2>3, <2>4
<1> QED BY <1>4, <1>5 DEF ToldInv

(* ... then its device.                                                    *)
LEMMA RemoveVmKeeps ==
  ASSUME Told!StatusAssumption, ToldInv, NEW a \in Told!Actors, Told!RemoveVm(a)
  PROVE  ToldInv'
<1>1. /\ task[a].do = "remove" /\ home' = Absent /\ Told!Set(a, Told!Nothing)
      /\ UNCHANGED << sameName, otherHome, row, heard, clash, query >>
  BY DEF Told!RemoveVm
<1>2. /\ task' \in [Told!Actors -> Tasks] /\ task'[a] = Told!Nothing
      /\ \A b \in Told!Actors : b # a => task'[b] = task[b]
  BY <1>1, TaskKinds, GoOn DEF ToldInv
<1>3. ToldTypes' /\ SeenIsHeard'
  BY <1>1, <1>2 DEF ToldInv, ToldTypes, SeenIsHeard
<1>4. ASSUME ~clash' PROVE OneAtATime' /\ UnderWay' /\ AtRest'
  <2>1. OneAtATime /\ UnderWay
    BY <1>1, <1>4 DEF ToldInv
  <2>2. task[a] # Told!Nothing
    BY <1>1, TaskKinds
  <2>3. \A b \in Told!Actors : task'[b] = Told!Nothing
    BY <1>2, <2>1, <2>2 DEF OneAtATime
  <2>4. OneAtATime'
    BY <2>3 DEF OneAtATime
  <2>5. UnderWay'
    BY <2>3, TaskKinds DEF UnderWay
  <2>6. row' = {}
    BY <1>1, <2>1 DEF UnderWay
  <2>7. AtRest'
    BY <2>6 DEF AtRest
  <2> QED BY <2>4, <2>5, <2>7
<1> QED BY <1>3, <1>4 DEF ToldInv

(* Another VM moves, or the status thread goes on.                         *)
LEMMA OthersKeep ==
  ASSUME Told!StatusAssumption, ToldInv,
         \/ Told!OtherVm \/ Told!collect_vm_infos \/ Told!build_sensor_infos
         \/ Told!Reply \/ UNCHANGED Told!vars
  PROVE  ToldInv'
<1>1. UNCHANGED << sameName, home, row, task, heard, clash >>
  BY DEF Told!OtherVm, Told!collect_vm_infos, Told!build_sensor_infos, Told!Reply, Told!vars
<1>2. otherHome' \in Dirs \cup {Absent}
  BY SmallestIsFree DEF Told!OtherVm, Told!collect_vm_infos, Told!build_sensor_infos,
     Told!Reply, Told!vars, ToldInv, ToldTypes
<1> QED BY <1>1, <1>2 DEF ToldInv, ToldTypes, SeenIsHeard, OneAtATime, UnderWay, AtRest

LEMMA ToldStep ==
  ASSUME Told!StatusAssumption, ToldInv, [Told!Next]_(Told!vars)
  PROVE  ToldInv'
BY RowKeeps, RegisterKeeps, FindPathKeeps, InsertKeeps, ForgetKeeps, RemoveVmKeeps,
   OthersKeep DEF Told!Next

(* When the status thread reads the runtime it tells the truth about the   *)
(* agent, and when it reads the sensors, about the VM's own device.        *)
LEMMA ToldTruly ==
  ASSUME Told!StatusAssumption, ToldInv, [Told!Next]_(Told!vars)
  PROVE  /\ query'.state = "locked" /\ query # query' => Told!AgentIsTrue(query'.agent)
         /\ query'.state = "told" /\ query # query' => Told!ValuesAreOwn(query'.values)
<1>1. ASSUME query' # query PROVE Told!collect_vm_infos \/ Told!build_sensor_infos \/ Told!Reply
  BY <1>1 DEF Told!Next, Told!Tick, Told!mark_seen, Told!Warn, Told!OtherVm, Told!Register,
     Told!FindPath, Told!Insert, Told!Forget, Told!RemoveVm, Told!vars
<1>2. CASE Told!collect_vm_infos
  <2>1. PICK r \in row : query' = [state |-> "locked", agent |-> Told!agent_status(r)]
    BY <1>2 DEF Told!collect_vm_infos
  <2>2. query'.state = "locked" /\ query'.agent = Told!agent_status(r)
    BY <2>1
  <2>3. /\ r.seen \in 0 .. Timeout /\ heard \in 0 .. Timeout /\ Timeout \in Nat
        /\ r.seen <= heard /\ (~r.offline_reported => r.seen = heard)
    <3>1. r \in Rows
      BY DEF ToldInv, ToldTypes
    <3> QED BY <3>1 DEF ToldInv, ToldTypes, SeenIsHeard, Rows, Told!StatusAssumption
  <2>4. Told!agent_status(r) = "online" => heard < Timeout \/ r.offline_reported
    BY <2>3 DEF Told!agent_status
  <2>5. Told!agent_status(r) # "online" => heard = Timeout
    BY <2>3 DEF Told!agent_status
  <2> QED BY <2>2, <2>4, <2>5 DEF Told!AgentIsTrue
<1>3. CASE Told!build_sensor_infos
  <2>1. PICK r \in row : query' = [state |-> "told", agent |-> query.agent,
                                   values |-> Told!Owner(r.path)]
    BY <1>3 DEF Told!build_sensor_infos
  <2>2. query'.state = "told" /\ query'.values = Told!Owner(r.path)
    BY <2>1
  <2>3. Told!ValuesAreOwn(Told!Owner(r.path))
    <3>1. ASSUME ~sameName, ~clash, \A a \in Told!Actors : task[a] = Told!Nothing
          PROVE  Told!Owner(r.path) = "own"
      <4>1. r.path = home /\ home # Absent
        BY <3>1 DEF ToldInv, AtRest
      <4> QED BY <4>1 DEF Told!Owner
    <3> QED BY <3>1 DEF Told!ValuesAreOwn
  <2> QED BY <2>2, <2>3
<1>4. CASE Told!Reply
  BY <1>4 DEF Told!Reply, Told!Idle
<1> QED BY <1>1, <1>2, <1>3, <1>4

(* What vsbctl status prints of the agent is true when it is read, and the *)
(* values are those of the VM's own device.                                *)
THEOREM StatusTheorem == PartsSpec => StatusIsTrue
<1>1. PartsInit => ToldInv
  BY PartsAssumption, ToldInit DEF PartsInit
<1>2. [PartsNext]_partsVars => [Told!Next]_(Told!vars)
  BY DEF PartsNext, partsVars, ToldRests, ToldVars, Told!vars
<1>3. ToldInv /\ [PartsNext]_partsVars => ToldInv'
  BY <1>2, PartsAssumption, ToldStep
<1>4. ToldInv /\ [PartsNext]_partsVars =>
        [/\ query'.state = "locked" /\ query # query' => Told!AgentIsTrue(query'.agent)
         /\ query'.state = "told" /\ query # query' => Told!ValuesAreOwn(query'.values)]_(Told!vars)
  BY <1>2, PartsAssumption, ToldTruly
<1> QED BY <1>1, <1>3, <1>4, PTL DEF PartsSpec, StatusIsTrue, Told!StatusIsTrue

-----------------------------------------------------------------------------
(* The configuration                                                       *)

(* Removing a sensor leaves a list of sensors.                             *)
LEMMA WithoutType ==
  ASSUME NEW s \in Seq(Ids), NEW id
  PROVE  Config!Without(s, id) \in Seq(Ids)
<1> DEFINE I == {i \in 1 .. Len(s) : s[i] = id}
<1>1. CASE I = {}
  <2>1. Config!Without(s, id) = s
    BY <1>1 DEF Config!Without, Config!RemoveFirst
  <2> QED BY <2>1
<1>2. CASE I # {}
  <2>1. I \in SUBSET Nat
    OBVIOUS
  <2>2. PICK x \in I : \A y \in I : ~ (y < x)
    <3> HIDE DEF I
    <3> QED BY <1>2, <2>1, Least
  <2>3. \A y \in I : x <= y
    BY <2>1, <2>2
  <2>4. PICK m \in I : m = Config!Min(I)
    BY <2>2, <2>3 DEF Config!Min
  <2>5. Config!Without(s, id) = SubSeq(s, 1, m - 1) \o SubSeq(s, m + 1, Len(s))
    BY <1>2, <2>4 DEF Config!Without, Config!RemoveFirst, Config!RemoveAt, Config!SelectInSeq
  <2>6. SubSeq(s, 1, m - 1) \in Seq(Ids) /\ SubSeq(s, m + 1, Len(s)) \in Seq(Ids)
    OBVIOUS
  <2> QED BY <2>5, <2>6
<1> QED BY <1>1, <1>2

Texts == Config!Documents
Commands ==
  [pc : {"open", "write", "rename"}, edit : Config!Edits \cup {[op |-> "init"]}, text : Texts]

ConfigTypes ==
  /\ cpath \in Inodes \cup {Absent} /\ ctmp \in Inodes \cup {Absent}
  /\ cdata \in [Inodes -> Texts \cup {Empty, Torn}]
  /\ cfd \in [Writers -> Inodes \cup {Absent}]
  /\ calone \subseteq cbusy /\ cbusy \subseteq Writers /\ cmixed \in BOOLEAN
  /\ command \in [Writers -> Commands \cup {Config!Idle}]
  /\ expected \in Texts
  /\ \A w \in Writers : cfd[w] # Absent <=> command[w].pc = "write"
  /\ cbusy = {w \in Writers : command[w] # Config!Idle}

(* A command writes what it has validated.                                 *)
Validated ==
  \A w \in Writers : command[w] # Config!Idle => Config!validate_config(command[w].text)

(* Without a mixture the command under way is alone.                       *)
ConfigAlone ==
  /\ \A w \in calone : cbusy = {w}
  /\ ~cmixed => calone = cbusy

ConfigApart == ctmp # Absent => ctmp # cpath

(* It has the temporary file to itself, and its text there in the end.     *)
ConfigExclusive ==
  \A w \in calone :
    /\ command[w].pc \in {"write", "rename"} => ctmp # Absent
    /\ command[w].pc = "write" => cfd[w] = ctmp /\ cdata[ctmp] = Empty
    /\ command[w].pc = "rename" => cdata[ctmp] = command[w].text

(* Without a mixture the file is what the commands that are done make of   *)
(* it, and the text of the command under way the next such document.       *)
Serial ==
  ~cmixed =>
    /\ Config!File # Torn /\ Config!Document(Config!File) = expected
    /\ Config!validate_config(expected) \/ Config!File \in HandWritten
    /\ \A w \in cbusy :
         command[w].text = IF command[w].edit.op = "init" THEN Config!Default
                           ELSE Config!Edited(expected, command[w].edit)

ConfigInv ==
  ConfigTypes /\ Validated /\ ConfigAlone /\ ConfigApart /\ ConfigExclusive /\ Serial

(* A text is not a file without one.                                       *)
LEMMA TextIsText ==
  ASSUME Config!ConfigAssumption, NEW text \in Texts
  PROVE  text \notin {Empty, Torn, Absent} /\ Config!Document(text) = text
BY DEF Config!ConfigAssumption, Config!Document, Texts

LEMMA DefaultIsValid ==
  Config!Default \in Texts /\ Config!validate_config(Config!Default)
<1>1. << >> \in Seq(Ids)
  OBVIOUS
<1>2. Config!Default \in Texts
  BY <1>1 DEF Config!Default, Texts, Config!Documents
<1>3. Config!IsInjective(<< >>)
  BY DEF Config!IsInjective
<1>4. \A t \in Tables : Config!Default.seconds[t] > 0
  BY DEF Config!Default
<1>5. Config!Default.sensors = << >>
  BY DEF Config!Default
<1> QED BY <1>2, <1>3, <1>4, <1>5 DEF Config!validate_config

(* An edit makes a document of a document.                                 *)
LEMMA EditedType ==
  ASSUME Config!ConfigAssumption, NEW text \in Texts, NEW e \in Config!Edits
  PROVE  Config!Edited(text, e) \in Texts
<1>1. text.sensors \in Seq(Ids) /\ text.seconds \in [Tables -> Int]
  BY DEF Texts, Config!Documents
<1>2. CASE e \in [op : {"set"}, table : Tables, seconds : Seconds]
  <2>1. Config!AsI64(e.seconds) \in Int
    <3>1. e.seconds \in Nat /\ MaxI64 \in Nat
      <4>1. e.seconds \in Seconds
        BY <1>2
      <4> QED BY <4>1 DEF Config!ConfigAssumption
    <3> QED BY <3>1 DEF Config!AsI64
  <2>2. [text EXCEPT !.seconds[e.table] = Config!AsI64(e.seconds)] \in Texts
    BY <1>1, <2>1 DEF Texts, Config!Documents
  <2>3. e.op = "set"
    BY <1>2
  <2> QED BY <2>2, <2>3 DEF Config!Edited
<1>3. CASE e \in [op : {"add", "remove"}, id : Ids]
  <2>1. Config!Without(text.sensors, e.id) \in Seq(Ids)
    BY <1>1, WithoutType
  <2>2. Append(Config!Without(text.sensors, e.id), e.id) \in Seq(Ids)
    BY <1>3, <2>1
  <2>3. CASE e.op = "add"
    <3>1. [text EXCEPT !.sensors = Append(Config!Without(text.sensors, e.id), e.id)] \in Texts
      BY <2>2 DEF Texts, Config!Documents
    <3> QED BY <2>3, <3>1 DEF Config!Edited
  <2>4. CASE e.op = "remove"
    <3>1. [text EXCEPT !.sensors = Config!Without(text.sensors, e.id)] \in Texts
      BY <2>1 DEF Texts, Config!Documents
    <3> QED BY <2>4, <3>1 DEF Config!Edited
  <2> QED BY <1>3, <2>3, <2>4
<1> QED BY <1>2, <1>3 DEF Config!Edits

LEMMA ConfigInit ==
  ASSUME Config!ConfigAssumption, Config!Init
  PROVE  ConfigInv
<1>1. /\ cpath = Absent /\ ctmp = Absent /\ cdata = [i \in Inodes |-> Empty]
      /\ cfd = [w \in Writers |-> Absent] /\ cbusy = {} /\ calone = {} /\ cmixed = FALSE
      /\ command = [w \in Writers |-> Config!Idle] /\ expected = Config!Default
  BY DEF Config!Init, Config!FileInit
<1>2. Config!Idle.pc = "idle"
  BY DEF Config!Idle
<1>3. ConfigTypes
  BY <1>1, <1>2, DefaultIsValid DEF ConfigTypes
<1>4. Validated /\ ConfigAlone /\ ConfigApart /\ ConfigExclusive
  BY <1>1 DEF Validated, ConfigAlone, ConfigApart, ConfigExclusive
<1>5. Config!File = Absent /\ Config!Document(Absent) = Config!Default /\ Absent # Torn
  BY <1>1 DEF Config!File, Config!Document, Config!ConfigAssumption, Config!FileAssumption
<1>6. Serial
  BY <1>1, <1>5, DefaultIsValid DEF Serial
<1> QED BY <1>3, <1>4, <1>6 DEF ConfigInv

(* A command reads the file, edits it and validates the result.            *)
LEMMA ReadConfig ==
  ASSUME Config!ConfigAssumption, ConfigInv, NEW w \in Writers, NEW text \in Texts,
         NEW e \in Config!Edits \cup {[op |-> "init"]},
         command[w] = Config!Idle, Config!validate_config(text),
         command' = [command EXCEPT ![w] = [pc |-> "open", edit |-> e, text |-> text]],
         Config!Begin(w), UNCHANGED << cpath, ctmp, cdata, cfd, expected >>,
         ~cmixed => text = IF e.op = "init" THEN Config!Default
                           ELSE Config!Edited(expected, e)
  PROVE  ConfigInv'
<1> DEFINE c == [pc |-> "open", edit |-> e, text |-> text]
<1>1. c \in Commands /\ c.pc = "open" /\ c.edit = e /\ c.text = text
  BY DEF Commands
<1>2. c # Config!Idle
  <2>1. Config!Idle.pc = "idle"
    BY DEF Config!Idle
  <2> QED BY <1>1, <2>1
<1>3. command' = [command EXCEPT ![w] = c]
  OBVIOUS
<1> HIDE DEF c
<1>4. /\ command' \in [Writers -> Commands \cup {Config!Idle}] /\ command'[w] = c
      /\ \A u \in Writers : u # w => command'[u] = command[u]
  BY <1>1, <1>3 DEF ConfigInv, ConfigTypes
<1>5. /\ cbusy' = cbusy \cup {w} /\ calone' = IF cbusy = {} THEN {w} ELSE {}
      /\ cmixed' = (cmixed \/ cbusy # {})
  BY DEF Config!Begin
<1>6. cfd[w] = Absent
  BY DEF ConfigInv, ConfigTypes, Config!Idle
<1>7. ConfigTypes'
  <2>1. \A u \in Writers : cfd'[u] # Absent <=> command'[u].pc = "write"
    BY <1>1, <1>4, <1>6 DEF ConfigInv, ConfigTypes
  <2>2. cbusy' = {u \in Writers : command'[u] # Config!Idle}
    BY <1>2, <1>4, <1>5 DEF ConfigInv, ConfigTypes
  <2>3. cmixed' \in BOOLEAN /\ calone' \subseteq cbusy' /\ cbusy' \subseteq Writers
    BY <1>5 DEF ConfigInv, ConfigTypes
  <2> QED BY <1>4, <2>1, <2>2, <2>3 DEF ConfigInv, ConfigTypes
<1>8. Validated'
  BY <1>1, <1>4 DEF ConfigInv, Validated, Config!validate_config
<1>9. ConfigAlone' /\ ConfigApart'
  BY <1>5 DEF ConfigInv, ConfigAlone, ConfigApart
<1>10. ConfigExclusive'
  <2>1. \A u \in calone' : u = w
    BY <1>5
  <2> QED BY <1>1, <1>4, <2>1 DEF ConfigExclusive
<1>11. Serial'
  <2> SUFFICES ASSUME ~cmixed' PROVE Serial'
    BY DEF Serial
  <2>1. ~cmixed /\ cbusy' = {w}
    BY <1>5 DEF ConfigInv, ConfigTypes
  <2>2. Config!File' = Config!File
    BY DEF Config!File
  <2>3. command'[w].text = IF command'[w].edit.op = "init" THEN Config!Default
                           ELSE Config!Edited(expected, command'[w].edit)
    BY <1>1, <1>4, <2>1
  <2>4. Config!File' # Torn /\ (Config!Document(Config!File) = expected)'
    BY <2>1, <2>2 DEF ConfigInv, Serial, Config!Document
  <2>5. (Config!validate_config(expected) \/ Config!File \in HandWritten)'
    BY <2>1, <2>2 DEF ConfigInv, Serial, Config!validate_config
  <2>6. (command[w].text = IF command[w].edit.op = "init" THEN Config!Default
                           ELSE Config!Edited(expected, command[w].edit))'
    <3>1. expected' = expected
      OBVIOUS
    <3>2. Config!Edited(expected, command[w].edit)' = Config!Edited(expected, command'[w].edit)
      BY <3>1 DEF Config!Edited
    <3> QED BY <2>3, <3>2 DEF Config!Default
  <2> QED BY <2>1, <2>4, <2>5, <2>6 DEF Serial
<1> QED BY <1>7, <1>8, <1>9, <1>10, <1>11 DEF ConfigInv

(* Administrators start commands.                                          *)
LEMMA EditKeeps ==
  ASSUME Config!ConfigAssumption, ConfigInv, NEW w \in Writers, NEW e \in Config!Edits,
         Config!Edit(w, e)
  PROVE  ConfigInv'
<1> DEFINE text == Config!Edited(Config!Document(Config!File), e)
<1>1. /\ command[w] = Config!Idle /\ Config!File # Torn /\ Config!validate_config(text)
      /\ command' = [command EXCEPT ![w] = [pc |-> "open", edit |-> e, text |-> text]]
      /\ Config!Begin(w) /\ UNCHANGED << cpath, ctmp, cdata, cfd, expected >>
  BY DEF Config!Edit
<1>2. Config!Document(Config!File) \in Texts
  BY <1>1, DefaultIsValid DEF Config!Document, Config!File, ConfigInv, ConfigTypes
<1>3. text \in Texts
  BY <1>2, EditedType
<1>4. e.op # "init"
  BY DEF Config!Edits
<1>5. ~cmixed => text = Config!Edited(expected, e)
  BY DEF ConfigInv, Serial
<1> HIDE DEF text
<1> QED BY <1>1, <1>3, <1>4, <1>5, ReadConfig

LEMMA InitConfigKeeps ==
  ASSUME Config!ConfigAssumption, ConfigInv, NEW w \in Writers, NEW force \in BOOLEAN,
         Config!InitConfig(w, force)
  PROVE  ConfigInv'
<1>1. /\ command[w] = Config!Idle
      /\ command' = [command EXCEPT ![w] = [pc |-> "open", edit |-> [op |-> "init"],
                                            text |-> Config!Default]]
      /\ Config!Begin(w) /\ UNCHANGED << cpath, ctmp, cdata, cfd, expected >>
  BY DEF Config!InitConfig
<1> QED BY <1>1, DefaultIsValid, ReadConfig

(* A step that is not the end of a command leaves what it will write.      *)
LEMMA SerialKeeps ==
  ASSUME Serial, Config!File' = Config!File, expected' = expected, cmixed' = cmixed,
         \A w \in cbusy' : /\ w \in cbusy /\ command'[w].text = command[w].text
                           /\ command'[w].edit = command[w].edit
  PROVE  Serial'
<1> SUFFICES ASSUME ~cmixed' PROVE Serial'
  BY DEF Serial
<1>1. Config!File' # Torn /\ (Config!Document(Config!File) = expected)'
  BY DEF Serial, Config!Document
<1>2. (Config!validate_config(expected) \/ Config!File \in HandWritten)'
  BY DEF Serial, Config!validate_config
<1>3. ASSUME NEW w \in cbusy'
      PROVE  (command[w].text = IF command[w].edit.op = "init" THEN Config!Default
                                ELSE Config!Edited(expected, command[w].edit))'
  <2>1. /\ w \in cbusy /\ command'[w].text = command[w].text
        /\ command'[w].edit = command[w].edit
    OBVIOUS
  <2>2. command[w].text = IF command[w].edit.op = "init" THEN Config!Default
                          ELSE Config!Edited(expected, command[w].edit)
    BY <2>1 DEF Serial
  <2>3. Config!Edited(expected, command[w].edit)' = Config!Edited(expected, command[w].edit)
    BY <2>1 DEF Config!Edited
  <2> QED BY <2>1, <2>2, <2>3 DEF Config!Default
<1> QED BY <1>1, <1>2, <1>3 DEF Serial

(* The command goes on to its next call.                                   *)
LEMMA GotoKeeps ==
  ASSUME ConfigInv, NEW w \in Writers, command[w] # Config!Idle,
         NEW label \in {"write", "rename"}, Config!Goto(w, label)
  PROVE  /\ command' \in [Writers -> Commands \cup {Config!Idle}]
         /\ command'[w].pc = label /\ command'[w].text = command[w].text
         /\ command'[w].edit = command[w].edit /\ command'[w] # Config!Idle
         /\ \A u \in Writers : u # w => command'[u] = command[u]
<1>1. command[w] \in Commands /\ command' = [command EXCEPT ![w].pc = label]
  BY DEF ConfigInv, ConfigTypes, Config!Goto
<1>2. command'[w] = [command[w] EXCEPT !.pc = label]
  BY <1>1 DEF ConfigInv, ConfigTypes
<1>3. /\ command'[w] \in Commands /\ command'[w].pc = label
      /\ command'[w].text = command[w].text /\ command'[w].edit = command[w].edit
  BY <1>1, <1>2 DEF Commands
<1>4. command'[w] # Config!Idle
  <2>1. Config!Idle.pc = "idle"
    BY DEF Config!Idle
  <2> QED BY <1>3, <2>1
<1>5. \A u \in Writers : u # w => command'[u] = command[u]
  BY <1>1 DEF ConfigInv, ConfigTypes
<1>6. command' \in [Writers -> Commands \cup {Config!Idle}]
  BY <1>1, <1>3, <1>5 DEF ConfigInv, ConfigTypes
<1> QED BY <1>3, <1>4, <1>5, <1>6

(* The temporary file is opened and truncated.                             *)
LEMMA OpenKeeps ==
  ASSUME Config!ConfigAssumption, ConfigInv, NEW w \in Writers, Config!Open(w)
  PROVE  ConfigInv'
<1> DEFINE i == IF ctmp = Absent THEN Config!NewInode ELSE ctmp
<1>1. /\ command[w].pc = "open" /\ Config!Goto(w, "write")
      /\ ctmp = Absent => Inodes \ Config!Used # {}
      /\ ctmp' = i /\ cdata' = [cdata EXCEPT ![i] = Empty] /\ cfd' = [cfd EXCEPT ![w] = i]
      /\ UNCHANGED << cpath, cbusy, calone, cmixed, expected >>
  BY DEF Config!Open, Config!OpenTmp
<1>2. i \in Inodes /\ i # cpath /\ i # Absent
  <2>1. CASE ctmp = Absent
    <3>1. i \in Inodes /\ i \notin Config!Used
      BY <1>1, <2>1 DEF Config!NewInode
    <3> QED BY <3>1 DEF Config!Used, Config!ConfigAssumption, Config!FileAssumption
  <2>2. CASE ctmp # Absent
    BY <2>2 DEF ConfigInv, ConfigTypes, ConfigApart, Config!ConfigAssumption,
       Config!FileAssumption
  <2> QED BY <2>1, <2>2
<1> HIDE DEF i
<1>3. command[w] # Config!Idle
  BY <1>1 DEF Config!Idle
<1>4. /\ command' \in [Writers -> Commands \cup {Config!Idle}]
      /\ command'[w].pc = "write" /\ command'[w].text = command[w].text
      /\ command'[w].edit = command[w].edit /\ command'[w] # Config!Idle
      /\ \A u \in Writers : u # w => command'[u] = command[u]
  BY <1>1, <1>3, GotoKeeps
<1>5. /\ cdata' \in [Inodes -> Texts \cup {Empty, Torn}] /\ cdata'[i] = Empty
      /\ cfd' \in [Writers -> Inodes \cup {Absent}] /\ cfd'[w] = i
      /\ \A u \in Writers : u # w => cfd'[u] = cfd[u]
      /\ \A j \in Inodes : j # i => cdata'[j] = cdata[j]
  BY <1>1, <1>2 DEF ConfigInv, ConfigTypes
<1>6. ConfigTypes'
  <2>1. \A u \in Writers : cfd'[u] # Absent <=> command'[u].pc = "write"
    BY <1>2, <1>4, <1>5 DEF ConfigInv, ConfigTypes
  <2>2. cbusy' = {u \in Writers : command'[u] # Config!Idle}
    BY <1>1, <1>3, <1>4 DEF ConfigInv, ConfigTypes
  <2> QED BY <1>1, <1>2, <1>4, <1>5, <2>1, <2>2 DEF ConfigInv, ConfigTypes
<1>7. Validated'
  BY <1>3, <1>4 DEF ConfigInv, Validated, Config!validate_config
<1>8. ConfigAlone' /\ ConfigApart'
  BY <1>1, <1>2 DEF ConfigInv, ConfigAlone, ConfigApart
<1>9. ConfigExclusive'
  <2>1. \A u \in calone' : u = w
    BY <1>1, <1>3 DEF ConfigInv, ConfigTypes, ConfigAlone
  <2> QED BY <1>1, <1>2, <1>4, <1>5, <2>1 DEF ConfigExclusive
<1>10. Config!File' = Config!File
  BY <1>1, <1>2, <1>5 DEF Config!File, ConfigInv, ConfigTypes
<1>11. Serial'
  BY <1>1, <1>4, <1>10, SerialKeeps DEF ConfigInv, ConfigTypes
<1> QED BY <1>6, <1>7, <1>8, <1>9, <1>11 DEF ConfigInv

(* A command that ends, done or not.                                       *)
LEMMA EndKeeps ==
  ASSUME ConfigInv, NEW w \in Writers, Config!Return(w), Config!Stop(w)
  PROVE  /\ command' \in [Writers -> Commands \cup {Config!Idle}]
         /\ command'[w] = Config!Idle /\ command'[w].pc = "idle"
         /\ \A u \in Writers : u # w => command'[u] = command[u]
         /\ cbusy' = {u \in Writers : command'[u] # Config!Idle}
         /\ cbusy' = cbusy \ {w} /\ calone' = calone \ {w}
         /\ cbusy' \subseteq Writers /\ calone' \subseteq cbusy'
         /\ \A u \in calone' : cbusy' = {u}
         /\ calone = cbusy => calone' = cbusy'
         /\ Validated'
<1>1. command' = [command EXCEPT ![w] = Config!Idle]
  BY DEF Config!Return
<1>2. /\ command' \in [Writers -> Commands \cup {Config!Idle}]
      /\ command'[w] = Config!Idle
      /\ \A u \in Writers : u # w => command'[u] = command[u]
  BY <1>1 DEF ConfigInv, ConfigTypes
<1>3. cbusy' = cbusy \ {w} /\ calone' = calone \ {w}
  BY DEF Config!Stop
<1>4. cbusy' = {u \in Writers : command'[u] # Config!Idle}
  BY <1>2, <1>3 DEF ConfigInv, ConfigTypes
<1>5. Validated'
  BY <1>2 DEF ConfigInv, Validated, Config!validate_config
<1>6. \A u \in calone' : cbusy' = {u}
  BY <1>3 DEF ConfigInv, ConfigAlone
<1>7. command'[w].pc = "idle"
  BY <1>2 DEF Config!Idle
<1> QED BY <1>2, <1>3, <1>4, <1>5, <1>6, <1>7 DEF ConfigInv, ConfigTypes

(* The temporary file is written, or the disk is full.                     *)
LEMMA WriteKeeps ==
  ASSUME Config!ConfigAssumption, ConfigInv, NEW w \in Writers, Config!Write(w)
  PROVE  ConfigInv'
<1> DEFINE i == cfd[w]
           text == command[w].text
<1>1. /\ command[w].pc = "write" /\ UNCHANGED << cpath, ctmp, cmixed, expected >>
      /\ cfd' = [cfd EXCEPT ![w] = Absent]
  BY DEF Config!Write, Config!WriteTmp, Config!WriteTmpFails, Config!names
<1>2. command[w] # Config!Idle
  BY <1>1 DEF Config!Idle
<1>3. command[w] \in Commands /\ text \in Texts
  <2>1. command[w] \in Commands
    BY <1>2 DEF ConfigInv, ConfigTypes
  <2> QED BY <2>1 DEF Commands
<1>4. i \in Inodes /\ w \in cbusy
  BY <1>1, <1>2 DEF ConfigInv, ConfigTypes
<1>5. w \in calone => i = ctmp /\ cdata[i] = Empty /\ ctmp # cpath
  BY <1>1, <1>4 DEF ConfigInv, ConfigExclusive, ConfigApart, ConfigTypes,
     Config!ConfigAssumption, Config!FileAssumption
<1>6. ~cmixed => w \in calone
  BY <1>4 DEF ConfigInv, ConfigAlone
<1>7. PICK t \in Texts \cup {Empty, Torn} :
        /\ cdata' = [cdata EXCEPT ![i] = t]
        /\ Config!WriteTmp(w, text) /\ cdata[i] = Empty => t = text
  <2>1. CASE Config!WriteTmp(w, text)
    BY <1>3, <2>1 DEF Config!WriteTmp
  <2>2. CASE Config!WriteTmpFails(w) /\ ~Config!WriteTmp(w, text)
    BY <2>2 DEF Config!WriteTmpFails
  <2> QED BY <2>1, <2>2 DEF Config!Write
<1>8. /\ cfd' \in [Writers -> Inodes \cup {Absent}] /\ cfd'[w] = Absent
      /\ \A u \in Writers : u # w => cfd'[u] = cfd[u]
      /\ cdata' \in [Inodes -> Texts \cup {Empty, Torn}] /\ cdata'[i] = t
      /\ \A j \in Inodes : j # i => cdata'[j] = cdata[j]
  BY <1>1, <1>4, <1>7 DEF ConfigInv, ConfigTypes
<1>9. ~cmixed => Config!File' = Config!File
  BY <1>1, <1>5, <1>6, <1>8 DEF Config!File, ConfigInv, ConfigTypes
<1> HIDE DEF i, text
<1>10. ConfigApart'
  BY <1>1 DEF ConfigInv, ConfigApart
<1>11. CASE Config!WriteTmp(w, text) /\ Config!Goto(w, "rename")
  <2>1. UNCHANGED << cbusy, calone >>
    BY <1>11 DEF Config!WriteTmp
  <2>2. /\ command' \in [Writers -> Commands \cup {Config!Idle}]
        /\ command'[w].pc = "rename" /\ command'[w].text = text
        /\ command'[w].edit = command[w].edit /\ command'[w] # Config!Idle
        /\ \A u \in Writers : u # w => command'[u] = command[u]
    BY <1>2, <1>11, GotoKeeps DEF text
  <2>3. ConfigTypes'
    <3>1. \A u \in Writers : cfd'[u] # Absent <=> command'[u].pc = "write"
      BY <1>8, <2>2 DEF ConfigInv, ConfigTypes
    <3>2. cbusy' = {u \in Writers : command'[u] # Config!Idle}
      BY <1>2, <2>1, <2>2 DEF ConfigInv, ConfigTypes
    <3> QED BY <1>1, <1>8, <2>1, <2>2, <3>1, <3>2 DEF ConfigInv, ConfigTypes
  <2>4. Validated'
    BY <1>2, <2>2 DEF ConfigInv, Validated, Config!validate_config, text
  <2>5. ConfigAlone'
    BY <1>1, <2>1 DEF ConfigInv, ConfigAlone
  <2>6. ConfigExclusive'
    <3>1. \A u \in calone' : u = w /\ w \in calone
      BY <1>4, <2>1 DEF ConfigInv, ConfigAlone
    <3>2. w \in calone => ctmp' # Absent /\ cdata'[ctmp'] = text
      BY <1>1, <1>4, <1>5, <1>7, <1>8, <1>11 DEF ConfigInv, ConfigExclusive
    <3> QED BY <2>2, <3>1, <3>2 DEF ConfigExclusive
  <2>7. Serial'
    <3>1. CASE cmixed
      BY <1>1, <3>1 DEF Serial
    <3>2. CASE ~cmixed
      BY <1>1, <1>9, <2>1, <2>2, <3>2, SerialKeeps DEF ConfigInv, ConfigTypes, text
    <3> QED BY <3>1, <3>2
  <2> QED BY <1>10, <2>3, <2>4, <2>5, <2>6, <2>7 DEF ConfigInv
<1>12. CASE Config!WriteTmpFails(w) /\ Config!Return(w)
  <2>1. Config!Stop(w)
    BY <1>12 DEF Config!WriteTmpFails
  <2>2. /\ command' \in [Writers -> Commands \cup {Config!Idle}]
        /\ command'[w] = Config!Idle /\ command'[w].pc = "idle"
        /\ \A u \in Writers : u # w => command'[u] = command[u]
        /\ cbusy' = {u \in Writers : command'[u] # Config!Idle}
        /\ cbusy' = cbusy \ {w} /\ calone' = calone \ {w}
        /\ cbusy' \subseteq Writers /\ calone' \subseteq cbusy'
        /\ \A u \in calone' : cbusy' = {u}
        /\ calone = cbusy => calone' = cbusy'
        /\ Validated'
    BY <1>12, <2>1, EndKeeps
  <2>3. ConfigTypes'
    <3>1. \A u \in Writers : cfd'[u] # Absent <=> command'[u].pc = "write"
      BY <1>8, <2>2 DEF ConfigInv, ConfigTypes
    <3> QED BY <1>1, <1>8, <2>2, <3>1 DEF ConfigInv, ConfigTypes
  <2>4. ConfigAlone'
    BY <1>1, <2>2 DEF ConfigInv, ConfigAlone
  <2>5. ConfigExclusive'
    <3>1. calone' = {}
      BY <1>4, <2>2 DEF ConfigInv, ConfigAlone
    <3> QED BY <3>1 DEF ConfigExclusive
  <2>6. Serial'
    <3>1. CASE cmixed
      BY <1>1, <3>1 DEF Serial
    <3>2. CASE ~cmixed
      <4>1. cbusy' = {}
        BY <1>4, <1>6, <2>2, <3>2 DEF ConfigInv, ConfigAlone
      <4> QED BY <1>1, <1>9, <3>2, <4>1, SerialKeeps DEF ConfigInv
    <3> QED BY <3>1, <3>2
  <2> QED BY <1>10, <2>2, <2>3, <2>4, <2>5, <2>6 DEF ConfigInv
<1> QED BY <1>11, <1>12 DEF Config!Write, text

(* The temporary file is renamed, or another command has done so.          *)
LEMMA RenameKeeps ==
  ASSUME Config!ConfigAssumption, ConfigInv, NEW w \in Writers, Config!Rename(w)
  PROVE  ConfigInv'
<1> DEFINE c == command[w]
           next == IF cmixed \/ c.edit.op = "init" THEN c.text
                   ELSE Config!Edited(expected, c.edit)
<1>1. /\ c.pc = "rename" /\ Config!Return(w) /\ Config!Stop(w) /\ UNCHANGED << cdata, cfd >>
      /\ \/ Config!RenameTmp(w) /\ expected' = next
         \/ Config!RenameTmpFails(w) /\ expected' = expected
  BY DEF Config!Rename, Config!RenameTmp, Config!RenameTmpFails
<1>2. c # Config!Idle
  BY <1>1 DEF Config!Idle
<1>3. c \in Commands /\ w \in cbusy
  BY <1>2 DEF ConfigInv, ConfigTypes
<1>4. c.text \in Texts /\ c.edit \in Config!Edits \cup {[op |-> "init"]}
  BY <1>3 DEF Commands
<1>5. expected \in Texts
  BY DEF ConfigInv, ConfigTypes
<1>6. next \in Texts
  <2>1. CASE cmixed \/ c.edit.op = "init"
    BY <1>4, <2>1
  <2>2. CASE ~(cmixed \/ c.edit.op = "init")
    <3>1. c.edit \in Config!Edits
      BY <1>4, <2>2
    <3>2. Config!Edited(expected, c.edit) \in Texts
      BY <1>5, <3>1, EditedType
    <3> QED BY <2>2, <3>2
  <2> QED BY <2>1, <2>2
<1>7. w \in calone => ctmp # Absent /\ cdata[ctmp] = c.text /\ cbusy = {w}
  BY <1>1 DEF ConfigInv, ConfigExclusive, ConfigAlone
<1>8. ~cmixed => w \in calone /\ next = c.text
  <2> SUFFICES ASSUME ~cmixed PROVE w \in calone /\ next = c.text
    OBVIOUS
  <2>1. c.text = IF c.edit.op = "init" THEN Config!Default
                 ELSE Config!Edited(expected, c.edit)
    BY <1>3 DEF ConfigInv, Serial
  <2> QED BY <1>3, <2>1 DEF ConfigInv, ConfigAlone
<1>9. Config!validate_config(c.text) /\ (cmixed => next = c.text)
  BY <1>2 DEF ConfigInv, Validated
<1> HIDE DEF c, next
<1>10. /\ command' \in [Writers -> Commands \cup {Config!Idle}]
       /\ command'[w] = Config!Idle /\ command'[w].pc = "idle"
       /\ \A u \in Writers : u # w => command'[u] = command[u]
       /\ cbusy' = {u \in Writers : command'[u] # Config!Idle}
       /\ cbusy' = cbusy \ {w} /\ calone' = calone \ {w}
       /\ cbusy' \subseteq Writers /\ calone' \subseteq cbusy'
       /\ \A u \in calone' : cbusy' = {u}
       /\ calone = cbusy => calone' = cbusy'
       /\ Validated'
  BY <1>1, EndKeeps
<1>11. \A u \in Writers : cfd'[u] # Absent <=> command'[u].pc = "write"
  <2>1. cfd[w] = Absent
    BY <1>1 DEF c, ConfigInv, ConfigTypes
  <2> QED BY <1>1, <1>10, <2>1 DEF ConfigInv, ConfigTypes
<1>12. ConfigExclusive'
  <2>1. calone' = {}
    BY <1>3, <1>10 DEF ConfigInv, ConfigAlone
  <2> QED BY <2>1 DEF ConfigExclusive
<1>13. CASE Config!RenameTmp(w) /\ expected' = next
  <2>1. /\ ctmp # Absent /\ cpath' = ctmp /\ ctmp' = Absent
        /\ cmixed' = (cmixed /\ w \notin calone)
    BY <1>13 DEF Config!RenameTmp
  <2>2. ConfigTypes'
    BY <1>1, <1>6, <1>10, <1>11, <1>13, <2>1 DEF ConfigInv, ConfigTypes
  <2>3. ConfigAlone' /\ ConfigApart'
    <3>1. ~cmixed' => calone' = cbusy'
      BY <1>7, <1>8, <1>10, <2>1
    <3> QED BY <1>10, <2>1, <3>1 DEF ConfigAlone, ConfigApart
  <2>4. Serial'
    <3> SUFFICES ASSUME ~cmixed' PROVE Serial'
      BY DEF Serial
    <3>1. w \in calone /\ next = c.text
      BY <1>8, <1>9, <2>1
    <3>2. Config!File' = c.text /\ expected' = c.text /\ cbusy' = {}
      BY <1>1, <1>7, <1>10, <1>13, <2>1, <3>1 DEF Config!File
    <3>3. c.text \notin {Empty, Torn, Absent}
      BY <1>4, TextIsText
    <3>4. Config!File' # Torn /\ (Config!Document(Config!File) = expected)'
      BY <3>2, <3>3 DEF Config!Document
    <3>5. Config!validate_config(expected)'
      BY <1>9, <3>2 DEF Config!validate_config
    <3> QED BY <3>2, <3>4, <3>5 DEF Serial
  <2> QED BY <1>10, <1>12, <2>2, <2>3, <2>4 DEF ConfigInv
<1>14. CASE Config!RenameTmpFails(w) /\ expected' = expected
  <2>1. ctmp = Absent /\ UNCHANGED << cpath, ctmp, cmixed >>
    BY <1>14 DEF Config!RenameTmpFails, Config!names
  <2>2. cmixed
    BY <1>7, <1>8, <2>1
  <2>3. ConfigTypes'
    BY <1>1, <1>10, <1>11, <1>14, <2>1 DEF ConfigInv, ConfigTypes
  <2>4. ConfigAlone' /\ ConfigApart'
    BY <1>10, <2>1, <2>2 DEF ConfigAlone, ConfigApart
  <2>5. Serial'
    BY <2>1, <2>2 DEF Serial
  <2> QED BY <1>10, <1>12, <2>3, <2>4, <2>5 DEF ConfigInv
<1> QED BY <1>1, <1>13, <1>14

(* A command that is killed leaves the files.                              *)
LEMMA KilledKeeps ==
  ASSUME Config!ConfigAssumption, ConfigInv, NEW w \in Writers, Config!Killed(w)
  PROVE  ConfigInv'
<1>1. /\ command[w] # Config!Idle /\ Config!Return(w)
      /\ cfd' = [u \in Writers |-> IF u \in {w} THEN Absent ELSE cfd[u]]
      /\ cbusy' = cbusy \ {w} /\ calone' = calone \ {w}
      /\ UNCHANGED << cpath, ctmp, cdata, cmixed, expected >>
  BY DEF Config!Killed, Config!Die, Config!names
<1>2. Config!Stop(w) /\ w \in cbusy
  BY <1>1 DEF Config!Stop, ConfigInv, ConfigTypes
<1>3. /\ command' \in [Writers -> Commands \cup {Config!Idle}]
      /\ command'[w] = Config!Idle /\ command'[w].pc = "idle"
      /\ \A u \in Writers : u # w => command'[u] = command[u]
      /\ cbusy' = {u \in Writers : command'[u] # Config!Idle}
      /\ cbusy' = cbusy \ {w} /\ calone' = calone \ {w}
      /\ cbusy' \subseteq Writers /\ calone' \subseteq cbusy'
      /\ \A u \in calone' : cbusy' = {u}
      /\ calone = cbusy => calone' = cbusy'
      /\ Validated'
  BY <1>1, <1>2, EndKeeps
<1>4. /\ cfd' \in [Writers -> Inodes \cup {Absent}] /\ cfd'[w] = Absent
      /\ \A u \in Writers : u # w => cfd'[u] = cfd[u]
  BY <1>1 DEF ConfigInv, ConfigTypes
<1>5. ConfigTypes'
  <2>1. \A u \in Writers : cfd'[u] # Absent <=> command'[u].pc = "write"
    BY <1>3, <1>4 DEF ConfigInv, ConfigTypes
  <2> QED BY <1>1, <1>3, <1>4, <2>1 DEF ConfigInv, ConfigTypes
<1>6. ConfigAlone' /\ ConfigApart'
  BY <1>1, <1>3 DEF ConfigInv, ConfigAlone, ConfigApart
<1>7. calone' = {}
  BY <1>2, <1>3 DEF ConfigInv, ConfigAlone
<1>8. ConfigExclusive'
  BY <1>7 DEF ConfigExclusive
<1>9. Serial'
  <2>1. CASE cmixed
    BY <1>1, <2>1 DEF Serial
  <2>2. CASE ~cmixed
    <3>1. cbusy' = {}
      BY <1>3, <1>7, <2>2 DEF ConfigInv, ConfigAlone
    <3>2. Config!File' = Config!File
      BY <1>1 DEF Config!File
    <3> QED BY <1>1, <3>1, <3>2, SerialKeeps DEF ConfigInv
  <2> QED BY <2>1, <2>2
<1> QED BY <1>3, <1>5, <1>6, <1>8, <1>9 DEF ConfigInv

(* An editor replaces the file.                                            *)
LEMMA HandEditKeeps ==
  ASSUME Config!ConfigAssumption, ConfigInv, NEW text \in HandWritten, Config!HandEdit(text)
  PROVE  ConfigInv'
<1> DEFINE i == Config!NewInode
<1>1. /\ \A w \in Writers : command[w] = Config!Idle
      /\ Inodes \ Config!Used # {} /\ cpath' = i
      /\ cdata' = [cdata EXCEPT ![i] = text] /\ expected' = text /\ cmixed' = FALSE
      /\ UNCHANGED << ctmp, cfd, cbusy, calone, command >>
  BY DEF Config!HandEdit
<1>2. i \in Inodes /\ i # ctmp /\ i # Absent
  <2>1. i \in Inodes /\ i \notin Config!Used
    BY <1>1 DEF Config!NewInode
  <2> QED BY <2>1 DEF Config!Used, Config!ConfigAssumption, Config!FileAssumption
<1> HIDE DEF i
<1>3. text \in Texts
  BY DEF Config!ConfigAssumption, Texts
<1>4. cbusy = {} /\ calone = {}
  BY <1>1 DEF ConfigInv, ConfigTypes
<1>5. cdata' \in [Inodes -> Texts \cup {Empty, Torn}] /\ cdata'[i] = text
  BY <1>1, <1>2, <1>3 DEF ConfigInv, ConfigTypes
<1>6. ConfigTypes'
  BY <1>1, <1>2, <1>3, <1>5 DEF ConfigInv, ConfigTypes
<1>7. Validated'
  BY <1>1 DEF Validated
<1>8. ConfigAlone' /\ ConfigApart' /\ ConfigExclusive'
  BY <1>1, <1>2, <1>4 DEF ConfigAlone, ConfigApart, ConfigExclusive
<1>9. Serial'
  <2>1. text \notin {Empty, Torn, Absent}
    BY <1>3, TextIsText
  <2>2. Config!File' = text
    BY <1>1, <1>2, <1>5 DEF Config!File
  <2>3. Config!File' # Torn /\ (Config!Document(Config!File) = expected)'
    BY <1>1, <2>1, <2>2 DEF Config!Document
  <2> QED BY <1>1, <1>4, <2>2, <2>3 DEF Serial
<1> QED BY <1>6, <1>7, <1>8, <1>9 DEF ConfigInv

LEMMA ConfigStutter ==
  ASSUME ConfigInv, UNCHANGED Config!vars
  PROVE  ConfigInv'
<1>1. UNCHANGED << cpath, ctmp, cdata, cfd, cbusy, calone, cmixed, command, expected >>
  BY DEF Config!vars, Config!fileVars
<1>2. Config!File' = Config!File
  BY <1>1 DEF Config!File
<1>3. Serial'
  BY <1>1, <1>2, SerialKeeps DEF ConfigInv
<1>4. Validated'
  BY <1>1 DEF ConfigInv, Validated, Config!validate_config
<1>5. ConfigTypes' /\ ConfigAlone' /\ ConfigApart' /\ ConfigExclusive'
  BY <1>1 DEF ConfigInv, ConfigTypes, ConfigAlone, ConfigApart, ConfigExclusive
<1> QED BY <1>3, <1>4, <1>5 DEF ConfigInv

LEMMA ConfigStep ==
  ASSUME Config!ConfigAssumption, ConfigInv, [Config!Next]_(Config!vars)
  PROVE  ConfigInv'
BY EditKeeps, InitConfigKeeps, OpenKeeps, WriteKeeps, RenameKeeps, KilledKeeps,
   HandEditKeeps, ConfigStutter DEF Config!Next

LEMMA ConfigInvariance == PartsSpec => []ConfigInv
<1>1. PartsInit => ConfigInv
  BY PartsAssumption, ConfigInit DEF PartsInit
<1>2. ConfigInv /\ [PartsNext]_partsVars => ConfigInv'
  <2>1. [PartsNext]_partsVars => [Config!Next]_(Config!vars)
    BY DEF PartsNext, partsVars, ConfigRests, ConfigVars, Config!vars, Config!fileVars
  <2> QED BY <2>1, PartsAssumption, ConfigStep
<1> QED BY <1>1, <1>2, PTL DEF PartsSpec

(* The agent can load its configuration at every instant that only         *)
(* commands have changed, unless two of them met or it has become longer   *)
(* than load_config (agent-linux/src/config.rs) reads.                     *)
THEOREM StartTheorem == PartsSpec => []AgentCanStart
<1>1. ConfigInv => AgentCanStart
  BY DEF ConfigInv, Serial, AgentCanStart, Config!AgentCanStart, Config!Loads
<1> QED BY <1>1, ConfigInvariance, PTL

(* Commands that do not meet act one after the other, and lose nothing.    *)
THEOREM SerialTheorem == PartsSpec => []EditsAreSerial
<1>1. ConfigInv => EditsAreSerial
  <2>1. ConfigInv => expected \in Texts
    BY DEF ConfigInv, ConfigTypes
  <2>2. ConfigInv => Config!Document(expected) = expected
    BY <2>1, PartsAssumption, TextIsText
  <2> QED BY <2>2 DEF ConfigInv, Serial, EditsAreSerial, Config!EditsAreSerial
<1> QED BY <1>1, ConfigInvariance, PTL

-----------------------------------------------------------------------------
(* The cache                                                               *)

(* The proofs about CacheFile, for the cache of this composition.          *)
CacheThm == INSTANCE CacheFileProofs WITH None <- Absent

LEMMA SameCache ==
  /\ Cache!VersionAssumption => CacheThm!VersionAssumption
  /\ Cache!Init => CacheThm!Init
  /\ Cache!Next => CacheThm!Next
  /\ CacheThm!FileIsWhole => Cache!FileIsWhole
  /\ CacheThm!FileIsCurrent => Cache!FileIsCurrent
<1>1. Cache!VersionAssumption => CacheThm!VersionAssumption
  BY DEF Cache!VersionAssumption, CacheThm!VersionAssumption,
         Cache!FileAssumption, CacheThm!FileAssumption
<1>2. Cache!Init => CacheThm!Init
  BY DEF Cache!Init, CacheThm!Init, Cache!FileInit, CacheThm!FileInit,
         Cache!Idle, CacheThm!Idle
<1> USE DEF Cache!Goto, CacheThm!Goto, Cache!names, CacheThm!names,
            Cache!fileVars, CacheThm!fileVars, Cache!Stop, CacheThm!Stop,
            Cache!File, CacheThm!File, Cache!Readable, CacheThm!Readable
<1>3. Cache!Next => CacheThm!Next
  <2>1. ASSUME NEW w \in Writers
        PROVE  /\ Cache!Change(w) => CacheThm!Change(w)
               /\ Cache!Snapshot(w) => CacheThm!Snapshot(w)
    BY DEF Cache!Change, CacheThm!Change, Cache!Snapshot, CacheThm!Snapshot,
           Cache!Begin, CacheThm!Begin
  <2>2. ASSUME NEW w \in Writers PROVE Cache!Open(w) => CacheThm!Open(w)
    BY DEF Cache!Open, CacheThm!Open, Cache!OpenTmp, CacheThm!OpenTmp,
           Cache!NewInode, CacheThm!NewInode, Cache!Used, CacheThm!Used
  <2>3. ASSUME NEW w \in Writers PROVE Cache!Write(w) => CacheThm!Write(w)
    BY DEF Cache!Write, CacheThm!Write, Cache!WriteTmp, CacheThm!WriteTmp,
           Cache!WriteTmpFails, CacheThm!WriteTmpFails
  <2>4. ASSUME NEW w \in Writers PROVE Cache!Rename(w) => CacheThm!Rename(w)
    BY DEF Cache!Rename, CacheThm!Rename, Cache!RenameTmp, CacheThm!RenameTmp,
           Cache!RenameTmpFails, CacheThm!RenameTmpFails
  <2>5. (Cache!Crash => CacheThm!Crash) /\ (Cache!Start => CacheThm!Start)
    BY DEF Cache!Crash, CacheThm!Crash, Cache!Start, CacheThm!Start,
           Cache!Die, CacheThm!Die, Cache!Idle, CacheThm!Idle
  <2> QED BY <2>1, <2>2, <2>3, <2>4, <2>5 DEF Cache!Next, CacheThm!Next
<1>4. CacheThm!FileIsWhole => Cache!FileIsWhole
  BY DEF Cache!FileIsWhole, CacheThm!FileIsWhole
<1>5. CacheThm!FileIsCurrent => Cache!FileIsCurrent
  BY DEF Cache!FileIsCurrent, CacheThm!FileIsCurrent
<1> QED BY <1>1, <1>2, <1>3, <1>4, <1>5

LEMMA CacheBehaves == PartsSpec => CacheThm!Spec
<1>1. PartsInit => CacheThm!Init
  BY SameCache DEF PartsInit
<1>2. [PartsNext]_partsVars => [CacheThm!Next]_(CacheThm!vars)
  <2>1. [PartsNext]_partsVars => Cache!Next \/ UNCHANGED CacheVars
    BY DEF PartsNext, partsVars, CacheRests
  <2>2. UNCHANGED CacheVars => UNCHANGED CacheThm!vars
    BY DEF CacheVars, CacheThm!vars, CacheThm!fileVars
  <2> QED BY <2>1, <2>2, SameCache
<1> QED BY <1>1, <1>2, PTL DEF PartsSpec, CacheThm!Spec

(* However often hostd dies in save_persistent_cache, and whatever the     *)
(* disk does, its next start finds a whole cache, unless two saves met.    *)
THEOREM WholeFileTheorem == PartsSpec => []FileIsWhole
<1>1. CacheThm!Spec => []CacheThm!FileIsWhole
  BY PartsAssumption, SameCache, CacheThm!WholeFile
<1>2. CacheThm!FileIsWhole => FileIsWhole
  BY SameCache DEF FileIsWhole
<1> QED BY <1>1, <1>2, CacheBehaves, PTL

(* When no thread is in a save the cache holds the last state, unless two  *)
(* saves met or the last one failed.                                       *)
THEOREM CurrentFileTheorem == PartsSpec => []FileIsCurrent
<1>1. CacheThm!Spec => []CacheThm!FileIsCurrent
  BY PartsAssumption, SameCache, CacheThm!CurrentFile
<1>2. CacheThm!FileIsCurrent => FileIsCurrent
  BY SameCache DEF FileIsCurrent
<1> QED BY <1>1, <1>2, CacheBehaves, PTL

-----------------------------------------------------------------------------
(* The port                                                                *)

(* The proofs about Wire, for the port of this composition.                *)
PortThm == INSTANCE WireProofs

LEMMA SamePort ==
  /\ Port!WireAssumption => PortThm!WireAssumption
  /\ Port!Init => PortThm!Init
  /\ Port!Next => PortThm!Next
  /\ PortThm!Lossless => Port!Lossless
  /\ PortThm!RefusedOnlyIfCut => Port!RefusedOnlyIfCut
<1> USE DEF Port!Waiting, PortThm!Waiting, Port!Between, PortThm!Between,
            Port!validate_message, PortThm!validate_message
<1>1. Port!WireAssumption => PortThm!WireAssumption
  BY DEF Port!WireAssumption, PortThm!WireAssumption
<1>2. Port!Init => PortThm!Init
  BY DEF Port!Init, PortThm!Init
<1>3. Port!Next => PortThm!Next
  <2>1. ASSUME NEW k \in Kinds PROVE Port!WriteHeader(k) => PortThm!WriteHeader(k)
    BY DEF Port!WriteHeader, PortThm!WriteHeader, Port!Carried, PortThm!Carried,
           Port!HeaderOf, PortThm!HeaderOf, Port!Header, PortThm!Header
  <2>2. Port!WriteText => PortThm!WriteText
    BY DEF Port!WriteText, PortThm!WriteText, Port!Carried, PortThm!Carried,
           Port!TextOf, PortThm!TextOf
  <2>3. /\ Port!Connect => PortThm!Connect
        /\ Port!WriterDies => PortThm!WriterDies
        /\ Port!ReadEof => PortThm!ReadEof
    BY DEF Port!Connect, PortThm!Connect, Port!WriterDies, PortThm!WriterDies,
           Port!ReadEof, PortThm!ReadEof
  <2>4. Port!ReadTimeout => PortThm!ReadTimeout
    BY DEF Port!ReadTimeout, PortThm!ReadTimeout, Port!Close, PortThm!Close
  <2> USE DEF Port!Refuse, PortThm!Refuse, Port!Close, PortThm!Close,
              Port!Rest, PortThm!Rest
  <2>5. Port!ReadHeader => PortThm!ReadHeader
    BY DEF Port!ReadHeader, PortThm!ReadHeader
  <2>6. Port!ReadText => PortThm!ReadText
    BY DEF Port!ReadText, PortThm!ReadText, Port!Accepted, PortThm!Accepted,
           Port!Parse, PortThm!Parse, Port!TextOf, PortThm!TextOf
  <2> QED BY <2>1, <2>2, <2>3, <2>4, <2>5, <2>6 DEF Port!Next, PortThm!Next
<1>4. PortThm!Lossless => Port!Lossless
  BY DEF Port!Lossless, PortThm!Lossless
<1>5. PortThm!RefusedOnlyIfCut => Port!RefusedOnlyIfCut
  BY DEF Port!RefusedOnlyIfCut, PortThm!RefusedOnlyIfCut
<1> QED BY <1>1, <1>2, <1>3, <1>4, <1>5

LEMMA PortBehaves == PartsSpec => PortThm!Spec
<1>1. PartsInit => PortThm!Init
  BY SamePort DEF PartsInit
<1>2. [PartsNext]_partsVars => [PortThm!Next]_(PortThm!vars)
  <2>1. [PartsNext]_partsVars => Port!Next \/ UNCHANGED PortVars
    BY DEF PartsNext, partsVars, PortRests
  <2>2. UNCHANGED PortVars => UNCHANGED PortThm!vars
    BY DEF PortVars, PortThm!vars
  <2> QED BY <2>1, <2>2, SamePort
<1> QED BY <1>1, <1>2, PTL DEF PartsSpec, PortThm!Spec

(* read_frame gets what write_frame wrote, in order and all of it, unless  *)
(* bytes were lost on the port.                                            *)
THEOREM LosslessPort == PartsSpec => []Lossless
<1>1. PortThm!Spec => []PortThm!Lossless
  BY PartsAssumption, SamePort, PortThm!LosslessTheorem
<1>2. PortThm!Lossless => Lossless
  BY SamePort DEF Lossless
<1> QED BY <1>1, <1>2, PortBehaves, PTL

(* read_frame refuses a frame only if one was cut between the two writes   *)
(* of write_frame.                                                         *)
THEOREM RefusalPort == PartsSpec => []RefusedOnlyIfCut
<1>1. PortThm!Spec => []PortThm!RefusedOnlyIfCut
  BY PartsAssumption, SamePort, PortThm!RefusalTheorem
<1>2. PortThm!RefusedOnlyIfCut => RefusedOnlyIfCut
  BY SamePort DEF RefusedOnlyIfCut
<1> QED BY <1>1, <1>2, PortBehaves, PTL

-----------------------------------------------------------------------------
(* The rate of schemas                                                     *)
(*                                                                         *)
(* The argument counts windows instead of schemas.  A VM's accepted        *)
(* schemas fall into consecutive groups, one per window; windows start at  *)
(* least Window apart, and a group has at most Max members.  So a schema   *)
(* and the one Max further on are in different windows, and 2 * Max        *)
(* further on there is a whole window between them.                        *)

Windows == [count : Nat, start : Nat]

(* The number of schemas accepted in the current window of VM v.           *)
Used(v) == IF schema_rate[v].count <= Max THEN schema_rate[v].count ELSE Max

(* Before the first schema nothing is accepted; windows start in the past. *)
Started(v) ==
  IF schema_rate[v] = NoWindow
  THEN accepted[v] = << >>
  ELSE schema_rate[v].start <= now

(* A schema is accepted inside its window.                                 *)
Inside(v) ==
  \A i \in 1 .. Len(accepted[v]) :
    /\ accepted[v][i].start <= accepted[v][i].time
    /\ accepted[v][i].time < accepted[v][i].start + Window

(* The last Used(v) schemas are those of the current window, and the       *)
(* windows of all others are over.                                         *)
Current(v) ==
  schema_rate[v] # NoWindow =>
    /\ Used(v) <= Len(accepted[v])
    /\ \A i \in 1 .. Len(accepted[v]) :
         /\ i > Len(accepted[v]) - Used(v) =>
              accepted[v][i].start = schema_rate[v].start
         /\ i <= Len(accepted[v]) - Used(v) =>
              accepted[v][i].start + Window <= schema_rate[v].start

(* No window has more than Max accepted schemas.                           *)
Groups(v) ==
  \A i \in 1 .. Len(accepted[v]) :
    i + Max <= Len(accepted[v]) =>
      accepted[v][i].start + Window <= accepted[v][i + Max].start

VmInv(v) == Started(v) /\ Inside(v) /\ Current(v) /\ Groups(v)

IInv == TypeOK /\ \A v \in Vmids : VmInv(v)

USE MaxAssumption, WindowAssumption, NoWindowAssumption

(* WindowOf is a window that has begun and is not over.                    *)
LEMMA WindowType ==
  ASSUME TypeOK, NEW v \in Vmids, Started(v)
  PROVE  /\ WindowOf(v) \in Windows
         /\ WindowOf(v).start <= now
         /\ now < WindowOf(v).start + Window
<1>1. CASE schema_rate[v] = NoWindow
  BY <1>1 DEF TypeOK, WindowOf, Fresh, Windows
<1>2. CASE schema_rate[v] # NoWindow
  <2>1. schema_rate[v] \in Windows
    BY <1>2 DEF TypeOK, Windows
  <2>2. QED BY <1>2, <2>1 DEF TypeOK, WindowOf, Fresh, Windows, Started
<1>3. QED BY <1>1, <1>2

(* Every step keeps the type invariant.                                    *)
LEMMA TypeStep ==
  ASSUME TypeOK, \A v \in Vmids : Started(v), [Next]_vars
  PROVE  TypeOK'
<1>1. CASE Tick
  BY <1>1 DEF Tick, TypeOK
<1>2. ASSUME NEW v \in Vmids, Accept(v) PROVE TypeOK'
  <2>1. WindowOf(v) \in Windows
    BY WindowType
  <2>2. [time |-> now, start |-> WindowOf(v).start] \in Entries
    BY <2>1 DEF TypeOK, Windows, Entries
  <2>3. Append(accepted[v], [time |-> now, start |-> WindowOf(v).start]) \in Seq(Entries)
    BY <2>2 DEF TypeOK
  <2>4. accepted' \in [Vmids -> Seq(Entries)]
    BY <1>2, <2>3 DEF Accept, TypeOK
  <2>5. [count |-> WindowOf(v).count + 1, start |-> WindowOf(v).start] \in Windows
    BY <2>1 DEF Windows
  <2>6. schema_rate' \in [Vmids -> Windows \cup {NoWindow}]
    BY <1>2, <2>5 DEF Accept, Counted, TypeOK, Windows
  <2>7. QED BY <1>2, <2>4, <2>6 DEF Accept, TypeOK, Windows
<1>3. ASSUME NEW v \in Vmids, Drop(v) PROVE TypeOK'
  <2>1. WindowOf(v) \in Windows
    BY WindowType
  <2>2. [count |-> WindowOf(v).count + 1, start |-> WindowOf(v).start] \in Windows
    BY <2>1 DEF Windows
  <2>3. schema_rate' \in [Vmids -> Windows \cup {NoWindow}]
    BY <1>3, <2>2 DEF Drop, Counted, TypeOK, Windows
  <2>4. QED BY <1>3, <2>3 DEF Drop, TypeOK, Windows
<1>4. CASE UNCHANGED vars
  BY <1>4 DEF vars, TypeOK
<1>5. QED BY <1>1, <1>2, <1>3, <1>4 DEF Next

(* A step that leaves the entries of VM v alone keeps its invariant.       *)
LEMMA OtherVm ==
  ASSUME TypeOK, TypeOK', NEW v \in Vmids, VmInv(v), now' >= now,
         schema_rate'[v] = schema_rate[v], accepted'[v] = accepted[v]
  PROVE  VmInv(v)'
<1>1. Used(v)' = Used(v)
  BY DEF Used
<1>2. Started(v)'
  <2>1. CASE schema_rate[v] = NoWindow
    BY <2>1 DEF VmInv, Started
  <2>2. CASE schema_rate[v] # NoWindow
    <3>1. schema_rate[v].start \in Nat
      BY <2>2 DEF TypeOK
    <3>2. QED BY <2>2, <3>1 DEF TypeOK, VmInv, Started
  <2>3. QED BY <2>1, <2>2
<1>3. QED BY <1>1, <1>2 DEF VmInv, Inside, Current, Groups

(* The number of schemas a window counts after one more.                   *)
LEMMA CountedWindow ==
  ASSUME TypeOK, NEW v \in Vmids, Started(v), Counted(v)
  PROVE  /\ schema_rate'[v] # NoWindow
         /\ schema_rate'[v].start = WindowOf(v).start
         /\ schema_rate'[v].count = WindowOf(v).count + 1
<1>1. WindowOf(v) \in Windows
  BY WindowType
<1>2. schema_rate'[v] = [count |-> WindowOf(v).count + 1, start |-> WindowOf(v).start]
  BY DEF Counted, TypeOK
<1>3. [count |-> WindowOf(v).count + 1, start |-> WindowOf(v).start] \in Windows
  BY <1>1 DEF Windows
<1>4. QED BY <1>2, <1>3 DEF Windows

(* Accepting a schema keeps the invariant of its VM: it joins the current  *)
(* window if that has room, or starts one after all others are over.       *)
LEMMA AcceptKeeps ==
  ASSUME TypeOK, TypeOK', NEW v \in Vmids, VmInv(v), Accept(v)
  PROVE  VmInv(v)'
<1> DEFINE w == WindowOf(v)
           a == accepted[v]
           e == [time |-> now, start |-> w.start]
<1>1. w \in Windows /\ w.start <= now /\ now < w.start + Window /\ now \in Nat
  BY WindowType DEF VmInv, TypeOK
<1>2. a \in Seq(Entries) /\ Len(a) \in Nat
  BY DEF TypeOK
<1>3. e \in Entries /\ e.start = w.start /\ e.time = now
  BY <1>1 DEF Windows, Entries
<1>4. accepted'[v] = Append(a, e)
  BY DEF Accept, TypeOK
<1> HIDE DEF w, a, e
<1>5. /\ Len(accepted'[v]) = Len(a) + 1
      /\ \A i \in 1 .. Len(a) : accepted'[v][i] = a[i] /\ a[i] \in Entries
      /\ accepted'[v][Len(a) + 1] = e
  BY <1>2, <1>3, <1>4
<1>6. /\ schema_rate'[v] # NoWindow
      /\ schema_rate'[v].start = w.start
      /\ schema_rate'[v].count = w.count + 1
  BY CountedWindow DEF VmInv, Accept, w
<1>7. w.count + 1 <= Max /\ w.count \in Nat /\ w.start \in Nat
  BY <1>1 DEF Accept, w, Windows
<1>8. Used(v)' = w.count + 1
  BY <1>6, <1>7 DEF Used
<1>9. /\ w.count <= Len(a)
      /\ \A i \in 1 .. Len(a) :
           /\ i > Len(a) - w.count => a[i].start = w.start
           /\ i <= Len(a) - w.count => a[i].start + Window <= w.start
  <2>1. CASE schema_rate[v] = NoWindow
    <3>1. Len(a) = 0 /\ w.count = 0
      BY <2>1 DEF VmInv, Started, a, w, WindowOf, Fresh
    <3>2. QED BY <3>1
  <2>2. CASE schema_rate[v] # NoWindow /\ w = schema_rate[v]
    <3>1. Used(v) = w.count
      BY <2>2, <1>7 DEF Used
    <3>2. QED BY <2>2, <3>1 DEF VmInv, Current, a
  <2>3. CASE schema_rate[v] # NoWindow /\ w # schema_rate[v]
    <3>1. /\ w.count = 0 /\ w.start = now
          /\ schema_rate[v].start + Window <= now
          /\ schema_rate[v].start \in Nat /\ schema_rate[v].count \in Nat
      BY <2>3 DEF TypeOK, w, WindowOf, Fresh
    <3>2. \A i \in 1 .. Len(a) :
             a[i].start = schema_rate[v].start
             \/ a[i].start + Window <= schema_rate[v].start
      BY <2>3, <3>1, <1>2 DEF VmInv, Current, Used, a
    <3>3. \A i \in 1 .. Len(a) : a[i].start \in Nat
      BY <1>5 DEF Entries
    <3>4. ASSUME NEW i \in 1 .. Len(a)
          PROVE  a[i].start + Window <= now
      <4>1. a[i].start \in Nat
        BY <3>3
      <4>2. CASE a[i].start = schema_rate[v].start
        BY <4>2, <3>1
      <4>3. CASE a[i].start + Window <= schema_rate[v].start
        <5>1. schema_rate[v].start <= now
          BY <3>1, <1>1
        <5>2. QED BY <4>1, <4>3, <5>1, <3>1, <1>1
      <4>4. QED BY <4>2, <4>3, <3>2
    <3>5. QED BY <3>1, <3>4, <1>2
  <2>4. QED BY <2>1, <2>2, <2>3
<1>10. Started(v)'
  BY <1>1, <1>6 DEF Started, Accept
<1>11. Inside(v)'
  <2>1. \A i \in 1 .. Len(a) : /\ a[i].start <= a[i].time
                               /\ a[i].time < a[i].start + Window
    BY DEF VmInv, Inside, a
  <2>2. QED BY <1>1, <1>2, <1>3, <1>5, <2>1 DEF Inside
<1>12. Current(v)'
  <2>1. Used(v)' <= Len(accepted'[v])
    BY <1>2, <1>5, <1>7, <1>8, <1>9
  <2>2. Len(accepted'[v]) - Used(v)' = Len(a) - w.count
    BY <1>2, <1>5, <1>7, <1>8
  <2>3. ASSUME NEW i \in 1 .. Len(accepted'[v])
        PROVE  /\ i > Len(a) - w.count => accepted'[v][i].start = w.start
               /\ i <= Len(a) - w.count => accepted'[v][i].start + Window <= w.start
    <3>1. CASE i \in 1 .. Len(a)
      BY <3>1, <1>5, <1>9
    <3>2. CASE i = Len(a) + 1
      BY <3>2, <1>2, <1>3, <1>5, <1>7
    <3>3. QED BY <2>3, <3>1, <3>2, <1>2, <1>5
  <2>4. QED BY <2>1, <2>2, <2>3, <1>6 DEF Current
<1>13. Groups(v)'
  <2> SUFFICES ASSUME NEW i \in 1 .. (Len(a) + 1), i + Max <= Len(a) + 1
               PROVE  accepted'[v][i].start + Window <= accepted'[v][i + Max].start
    BY <1>5 DEF Groups
  <2>1. i \in 1 .. Len(a)
    BY <1>2
  <2>2. CASE i + Max <= Len(a)
    <3>1. i + Max \in 1 .. Len(a)
      BY <2>1, <2>2, <1>2
    <3>2. QED BY <2>1, <2>2, <3>1, <1>5 DEF VmInv, Groups, a
  <2>3. CASE i + Max = Len(a) + 1
    <3>1. i <= Len(a) - w.count
      BY <2>3, <1>2, <1>7
    <3>2. a[i].start + Window <= w.start
      BY <2>1, <3>1, <1>9
    <3>3. QED BY <2>1, <2>3, <3>2, <1>3, <1>5
  <2>4. QED BY <2>2, <2>3, <1>2
<1>14. QED BY <1>10, <1>11, <1>12, <1>13 DEF VmInv

(* So does dropping one: only a full window drops, and its count says so.  *)
LEMMA DropKeeps ==
  ASSUME TypeOK, TypeOK', NEW v \in Vmids, VmInv(v), Drop(v)
  PROVE  VmInv(v)'
<1>1. /\ schema_rate[v] # NoWindow
      /\ WindowOf(v) = schema_rate[v]
      /\ schema_rate[v].count \in Nat /\ schema_rate[v].count >= Max
  BY DEF Drop, WindowOf, Fresh, TypeOK
<1>2. /\ schema_rate'[v] # NoWindow
      /\ schema_rate'[v].start = schema_rate[v].start
      /\ schema_rate'[v].count = schema_rate[v].count + 1
  BY <1>1, CountedWindow DEF VmInv, Drop
<1>3. Used(v)' = Max /\ Used(v) = Max
  BY <1>1, <1>2 DEF Used
<1>4. accepted'[v] = accepted[v] /\ now' = now
  BY DEF Drop
<1>5. Started(v)'
  BY <1>1, <1>2, <1>4 DEF VmInv, Started
<1>6. QED BY <1>1, <1>2, <1>3, <1>4, <1>5 DEF VmInv, Inside, Current, Groups

LEMMA InvStep ==
  ASSUME IInv, [Next]_vars
  PROVE  IInv'
<1>1. TypeOK /\ \A v \in Vmids : VmInv(v) /\ Started(v)
  BY DEF IInv, VmInv
<1>2. TypeOK'
  BY <1>1, TypeStep
<1>3. ASSUME NEW v \in Vmids PROVE VmInv(v)'
  <2>1. CASE Tick
    BY <2>1, <1>1, <1>2, OtherVm DEF Tick, TypeOK
  <2>2. ASSUME NEW u \in Vmids, Accept(u) PROVE VmInv(v)'
    <3>1. CASE u = v
      BY <2>2, <3>1, <1>1, <1>2, AcceptKeeps
    <3>2. CASE u # v
      <4>1. schema_rate'[v] = schema_rate[v] /\ accepted'[v] = accepted[v]
        BY <2>2, <3>2 DEF Accept, Counted, TypeOK
      <4>2. now' = now /\ now \in Nat
        BY <2>2, <1>1 DEF Accept, TypeOK
      <4>3. QED BY <4>1, <4>2, <1>1, <1>2, OtherVm
    <3>3. QED BY <3>1, <3>2
  <2>3. ASSUME NEW u \in Vmids, Drop(u) PROVE VmInv(v)'
    <3>1. CASE u = v
      BY <2>3, <3>1, <1>1, <1>2, DropKeeps
    <3>2. CASE u # v
      <4>1. schema_rate'[v] = schema_rate[v] /\ accepted'[v] = accepted[v]
        BY <2>3, <3>2 DEF Drop, Counted, TypeOK
      <4>2. now' = now /\ now \in Nat
        BY <2>3, <1>1 DEF Drop, TypeOK
      <4>3. QED BY <4>1, <4>2, <1>1, <1>2, OtherVm
    <3>3. QED BY <3>1, <3>2
  <2>4. CASE UNCHANGED vars
    BY <2>4, <1>1, <1>2, OtherVm DEF vars, TypeOK
  <2>5. QED BY <2>1, <2>2, <2>3, <2>4 DEF Next
<1>4. QED BY <1>2, <1>3 DEF IInv

LEMMA InvInit == Init => IInv
<1> SUFFICES ASSUME Init PROVE IInv
  OBVIOUS
<1>1. TypeOK
  <2>1. << >> \in Seq(Entries)
    OBVIOUS
  <2>2. QED BY <2>1 DEF Init, TypeOK
<1>2. ASSUME NEW v \in Vmids PROVE VmInv(v)
  BY DEF Init, VmInv, Started, Inside, Current, Groups
<1>3. QED BY <1>1, <1>2 DEF IInv

(* The inductive invariant holds in every behaviour.                       *)
THEOREM Invariance == Spec => []IInv
BY InvInit, InvStep, PTL DEF Spec

(* Every variable of the limiter keeps its type.                           *)
THEOREM RateTypes == Spec => []TypeOK
<1>1. IInv => TypeOK
  BY DEF IInv
<1>2. QED BY <1>1, Invariance, PTL

(* In any interval as long as the window, apply_schema lets at most twice  *)
(* MAX_SCHEMA_UPDATES_PER_MINUTE schemas of a VM through.                  *)
THEOREM RateBound == Spec => []AtMostTwice
<1>1. IInv => AtMostTwice
  <2> SUFFICES ASSUME IInv, NEW v \in Vmids, NEW i \in DOMAIN accepted[v],
                      i + 2 * Max \in DOMAIN accepted[v]
               PROVE  accepted[v][i + 2 * Max].time - accepted[v][i].time >= Window
    BY DEF AtMostTwice, AtMost
  <2>1. /\ accepted[v] \in Seq(Entries)
        /\ DOMAIN accepted[v] = 1 .. Len(accepted[v])
        /\ Len(accepted[v]) \in Nat
    BY DEF IInv, TypeOK
  <2>2. i + Max \in DOMAIN accepted[v]
    BY <2>1
  <2>3. \A j \in DOMAIN accepted[v] :
           accepted[v][j].start \in Nat /\ accepted[v][j].time \in Nat
    <3>1. \A j \in DOMAIN accepted[v] : accepted[v][j] \in Entries
      BY <2>1
    <3>2. QED BY <3>1 DEF Entries
  <2>4. accepted[v][i].start + Window <= accepted[v][i + Max].start
    BY <2>1, <2>2 DEF IInv, VmInv, Groups
  <2>5. accepted[v][i + Max].start + Window <= accepted[v][i + 2 * Max].start
    <3>1. (i + Max) + Max = i + 2 * Max
      BY <2>1
    <3>2. QED BY <2>1, <2>2, <3>1 DEF IInv, VmInv, Groups
  <2>6. /\ accepted[v][i].time < accepted[v][i].start + Window
        /\ accepted[v][i + 2 * Max].start <= accepted[v][i + 2 * Max].time
    BY <2>1 DEF IInv, VmInv, Inside
  <2>7. QED BY <2>2, <2>3, <2>4, <2>5, <2>6
<1>2. QED BY <1>1, Invariance, PTL

(* apply_schema drops a schema only if it has accepted Max of the VM's     *)
(* schemas within the last window.                                         *)
THEOREM DropTheorem == Spec => DropIsJustified
<1>1. ASSUME IInv, [Next]_vars,
             NEW v \in Vmids, Drop(v)
      PROVE  /\ Len(accepted[v]) >= Max
             /\ now - accepted[v][Len(accepted[v]) - Max + 1].time < Window
  <2>1. /\ schema_rate[v] # NoWindow
        /\ WindowOf(v) = schema_rate[v]
        /\ schema_rate[v].count \in Nat /\ schema_rate[v].count >= Max
        /\ schema_rate[v].start \in Nat /\ now \in Nat
        /\ now < schema_rate[v].start + Window
    BY <1>1 DEF Drop, WindowOf, Fresh, IInv, TypeOK
  <2>2. accepted[v] \in Seq(Entries) /\ Len(accepted[v]) \in Nat
    BY <1>1 DEF IInv, TypeOK
  <2>3. Used(v) = Max
    BY <2>1 DEF Used
  <2>4. Max <= Len(accepted[v])
    BY <1>1, <2>1, <2>3 DEF IInv, VmInv, Current
  <2> DEFINE k == Len(accepted[v]) - Max + 1
  <2>5. k \in 1 .. Len(accepted[v]) /\ k > Len(accepted[v]) - Max
    BY <2>2, <2>4
  <2> HIDE DEF k
  <2>6. accepted[v][k].start = schema_rate[v].start
    BY <1>1, <2>1, <2>3, <2>5 DEF IInv, VmInv, Current
  <2>7. accepted[v][k].start <= accepted[v][k].time
    BY <1>1, <2>5 DEF IInv, VmInv, Inside
  <2>8. accepted[v][k] \in Entries
    BY <2>2, <2>5
  <2>9. now - accepted[v][k].time < Window
    BY <2>1, <2>6, <2>7, <2>8 DEF Entries
  <2>10. QED BY <2>2, <2>4, <2>9 DEF k
<1>2. IInv /\ [Next]_vars
        => [\A v \in Vmids : Drop(v) =>
              /\ Len(accepted[v]) >= Max
              /\ now - accepted[v][Len(accepted[v]) - Max + 1].time < Window]_vars
  BY <1>1
<1>3. QED BY <1>2, Invariance, PTL DEF Spec, DropIsJustified

(* The composition does nothing to the limiter but its steps, so that all  *)
(* of this holds in it too.                                                *)
THEOREM RateBehaves == PartsSpec => Spec
<1>1. PartsInit => Init
  BY DEF PartsInit
<1>2. [PartsNext]_partsVars => [Next]_vars
  BY DEF PartsNext, partsVars, RateRests
<1>3. QED BY <1>1, <1>2, PTL DEF PartsSpec, Spec
=============================================================================
