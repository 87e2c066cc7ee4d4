--------------------------- MODULE CacheFileProofs ---------------------------
(***************************************************************************)
(* Proofs about CacheFile, for any number of threads, changes and files:   *)
(* hostd's cache file is whole, and current when nobody saves it, unless   *)
(* two saves met.                                                          *)
(***************************************************************************)
EXTENDS CacheFile, TLAPS

(* A writer that is alone is the only one, and without a mixture every     *)
(* writer is.                                                              *)
Alone ==
  /\ \A w \in alone : busy = {w}
  /\ ~mixed => alone = busy

(* The temporary file and the file are never one inode.                    *)
Apart == tmp # None => tmp # path

(* A writer that is alone has the temporary file to itself: truncated once *)
(* it is open, and holding its snapshot once it is written.                *)
Exclusive ==
  \A w \in alone :
    /\ pc[w] \in {"write", "rename"} => tmp # None
    /\ pc[w] = "write" => fd[w] = tmp /\ data[tmp] = Empty
    /\ pc[w] = "rename" => data[tmp] = snap[w]

(* Its snapshot is the last state, or another thread is about to save.     *)
Latest ==
  \A w \in alone : snap[w] = state \/ \E u \in Writers : pc[u] = "snapshot"

(* While hostd is down nobody saves.                                       *)
Down == hostd # "up" => \A w \in Writers : pc[w] = "off"

IInv == TypeOK /\ Down /\ Alone /\ Apart /\ Exclusive /\ Latest /\ FileIsWhole /\ FileIsCurrent

-----------------------------------------------------------------------------
LEMMA InitInv ==
  ASSUME VersionAssumption, Init
  PROVE  IInv
<1>1. TypeOK
  <2>1. pc = [w \in Writers |-> "idle"] /\ fd = [w \in Writers |-> None] /\ busy = {}
    BY DEF Init, FileInit, Idle
  <2>2. \A w \in Writers : pc[w] = "idle" /\ fd[w] = None
    BY <2>1
  <2>3. busy = {w \in Writers : pc[w] \in {"open", "write", "rename"}}
    BY <2>1, <2>2
  <2>4. data \in [Inodes -> (0..MaxVersion) \cup {Empty, Torn}]
    BY DEF Init, FileInit
  <2>5. state \in 0..MaxVersion /\ snap \in [Writers -> 0..MaxVersion]
    BY DEF VersionAssumption, Init
  <2>6. path \in Inodes \cup {None} /\ tmp \in Inodes \cup {None}
    BY DEF Init, FileInit
  <2>7. alone = {} /\ mixed = FALSE /\ hostd = "up" /\ unsaved = FALSE
    BY DEF Init, FileInit
  <2> QED BY <2>1, <2>2, <2>3, <2>4, <2>5, <2>6, <2>7 DEF TypeOK
<1>2. Down /\ Alone /\ Apart /\ Exclusive /\ Latest
  BY DEF Init, Down, FileInit, Alone, Apart, Exclusive, Latest
<1>3. FileIsWhole /\ FileIsCurrent
  BY DEF VersionAssumption, FileAssumption, Init, FileInit, FileIsWhole,
         FileIsCurrent, Readable, File
<1> QED BY <1>1, <1>2, <1>3 DEF IInv

(* A thread that saves runs, and goes on running.                          *)
LEMMA DownInv ==
  ASSUME IInv, NEW w \in Writers,
         Change(w) \/ Snapshot(w) \/ Open(w) \/ Write(w) \/ Rename(w)
  PROVE  Down'
<1>1. pc[w] # "off" /\ UNCHANGED hostd
  BY DEF Change, Snapshot, Open, Write, Rename
<1>2. hostd = "up"
  BY <1>1 DEF IInv, Down
<1> QED BY <1>1, <1>2 DEF Down

(* A change of the runtime touches no file; it makes its thread the one    *)
(* that is about to save.                                                  *)
LEMMA ChangeInv ==
  ASSUME VersionAssumption, IInv, NEW w \in Writers, Change(w)
  PROVE  IInv'
<1>0. Down'
  BY DownInv
<1> USE DEF IInv, Change, Goto, fileVars
<1>1. TypeOK'
  BY DEF TypeOK, VersionAssumption
<1>2. Alone' /\ Apart'
  BY DEF Alone, Apart
<1>3. w \notin busy
  BY DEF TypeOK
<1>4. Exclusive'
  BY <1>3 DEF Exclusive, TypeOK
<1>5. Latest'
  <2>1. pc'[w] = "snapshot"
    BY DEF TypeOK
  <2> QED BY <2>1 DEF Latest
<1>6. FileIsWhole'
  BY DEF FileIsWhole, Readable, File
<1>7. FileIsCurrent'
  <2>1. pc'[w] # "idle"
    BY DEF TypeOK
  <2> QED BY <2>1 DEF FileIsCurrent
<1> QED BY <1>0, <1>1, <1>2, <1>4, <1>5, <1>6, <1>7

(* Reading the state makes the thread alone, or nobody.                    *)
LEMMA SnapshotInv ==
  ASSUME VersionAssumption, IInv, NEW w \in Writers, Snapshot(w)
  PROVE  IInv'
<1>0. Down'
  BY DownInv
<1> USE DEF IInv, Snapshot, Begin, Goto
<1>1. TypeOK'
  BY DEF TypeOK
<1>2. Alone' /\ Apart'
  BY DEF Alone, Apart
<1>3. pc'[w] = "open" /\ snap'[w] = state'
  BY DEF TypeOK
<1>4. Exclusive' /\ Latest'
  BY <1>3 DEF Exclusive, Latest
<1>5. FileIsWhole'
  BY DEF FileIsWhole, Readable, File
<1>6. FileIsCurrent'
  BY <1>3 DEF FileIsCurrent
<1> QED BY <1>0, <1>1, <1>2, <1>4, <1>5, <1>6

(* Opening truncates an inode that is not the file.                        *)
LEMMA OpenInv ==
  ASSUME VersionAssumption, IInv, NEW w \in Writers, Open(w)
  PROVE  IInv'
<1>0. Down'
  BY DownInv
<1> DEFINE i == IF tmp = None THEN NewInode ELSE tmp
<1>1. i \in Inodes /\ i # path /\ i # None
  <2>1. CASE tmp = None
    <3>1. \E j \in Inodes : j \notin Used
      BY <2>1 DEF Open, OpenTmp
    <3>2. NewInode \in Inodes /\ NewInode \notin Used
      BY <3>1 DEF NewInode
    <3> QED BY <2>1, <3>2 DEF Used, VersionAssumption, FileAssumption
  <2>2. CASE tmp # None
    BY <2>2 DEF IInv, TypeOK, Apart
  <2> QED BY <2>1, <2>2
<1>2. /\ tmp' = i /\ data' = [data EXCEPT ![i] = Empty] /\ fd' = [fd EXCEPT ![w] = i]
      /\ pc' = [pc EXCEPT ![w] = "write"] /\ pc[w] = "open"
      /\ UNCHANGED << path, busy, alone, mixed, state, snap, hostd, unsaved >>
  BY DEF Open, OpenTmp, Goto
<1> HIDE DEF i
<1>3. TypeOK'
  BY <1>1, <1>2 DEF IInv, TypeOK
<1>4. Alone' /\ Apart'
  BY <1>1, <1>2 DEF IInv, Alone, Apart
<1>5. w \in busy /\ pc'[w] = "write" /\ fd'[w] = i /\ data'[i] = Empty
  BY <1>1, <1>2 DEF IInv, TypeOK
<1>6. Exclusive'
  BY <1>1, <1>2, <1>5 DEF IInv, Exclusive, Alone
<1>7. Latest'
  BY <1>2 DEF IInv, Latest, TypeOK
<1>8. FileIsWhole'
  BY <1>1, <1>2 DEF IInv, FileIsWhole, Readable, File, TypeOK
<1>9. FileIsCurrent'
  BY <1>5 DEF FileIsCurrent
<1> QED BY <1>0, <1>3, <1>4, <1>6, <1>7, <1>8, <1>9 DEF IInv

-----------------------------------------------------------------------------
(* A writer that holds the file open holds, when nothing is mixed, the     *)
(* temporary file; so writing, or failing to, leaves the file alone.       *)
LEMMA WriteInv ==
  ASSUME VersionAssumption, IInv, NEW w \in Writers, Write(w)
  PROVE  IInv'
<1>0. Down'
  BY DownInv
<1> DEFINE i == fd[w]
<1>1. i \in Inodes /\ w \in busy /\ pc[w] = "write"
  BY DEF IInv, TypeOK, Write
<1>2. w \in alone => i = tmp /\ data[i] = Empty /\ i # path
  BY <1>1 DEF IInv, Exclusive, Apart, TypeOK
<1>3. ~mixed => w \in alone
  BY <1>1 DEF IInv, Alone
<1>4. CASE WriteTmp(w, snap[w]) /\ Goto(w, "rename") /\ UNCHANGED << unsaved, state, snap, hostd >>
  <2>1. PICK t \in {snap[w], Torn} :
          /\ data' = [data EXCEPT ![i] = t]
          /\ data[i] = Empty => t = snap[w]
    BY <1>4 DEF WriteTmp
  <2>2. /\ fd' = [fd EXCEPT ![w] = None] /\ pc' = [pc EXCEPT ![w] = "rename"]
        /\ UNCHANGED << path, tmp, busy, alone, mixed, state, snap, hostd, unsaved >>
    BY <1>4 DEF WriteTmp, Goto, names
  <2> HIDE DEF i
  <2>3. TypeOK'
    BY <1>1, <2>1, <2>2 DEF IInv, TypeOK
  <2>4. Alone' /\ Apart'
    BY <2>2 DEF IInv, Alone, Apart
  <2>5. pc'[w] = "rename" /\ data'[i] = t
    BY <1>1, <2>1, <2>2 DEF IInv, TypeOK
  <2>6. Exclusive'
    <3> SUFFICES ASSUME NEW u \in alone
                 PROVE  /\ pc'[u] \in {"write", "rename"} => tmp' # None
                        /\ pc'[u] = "write" => fd'[u] = tmp' /\ data'[tmp'] = Empty
                        /\ pc'[u] = "rename" => data'[tmp'] = snap'[u]
      BY <2>2 DEF Exclusive
    <3>1. u = w
      BY <1>1 DEF IInv, Alone
    <3>2. tmp # None
      BY <1>1, <3>1 DEF IInv, Exclusive
    <3> QED BY <1>2, <2>1, <2>2, <2>5, <3>1, <3>2
  <2>7. Latest'
    BY <2>2, <1>1 DEF IInv, Latest, TypeOK
  <2>8. FileIsWhole'
    BY <1>2, <1>3, <2>1, <2>2 DEF IInv, FileIsWhole, Readable, File, TypeOK
  <2>9. FileIsCurrent'
    BY <2>5 DEF FileIsCurrent
  <2> QED BY <1>0, <2>3, <2>4, <2>6, <2>7, <2>8, <2>9 DEF IInv
<1>5. CASE WriteTmpFails(w) /\ Goto(w, "idle") /\ unsaved' = TRUE /\ UNCHANGED << state, snap, hostd >>
  <2>1. /\ data' = [data EXCEPT ![i] = Torn] /\ fd' = [fd EXCEPT ![w] = None]
        /\ pc' = [pc EXCEPT ![w] = "idle"]
        /\ busy' = busy \ {w} /\ alone' = alone \ {w} /\ unsaved' = TRUE
        /\ UNCHANGED << path, tmp, mixed, state, snap, hostd >>
    BY <1>5 DEF WriteTmpFails, Stop, Goto, names
  <2> HIDE DEF i
  <2>2. TypeOK'
    BY <1>1, <2>1 DEF IInv, TypeOK
  <2>3. Alone' /\ Apart'
    BY <2>1 DEF IInv, Alone, Apart
  <2>4. alone' = {}
    BY <1>1, <2>1 DEF IInv, Alone, TypeOK
  <2>5. Exclusive' /\ Latest'
    BY <2>4 DEF Exclusive, Latest
  <2>6. FileIsWhole'
    BY <1>2, <1>3, <2>1 DEF IInv, FileIsWhole, Readable, File, TypeOK
  <2>7. FileIsCurrent'
    BY <2>1 DEF FileIsCurrent
  <2> QED BY <1>0, <2>2, <2>3, <2>5, <2>6, <2>7 DEF IInv
<1> QED BY <1>4, <1>5 DEF Write

(* The rename of a writer that is alone puts its snapshot in place, and    *)
(* without a mixture no other writer renames.                              *)
LEMMA RenameInv ==
  ASSUME VersionAssumption, IInv, NEW w \in Writers, Rename(w)
  PROVE  IInv'
<1>0. Down'
  BY DownInv
<1>1. w \in busy /\ pc[w] = "rename"
  BY DEF IInv, TypeOK, Rename
<1>2. /\ pc' = [pc EXCEPT ![w] = "idle"] /\ busy' = busy \ {w} /\ alone' = alone \ {w}
      /\ UNCHANGED << data, fd, state, snap, hostd >>
  BY DEF Rename, RenameTmp, RenameTmpFails, Stop, Goto, names
<1>3. alone' = {}
  BY <1>1, <1>2 DEF IInv, Alone, TypeOK
<1>4. Exclusive' /\ Latest'
  BY <1>3 DEF Exclusive, Latest
<1>5. CASE RenameTmp(w) /\ unsaved' = (unsaved /\ w \notin alone)
  <2>1. tmp # None /\ path' = tmp /\ tmp' = None /\ mixed' = (mixed /\ w \notin alone)
    BY <1>5 DEF RenameTmp
  <2>2. ~mixed' => w \in alone
    BY <1>1, <2>1 DEF IInv, Alone, TypeOK
  <2>3. TypeOK'
    BY <1>1, <1>2, <1>5, <2>1 DEF IInv, TypeOK
  <2>4. Alone' /\ Apart'
    BY <1>1, <1>2, <1>3, <2>1, <2>2 DEF IInv, Alone, Apart
  <2>5. ~mixed' => File' = snap[w] /\ snap[w] \in 0..MaxVersion
    BY <1>1, <1>2, <2>1, <2>2
    DEF IInv, Exclusive, File, TypeOK, VersionAssumption, FileAssumption
  <2>6. FileIsWhole'
    BY <2>5 DEF FileIsWhole, Readable, VersionAssumption
  <2>7. (\A u \in Writers : pc'[u] = "idle") /\ ~mixed' => snap[w] = state
    <3>1. \A u \in Writers : pc'[u] = "idle" => pc[u] # "snapshot"
      BY <1>1, <1>2 DEF IInv, TypeOK
    <3> QED BY <2>2, <3>1 DEF IInv, Latest
  <2>8. FileIsCurrent'
    BY <1>2, <2>1, <2>5, <2>7 DEF FileIsCurrent, File, VersionAssumption
  <2> QED BY <1>0, <1>4, <2>3, <2>4, <2>6, <2>8 DEF IInv
<1>6. CASE RenameTmpFails(w) /\ unsaved' = TRUE
  <2>1. UNCHANGED << path, tmp, mixed >>
    BY <1>6 DEF RenameTmpFails, names
  <2>2. TypeOK'
    BY <1>1, <1>2, <1>6, <2>1 DEF IInv, TypeOK
  <2>3. Alone' /\ Apart'
    BY <1>2, <2>1 DEF IInv, Alone, Apart
  <2>4. FileIsWhole' /\ FileIsCurrent'
    BY <1>2, <1>6, <2>1 DEF IInv, FileIsWhole, FileIsCurrent, Readable, File
  <2> QED BY <1>0, <1>4, <2>2, <2>3, <2>4 DEF IInv
<1> QED BY <1>5, <1>6 DEF Rename

-----------------------------------------------------------------------------
(* Hostd dies: the files stay, and nobody saves.                           *)
LEMMA CrashInv ==
  ASSUME VersionAssumption, IInv, Crash
  PROVE  IInv'
<1>1. /\ fd' = [w \in Writers |-> None] /\ busy' = busy \ Writers /\ alone' = alone \ Writers
      /\ pc' = [w \in Writers |-> "off"] /\ hostd' = "down"
      /\ UNCHANGED << path, tmp, data, mixed, state, snap, unsaved >>
  BY DEF Crash, Die, names
<1>2. busy' = {} /\ alone' = {}
  BY <1>1 DEF IInv, TypeOK
<1>3. TypeOK'
  BY <1>1, <1>2 DEF IInv, TypeOK
<1>4. Down' /\ Alone' /\ Apart' /\ Exclusive' /\ Latest'
  BY <1>1, <1>2 DEF Down, IInv, Alone, Apart, Exclusive, Latest
<1>5. FileIsWhole'
  BY <1>1 DEF IInv, FileIsWhole, Readable, File
<1>6. FileIsCurrent'
  <2>1. CASE Writers = {}
    BY <1>1, <2>1 DEF IInv, FileIsCurrent, File
  <2>2. CASE Writers # {}
    BY <1>1, <2>2 DEF FileIsCurrent
  <2> QED BY <2>1, <2>2
<1> QED BY <1>3, <1>4, <1>5, <1>6 DEF IInv

(* A start changes no file, and takes over what the file holds.            *)
LEMMA StartInv ==
  ASSUME VersionAssumption, IInv, Start
  PROVE  IInv'
<1>1. (\A w \in Writers : pc[w] = "off") /\ busy = {} /\ alone = {}
  BY DEF Start, IInv, Down, TypeOK
<1>2. UNCHANGED << fileVars, snap >> /\ hostd' \in {"up", "failed"}
  BY DEF Start
<1>3. File' = File /\ Readable' = Readable /\ alone' = {}
  BY <1>1, <1>2 DEF fileVars, File, Readable
<1>4. Alone' /\ Apart' /\ Exclusive' /\ Latest' /\ FileIsWhole'
  BY <1>1, <1>2, <1>3 DEF IInv, Alone, Apart, Exclusive, Latest, FileIsWhole, fileVars
<1>5. CASE ~Readable
  <2>1. UNCHANGED << state, pc, unsaved >>
    BY <1>5 DEF Start
  <2>2. TypeOK' /\ Down'
    BY <1>1, <1>2, <2>1 DEF IInv, TypeOK, Down, fileVars
  <2>3. FileIsCurrent'
    BY <1>2, <1>3, <2>1 DEF IInv, FileIsCurrent, fileVars
  <2> QED BY <1>4, <2>2, <2>3 DEF IInv
<1>6. CASE Readable
  <2>1. /\ state' = (IF File = None THEN 0 ELSE File) /\ pc' = Idle
        /\ unsaved' = FALSE /\ hostd' = "up"
    BY <1>6 DEF Start
  <2>2. state' \in 0..MaxVersion
    BY <1>6, <2>1 DEF IInv, TypeOK, Readable, File, VersionAssumption
  <2>3. \A w \in Writers : pc'[w] = "idle"
    BY <2>1 DEF Idle
  <2>4. TypeOK' /\ Down'
    BY <1>1, <1>2, <2>1, <2>2, <2>3 DEF IInv, TypeOK, Down, fileVars, Idle
  <2>5. FileIsCurrent'
    BY <1>3, <2>1 DEF FileIsCurrent
  <2> QED BY <1>4, <2>4, <2>5 DEF IInv
<1> QED BY <1>5, <1>6

LEMMA StutterInv ==
  ASSUME IInv, UNCHANGED vars
  PROVE  IInv'
BY DEF IInv, vars, fileVars, TypeOK, Down, Alone, Apart, Exclusive, Latest,
       FileIsWhole, FileIsCurrent, Readable, File

-----------------------------------------------------------------------------
LEMMA NextInv ==
  ASSUME VersionAssumption, IInv, [Next]_vars
  PROVE  IInv'
<1>1. ASSUME NEW w \in Writers, Change(w) PROVE IInv'
  BY <1>1, ChangeInv
<1>2. ASSUME NEW w \in Writers, Snapshot(w) PROVE IInv'
  BY <1>2, SnapshotInv
<1>3. ASSUME NEW w \in Writers, Open(w) PROVE IInv'
  BY <1>3, OpenInv
<1>4. ASSUME NEW w \in Writers, Write(w) PROVE IInv'
  BY <1>4, WriteInv
<1>5. ASSUME NEW w \in Writers, Rename(w) PROVE IInv'
  BY <1>5, RenameInv
<1>6. CASE Crash
  BY <1>6, CrashInv
<1>7. CASE Start
  BY <1>7, StartInv
<1>8. CASE UNCHANGED vars
  BY <1>8, StutterInv
<1> QED BY <1>1, <1>2, <1>3, <1>4, <1>5, <1>6, <1>7, <1>8 DEF Next

(* The invariant, for any number of threads, changes and files.            *)
LEMMA Invariance ==
  ASSUME VersionAssumption
  PROVE  Spec => []IInv
<1>1. Init => IInv
  BY InitInv
<1>2. IInv /\ [Next]_vars => IInv'
  BY NextInv
<1> QED BY <1>1, <1>2, PTL DEF Spec

(* Every variable has its type, and a thread has the temporary file open   *)
(* exactly between opening and writing it.                                 *)
THEOREM TypeCorrect ==
  ASSUME VersionAssumption
  PROVE  Spec => []TypeOK
<1>1. IInv => TypeOK
  BY DEF IInv
<1> QED BY <1>1, Invariance, PTL

(* However often hostd dies in save_persistent_cache, and whatever the disk *)
(* does, its next start finds a whole cache, unless two saves met.         *)
THEOREM WholeFile ==
  ASSUME VersionAssumption
  PROVE  Spec => []FileIsWhole
<1>1. IInv => FileIsWhole
  BY DEF IInv
<1> QED BY <1>1, Invariance, PTL

(* When no thread is in a save the cache holds the last state, unless two  *)
(* saves met or the last one failed.                                       *)
THEOREM CurrentFile ==
  ASSUME VersionAssumption
  PROVE  Spec => []FileIsCurrent
<1>1. IInv => FileIsCurrent
  BY DEF IInv
<1> QED BY <1>1, Invariance, PTL
=============================================================================
