----------------------------- MODULE CacheFile ------------------------------
(***************************************************************************)
(* hostd's persistent cache as a file (hostd/src/linux.rs): threads that   *)
(* changed the runtime save it, hostd dies at any point, and its next      *)
(* start reads what the file holds.  Hostd has the snapshot and the write  *)
(* of a save as two steps; here writing and renaming are apart as well.    *)
(*                                                                         *)
(* The state is the number of its last change; a saved text is the state   *)
(* it was taken from.                                                      *)
(***************************************************************************)
EXTENDS Naturals, FileStore

CONSTANT MaxVersion   \* bound on the changes of the state

VersionAssumption ==
  /\ FileAssumption
  /\ MaxVersion \in Nat /\ {Empty, Torn, None} \cap (0..MaxVersion) = {}

VARIABLES
  state,    \* the number of the state's last change
  pc,       \* what each thread is about to do
  snap,     \* the state each thread saves
  hostd,    \* "up", "down", or "failed": it does not start
  unsaved   \* the last save failed, or hostd died before it was done

vars == << fileVars, state, pc, snap, hostd, unsaved >>

Idle == [w \in Writers |-> "idle"]

Init ==
  /\ FileInit(None, Empty)
  /\ state = 0 /\ hostd = "up" /\ unsaved = FALSE
  /\ pc = Idle
  /\ snap = [w \in Writers |-> 0]

Goto(w, label) == pc' = [pc EXCEPT ![w] = label]

(* Mutant: a change of the persistent sensors that does not save.          *)
ChangeOnly(w) ==
  /\ pc[w] = "idle" /\ state < MaxVersion
  /\ state' = state + 1
  /\ UNCHANGED << fileVars, pc, snap, hostd, unsaved >>

(* A handler or the main thread changes the runtime under its lock and     *)
(* lets the lock go.                                                       *)
Change(w) ==
  /\ pc[w] = "idle" /\ state < MaxVersion
  /\ state' = state + 1
  /\ Goto(w, "snapshot")
  /\ UNCHANGED << fileVars, snap, hostd, unsaved >>

(* save_persistent_cache, one action per call it makes.                    *)
Snapshot(w) ==
  /\ pc[w] = "snapshot"
  /\ snap' = [snap EXCEPT ![w] = state]
  /\ Begin(w)
  /\ Goto(w, "open")
  /\ UNCHANGED << path, tmp, data, fd, state, hostd, unsaved >>

(* Mutant: the file itself is opened and truncated.                        *)
OpenInPlace(w) ==
  /\ pc[w] = "open"
  /\ IF path = None THEN OpenTmp(w)
     ELSE /\ data' = [data EXCEPT ![path] = Empty]
          /\ fd' = [fd EXCEPT ![w] = path]
          /\ UNCHANGED << names, busy, alone, mixed >>
  /\ Goto(w, "write")
  /\ UNCHANGED << state, snap, hostd, unsaved >>

Open(w) ==
  /\ pc[w] = "open"
  /\ OpenTmp(w)
  /\ Goto(w, "write")
  /\ UNCHANGED << state, snap, hostd, unsaved >>

Write(w) ==
  /\ pc[w] = "write"
  /\ \/ WriteTmp(w, snap[w]) /\ Goto(w, "rename") /\ UNCHANGED unsaved
     \/ WriteTmpFails(w) /\ Goto(w, "idle") /\ unsaved' = TRUE
  /\ UNCHANGED << state, snap, hostd >>

Rename(w) ==
  /\ pc[w] = "rename"
  /\ \/ RenameTmp(w) /\ unsaved' = (unsaved /\ w \notin alone)
     \/ RenameTmpFails(w) /\ unsaved' = TRUE
  /\ Goto(w, "idle")
  /\ UNCHANGED << state, snap, hostd >>

Crash ==
  /\ hostd = "up"
  /\ hostd' = "down"
  /\ Die(Writers)
  /\ pc' = [w \in Writers |-> "off"]
  /\ UNCHANGED << state, snap, unsaved >>

(* run: a file that does not parse ends hostd before it serves anyone.     *)
Start ==
  /\ hostd # "up"
  /\ hostd' = IF Readable THEN "up" ELSE "failed"
  /\ IF Readable
     THEN /\ state' = (IF File = None THEN 0 ELSE File)
          /\ pc' = Idle /\ unsaved' = FALSE
     ELSE UNCHANGED << state, pc, unsaved >>
  /\ UNCHANGED << fileVars, snap >>

Next ==
  \/ \E w \in Writers :
       Change(w) \/ Snapshot(w) \/ Open(w) \/ Write(w) \/ Rename(w)
  \/ Crash \/ Start

Spec == Init /\ [][Next]_vars

-----------------------------------------------------------------------------
(* Properties                                                              *)

(* Every variable has its type, and a thread has the temporary file open   *)
(* exactly between opening and writing it.                                 *)
TypeOK ==
  /\ path \in Inodes \cup {None} /\ tmp \in Inodes \cup {None}
  /\ data \in [Inodes -> (0..MaxVersion) \cup {Empty, Torn}]
  /\ fd \in [Writers -> Inodes \cup {None}]
  /\ alone \subseteq busy /\ busy \subseteq Writers /\ mixed \in BOOLEAN
  /\ state \in 0..MaxVersion
  /\ snap \in [Writers -> 0..MaxVersion]
  /\ pc \in [Writers -> {"off", "idle", "snapshot", "open", "write", "rename"}]
  /\ hostd \in {"up", "down", "failed"} /\ unsaved \in BOOLEAN
  /\ \A w \in Writers : fd[w] # None <=> pc[w] = "write"
  /\ busy = {w \in Writers : pc[w] \in {"open", "write", "rename"}}

(* The rename keeps a whole file under its name at every instant: hostd    *)
(* dies wherever it may, with a full disk and an old temporary file, and   *)
(* its next start can read the cache.  Only two saves that met, which      *)
(* share the temporary file, can break it, and only until the next save.   *)
FileIsWhole == ~mixed => Readable

(* When no save is under way the file holds the last state, however the    *)
(* changes and saves of the threads interleaved, unless saves met or the   *)
(* last one failed: a late rename cannot bring an old state back.          *)
FileIsCurrent ==
  (\A w \in Writers : pc[w] = "idle") /\ ~mixed /\ ~unsaved =>
    (IF File = None THEN 0 ELSE File) = state
=============================================================================
