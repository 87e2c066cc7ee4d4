----------------------------- MODULE FileStore ------------------------------
(***************************************************************************)
(* How hostd saves its cache (save_persistent_cache of hostd/src/linux.rs) *)
(* and agent-linux its configuration (write_text of agent-linux/src/       *)
(* config_edit.rs): the new text goes to a temporary file, whose name is   *)
(* the same for every writer, and the temporary file is renamed.           *)
(*                                                                         *)
(* Names refer to inodes and open files to inodes, as in POSIX, so a       *)
(* writer can hold a file that another one has truncated or renamed.       *)
(***************************************************************************)
CONSTANTS
  Writers,  \* threads or processes that save the file
  Inodes,   \* the files there can be
  Empty,    \* a file that was truncated
  Torn,     \* a file with parts of two texts, or of one
  None      \* no inode

FileAssumption ==
  Empty # Torn /\ None \notin {Empty, Torn} /\ None \notin Inodes

VARIABLES
  path,     \* the inode of the file
  tmp,      \* the inode of the temporary file
  data,     \* what each inode holds
  fd,       \* the temporary file each writer has open
  busy,     \* the writers that have read what they will save
  alone,    \* of those, the ones no other writer has met
  mixed     \* two saves met, and no save alone has repaired it since

fileVars == << path, tmp, data, fd, busy, alone, mixed >>
names == << path, tmp >>

FileInit(p, contents) ==
  /\ path = p /\ tmp = None
  /\ data = [i \in Inodes |-> contents]
  /\ fd = [w \in Writers |-> None]
  /\ busy = {} /\ alone = {} /\ mixed = FALSE

File == IF path = None THEN None ELSE data[path]
Readable == File \notin {Empty, Torn}

Used == {path, tmp} \cup {fd[w] : w \in Writers}
NewInode == CHOOSE i \in Inodes : i \notin Used

(* From here on, what the writer saves can be out of date.                 *)
Begin(w) ==
  /\ busy' = busy \cup {w}
  /\ alone' = IF busy = {} THEN {w} ELSE {}
  /\ mixed' = (mixed \/ busy # {})

(* fs::write opens the temporary file, creating or truncating it ...       *)
OpenTmp(w) ==
  LET i == IF tmp = None THEN NewInode ELSE tmp
  IN /\ tmp = None => Inodes \ Used # {}
     /\ tmp' = i
     /\ data' = [data EXCEPT ![i] = Empty]
     /\ fd' = [fd EXCEPT ![w] = i]
     /\ UNCHANGED << path, busy, alone, mixed >>

(* ... and writes to the inode it opened, whatever its name is now.  Texts *)
(* of two lengths leave a mixture.                                         *)
WriteTmp(w, text) ==
  LET i == fd[w]
  IN /\ data' \in {[data EXCEPT ![i] = t] :
                     t \in IF data[i] = Empty THEN {text} ELSE {text, Torn}}
     /\ fd' = [fd EXCEPT ![w] = None]
     /\ UNCHANGED << names, busy, alone, mixed >>

Stop(w) ==
  /\ busy' = busy \ {w}
  /\ alone' = alone \ {w}

(* fs::write fails on the way: the disk is full.                           *)
WriteTmpFails(w) ==
  /\ data' = [data EXCEPT ![fd[w]] = Torn]
  /\ fd' = [fd EXCEPT ![w] = None]
  /\ Stop(w)
  /\ UNCHANGED << names, mixed >>

RenameTmp(w) ==
  /\ tmp # None
  /\ path' = tmp /\ tmp' = None
  /\ mixed' = (mixed /\ w \notin alone)
  /\ Stop(w)
  /\ UNCHANGED << data, fd >>

(* Another writer has renamed it already.                                  *)
RenameTmpFails(w) ==
  /\ tmp = None
  /\ Stop(w)
  /\ UNCHANGED << names, data, fd, mixed >>

(* Writers that die leave the files as they are.                           *)
Die(W) ==
  /\ fd' = [w \in Writers |-> IF w \in W THEN None ELSE fd[w]]
  /\ busy' = busy \ W
  /\ alone' = alone \ W
  /\ UNCHANGED << names, data, mixed >>
=============================================================================
