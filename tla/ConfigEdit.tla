----------------------------- MODULE ConfigEdit -----------------------------
(***************************************************************************)
(* "agent-linux config": commands that edit agent.toml                     *)
(* (agent-linux/src/cli.rs, config_edit.rs, config.rs), run by several     *)
(* administrators at once, next to an editor that writes what it likes.    *)
(*                                                                         *)
(* A configuration is a number per table, of which only the sign matters   *)
(* to validation, and the list of persistent sensors.  The length of the   *)
(* text is that of the list, the part that grows.                          *)
(***************************************************************************)
EXTENDS Integers, Sequences, SequencesExt, FileStore

CONSTANTS
  Tables,      \* tables with a setting in seconds
  Ids,         \* ids of persistent sensors
  Seconds,     \* what can be typed for a setting
  MaxI64,      \* i64::MAX, scaled
  HandWritten, \* what an editor can leave in the file
  MaxSensors,  \* how many sensors fit into MAX_CONFIG_BYTES
  MaxCommands  \* bound on the commands run

Documents == [seconds : [Tables -> Int], sensors : Seq(Ids)]

ConfigAssumption ==
  /\ FileAssumption /\ Seconds \subseteq Nat /\ MaxI64 \in Nat /\ MaxCommands \in Nat
  /\ MaxSensors \in Nat
  /\ HandWritten \subseteq Documents /\ {Empty, Torn, None} \cap Documents = {}

VARIABLES
  command,     \* the command each administrator runs, and where it is
  expected,    \* the file if commands had run one after the other
  commands     \* how many commands and editors have run

vars == << fileVars, command, expected, commands >>

Idle == [pc |-> "idle"]
Default == [seconds |-> [t \in Tables |-> 1], sensors |-> << >>]

Init ==
  /\ FileInit(None, Empty)
  /\ command = [w \in Writers |-> Idle]
  /\ expected = Default /\ commands = 0

-----------------------------------------------------------------------------
(* Documents                                                               *)

(* A missing file stands for the defaults, and so does an empty one.       *)
Document(file) == IF file \in {None, Empty} THEN Default ELSE file

validate_config(doc) ==
  /\ \A t \in Tables : doc.seconds[t] > 0
  /\ IsInjective(doc.sensors)

(* The cast of a u64 to i64.                                               *)
AsI64(n) == IF n > MaxI64 THEN n - 2 * (MaxI64 + 1) ELSE n

(* The first sensor with the id goes.                                      *)
Without(sensors, id) == RemoveFirst(sensors, id)

Edits ==
  [op : {"set"}, table : Tables, seconds : Seconds]
    \cup [op : {"add", "remove"}, id : Ids]

Edited(doc, e) ==
  CASE e.op = "set" -> [doc EXCEPT !.seconds[e.table] = AsI64(e.seconds)]
    [] e.op = "add" -> [doc EXCEPT !.sensors = Append(Without(@, e.id), e.id)]
    [] e.op = "remove" -> [doc EXCEPT !.sensors = Without(@, e.id)]

(* The command line refuses 0 before anything is read.                     *)
Parses(e) == e.op = "set" => e.seconds > 0

-----------------------------------------------------------------------------
(* Commands                                                                *)

Start ==
  /\ commands < MaxCommands
  /\ commands' = commands + 1

Goto(w, label) == command' = [command EXCEPT ![w].pc = label]
Return(w) == command' = [command EXCEPT ![w] = Idle]

(* Mutant: the document is written without being validated.                *)
EditUnchecked(w, e) ==
  LET doc == Edited(Document(File), e)
  IN /\ command[w] = Idle /\ Parses(e) /\ Start
     /\ File # Torn
     /\ command' = [command EXCEPT ![w] = [pc |-> "open", edit |-> e, text |-> doc]]
     /\ Begin(w)
     /\ UNCHANGED << path, tmp, data, fd, expected >>

(* read_doc, the edit, and validation by write_doc, all in memory.  A file *)
(* that does not parse, or a result that is not valid, ends the command.   *)
Edit(w, e) ==
  LET doc == Edited(Document(File), e)
  IN /\ command[w] = Idle /\ Parses(e) /\ Start
     /\ File # Torn /\ validate_config(doc)
     /\ command' = [command EXCEPT ![w] = [pc |-> "open", edit |-> e, text |-> doc]]
     /\ Begin(w)
     /\ UNCHANGED << path, tmp, data, fd, expected >>

(* "config init": refused when the file is there, unless forced.           *)
InitConfig(w, force) ==
  /\ command[w] = Idle /\ Start
  /\ path = None \/ force
  /\ command' =
       [command EXCEPT ![w] = [pc |-> "open", edit |-> [op |-> "init"], text |-> Default]]
  /\ Begin(w)
  /\ UNCHANGED << path, tmp, data, fd, expected >>

(* Mutant: the file itself is opened and truncated.                        *)
OpenInPlace(w) ==
  /\ command[w].pc = "open"
  /\ IF path = None THEN OpenTmp(w)
     ELSE /\ data' = [data EXCEPT ![path] = Empty]
          /\ fd' = [fd EXCEPT ![w] = path]
          /\ UNCHANGED << names, busy, alone, mixed >>
  /\ Goto(w, "write")
  /\ UNCHANGED << expected, commands >>

Open(w) ==
  /\ command[w].pc = "open"
  /\ OpenTmp(w)
  /\ Goto(w, "write")
  /\ UNCHANGED << expected, commands >>

Write(w) ==
  /\ command[w].pc = "write"
  /\ \/ WriteTmp(w, command[w].text) /\ Goto(w, "rename")
     \/ WriteTmpFails(w) /\ Return(w)
  /\ UNCHANGED << expected, commands >>

(* "updated": the command is done.  A command that ran alone repairs what  *)
(* commands that met have left.                                            *)
Rename(w) ==
  /\ command[w].pc = "rename"
  /\ \/ /\ RenameTmp(w)
        /\ expected' = IF mixed \/ command[w].edit.op = "init" THEN command[w].text
                       ELSE Edited(expected, command[w].edit)
     \/ RenameTmpFails(w) /\ UNCHANGED expected
  /\ Return(w)
  /\ UNCHANGED commands

(* The process is killed.                                                  *)
Killed(w) ==
  /\ command[w] # Idle
  /\ Die({w}) /\ Return(w)
  /\ UNCHANGED << expected, commands >>

(* An editor replaces the file while no command runs, by another one.      *)
HandEdit(text) ==
  /\ \A w \in Writers : command[w] = Idle
  /\ Start /\ Inodes \ Used # {}
  /\ path' = NewInode
  /\ data' = [data EXCEPT ![NewInode] = text]
  /\ expected' = text /\ mixed' = FALSE
  /\ UNCHANGED << tmp, fd, busy, alone, command >>

Next ==
  \/ \E w \in Writers :
       \/ \E e \in Edits : Edit(w, e)
       \/ \E force \in BOOLEAN : InitConfig(w, force)
       \/ Open(w) \/ Write(w) \/ Rename(w) \/ Killed(w)
  \/ \E text \in HandWritten : HandEdit(text)

Spec == Init /\ [][Next]_vars

-----------------------------------------------------------------------------
(* Properties                                                              *)

(* load_config at the next start of the agent.  Only load_config has the   *)
(* limit: the commands read and write a text of any length.                *)
Fits(file) == Len(Document(file).sensors) <= MaxSensors
Loads(file) == file # Torn /\ Fits(file) /\ validate_config(Document(file))

(* What an editor wrote is left as it is or made valid; otherwise the      *)
(* agent can load the file at every instant, unless commands have made it  *)
(* longer than load_config reads: a command validates the whole document   *)
(* it is about to write, also when the number typed does not fit or the    *)
(* editor has left an id twice, and the rename is all or nothing.          *)
AgentCanStart ==
  ~mixed => File # Torn /\ (Fits(File) => Loads(File) \/ File \in HandWritten)

(* Commands that do not meet act one after the other: when none runs, the  *)
(* file is what the commands that reported success make of it.  Nothing an *)
(* administrator was told is done is lost, and a command that was killed   *)
(* or could not write has changed nothing.                                 *)
EditsAreSerial ==
  (\A w \in Writers : command[w] = Idle) /\ ~mixed =>
    Document(File) = Document(expected)
=============================================================================
