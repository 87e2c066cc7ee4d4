------------------------------- MODULE Parts --------------------------------
(***************************************************************************)
(* The components that are small and have nothing in common, side by side: *)
(* the initial state says which of them takes steps, the others stay where *)
(* they start.  The states of the components add up, none is multiplied.   *)
(***************************************************************************)
EXTENDS SchemaRate

CONSTANTS
  Writers, Inodes, Empty, Torn, Absent,               \* files
  MaxVersion,                                         \* the cache
  Tables, Ids, Seconds, MaxI64, HandWritten, MaxSensors, MaxCommands,
                                                      \* the configuration
  Kinds, Length, Invalid, Base, Text, MAX_FRAME_SIZE, MaxFrames,
                                                      \* the port
  Admins, Vmid, Sources, Others,                      \* the QEMU arguments
  Dirs, Timeout                                       \* the status query

VARIABLES
  part,
  path, tmp, data, fd, busy, alone, mixed, state, pc, snap, hostd, unsaved,
  cpath, ctmp, cdata, cfd, cbusy, calone, cmixed, command, expected, commands,
  way, connected, writer, channel, eof, reader, frames, delivered, lost, cut, refused,
  args, job, others, met, cloned,
  sameName, home, otherHome, row, task, heard, clash, query

Cache == INSTANCE CacheFile WITH None <- Absent

Config == INSTANCE ConfigEdit WITH
  path <- cpath, tmp <- ctmp, data <- cdata, fd <- cfd,
  busy <- cbusy, alone <- calone, mixed <- cmixed, None <- Absent

Port == INSTANCE Wire
Qm == INSTANCE QmArgs
Told == INSTANCE Status WITH None <- Absent

ASSUME PartsAssumption ==
  /\ Cache!VersionAssumption /\ Config!ConfigAssumption /\ Port!WireAssumption
  /\ Qm!QmAssumption /\ Told!StatusAssumption

PartsInit ==
  /\ part \in {"rate", "cache", "config", "port", "qm", "told"}
  /\ Init /\ Cache!Init /\ Config!Init /\ Port!Init /\ Qm!Init /\ Told!Init
  /\ part # "port" => way = "up"
  /\ part # "told" => ~sameName

CacheVars == << path, tmp, data, fd, busy, alone, mixed, state, pc, snap, hostd, unsaved >>
ConfigVars == << cpath, ctmp, cdata, cfd, cbusy, calone, cmixed, command, expected, commands >>
PortVars == << way, connected, writer, channel, eof, reader, frames, delivered,
               lost, cut, refused >>
QmVars == << args, job, others, met, cloned >>
ToldVars == << sameName, home, otherHome, row, task, heard, clash, query >>

RateRests == UNCHANGED vars
CacheRests == UNCHANGED CacheVars
ConfigRests == UNCHANGED ConfigVars
PortRests == UNCHANGED PortVars
QmRests == UNCHANGED QmVars
ToldRests == UNCHANGED ToldVars

PartsNext ==
  /\ UNCHANGED part
  /\ \/ /\ part = "rate" /\ Next
        /\ CacheRests /\ ConfigRests /\ PortRests /\ QmRests /\ ToldRests
     \/ /\ part = "cache" /\ Cache!Next
        /\ RateRests /\ ConfigRests /\ PortRests /\ QmRests /\ ToldRests
     \/ /\ part = "config" /\ Config!Next
        /\ RateRests /\ CacheRests /\ PortRests /\ QmRests /\ ToldRests
     \/ /\ part = "port" /\ Port!Next
        /\ RateRests /\ CacheRests /\ ConfigRests /\ QmRests /\ ToldRests
     \/ /\ part = "qm" /\ Qm!Next
        /\ RateRests /\ CacheRests /\ ConfigRests /\ PortRests /\ ToldRests
     \/ /\ part = "told" /\ Told!Next
        /\ RateRests /\ CacheRests /\ ConfigRests /\ PortRests /\ QmRests

partsVars == << part, vars, CacheVars, ConfigVars, PortVars, QmVars, ToldVars >>

PartsSpec == PartsInit /\ [][PartsNext]_partsVars

(* The properties of the components, under their own names: hostd's cache  *)
(* file is whole, and current when nobody saves it.                        *)
FileIsWhole == Cache!FileIsWhole
FileIsCurrent == Cache!FileIsCurrent

(* The agent can load a configuration that only commands have changed and  *)
(* that is not too long, and commands that do not meet lose nothing.       *)
AgentCanStart == Config!AgentCanStart
EditsAreSerial == Config!EditsAreSerial

(* Frames are delivered in order unless bytes were dropped, and refused    *)
(* only if one was cut.                                                    *)
Lossless == Port!Lossless
RefusedOnlyIfCut == Port!RefusedOnlyIfCut

(* attach and detach leave a channel that QEMU accepts and the options of  *)
(* others.                                                                 *)
ArgsAreSound == Qm!ArgsAreSound

(* What vsbctl status prints is true when it is read.                      *)
StatusIsTrue == Told!StatusIsTrue
=============================================================================
