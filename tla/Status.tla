-------------------------------- MODULE Status --------------------------------
(***************************************************************************)
(* What "vsbctl status" is told of a VM (collect_vm_infos and              *)
(* build_sensor_infos of hostd/src/linux.rs, print_vm of                   *)
(* vsbctl/src/status.rs): the runtime is read under the state lock, and    *)
(* values from sysfs under the path that was found when the runtime was    *)
(* installed.  The VM's handler and the main thread register devices under *)
(* another lock, so directories change hands before the runtime says so.   *)
(***************************************************************************)
EXTENDS Naturals

CONSTANTS
    Dirs,         \* the numbers of hwmonN directories
    Timeout,      \* of the heartbeat, in ticks
    None

(* Two devices leave a directory free: the kernel never runs out of them.  *)
StatusAssumption ==
    /\ Timeout \in Nat \ {0} /\ None \notin Dirs /\ Dirs \subseteq Nat
    /\ \E a, b, c \in Dirs : a # b /\ b # c /\ a # c

Actors == {"handler", "main"}

VARIABLES
    sameName,     \* another VM has the same hwmon name
    home,         \* driver: the directory of the VM's device
    otherHome,    \* driver: the directory of another VM's device
    row,          \* hostd's runtime: {} or one [path, seen, offline_reported]
    task,         \* what is left of an install or a removal, per actor
    heard,        \* ghost: time since a message of the VM was taken in
    clash,        \* ghost: the last install or removal met another
    query         \* the status thread: what it has learnt

vars == <<sameName, home, otherHome, row, task, heard, clash, query>>

Idle == [state |-> "idle"]
Nothing == [do |-> "nothing"]
Unlocked == query.state # "locked"
Later(t) == IF t < Timeout THEN t + 1 ELSE t

Init ==
    /\ sameName \in BOOLEAN
    /\ home = None /\ otherHome = None /\ row = {}
    /\ task = [a \in Actors |-> Nothing]
    /\ heard = Timeout /\ clash = FALSE /\ query = Idle

Set(a, todo) == task' = [task EXCEPT ![a] = todo]
Free == Dirs \ {home, otherHome}

(* The hwmon core gives a device the smallest number that is free.         *)
Smallest == CHOOSE d \in Free : \A e \in Free : d <= e
Begin == clash' = (\E a \in Actors : task[a] # Nothing)

(* The first match that read_dir gives, if any.                            *)
find_hwmon_path ==
    LET found == {home} \cup (IF sameName THEN {otherHome} ELSE {})
    IN IF found = {None} THEN {None} ELSE found \ {None}
-----------------------------------------------------------------------------
Tick ==
    /\ heard' = Later(heard)
    /\ row' = {[r EXCEPT !.seen = Later(@)] : r \in row}
    /\ UNCHANGED <<sameName, home, otherHome, task, clash, query>>

(* A message, or a schema that changes nothing the kernel has to know.     *)
mark_seen ==
    /\ Unlocked
    /\ heard' = 0
    /\ row' = {[r EXCEPT !.seen = 0, !.offline_reported = FALSE] : r \in row}
    /\ UNCHANGED <<sameName, home, otherHome, task, clash, query>>

(* SET_SCHEMA, for an agent's schema or for the defaults: the new device   *)
(* is registered before the old one goes.  A goodbye preserves what is in  *)
(* the runtime; the main thread also restores what is not.                 *)
Register(a, offline) ==
    /\ task[a] = Nothing
    /\ offline => a = "main" \/ row # {}
    /\ ~offline => a = "handler"
    /\ home' = Smallest
    /\ Set(a, [do |-> "find", offline |-> offline])
    /\ Begin
    /\ UNCHANGED <<sameName, otherHome, row, heard, query>>

FindPath(a) ==
    /\ task[a].do = "find"
    /\ \E p \in find_hwmon_path :
          Set(a, [do |-> "insert", offline |-> task[a].offline, path |-> p])
    /\ UNCHANGED <<sameName, home, otherHome, row, heard, clash, query>>

(* Mutant: the defaults count as a sign of life.                           *)
InsertOnline(a) ==
    /\ Unlocked /\ task[a].do = "insert"
    /\ row' = {[path |-> task[a].path, seen |-> 0, offline_reported |-> FALSE]}
    /\ heard' = IF task[a].offline THEN heard ELSE 0
    /\ Set(a, Nothing)
    /\ UNCHANGED <<sameName, home, otherHome, clash, query>>

Insert(a) ==
    /\ Unlocked /\ task[a].do = "insert"
    /\ row' = {[path |-> task[a].path, seen |-> 0,
                offline_reported |-> task[a].offline]}
    /\ heard' = IF task[a].offline THEN heard ELSE 0
    /\ Set(a, Nothing)
    /\ UNCHANGED <<sameName, home, otherHome, clash, query>>

(* Goodbye or a timeout without persistent sensors.                        *)
Forget(a) ==
    /\ Unlocked /\ task[a] = Nothing /\ row # {}
    /\ row' = {}
    /\ Set(a, [do |-> "remove"])
    /\ Begin
    /\ UNCHANGED <<sameName, home, otherHome, heard, query>>

RemoveVm(a) ==
    /\ task[a].do = "remove"
    /\ home' = None
    /\ Set(a, Nothing)
    /\ UNCHANGED <<sameName, otherHome, row, heard, clash, query>>

(* check_heartbeats, which leaves the runtime or preserves its sensors.    *)
Warn ==
    /\ Unlocked
    /\ \E r \in row :
          /\ ~r.offline_reported /\ r.seen = Timeout
          /\ row' = {[r EXCEPT !.offline_reported = TRUE]}
    /\ UNCHANGED <<sameName, home, otherHome, task, heard, clash, query>>

(* Another VM's device takes, changes or frees a directory.                *)
OtherVm ==
    /\ otherHome' \in {Smallest, None}
    /\ UNCHANGED <<sameName, home, row, task, heard, clash, query>>
-----------------------------------------------------------------------------
(* What vsbctl prints of the agent.                                        *)
agent_status(r) == IF r.seen < Timeout THEN "online"
                   ELSE IF r.offline_reported THEN "offline" ELSE "unknown"

(* A request takes the lock and holds it until all values are read.        *)
collect_vm_infos ==
    /\ query = Idle
    /\ \E r \in row : query' = [state |-> "locked", agent |-> agent_status(r)]
    /\ UNCHANGED <<sameName, home, otherHome, row, task, heard, clash>>

(* Whose device the path leads to; hwmonN/tempM_input is then read.        *)
Owner(path) == IF path = None THEN "nobody"
               ELSE IF path = home THEN "own"
               ELSE IF path = otherHome THEN "other" ELSE "nobody"

build_sensor_infos ==
    /\ query.state = "locked"
    /\ \E r \in row : query' = [state |-> "told", agent |-> query.agent,
                                values |-> Owner(r.path)]
    /\ UNCHANGED <<sameName, home, otherHome, row, task, heard, clash>>

Reply ==
    /\ query.state = "told"
    /\ query' = Idle
    /\ UNCHANGED <<sameName, home, otherHome, row, task, heard, clash>>

Next ==
    \/ Tick \/ mark_seen \/ Warn \/ OtherVm
    \/ collect_vm_infos \/ build_sensor_infos \/ Reply
    \/ \E a \in Actors :
          \/ \E offline \in BOOLEAN : Register(a, offline)
          \/ FindPath(a) \/ Insert(a) \/ Forget(a) \/ RemoveVm(a)

Spec == Init /\ [][Next]_vars
-----------------------------------------------------------------------------
(* When the agent of a VM is said to be online it was heard within the     *)
(* timeout; install_defaults makes the exception, see OnlineMeansHeard.    *)
(* When it is said to be offline or unknown it was not heard.              *)
AgentIsTrue(told) ==
    /\ told = "online" => heard < Timeout \/ \E r \in row : r.offline_reported
    /\ told # "online" => heard = Timeout

(* The values told are read from the VM's own device, although the         *)
(* directories are reused, unless another VM has its name, installs met,   *)
(* or one is under way.                                                    *)
ValuesAreOwn(from) ==
    \/ sameName \/ clash \/ \E a \in Actors : task[a] # Nothing
    \/ from = "own"

(* What the protocol says of the two fields behind the status              *)
(* (crates/vsb-protocol/src/lib.rs:99 and :102): an agent is online when   *)
(* its last heartbeat arrived within the timeout, and last_seen_secs is    *)
(* the time since its last message.  install_defaults stamps the runtime   *)
(* it makes for a silent VM as seen now, so the code does not keep to it.  *)
OnlineMeansHeard ==
    [][query # query' /\ query'.state = "locked" /\ query'.agent = "online" =>
          heard < Timeout]_vars

(* What status tells is true at the instant it is read: the sign of life   *)
(* that last_seen stands for, and whose device the cached path leads to.   *)
StatusIsTrue ==
    [][/\ query'.state = "locked" /\ query # query' => AgentIsTrue(query'.agent)
       /\ query'.state = "told" /\ query # query' => ValuesAreOwn(query'.values)]_vars
=============================================================================
