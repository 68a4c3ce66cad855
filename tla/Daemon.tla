------------------------------- MODULE Daemon -------------------------------
(***************************************************************************)
(* `stoat mcp up`, `down` and `status`: one supervised HTTP server for each *)
(* project directory, recorded in a file of its own.  The three serialise   *)
(* on a lock file; the servers come up, die and hold their addresses beside *)
(* them.                                                                    *)
(***************************************************************************)
EXTENDS Naturals, FiniteSets

CONSTANTS
    Cmds,        \* stoat mcp commands
    NoCmd,
    Projects,    \* project directories
    Addrs,       \* loopback addresses
    MaxPid,      \* server processes started
    MaxMishaps   \* commands killed, addresses and pids other programs take

ASSUME DaemonAssumption ==
    /\ NoCmd \notin Cmds /\ MaxPid \in Nat /\ MaxMishaps \in Nat
    /\ Projects # {} /\ Addrs # {}

VARIABLES
    servers,     \* the servers started so far, by pid
    record,      \* project -> the pid and address in its state file, or NoRecord
    lockedBy,    \* the command that holds .lock
    cmd,         \* command -> what it runs and where it is
    squatted,    \* addresses other programs listen on
    stray,       \* history: servers whose Up was killed, failed, or was answered by another
    mishaps

daemonVars == <<servers, record, lockedBy, cmd, squatted, stray, mishaps>>

Pids     == 1 .. MaxPid
NoRecord == [pid |-> 0, addr |-> CHOOSE a \in Addrs : TRUE]
Server   == [dir : Projects, addr : Addrs, state : {"starting", "serving", "dying", "dead", "stranger"}]
Rest     == [op |-> "none", step |-> "rest", dir |-> CHOOSE d \in Projects : TRUE,
             addr |-> NoRecord.addr, child |-> 0, todo |-> {}]

Command  == [op : {"none", "up", "down", "status"},
             step : {"rest", "lock", "up", "probe", "spawn", "ready", "write", "down", "gone", "status"},
             dir : Projects, addr : Addrs, child : 0 .. MaxPid, todo : SUBSET Projects]

DaemonTypeOK ==
    /\ \E n \in 0 .. MaxPid : servers \in [1 .. n -> Server]
    /\ record \in [Projects -> [pid : 0 .. MaxPid, addr : Addrs]]
    /\ lockedBy \in Cmds \cup {NoCmd}
    /\ cmd \in [Cmds -> Command]
    /\ squatted \subseteq Addrs /\ stray \subseteq Pids /\ mishaps \in 0 .. MaxMishaps

DaemonInit ==
    /\ servers = [i \in {} |-> NoRecord] /\ record = [d \in Projects |-> NoRecord]
    /\ lockedBy = NoCmd /\ cmd = [c \in Cmds |-> Rest]
    /\ squatted = {} /\ stray = {} /\ mishaps = 0

-----------------------------------------------------------------------------
Listens(i, a) == servers[i].addr = a /\ servers[i].state \in {"serving", "dying"}
Answers(a)    == a \in squatted \/ \E i \in DOMAIN servers : Listens(i, a)
alive(i)      == servers[i].state # "dead"

\* The pid is alive and the address answers, whoever they belong to.
running(r) == alive(r.pid) /\ Answers(r.addr)

\* SIGTERM: a server that is not up yet dies of it at once.
Terminated(i) == [servers EXCEPT ![i].state =
                     IF @ = "serving" THEN "dying" ELSE IF @ = "starting" THEN "dead" ELSE @]

Go(c, s)   == cmd' = [cmd EXCEPT ![c].step = s]
Returns(c) == cmd' = [cmd EXCEPT ![c] = Rest] /\ lockedBy' = NoCmd

Invoke(c) ==
    /\ cmd[c].step = "rest"
    /\ \E op \in {"up", "down", "status"}, d \in Projects, a \in Addrs :
          /\ op # "up" => a = Rest.addr
          /\ op = "status" => d = Rest.dir
          /\ op = "up" => Cardinality(DOMAIN servers) < MaxPid
          /\ cmd' = [cmd EXCEPT ![c] = [Rest EXCEPT !.op = op, !.step = "lock", !.dir = d, !.addr = a,
                        !.todo = IF op = "status" THEN {e \in Projects : record[e] # NoRecord} ELSE {}]]
    /\ UNCHANGED <<servers, record, lockedBy, squatted, stray, mishaps>>

TakeLock(c) ==
    /\ cmd[c].step = "lock" /\ lockedBy = NoCmd
    /\ lockedBy' = c /\ Go(c, cmd[c].op)
    /\ UNCHANGED <<servers, record, squatted, stray, mishaps>>

-----------------------------------------------------------------------------
(* Up *)

lookup(c) ==
    /\ cmd[c].step = "up"
    /\ LET d == cmd[c].dir IN
       IF record[d] # NoRecord /\ running(record[d])
       THEN Returns(c) /\ UNCHANGED record
       ELSE Go(c, "probe") /\ record' = [record EXCEPT ![d] = NoRecord] /\ UNCHANGED lockedBy
    /\ UNCHANGED <<servers, squatted, stray, mishaps>>

\* Mutant: no Listen before the child exists.
MutProbe(c) ==
    /\ cmd[c].step = "probe"
    /\ Go(c, "spawn")
    /\ UNCHANGED <<servers, record, lockedBy, squatted, stray, mishaps>>

Probe(c) ==
    /\ cmd[c].step = "probe"
    /\ IF Answers(cmd[c].addr) THEN Returns(c) ELSE Go(c, "spawn") /\ UNCHANGED lockedBy
    /\ UNCHANGED <<servers, record, squatted, stray, mishaps>>

Spawn(c) ==
    /\ cmd[c].step = "spawn"
    /\ Cardinality(DOMAIN servers) < MaxPid
    /\ LET i == Cardinality(DOMAIN servers) + 1 IN
       /\ servers' = [j \in 1 .. i |-> IF j = i THEN [dir |-> cmd[c].dir, addr |-> cmd[c].addr,
                                                      state |-> "starting"]
                                       ELSE servers[j]]
       /\ cmd' = [cmd EXCEPT ![c].step = "ready", ![c].child = i]
    /\ UNCHANGED <<record, lockedBy, squatted, stray, mishaps>>

\* The address answers; or the child is gone, or five seconds are over, and
\* what is left of the child is terminated.
waitReady(c) ==
    /\ cmd[c].step = "ready"
    /\ \/ /\ Answers(cmd[c].addr)
          /\ stray' = IF Listens(cmd[c].child, cmd[c].addr) THEN stray ELSE stray \cup {cmd[c].child}
          /\ Go(c, "write") /\ UNCHANGED <<servers, lockedBy>>
       \/ /\ ~Answers(cmd[c].addr)
          /\ servers' = Terminated(cmd[c].child) /\ stray' = stray \cup {cmd[c].child}
          /\ Returns(c)
    /\ UNCHANGED <<record, squatted, mishaps>>

\* Renamed into place whole, or failed.
WriteRecord(c) ==
    /\ cmd[c].step = "write"
    /\ LET i == cmd[c].child IN
       \/ /\ record' = [record EXCEPT ![cmd[c].dir] = [pid |-> i, addr |-> cmd[c].addr]]
          /\ UNCHANGED <<servers, stray>>
       \/ servers' = Terminated(i) /\ stray' = stray \cup {i} /\ UNCHANGED record
    /\ Returns(c)
    /\ UNCHANGED <<squatted, mishaps>>

-----------------------------------------------------------------------------
(* Down and Status *)

Down(c) ==
    /\ cmd[c].step = "down"
    /\ LET d == cmd[c].dir  r == record[d] IN
       IF r = NoRecord \/ ~running(r)
       THEN /\ record' = [record EXCEPT ![d] = NoRecord]
            /\ Returns(c) /\ UNCHANGED servers
       ELSE servers' = Terminated(r.pid) /\ Go(c, "gone") /\ UNCHANGED <<record, lockedBy>>
    /\ UNCHANGED <<squatted, stray, mishaps>>

\* Mutant: the record goes whether or not the server has.
MutDownEnds(c) ==
    /\ cmd[c].step = "gone"
    /\ record' = [record EXCEPT ![cmd[c].dir] = NoRecord]
    /\ Returns(c)
    /\ UNCHANGED <<servers, squatted, stray, mishaps>>

\* The pid is gone, or five seconds are over and the record stays.
DownEnds(c) ==
    /\ cmd[c].step = "gone"
    /\ \/ /\ ~alive(record[cmd[c].dir].pid)
          /\ record' = [record EXCEPT ![cmd[c].dir] = NoRecord]
       \/ alive(record[cmd[c].dir].pid) /\ UNCHANGED record
    /\ Returns(c)
    /\ UNCHANGED <<servers, squatted, stray, mishaps>>

\* The files Status listed before it had the lock, one after another; one that
\* is gone is skipped.
Status(c) ==
    /\ cmd[c].step = "status"
    /\ \/ cmd[c].todo = {} /\ Returns(c) /\ UNCHANGED record
       \/ \E d \in cmd[c].todo :
             /\ record' = IF record[d] # NoRecord /\ ~running(record[d])
                          THEN [record EXCEPT ![d] = NoRecord] ELSE record
             /\ cmd' = [cmd EXCEPT ![c].todo = @ \ {d}]
             /\ UNCHANGED lockedBy
    /\ UNCHANGED <<servers, squatted, stray, mishaps>>

-----------------------------------------------------------------------------
(* The servers, the kills and the other programs *)

\* ServeHTTP binds its address, or ends when it is taken.
ServeHTTP(i) ==
    /\ servers[i].state = "starting"
    /\ servers' = [servers EXCEPT ![i].state = IF Answers(servers[i].addr) THEN "dead" ELSE "serving"]
    /\ UNCHANGED <<record, lockedBy, cmd, squatted, stray, mishaps>>

\* A server crashes, or dies of its SIGTERM.
ServerDies(i) ==
    /\ servers[i].state \in {"starting", "serving", "dying"}
    /\ servers' = [servers EXCEPT ![i].state = "dead"]
    /\ UNCHANGED <<record, lockedBy, cmd, squatted, stray, mishaps>>

\* The command dies, its child lives on in its own session.
KillCommand(c) ==
    /\ cmd[c].step # "rest" /\ mishaps < MaxMishaps
    /\ mishaps' = mishaps + 1
    /\ stray' = IF cmd[c].step \in {"ready", "write"} THEN stray \cup {cmd[c].child} ELSE stray
    /\ cmd' = [cmd EXCEPT ![c] = Rest]
    /\ lockedBy' = IF lockedBy = c THEN NoCmd ELSE lockedBy
    /\ UNCHANGED <<servers, record, squatted>>

\* Another program listens on a free address, or gets a dead server's pid.
Outsider ==
    /\ mishaps < MaxMishaps /\ mishaps' = mishaps + 1
    /\ \/ \E a \in Addrs : ~Answers(a) /\ squatted' = squatted \cup {a} /\ UNCHANGED servers
       \/ \E i \in DOMAIN servers : /\ ~alive(i)
                                    /\ servers' = [servers EXCEPT ![i].state = "stranger"]
                                    /\ UNCHANGED squatted
    /\ UNCHANGED <<record, lockedBy, cmd, stray>>

DaemonNext ==
    \/ \E c \in Cmds : \/ Invoke(c) \/ TakeLock(c) \/ lookup(c) \/ Probe(c) \/ Spawn(c)
                       \/ waitReady(c) \/ WriteRecord(c) \/ Down(c) \/ DownEnds(c) \/ Status(c)
                       \/ KillCommand(c)
    \/ \E i \in DOMAIN servers : ServeHTTP(i) \/ ServerDies(i)
    \/ Outsider

-----------------------------------------------------------------------------
(* Properties *)

\* While no command is at work, a record whose pid is alive and whose address
\* answers is that of the project's own server, so that Down signals nothing
\* else ("running() proves the pid still serves this record's address"), as
\* long as no command was killed and no other program interferes.
RunningIsOwn ==
    lockedBy = NoCmd /\ mishaps = 0 =>
        \A d \in Projects : record[d] # NoRecord /\ running(record[d]) =>
            LET i == record[d].pid IN servers[i].dir = d /\ Listens(i, record[d].addr)

\* A server that Up reported, and that has not exited, is never forgotten:
\* `status` names it and `down` finds it, after a stop that timed out too ("The
\* record outlives a failed stop on purpose").
ServerRecorded ==
    lockedBy = NoCmd =>
        \A i \in DOMAIN servers \ stray :
            servers[i].state \in {"serving", "dying"} =>
                record[servers[i].dir] = [pid |-> i, addr |-> servers[i].addr]

\* Records and servers correspond, both ways.
ServersTracked == RunningIsOwn /\ ServerRecorded
=============================================================================
