-------------------------- MODULE MCPServiceProofs --------------------------
(***************************************************************************)
(* The MCP service, proved for any number of calls, jobs, commands,         *)
(* projects and addresses, and for every limit.                             *)
(*                                                                          *)
(* Up, down and status: past the lock file a command is alone, so what it   *)
(* read of the record still holds when it acts on it; a server that is up   *)
(* is on record or is the child of that one command.                        *)
(*                                                                          *)
(* The calls: a save that overlaps no other one read the registry it        *)
(* replaces; a job a call knows to be over is gone or shows its exit file,  *)
(* which is read before the pid; a call past the gate has seen a level that *)
(* let it through.  The buckets: a grant takes one token from the bucket    *)
(* and one from every window that holds it, a tick refills both alike, and  *)
(* a window with no grant yet is full.                                      *)
(***************************************************************************)
EXTENDS MCPService, FiniteSetTheorems, TLAPS

-----------------------------------------------------------------------------
(* The inductive invariant of up, down and status *)

\* Past the lock file a command is its holder.
HolderInv == \A c \in Cmds : cmd[c].step \notin {"rest", "lock"} => lockedBy = c

\* What a command at work knows of its project's record and of its child.
CommandInv ==
    \A c \in Cmds :
      /\ cmd[c].step # "rest" => cmd[c].op # "none"
      /\ cmd[c].step \in {"probe", "spawn", "ready", "write"} => record[cmd[c].dir] = NoRecord
      /\ cmd[c].step \in {"ready", "write"} =>
           /\ cmd[c].child \in DOMAIN servers
           /\ servers[cmd[c].child].dir = cmd[c].dir /\ servers[cmd[c].child].addr = cmd[c].addr
      /\ cmd[c].step = "gone" => record[cmd[c].dir] # NoRecord

RecordInv ==
    \A d \in Projects : record[d] # NoRecord =>
      /\ record[d].pid \in DOMAIN servers
      /\ servers[record[d].pid].dir = d /\ servers[record[d].pid].addr = record[d].addr

\* The child of an up that has not recorded it yet.
Awaited(i, steps) == \E c \in Cmds : cmd[c].step \in steps /\ cmd[c].child = i
OnRecord(i)       == record[servers[i].dir] = [pid |-> i, addr |-> servers[i].addr]

\* A server nobody lost is on record, or its up is still at work on it.
ServersInv ==
    \A i \in DOMAIN servers \ stray :
      /\ servers[i].state = "starting" => Awaited(i, {"ready"})
      /\ servers[i].state \in {"serving", "dying"} => OnRecord(i) \/ Awaited(i, {"ready", "write"})

\* Before any mishap the only server not up yet is the one an up waits for, and
\* nobody else answers on the address that up has probed.
QuietInv ==
    mishaps = 0 =>
      /\ squatted = {}
      /\ \A i \in DOMAIN servers : /\ servers[i].state # "stranger"
                                   /\ servers[i].state = "starting" => Awaited(i, {"ready"})
      /\ \A c \in Cmds : \A i \in DOMAIN servers :
           \/ cmd[c].step = "spawn"
           \/ cmd[c].step \in {"ready", "write"} /\ i # cmd[c].child
           => ~Listens(i, cmd[c].addr)

DaemonInv == DaemonTypeOK /\ HolderInv /\ CommandInv /\ RecordInv /\ ServersInv /\ QuietInv

-----------------------------------------------------------------------------
(* The inductive invariant of the calls *)

Looking == Reads \cup {"poll", "signal", "tail"}

\* What is over stays over, and what is gone stays gone.
Stays(j) == (Over(j) => Over(j)') /\ (files[j] = "gone" => files'[j] = "gone")

\* Which steps a tool takes, and which job they are about.
StepsInv ==
  \A c \in Calls :
    /\ pc[c] = "idle" => at[c] = NoTime
    /\ pc[c] \in {"mkjob", "runner", "load", "rename"} => tool[c] = "exec_bg"
    /\ tool[c] = "exec_bg" => pc[c] \in {"idle", "gate", "mkjob", "runner", "load", "rename"} \cup Finished
    /\ pc[c] \in Looking \cup {"find"} => tool[c] \in JobTools
    /\ pc[c] \in Looking \cup {"runner", "load", "rename"} => job[c] \in Jobs
    /\ answer[c] # "none" => pc[c] \in Looking \cup Finished

\* Saves that do not overlap lose nothing; those that do are told by raced.
RegistryInv ==
  /\ AnsweredIsListed
  /\ \A c \in Calls : pc[c] = "rename" => /\ loaded[c] \subseteq registry \cup raced
                                          /\ registry \subseteq loaded[c] \cup raced
  /\ \A c, d \in Calls : c # d /\ pc[c] = "rename" /\ pc[d] = "rename" => job[c] \in raced

\* A call about a job that is over reads the exit file, or finds nothing at all.
OverInv ==
  \A c \in over :
    /\ job[c] \in Jobs /\ Over(job[c]) /\ answer[c] # "running"
    /\ pc[c] \in {"exit", "pid", "dir", "tail"} \cup Finished
    /\ pc[c] \in {"pid", "dir"} => files[job[c]] = "gone"

\* A call past the gate was let through at a level it has seen.
LevelInv ==
  \A c \in Calls :
    /\ c \in Active => top[c] >= level
    /\ pc[c] \in GuestSteps \cup {"asroot", "load", "rename", "find", "poll"} => top[c] >= Need[tool[c]]
    /\ pc[c] = "sshroot" => top[c] >= LevelExec

\* BucketsExact without its minimum: what a bucket holds is no more than the
\* window from any grant on leaves, and is one of them or the burst.
Times == {at[c] : c \in {d \in Calls : at[d] # NoTime}}
Window(k, s) == Unit * Capacity(k) + Refill(k) * (now - s) - Unit * Cardinality(GrantedSince(k, s))
Tight(k) ==
  /\ Level(k) <= Unit * Capacity(k)
  /\ \A s \in Times : Level(k) <= Window(k, s)
  /\ Level(k) = Unit * Capacity(k) \/ \E s \in Times : Level(k) = Window(k, s)

BucketsTight == \A k \in DOMAIN bucket : Tight(k)

CallsInv == TypeOK /\ StepsInv /\ RegistryInv /\ OverInv /\ LevelInv /\ BucketsTight

Inv == CallsInv /\ DaemonInv

-----------------------------------------------------------------------------
(* Up, down and status: facts *)

\* The absent record and the command at rest have their types.
LEMMA NoRecordFacts ==
    /\ NoRecord \in [pid : 0 .. MaxPid, addr : Addrs] /\ NoRecord.pid = 0
    /\ Rest \in Command /\ Rest.step = "rest" /\ Rest.op = "none" /\ Rest.child = 0 /\ Rest.todo = {}
    /\ Rest.dir \in Projects /\ Rest.addr \in Addrs
  <1>1. (CHOOSE a \in Addrs : TRUE) \in Addrs /\ (CHOOSE d \in Projects : TRUE) \in Projects
    BY DaemonAssumption
  <1>2. 0 \in 0 .. MaxPid
    BY DaemonAssumption
  <1>3. NoRecord \in [pid : 0 .. MaxPid, addr : Addrs] /\ NoRecord.pid = 0 /\ NoRecord.addr \in Addrs
    BY <1>1, <1>2 DEF NoRecord
  <1> HIDE DEF NoRecord
  <1> QED
    BY <1>1, <1>2, <1>3 DEF Rest, Command

\* Servers are numbered from 1.
LEMMA ServerFacts ==
    ASSUME DaemonTypeOK
    PROVE  /\ \A i \in DOMAIN servers : i \in Pids /\ servers[i] \in Server /\ i # 0
           /\ servers = [i \in DOMAIN servers |-> servers[i]]
  <1>1. PICK n \in 0 .. MaxPid : servers \in [1 .. n -> Server]
    BY DEF DaemonTypeOK
  <1>2. n \in Nat /\ n <= MaxPid
    BY DaemonAssumption
  <1> QED
    BY <1>1, <1>2, DaemonAssumption DEF Pids

\* Only the holder of the lock file is at work.
LEMMA Alone ==
    ASSUME HolderInv, NEW c \in Cmds, cmd[c].step \notin {"rest", "lock"}
    PROVE  lockedBy = c /\ \A b \in Cmds \ {c} : cmd[b].step \in {"rest", "lock"}
  BY DEF HolderInv

\* A record that is dropped because it does not run is of no server in service.
LEMMA DropSafe ==
    ASSUME DaemonInv, NEW d \in Projects, record[d] # NoRecord => ~running(record[d]),
           NEW i \in DOMAIN servers, servers[i].state \in {"serving", "dying"}, OnRecord(i)
    PROVE  servers[i].dir # d
  <1> SUFFICES ASSUME servers[i].dir = d PROVE FALSE
    OBVIOUS
  <1>1. record[d] = [pid |-> i, addr |-> servers[i].addr]
    BY DEF OnRecord
  <1>2. record[d].pid = i /\ record[d].addr = servers[i].addr
    BY <1>1
  <1>3. i # 0
    BY ServerFacts DEF DaemonInv
  <1>4. record[d] # NoRecord
    BY <1>2, <1>3, NoRecordFacts
  <1>5. alive(i) /\ Listens(i, servers[i].addr)
    BY DEF alive, Listens
  <1>6. running(record[d])
    BY <1>2, <1>5 DEF running, Answers
  <1> QED
    BY <1>4, <1>6

\* A step of a command that starts, stops and waits for no server: it drops at
\* most one record, of its project, that does not run.
LEMMA Moves ==
    ASSUME DaemonInv, NEW c \in Cmds, NEW k \in Command, cmd' = [cmd EXCEPT ![c] = k],
           UNCHANGED <<servers, squatted, stray, mishaps>>,
           cmd[c].step \notin {"ready", "write"}, k.step \notin {"ready", "write"},
           lockedBy' \in Cmds \cup {NoCmd},
           k.step \notin {"rest", "lock"} => lockedBy' = c,
           \A b \in Cmds \ {c} : cmd[b].step \notin {"rest", "lock"} => lockedBy' = b,
           k.step # "rest" => k.op # "none",
           k.step = "spawn" => \A i \in DOMAIN servers : ~Listens(i, k.addr),
           NEW d \in Projects,
           \/ record' = record
           \/ /\ record' = [record EXCEPT ![d] = NoRecord]
              /\ record[d] # NoRecord => ~running(record[d])
              /\ \A b \in Cmds \ {c} : cmd[b].step \in {"rest", "lock"},
           k.step \in {"probe", "spawn"} => record'[k.dir] = NoRecord,
           k.step = "gone" => record'[k.dir] # NoRecord
    PROVE  DaemonInv'
  <1>1. cmd'[c] = k /\ \A b \in Cmds \ {c} : cmd'[b] = cmd[b]
    BY DEF DaemonInv, DaemonTypeOK
  <1>2. \A e \in Projects : record'[e] = record[e] \/ record'[e] = NoRecord
    BY DEF DaemonInv, DaemonTypeOK
  <1>3. DaemonTypeOK'
    BY NoRecordFacts DEF DaemonInv, DaemonTypeOK
  <1>4. HolderInv'
    BY <1>1 DEF HolderInv
  <1>5. CommandInv'
    <2> SUFFICES ASSUME NEW b \in Cmds \ {c}
                 PROVE  /\ cmd[b].step # "rest" => cmd[b].op # "none"
                        /\ cmd[b].step \in {"probe", "spawn", "ready", "write"} => record'[cmd[b].dir] = NoRecord
                        /\ cmd[b].step \in {"ready", "write"} =>
                              /\ cmd[b].child \in DOMAIN servers
                              /\ servers[cmd[b].child].dir = cmd[b].dir
                              /\ servers[cmd[b].child].addr = cmd[b].addr
                        /\ cmd[b].step = "gone" => record'[cmd[b].dir] # NoRecord
      BY <1>1 DEF CommandInv
    <2>1. cmd[b].dir \in Projects
      BY DEF DaemonInv, DaemonTypeOK, Command
    <2>2. record'[cmd[b].dir] = record[cmd[b].dir] \/ record'[cmd[b].dir] = NoRecord
      BY <1>2, <2>1
    <2>3. cmd[b].step = "gone" => record' = record
      OBVIOUS
    <2> QED
      BY <2>2, <2>3 DEF DaemonInv, CommandInv
  <1>6. RecordInv'
    BY <1>2 DEF DaemonInv, RecordInv
  <1>7. \A i : \A S \in SUBSET {"ready", "write"} : Awaited(i, S) => Awaited(i, S)'
    BY <1>1 DEF Awaited
  <1>8. ServersInv'
    <2> SUFFICES ASSUME NEW i \in DOMAIN servers \ stray
                 PROVE  /\ servers[i].state = "starting" => Awaited(i, {"ready"})'
                        /\ servers[i].state \in {"serving", "dying"} =>
                             OnRecord(i)' \/ Awaited(i, {"ready", "write"})'
      BY DEF ServersInv
    <2>1. /\ servers[i].state = "starting" => Awaited(i, {"ready"})
          /\ servers[i].state \in {"serving", "dying"} => OnRecord(i) \/ Awaited(i, {"ready", "write"})
      BY DEF DaemonInv, ServersInv
    <2>2. servers[i].dir \in Projects
      BY ServerFacts DEF DaemonInv, Server
    <2>3. servers[i].state \in {"serving", "dying"} /\ OnRecord(i) => OnRecord(i)'
      <3> SUFFICES ASSUME servers[i].state \in {"serving", "dying"}, OnRecord(i) PROVE OnRecord(i)'
        OBVIOUS
      <3>1. record'[servers[i].dir] = record[servers[i].dir]
        BY <2>2, DropSafe DEF DaemonInv, DaemonTypeOK
      <3> QED
        BY <3>1 DEF OnRecord
    <2> QED
      BY <1>7, <2>1, <2>3
  <1>9. QuietInv'
    <2> SUFFICES ASSUME mishaps = 0 PROVE QuietInv'
      BY DEF QuietInv
    <2>1. squatted' = {}
      BY DEF DaemonInv, QuietInv
    <2>2. \A i \in DOMAIN servers : servers[i].state # "stranger"
                                    /\ (servers[i].state = "starting" => Awaited(i, {"ready"})')
      BY <1>7 DEF DaemonInv, QuietInv
    <2>3. ASSUME NEW b \in Cmds, NEW i \in DOMAIN servers,
                 \/ cmd'[b].step = "spawn"
                 \/ cmd'[b].step \in {"ready", "write"} /\ i # cmd'[b].child
          PROVE  ~Listens(i, cmd'[b].addr)
      <3>1. CASE b = c
        BY <1>1, <2>3, <3>1
      <3>2. CASE b # c
        BY <1>1, <2>3, <3>2 DEF DaemonInv, QuietInv
      <3> QED
        BY <3>1, <3>2
    <2>4. \A b \in Cmds, i \in DOMAIN servers : Listens(i, cmd'[b].addr) <=> Listens(i, cmd[b].addr)'
      BY DEF Listens
    <2> QED
      BY <2>1, <2>2, <2>3, <2>4 DEF QuietInv
  <1> QED
    BY <1>3, <1>4, <1>5, <1>6, <1>8, <1>9 DEF DaemonInv

\* The step c goes to keeps the rest of what it runs; a return lets go.
LEMMA Goes ==
    ASSUME DaemonInv, NEW c \in Cmds, NEW s \in {"up", "probe", "spawn", "down", "gone", "status"},
           Go(c, s)
    PROVE  \E k \in Command : /\ cmd' = [cmd EXCEPT ![c] = k]
                              /\ k.step = s /\ k.op = cmd[c].op /\ k.dir = cmd[c].dir
                              /\ k.addr = cmd[c].addr
  <1> DEFINE k == [cmd[c] EXCEPT !.step = s]
  <1>1. cmd[c] \in Command
    BY DEF DaemonInv, DaemonTypeOK
  <1>2. k \in Command /\ k.step = s /\ k.op = cmd[c].op /\ k.dir = cmd[c].dir /\ k.addr = cmd[c].addr
    BY <1>1 DEF Command
  <1>3. cmd' = [cmd EXCEPT ![c] = k]
    BY DEF Go
  <1> QED
    BY <1>2, <1>3

\* A command that gives the lock file back keeps the invariant.
LEMMA ReturnsInv ==
    ASSUME DaemonInv, NEW c \in Cmds, Returns(c), cmd[c].step \notin {"rest", "lock", "ready", "write"},
           UNCHANGED <<servers, squatted, stray, mishaps>>, NEW d \in Projects,
           \/ record' = record
           \/ /\ record' = [record EXCEPT ![d] = NoRecord]
              /\ record[d] # NoRecord => ~running(record[d])
    PROVE  DaemonInv'
  <1>1. \A b \in Cmds \ {c} : cmd[b].step \in {"rest", "lock"}
    BY Alone DEF DaemonInv
  <1>2. cmd' = [cmd EXCEPT ![c] = Rest] /\ lockedBy' = NoCmd
    BY DEF Returns
  <1>3. Rest \in Command /\ Rest.step = "rest"
    BY NoRecordFacts
  <1> QED
    BY <1>1, <1>2, <1>3, Moves

\* Starting a command and taking the lock file keep it: the holder is alone.
LEMMA BeginInv ==
    ASSUME DaemonInv, NEW c \in Cmds, Invoke(c) \/ TakeLock(c)
    PROVE  DaemonInv'
  <1>1. CASE Invoke(c)
    <2>1. PICK op \in {"up", "down", "status"}, d \in Projects, a \in Addrs :
            cmd' = [cmd EXCEPT ![c] = [Rest EXCEPT !.op = op, !.step = "lock", !.dir = d, !.addr = a,
                        !.todo = IF op = "status" THEN {e \in Projects : record[e] # NoRecord} ELSE {}]]
      BY <1>1 DEF Invoke
    <2> DEFINE todo == IF op = "status" THEN {e \in Projects : record[e] # NoRecord} ELSE {}
               k    == [Rest EXCEPT !.op = op, !.step = "lock", !.dir = d, !.addr = a, !.todo = todo]
    <2>2. todo \in SUBSET Projects
      OBVIOUS
    <2> HIDE DEF todo
    <2>3. k \in Command /\ k.step = "lock" /\ k.op = op
      BY <2>2, NoRecordFacts DEF Command
    <2>4. cmd' = [cmd EXCEPT ![c] = k]
      BY <2>1 DEF todo
    <2> HIDE DEF k
    <2>5. cmd[c].step = "rest" /\ UNCHANGED <<servers, record, lockedBy, squatted, stray, mishaps>>
      BY <1>1 DEF Invoke
    <2>6. \A b \in Cmds : cmd[b].step \notin {"rest", "lock"} => lockedBy' = b
      BY <2>5 DEF DaemonInv, HolderInv
    <2>7. lockedBy' \in Cmds \cup {NoCmd}
      BY <2>5 DEF DaemonInv, DaemonTypeOK
    <2> QED
      BY <2>3, <2>4, <2>5, <2>6, <2>7, Moves
  <1>2. CASE TakeLock(c)
    <2>1. cmd[c].step = "lock" /\ lockedBy = NoCmd /\ lockedBy' = c /\ Go(c, cmd[c].op)
          /\ UNCHANGED <<servers, record, squatted, stray, mishaps>>
      BY <1>2 DEF TakeLock
    <2>2. cmd[c].op \in {"up", "down", "status"} /\ cmd[c].dir \in Projects
      BY <2>1 DEF DaemonInv, CommandInv, DaemonTypeOK, Command
    <2>3. PICK k \in Command : cmd' = [cmd EXCEPT ![c] = k] /\ k.step = cmd[c].op /\ k.op = cmd[c].op
      BY <2>1, <2>2, Goes
    <2>4. \A b \in Cmds : cmd[b].step \in {"rest", "lock"}
      BY <2>1, DaemonAssumption DEF DaemonInv, HolderInv
    <2> QED
      BY <2>1, <2>2, <2>3, <2>4, Moves
  <1> QED
    BY <1>1, <1>2

\* lookup drops the record of a server that does not run, and no other.
LEMMA LookupInv ==
    ASSUME DaemonInv, NEW c \in Cmds, lookup(c) \/ Probe(c)
    PROVE  DaemonInv'
  <1> DEFINE d == cmd[c].dir
  <1>1. d \in Projects /\ UNCHANGED <<servers, squatted, stray, mishaps>>
    BY DEF lookup, Probe, DaemonInv, DaemonTypeOK, Command
  <1>2. lockedBy = c /\ \A b \in Cmds \ {c} : cmd[b].step \in {"rest", "lock"}
    BY Alone DEF lookup, Probe, DaemonInv
  <1>3. cmd[c].op # "none"
    BY DEF lookup, Probe, DaemonInv, CommandInv
  <1>4. CASE lookup(c) /\ record[d] # NoRecord /\ running(record[d])
    <2>1. Returns(c) /\ record' = record /\ cmd[c].step = "up"
      BY <1>4 DEF lookup
    <2> QED
      BY <1>1, <2>1, ReturnsInv
  <1>5. CASE lookup(c) /\ ~(record[d] # NoRecord /\ running(record[d]))
    <2>1. /\ Go(c, "probe") /\ record' = [record EXCEPT ![d] = NoRecord] /\ lockedBy' = lockedBy
          /\ cmd[c].step = "up"
      BY <1>5 DEF lookup
    <2>2. PICK k \in Command : /\ cmd' = [cmd EXCEPT ![c] = k] /\ k.step = "probe" /\ k.op = cmd[c].op
                               /\ k.dir = d
      BY <2>1, Goes
    <2>3. record'[d] = NoRecord
      BY <1>1, <2>1 DEF DaemonInv, DaemonTypeOK
    <2>4. record[d] # NoRecord => ~running(record[d])
      BY <1>5
    <2> HIDE DEF d
    <2> QED
      BY <1>1, <1>2, <1>3, <2>1, <2>2, <2>3, <2>4, Moves
  <1>6. CASE Probe(c) /\ Answers(cmd[c].addr)
    <2>1. Returns(c) /\ record' = record /\ cmd[c].step = "probe"
      BY <1>6 DEF Probe
    <2> QED
      BY <1>1, <2>1, ReturnsInv
  <1>7. CASE Probe(c) /\ ~Answers(cmd[c].addr)
    <2>1. Go(c, "spawn") /\ record' = record /\ lockedBy' = lockedBy /\ cmd[c].step = "probe"
      BY <1>7 DEF Probe
    <2>2. PICK k \in Command : /\ cmd' = [cmd EXCEPT ![c] = k] /\ k.step = "spawn" /\ k.op = cmd[c].op
                               /\ k.dir = d /\ k.addr = cmd[c].addr
      BY <2>1, Goes
    <2>3. record[d] = NoRecord
      BY <2>1 DEF DaemonInv, CommandInv
    <2>4. \A i \in DOMAIN servers : ~Listens(i, cmd[c].addr)
      BY <1>7 DEF Answers
    <2> HIDE DEF d
    <2> QED
      BY <1>1, <1>2, <1>3, <2>1, <2>2, <2>3, <2>4, Moves
  <1> QED
    BY <1>4, <1>5, <1>6, <1>7

\* down keeps the record of a server it could not stop.
LEMMA DownEndsInv ==
    ASSUME DaemonInv, NEW c \in Cmds, DownEnds(c)
    PROVE  DaemonInv'
  <1> DEFINE d == cmd[c].dir
  <1>1. /\ d \in Projects /\ UNCHANGED <<servers, squatted, stray, mishaps>> /\ Returns(c)
        /\ cmd[c].step = "gone"
    BY DEF DownEnds, DaemonInv, DaemonTypeOK, Command
  <1>2. \/ record' = record
        \/ record' = [record EXCEPT ![d] = NoRecord] /\ ~running(record[d])
    BY DEF DownEnds, running
  <1> HIDE DEF d
  <1> QED
    BY <1>1, <1>2, ReturnsInv

\* status drops what lookup drops, one project after the other.
LEMMA StatusInv ==
    ASSUME DaemonInv, NEW c \in Cmds, Status(c)
    PROVE  DaemonInv'
  <1>1. cmd[c].step = "status" /\ UNCHANGED <<servers, squatted, stray, mishaps>>
    BY DEF Status
  <1>2. CASE Returns(c) /\ UNCHANGED record
    <2>1. cmd[c].dir \in Projects
      BY DEF DaemonInv, DaemonTypeOK, Command
    <2> QED
      BY <1>1, <1>2, <2>1, ReturnsInv
  <1>3. CASE ~(Returns(c) /\ UNCHANGED record)
    <2> DEFINE k(d) == [cmd[c] EXCEPT !.todo = @ \ {d}]
    <2>1. PICK d \in cmd[c].todo :
             /\ record' = IF record[d] # NoRecord /\ ~running(record[d])
                          THEN [record EXCEPT ![d] = NoRecord] ELSE record
             /\ cmd' = [cmd EXCEPT ![c] = k(d)]
             /\ lockedBy' = lockedBy
      BY <1>3 DEF Status
    <2>2. cmd[c] \in Command
      BY DEF DaemonInv, DaemonTypeOK
    <2>3. d \in Projects /\ k(d) \in Command /\ k(d).step = "status" /\ k(d).op = cmd[c].op
      BY <1>1, <2>2 DEF Command
    <2>4. lockedBy = c /\ \A b \in Cmds \ {c} : cmd[b].step \in {"rest", "lock"}
      BY <1>1, Alone DEF DaemonInv
    <2>5. cmd[c].op # "none"
      BY <1>1 DEF DaemonInv, CommandInv
    <2>6. \/ record' = record
          \/ record' = [record EXCEPT ![d] = NoRecord] /\ ~running(record[d])
      BY <2>1
    <2> HIDE DEF k
    <2> QED
      BY <1>1, <2>1, <2>3, <2>4, <2>5, <2>6, Moves
  <1> QED
    BY <1>2, <1>3

-----------------------------------------------------------------------------
(* Steps that change a server *)

States == {"starting", "serving", "dying", "dead", "stranger"}

\* A server's state changes and nothing else of it.
LEMMA StateEdit ==
    ASSUME DaemonTypeOK, NEW i \in DOMAIN servers, NEW s \in States,
           servers' = [servers EXCEPT ![i].state = s]
    PROVE  /\ \E n \in 0 .. MaxPid : servers' \in [1 .. n -> Server]
           /\ DOMAIN servers' = DOMAIN servers
           /\ \A j \in DOMAIN servers : /\ servers'[j].dir = servers[j].dir
                                        /\ servers'[j].addr = servers[j].addr
                                        /\ j # i => servers'[j] = servers[j]
           /\ servers'[i].state = s
  <1>1. PICK n \in 0 .. MaxPid : servers \in [1 .. n -> Server]
    BY DEF DaemonTypeOK
  <1> DEFINE k == [servers[i] EXCEPT !.state = s]
  <1>2. servers[i] \in Server
    BY <1>1
  <1>3. k \in Server /\ k.dir = servers[i].dir /\ k.addr = servers[i].addr /\ k.state = s
    BY <1>2 DEF Server, States
  <1>4. servers' = [servers EXCEPT ![i] = k]
    OBVIOUS
  <1> HIDE DEF k
  <1> QED
    BY <1>1, <1>3, <1>4

\* SIGTERM leaves no server that has yet to come up, and frees no address.
LEMMA TerminatedEdit ==
    ASSUME DaemonTypeOK, NEW i \in DOMAIN servers, servers' = Terminated(i)
    PROVE  /\ \E n \in 0 .. MaxPid : servers' \in [1 .. n -> Server]
           /\ DOMAIN servers' = DOMAIN servers
           /\ \A j \in DOMAIN servers : /\ servers'[j].dir = servers[j].dir
                                        /\ servers'[j].addr = servers[j].addr
                                        /\ j # i => servers'[j] = servers[j]
           /\ servers'[i].state # "starting"
           /\ servers'[i].state = "stranger" => servers[i].state = "stranger"
           /\ servers'[i].state \in {"serving", "dying"} => servers[i].state \in {"serving", "dying"}
  <1> DEFINE s == IF servers[i].state = "serving" THEN "dying"
                  ELSE IF servers[i].state = "starting" THEN "dead" ELSE servers[i].state
  <1>1. servers[i] \in Server
    BY ServerFacts
  <1>2. /\ s \in States /\ s # "starting" /\ (s = "stranger" => servers[i].state = "stranger")
        /\ s \in {"serving", "dying"} => servers[i].state \in {"serving", "dying"}
    BY <1>1 DEF Server, States
  <1>3. servers' = [servers EXCEPT ![i].state = s]
    BY DEF Terminated
  <1> HIDE DEF s
  <1> QED
    BY <1>2, <1>3, StateEdit

\* What the records and the commands' children say of servers that keep their
\* directories and addresses.
LEMMA KeepsRecords ==
    ASSUME DaemonInv, DOMAIN servers' = DOMAIN servers, record' = record,
           \A j \in DOMAIN servers : /\ servers'[j].dir = servers[j].dir
                                     /\ servers'[j].addr = servers[j].addr
    PROVE  /\ RecordInv'
           /\ cmd' = cmd => CommandInv'
           /\ \A c \in Cmds : \A k \in Command :
                /\ cmd' = [cmd EXCEPT ![c] = k]
                /\ k.step \in {"rest", "gone"}
                /\ k.step = "gone" => record[k.dir] # NoRecord /\ k.op # "none"
                => CommandInv'
           /\ \A j \in DOMAIN servers : OnRecord(j) => OnRecord(j)'
  <1>1. RecordInv'
    BY DEF DaemonInv, RecordInv
  <1>2. cmd' = cmd => CommandInv'
    BY DEF DaemonInv, CommandInv
  <1>3. ASSUME NEW c \in Cmds, NEW k \in Command, cmd' = [cmd EXCEPT ![c] = k],
               k.step \in {"rest", "gone"},
               k.step = "gone" => record[k.dir] # NoRecord /\ k.op # "none"
        PROVE  CommandInv'
    <2>1. cmd'[c] = k /\ \A b \in Cmds \ {c} : cmd'[b] = cmd[b]
      BY <1>3 DEF DaemonInv, DaemonTypeOK
    <2> QED
      BY <1>3, <2>1 DEF DaemonInv, CommandInv
  <1>4. \A j \in DOMAIN servers : OnRecord(j) => OnRecord(j)'
    BY DEF OnRecord
  <1> QED
    BY <1>1, <1>2, <1>3, <1>4

\* A server comes up, ends, or its pid goes to another program: no command moves.
LEMMA ServerMoves ==
    ASSUME DaemonInv, NEW i \in DOMAIN servers, NEW s \in States,
           servers' = [servers EXCEPT ![i].state = s],
           UNCHANGED <<record, lockedBy, cmd, squatted, stray>>, mishaps' \in 0 .. MaxMishaps,
           s # "starting",
           s \in {"serving", "dying"} => servers[i].state = "starting",
           mishaps' = 0 => mishaps = 0 /\ s # "stranger"
    PROVE  DaemonInv'
  <1>1. /\ \E n \in 0 .. MaxPid : servers' \in [1 .. n -> Server]
        /\ DOMAIN servers' = DOMAIN servers /\ servers'[i].state = s
        /\ \A j \in DOMAIN servers : /\ servers'[j].dir = servers[j].dir
                                     /\ servers'[j].addr = servers[j].addr
                                     /\ j # i => servers'[j] = servers[j]
    BY StateEdit DEF DaemonInv
  <1>2. DaemonTypeOK' /\ HolderInv'
    BY <1>1 DEF DaemonInv, DaemonTypeOK, HolderInv
  <1>3. RecordInv' /\ CommandInv' /\ \A j \in DOMAIN servers : OnRecord(j) => OnRecord(j)'
    BY <1>1, KeepsRecords
  <1>4. \A j, S : Awaited(j, S)' = Awaited(j, S)
    BY DEF Awaited
  <1>5. ServersInv'
    <2> SUFFICES ASSUME NEW j \in DOMAIN servers \ stray
                 PROVE  /\ servers'[j].state = "starting" => Awaited(j, {"ready"})
                        /\ servers'[j].state \in {"serving", "dying"} =>
                             OnRecord(j) \/ Awaited(j, {"ready", "write"})
      BY <1>1, <1>3, <1>4 DEF ServersInv
    <2>1. /\ servers[j].state = "starting" => Awaited(j, {"ready"})
          /\ servers[j].state \in {"serving", "dying"} => OnRecord(j) \/ Awaited(j, {"ready", "write"})
      BY DEF DaemonInv, ServersInv
    <2>2. Awaited(j, {"ready"}) => Awaited(j, {"ready", "write"})
      BY DEF Awaited
    <2> QED
      BY <1>1, <2>1, <2>2
  <1>6. QuietInv'
    <2> SUFFICES ASSUME mishaps' = 0 PROVE QuietInv'
      BY DEF QuietInv
    <2>1. mishaps = 0 /\ s # "stranger" /\ squatted = {}
      BY DEF DaemonInv, QuietInv
    <2>2. \A j \in DOMAIN servers : servers'[j].state # "stranger"
                                    /\ (servers'[j].state = "starting" => Awaited(j, {"ready"}))
      BY <1>1, <2>1 DEF DaemonInv, QuietInv
    <2>3. ASSUME NEW c \in Cmds, NEW j \in DOMAIN servers,
                 \/ cmd[c].step = "spawn"
                 \/ cmd[c].step \in {"ready", "write"} /\ j # cmd[c].child
          PROVE  ~Listens(j, cmd[c].addr)'
      <3>1. ~Listens(j, cmd[c].addr)
        BY <2>1, <2>3 DEF DaemonInv, QuietInv
      <3>2. CASE j # i
        BY <1>1, <3>1, <3>2 DEF Listens
      <3>3. CASE j = i /\ servers[i].state # "starting"
        BY <1>1, <3>3 DEF Listens
      <3>4. CASE j = i /\ servers[i].state = "starting"
        <4>1. PICK b \in Cmds : cmd[b].step = "ready" /\ cmd[b].child = i
          BY <2>1, <3>4 DEF DaemonInv, QuietInv, Awaited
        <4>2. b = c
          BY <2>3, <4>1 DEF DaemonInv, HolderInv
        <4> QED
          BY <2>3, <3>4, <4>1, <4>2
      <3> QED
        BY <3>2, <3>3, <3>4
    <2> QED
      BY <1>1, <1>4, <2>1, <2>2, <2>3 DEF QuietInv
  <1> QED
    BY <1>2, <1>3, <1>5, <1>6 DEF DaemonInv

\* A server that binds, fails to or exits keeps the invariant.
LEMMA ServerStepInv ==
    ASSUME DaemonInv, NEW i \in DOMAIN servers, ServeHTTP(i) \/ ServerDies(i)
    PROVE  DaemonInv'
  <1>1. mishaps' = mishaps /\ mishaps \in 0 .. MaxMishaps
        /\ UNCHANGED <<record, lockedBy, cmd, squatted, stray>>
    BY DEF ServeHTTP, ServerDies, DaemonInv, DaemonTypeOK
  <1>2. CASE ServeHTTP(i)
    <2>1. \E s \in {"dead", "serving"} : servers' = [servers EXCEPT ![i].state = s]
      BY <1>2 DEF ServeHTTP
    <2>2. servers[i].state = "starting"
      BY <1>2 DEF ServeHTTP
    <2> QED
      BY <1>1, <2>1, <2>2, ServerMoves DEF States
  <1>3. CASE ServerDies(i)
    <2>1. servers' = [servers EXCEPT ![i].state = "dead"]
      BY <1>3 DEF ServerDies
    <2> QED
      BY <1>1, <2>1, ServerMoves DEF States
  <1> QED
    BY <1>2, <1>3

\* So does another program that takes an address or a pid: a mishap.
LEMMA OutsiderInv ==
    ASSUME DaemonInv, Outsider
    PROVE  DaemonInv'
  <1>1. mishaps' \in 0 .. MaxMishaps /\ mishaps' # 0 /\ UNCHANGED <<record, lockedBy, cmd, stray>>
    BY DaemonAssumption DEF Outsider, DaemonInv, DaemonTypeOK
  <1>2. CASE \E a \in Addrs : squatted' = squatted \cup {a} /\ UNCHANGED servers
    <2>1. DaemonTypeOK' /\ HolderInv' /\ CommandInv' /\ RecordInv'
      BY <1>1, <1>2 DEF DaemonInv, DaemonTypeOK, HolderInv, CommandInv, RecordInv
    <2>2. ServersInv'
      BY <1>1, <1>2 DEF DaemonInv, ServersInv, Awaited, OnRecord
    <2>3. QuietInv'
      BY <1>1 DEF QuietInv
    <2> QED
      BY <2>1, <2>2, <2>3 DEF DaemonInv
  <1>3. CASE \E i \in DOMAIN servers : /\ ~alive(i)
                                       /\ servers' = [servers EXCEPT ![i].state = "stranger"]
                                       /\ UNCHANGED squatted
    BY <1>1, <1>3, ServerMoves DEF States
  <1> QED
    BY <1>2, <1>3 DEF Outsider

\* Down sends SIGTERM to the server on record and waits.
LEMMA DownInv ==
    ASSUME DaemonInv, NEW c \in Cmds, Down(c)
    PROVE  DaemonInv'
  <1> DEFINE d == cmd[c].dir
             r == record[d]
  <1>1. d \in Projects /\ UNCHANGED <<squatted, stray, mishaps>> /\ cmd[c].step = "down"
    BY DEF Down, DaemonInv, DaemonTypeOK, Command
  <1>2. CASE r = NoRecord \/ ~running(r)
    <2>1. record' = [record EXCEPT ![d] = NoRecord] /\ Returns(c) /\ UNCHANGED servers
      BY <1>2 DEF Down
    <2>2. r # NoRecord => ~running(r)
      BY <1>2
    <2> QED
      BY <1>1, <2>1, <2>2, ReturnsInv
  <1>3. CASE ~(r = NoRecord \/ ~running(r))
    <2>1. servers' = Terminated(r.pid) /\ Go(c, "gone") /\ UNCHANGED <<record, lockedBy>>
      BY <1>3 DEF Down
    <2>2. r # NoRecord /\ r.pid \in DOMAIN servers
      BY <1>1, <1>3 DEF DaemonInv, RecordInv
    <2>3. /\ \E n \in 0 .. MaxPid : servers' \in [1 .. n -> Server]
          /\ DOMAIN servers' = DOMAIN servers
          /\ \A j \in DOMAIN servers : /\ servers'[j].dir = servers[j].dir
                                       /\ servers'[j].addr = servers[j].addr
                                       /\ j # r.pid => servers'[j] = servers[j]
          /\ servers'[r.pid].state # "starting"
          /\ servers'[r.pid].state = "stranger" => servers[r.pid].state = "stranger"
          /\ servers'[r.pid].state \in {"serving", "dying"} => servers[r.pid].state \in {"serving", "dying"}
      BY <2>1, <2>2, TerminatedEdit DEF DaemonInv
    <2>4. PICK k \in Command : /\ cmd' = [cmd EXCEPT ![c] = k] /\ k.step = "gone"
                               /\ k.op = cmd[c].op /\ k.dir = d
      BY <2>1, Goes
    <2>5. cmd'[c] = k /\ \A b \in Cmds \ {c} : cmd'[b] = cmd[b] /\ cmd[b].step \in {"rest", "lock"}
      BY <1>1, <2>4, Alone DEF DaemonInv, DaemonTypeOK
    <2>6. cmd[c].op # "none" /\ lockedBy = c
      BY <1>1, Alone DEF DaemonInv, CommandInv
    <2>7. DaemonTypeOK' /\ HolderInv'
      BY <1>1, <2>1, <2>3, <2>4, <2>5, <2>6 DEF DaemonInv, DaemonTypeOK, HolderInv
    <2>8. RecordInv' /\ \A j \in DOMAIN servers : OnRecord(j) => OnRecord(j)'
      BY <2>1, <2>3, KeepsRecords
    <2>9. CommandInv'
      BY <2>1, <2>2, <2>3, <2>4, <2>6, KeepsRecords
    <2>10. \A j \in DOMAIN servers : ~Awaited(j, {"ready"}) /\ ~Awaited(j, {"ready", "write"})
      BY <1>1, <2>5 DEF Awaited
    <2>11. ServersInv'
      BY <1>1, <2>3, <2>8, <2>10 DEF DaemonInv, ServersInv
    <2>12. QuietInv'
      <3>1. \A b \in Cmds : cmd'[b].step \notin {"spawn", "ready", "write"}
        BY <2>4, <2>5
      <3> QED
        BY <1>1, <2>3, <2>10, <3>1 DEF DaemonInv, QuietInv
    <2> QED
      BY <2>7, <2>8, <2>9, <2>11, <2>12 DEF DaemonInv
  <1> QED
    BY <1>2, <1>3

\* Spawn: the address was free when it was probed, and nobody came up since.
LEMMA SpawnInv ==
    ASSUME DaemonInv, NEW c \in Cmds, Spawn(c)
    PROVE  DaemonInv'
  <1>1. cmd[c].step = "spawn" /\ UNCHANGED <<record, lockedBy, squatted, stray, mishaps>>
    BY DEF Spawn
  <1>2. PICK n \in 0 .. MaxPid : servers \in [1 .. n -> Server]
    BY DEF DaemonInv, DaemonTypeOK
  <1>3. n \in Nat /\ n <= MaxPid /\ MaxPid \in Nat
    BY DaemonAssumption
  <1>4. Cardinality(DOMAIN servers) = n
    <2>1. 1 \in Int /\ n \in Int /\ (1 > n => n = 0) /\ n - 1 + 1 = n
      BY <1>3
    <2>2. Cardinality(1 .. n) = IF 1 > n THEN 0 ELSE n - 1 + 1
      BY <2>1, FS_Interval, Zenon
    <2>3. DOMAIN servers = 1 .. n
      BY <1>2
    <2> QED
      BY <2>1, <2>2, <2>3
  <1> DEFINE i == n + 1
             w == [dir |-> cmd[c].dir, addr |-> cmd[c].addr, state |-> "starting"]
             k == [cmd[c] EXCEPT !.step = "ready", !.child = i]
  <1>5. i \in 0 .. MaxPid /\ i \in Pids /\ i # 0 /\ i \notin 1 .. n /\ 1 .. i = (1 .. n) \cup {i}
    BY <1>3, <1>4 DEF Spawn, Pids
  <1>6. servers' = [j \in 1 .. i |-> IF j = i THEN w ELSE servers[j]]
    BY <1>4 DEF Spawn
  <1>7. cmd[c] \in Command
    BY DEF DaemonInv, DaemonTypeOK
  <1>8. /\ k \in Command /\ k.step = "ready" /\ k.child = i /\ k.op = cmd[c].op
        /\ k.dir = cmd[c].dir /\ k.addr = cmd[c].addr
    BY <1>5, <1>7 DEF Command
  <1>9. w \in Server /\ w.dir = cmd[c].dir /\ w.addr = cmd[c].addr /\ w.state = "starting"
    BY <1>7 DEF Command, Server
  <1>10. cmd' = [cmd EXCEPT ![c] = k]
    BY <1>4 DEF Spawn
  <1> HIDE DEF i, w, k
  <1>11. /\ servers' \in [1 .. i -> Server] /\ servers'[i] = w
         /\ \A j \in 1 .. n : servers'[j] = servers[j]
         /\ DOMAIN servers' = (1 .. n) \cup {i} /\ DOMAIN servers = 1 .. n
    BY <1>2, <1>5, <1>6, <1>9
  <1>12. cmd'[c] = k /\ \A b \in Cmds \ {c} : cmd'[b] = cmd[b] /\ cmd[b].step \in {"rest", "lock"}
    BY <1>1, <1>10, Alone DEF DaemonInv, DaemonTypeOK
  <1>13. lockedBy = c /\ cmd[c].op # "none" /\ record[cmd[c].dir] = NoRecord
    BY <1>1, Alone DEF DaemonInv, CommandInv
  <1>14. DaemonTypeOK' /\ HolderInv'
    BY <1>1, <1>5, <1>8, <1>10, <1>11, <1>12, <1>13 DEF DaemonInv, DaemonTypeOK, HolderInv
  <1>15. CommandInv'
    BY <1>1, <1>8, <1>9, <1>11, <1>12, <1>13 DEF DaemonInv, CommandInv
  <1>16. RecordInv'
    BY <1>1, <1>11 DEF DaemonInv, RecordInv
  <1>17. \A j : ~Awaited(j, {"ready"}) /\ ~Awaited(j, {"ready", "write"})
    BY <1>1, <1>12 DEF Awaited
  <1>18. Awaited(i, {"ready"})'
    BY <1>8, <1>12 DEF Awaited
  <1>19. ServersInv'
    <2> SUFFICES ASSUME NEW j \in DOMAIN servers' \ stray
                 PROVE  /\ servers'[j].state = "starting" => Awaited(j, {"ready"})'
                        /\ servers'[j].state \in {"serving", "dying"} => OnRecord(j)'
      BY <1>1 DEF ServersInv
    <2>1. CASE j = i
      BY <1>9, <1>11, <1>18, <2>1
    <2>2. CASE j \in 1 .. n
      BY <1>1, <1>11, <1>17, <2>2 DEF DaemonInv, ServersInv, OnRecord
    <2> QED
      BY <1>11, <2>1, <2>2
  <1>20. QuietInv'
    <2> SUFFICES ASSUME mishaps = 0 PROVE QuietInv'
      BY <1>1 DEF QuietInv
    <2>1. /\ squatted' = {}
          /\ \A j \in DOMAIN servers' : /\ servers'[j].state # "stranger"
                                        /\ servers'[j].state = "starting" => Awaited(j, {"ready"})'
      BY <1>1, <1>9, <1>11, <1>17, <1>18 DEF DaemonInv, QuietInv
    <2>2. ASSUME NEW b \in Cmds, NEW j \in DOMAIN servers',
                 \/ cmd'[b].step = "spawn"
                 \/ cmd'[b].step \in {"ready", "write"} /\ j # cmd'[b].child
          PROVE  ~Listens(j, cmd[b].addr)'
      <3>1. b = c /\ j # i
        BY <1>8, <1>12, <2>2
      <3>2. j \in 1 .. n /\ servers'[j] = servers[j] /\ ~Listens(j, cmd[c].addr)
        BY <1>1, <1>11, <3>1 DEF DaemonInv, QuietInv
      <3> QED
        BY <1>8, <1>12, <3>1, <3>2 DEF Listens
    <2> QED
      BY <2>1, <2>2 DEF QuietInv
  <1> QED
    BY <1>14, <1>15, <1>16, <1>19, <1>20 DEF DaemonInv

\* An up that gives up terminates its child, and counts it as lost.
LEMMA GivesUpInv ==
    ASSUME DaemonInv, NEW c \in Cmds, cmd[c].step \in {"ready", "write"}, Returns(c),
           servers' = Terminated(cmd[c].child), stray' = stray \cup {cmd[c].child},
           UNCHANGED <<record, squatted, mishaps>>
    PROVE  DaemonInv'
  <1> DEFINE i == cmd[c].child
  <1>1. i \in DOMAIN servers /\ i \in Pids
    BY ServerFacts DEF DaemonInv, CommandInv
  <1>2. /\ \E n \in 0 .. MaxPid : servers' \in [1 .. n -> Server]
        /\ DOMAIN servers' = DOMAIN servers
        /\ \A j \in DOMAIN servers : /\ servers'[j].dir = servers[j].dir
                                     /\ servers'[j].addr = servers[j].addr
                                     /\ j # i => servers'[j] = servers[j]
        /\ servers'[i].state # "starting"
        /\ servers'[i].state = "stranger" => servers[i].state = "stranger"
    BY <1>1, TerminatedEdit DEF DaemonInv
  <1>3. cmd' = [cmd EXCEPT ![c] = Rest] /\ lockedBy' = NoCmd
    BY DEF Returns
  <1>4. cmd'[c] = Rest /\ \A b \in Cmds \ {c} : cmd'[b] = cmd[b] /\ cmd[b].step \in {"rest", "lock"}
    BY <1>3, Alone DEF DaemonInv, DaemonTypeOK
  <1>5. DaemonTypeOK' /\ HolderInv'
    BY <1>1, <1>2, <1>3, <1>4, NoRecordFacts DEF DaemonInv, DaemonTypeOK, HolderInv
  <1>6. RecordInv' /\ \A j \in DOMAIN servers : OnRecord(j) => OnRecord(j)'
    BY <1>2, KeepsRecords
  <1>7. CommandInv'
    BY <1>2, <1>3, NoRecordFacts, KeepsRecords
  <1>8. \A j : j # i => ~Awaited(j, {"ready"}) /\ ~Awaited(j, {"ready", "write"})
    BY <1>4 DEF Awaited
  <1>9. ServersInv'
    BY <1>2, <1>6, <1>8 DEF DaemonInv, ServersInv
  <1>10. QuietInv'
    <2>1. \A b \in Cmds : cmd'[b].step \notin {"spawn", "ready", "write"}
      BY <1>4, NoRecordFacts
    <2> HIDE DEF i
    <2> QED
      BY <1>2, <1>8, <2>1 DEF DaemonInv, QuietInv
  <1> QED
    BY <1>5, <1>6, <1>7, <1>9, <1>10 DEF DaemonInv

\* waitReady: without mishaps it is the child that answers.
LEMMA WaitReadyInv ==
    ASSUME DaemonInv, NEW c \in Cmds, waitReady(c)
    PROVE  DaemonInv'
  <1> DEFINE i == cmd[c].child
  <1>1. cmd[c].step = "ready" /\ UNCHANGED <<record, squatted, mishaps>>
    BY DEF waitReady
  <1>2. CASE ~Answers(cmd[c].addr)
    BY <1>1, <1>2, GivesUpInv DEF waitReady
  <1>3. CASE Answers(cmd[c].addr)
    <2>1. /\ stray' = IF Listens(i, cmd[c].addr) THEN stray ELSE stray \cup {i}
          /\ Go(c, "write") /\ UNCHANGED <<servers, lockedBy>>
      BY <1>3 DEF waitReady
    <2> DEFINE k == [cmd[c] EXCEPT !.step = "write"]
    <2>2. cmd[c] \in Command
      BY DEF DaemonInv, DaemonTypeOK
    <2>3. /\ k \in Command /\ k.step = "write" /\ k.op = cmd[c].op /\ k.dir = cmd[c].dir
          /\ k.addr = cmd[c].addr /\ k.child = i
      BY <2>2 DEF Command
    <2>4. cmd' = [cmd EXCEPT ![c] = k]
      BY <2>1 DEF Go
    <2> HIDE DEF k
    <2>5. cmd'[c] = k /\ \A b \in Cmds \ {c} : cmd'[b] = cmd[b] /\ cmd[b].step \in {"rest", "lock"}
      BY <1>1, <2>4, Alone DEF DaemonInv, DaemonTypeOK
    <2>6. /\ lockedBy = c /\ cmd[c].op # "none" /\ record[cmd[c].dir] = NoRecord
          /\ i \in DOMAIN servers /\ servers[i].dir = cmd[c].dir /\ servers[i].addr = cmd[c].addr
      BY <1>1, Alone DEF DaemonInv, CommandInv
    <2>7. i \in Pids /\ stray \subseteq stray' /\ stray' \subseteq Pids
      BY <2>1, <2>6, ServerFacts DEF DaemonInv, DaemonTypeOK
    <2>8. DaemonTypeOK' /\ HolderInv'
      BY <1>1, <2>1, <2>3, <2>4, <2>5, <2>6, <2>7 DEF DaemonInv, DaemonTypeOK, HolderInv
    <2>9. CommandInv' /\ RecordInv'
      BY <1>1, <2>1, <2>3, <2>5, <2>6 DEF DaemonInv, CommandInv, RecordInv
    <2>10. \A j : j # i => ~Awaited(j, {"ready"}) /\ ~Awaited(j, {"ready", "write"})
      BY <2>5 DEF Awaited
    <2>11. \A j : j = cmd[c].child => Awaited(j, {"ready", "write"})'
      BY <2>3, <2>5 DEF Awaited
    <2>12. ServersInv'
      <3> SUFFICES ASSUME NEW j \in DOMAIN servers \ stray'
                   PROVE  /\ servers[j].state # "starting"
                          /\ servers[j].state \in {"serving", "dying"} =>
                               OnRecord(j)' \/ Awaited(j, {"ready", "write"})'
        BY <2>1 DEF ServersInv
      <3>1. j = i => servers[j].state # "starting"
        BY <2>1 DEF Listens
      <3>2. j \in DOMAIN servers \ stray
        BY <2>7
      <3>3. /\ servers[j].state = "starting" => Awaited(j, {"ready"})
            /\ servers[j].state \in {"serving", "dying"} => OnRecord(j) \/ Awaited(j, {"ready", "write"})
        BY <3>2 DEF DaemonInv, ServersInv
      <3>4. OnRecord(j) => OnRecord(j)'
        BY <1>1, <2>1 DEF OnRecord
      <3>5. CASE j = i
        BY <2>11, <3>1, <3>5
      <3>6. CASE j # i
        BY <2>10, <3>3, <3>4, <3>6
      <3> QED
        BY <3>5, <3>6
    <2>13. QuietInv'
      <3> SUFFICES ASSUME mishaps = 0 PROVE QuietInv'
        BY <1>1 DEF QuietInv
      <3>1. /\ squatted = {}
            /\ \A j \in DOMAIN servers : /\ servers[j].state # "stranger"
                                         /\ servers[j].state = "starting" => Awaited(j, {"ready"})
            /\ \A j \in DOMAIN servers : j # i => ~Listens(j, cmd[c].addr)
        BY <1>1 DEF DaemonInv, QuietInv
      <3>2. servers[i].state # "starting"
        BY <1>3, <2>6, <3>1 DEF Answers, Listens
      <3>3. \A j \in DOMAIN servers : servers[j].state # "starting"
        BY <2>10, <3>1, <3>2
      <3>4. ASSUME NEW b \in Cmds, NEW j \in DOMAIN servers,
                 \/ cmd'[b].step = "spawn"
                 \/ cmd'[b].step \in {"ready", "write"} /\ j # cmd'[b].child
            PROVE  ~Listens(j, cmd[b].addr)'
        <4>1. b = c /\ j # i
          BY <2>3, <2>5, <3>4
        <4> QED
          BY <2>1, <2>3, <2>5, <3>1, <4>1 DEF Listens
      <3> QED
        BY <1>1, <2>1, <3>1, <3>3, <3>4 DEF QuietInv
    <2> QED
      BY <2>8, <2>9, <2>12, <2>13 DEF DaemonInv
  <1> QED
    BY <1>2, <1>3

\* WriteRecord: the record it makes replaces none.
LEMMA WriteRecordInv ==
    ASSUME DaemonInv, NEW c \in Cmds, WriteRecord(c)
    PROVE  DaemonInv'
  <1> DEFINE i == cmd[c].child
             d == cmd[c].dir
             r == [pid |-> i, addr |-> cmd[c].addr]
  <1>1. cmd[c].step = "write" /\ Returns(c) /\ UNCHANGED <<squatted, mishaps>>
    BY DEF WriteRecord
  <1>2. CASE servers' = Terminated(i) /\ stray' = stray \cup {i} /\ UNCHANGED record
    BY <1>1, <1>2, GivesUpInv
  <1>3. CASE record' = [record EXCEPT ![d] = r] /\ UNCHANGED <<servers, stray>>
    <2>1. cmd[c] \in Command
      BY DEF DaemonInv, DaemonTypeOK
    <2>2. r \in [pid : 0 .. MaxPid, addr : Addrs] /\ r.pid = i /\ r.addr = cmd[c].addr /\ d \in Projects
      BY <2>1 DEF Command
    <2>3. /\ record[d] = NoRecord /\ i \in DOMAIN servers
          /\ servers[i].dir = d /\ servers[i].addr = cmd[c].addr
      BY <1>1 DEF DaemonInv, CommandInv
    <2>4. record'[d] = r /\ \A e \in Projects \ {d} : record'[e] = record[e]
      BY <1>3, <2>2 DEF DaemonInv, DaemonTypeOK
    <2>5. cmd' = [cmd EXCEPT ![c] = Rest] /\ lockedBy' = NoCmd
      BY <1>1 DEF Returns
    <2>6. cmd'[c] = Rest /\ \A b \in Cmds \ {c} : cmd'[b] = cmd[b] /\ cmd[b].step \in {"rest", "lock"}
      BY <1>1, <2>5, Alone DEF DaemonInv, DaemonTypeOK
    <2>7. DaemonTypeOK' /\ HolderInv'
      BY <1>1, <1>3, <2>2, <2>5, <2>6, NoRecordFacts DEF DaemonInv, DaemonTypeOK, HolderInv
    <2>8. CommandInv'
      BY <2>6, NoRecordFacts DEF DaemonInv, CommandInv
    <2>9. RecordInv'
      BY <1>3, <2>2, <2>3, <2>4 DEF DaemonInv, RecordInv
    <2>10. \A j : ~Awaited(j, {"ready"}) /\ (j # i => ~Awaited(j, {"ready", "write"}))
      BY <1>1, <2>6 DEF Awaited
    <2>11. ServersInv'
      <3> SUFFICES ASSUME NEW j \in DOMAIN servers \ stray
                   PROVE  /\ servers[j].state # "starting"
                          /\ servers[j].state \in {"serving", "dying"} => OnRecord(j)'
        BY <1>3 DEF ServersInv
      <3>1. /\ servers[j].state = "starting" => Awaited(j, {"ready"})
            /\ servers[j].state \in {"serving", "dying"} => OnRecord(j) \/ Awaited(j, {"ready", "write"})
        BY DEF DaemonInv, ServersInv
      <3>2. CASE j = i
        BY <1>3, <2>3, <2>4, <2>10, <3>1, <3>2 DEF OnRecord
      <3>3. CASE j # i
        <4>1. j # 0 /\ servers[j].dir \in Projects
          BY ServerFacts DEF DaemonInv, Server
        <4>2. OnRecord(j) => servers[j].dir # d
          BY <2>3, <4>1, NoRecordFacts DEF OnRecord
        <4>3. OnRecord(j) => OnRecord(j)'
          BY <1>3, <2>4, <4>1, <4>2 DEF OnRecord
        <4> QED
          BY <2>10, <3>1, <3>3, <4>3
      <3> QED
        BY <3>2, <3>3
    <2>12. QuietInv'
      <3>1. \A b \in Cmds : cmd'[b].step \notin {"spawn", "ready", "write"}
        BY <2>6, NoRecordFacts
      <3> QED
        BY <1>1, <1>3, <2>10, <3>1 DEF DaemonInv, QuietInv
    <2> QED
      BY <2>7, <2>8, <2>9, <2>11, <2>12 DEF DaemonInv
  <1> QED
    BY <1>2, <1>3 DEF WriteRecord

\* A killed command loses the child it had not recorded.
LEMMA KillCommandInv ==
    ASSUME DaemonInv, NEW c \in Cmds, KillCommand(c)
    PROVE  DaemonInv'
  <1>1. /\ mishaps' \in 0 .. MaxMishaps /\ mishaps' # 0 /\ UNCHANGED <<servers, record, squatted>>
        /\ cmd' = [cmd EXCEPT ![c] = Rest]
        /\ lockedBy' = IF lockedBy = c THEN NoCmd ELSE lockedBy
        /\ stray' = IF cmd[c].step \in {"ready", "write"} THEN stray \cup {cmd[c].child} ELSE stray
    BY DaemonAssumption DEF KillCommand, DaemonInv, DaemonTypeOK
  <1>2. cmd'[c] = Rest /\ \A b \in Cmds \ {c} : cmd'[b] = cmd[b]
    BY <1>1 DEF DaemonInv, DaemonTypeOK
  <1>3. stray \subseteq stray' /\ stray' \subseteq Pids
    <2>1. cmd[c].step \in {"ready", "write"} => cmd[c].child \in Pids
      BY ServerFacts DEF DaemonInv, CommandInv
    <2> QED
      BY <1>1, <2>1 DEF DaemonInv, DaemonTypeOK
  <1>4. DaemonTypeOK'
    BY <1>1, <1>3, NoRecordFacts DEF DaemonInv, DaemonTypeOK
  <1>5. HolderInv'
    BY <1>1, <1>2, NoRecordFacts DEF DaemonInv, HolderInv
  <1>6. CommandInv' /\ RecordInv'
    BY <1>1, <1>2, NoRecordFacts DEF DaemonInv, CommandInv, RecordInv
  <1>7. \A j, S : S \subseteq {"ready", "write"} /\ Awaited(j, S) /\ j \notin stray' => Awaited(j, S)'
    BY <1>1, <1>2 DEF Awaited
  <1>8. ServersInv'
    <2> SUFFICES ASSUME NEW j \in DOMAIN servers \ stray'
                 PROVE  /\ servers[j].state = "starting" => Awaited(j, {"ready"})'
                        /\ servers[j].state \in {"serving", "dying"} =>
                             OnRecord(j)' \/ Awaited(j, {"ready", "write"})'
      BY <1>1 DEF ServersInv
    <2>1. j \in DOMAIN servers \ stray
      BY <1>3
    <2>2. /\ servers[j].state = "starting" => Awaited(j, {"ready"})
          /\ servers[j].state \in {"serving", "dying"} => OnRecord(j) \/ Awaited(j, {"ready", "write"})
      BY <2>1 DEF DaemonInv, ServersInv
    <2>3. OnRecord(j) => OnRecord(j)'
      BY <1>1 DEF OnRecord
    <2>4. Awaited(j, {"ready"}) => Awaited(j, {"ready"})'
      BY <1>7
    <2>5. Awaited(j, {"ready", "write"}) => Awaited(j, {"ready", "write"})'
      BY <1>7
    <2> QED
      BY <2>2, <2>3, <2>4, <2>5
  <1>9. QuietInv'
    BY <1>1 DEF QuietInv
  <1> QED
    BY <1>4, <1>5, <1>6, <1>8, <1>9 DEF DaemonInv

\* The invariant holds before the first command.
LEMMA DaemonInitInv == DaemonInit => DaemonInv
  <1> SUFFICES ASSUME DaemonInit PROVE DaemonInv
    OBVIOUS
  <1>1. DOMAIN servers = {} /\ servers \in [1 .. 0 -> Server]
    <2>1. 1 .. 0 = {}
      OBVIOUS
    <2> QED
      BY <2>1 DEF DaemonInit
  <1>2. \A c \in Cmds : cmd[c] = Rest
    BY DEF DaemonInit
  <1>3. DaemonTypeOK
    <2>1. 0 \in 0 .. MaxPid /\ 0 \in 0 .. MaxMishaps
      BY DaemonAssumption
    <2>2. \E n \in 0 .. MaxPid : servers \in [1 .. n -> Server]
      BY <1>1, <2>1
    <2> QED
      BY <2>1, <2>2, NoRecordFacts DEF DaemonInit, DaemonTypeOK
  <1>4. HolderInv /\ CommandInv
    BY <1>2, NoRecordFacts DEF HolderInv, CommandInv
  <1>5. RecordInv /\ ServersInv
    BY <1>1 DEF DaemonInit, RecordInv, ServersInv
  <1>6. QuietInv
    BY <1>1, <1>2, NoRecordFacts DEF DaemonInit, QuietInv
  <1> QED
    BY <1>3, <1>4, <1>5, <1>6 DEF DaemonInv

\* Every step of the commands, servers and other programs keeps it.
LEMMA DaemonInvNext == DaemonInv /\ [DaemonNext]_daemonVars => DaemonInv'
  <1> SUFFICES ASSUME DaemonInv, [DaemonNext]_daemonVars PROVE DaemonInv'
    OBVIOUS
  <1>1. CASE DaemonNext
    BY <1>1, BeginInv, LookupInv, SpawnInv, WaitReadyInv, WriteRecordInv, DownInv, DownEndsInv,
       StatusInv, KillCommandInv, ServerStepInv, OutsiderInv DEF DaemonNext
  <1>2. CASE UNCHANGED daemonVars
    BY <1>2 DEF daemonVars, DaemonInv, DaemonTypeOK, HolderInv, CommandInv, RecordInv,
                ServersInv, QuietInv, Awaited, OnRecord, Listens
  <1> QED
    BY <1>1, <1>2

\* It is why records and servers correspond.
LEMMA DaemonInvTracks == DaemonInv => ServersTracked
  <1> SUFFICES ASSUME DaemonInv PROVE ServersTracked
    OBVIOUS
  <1>1. lockedBy = NoCmd => \A c \in Cmds : cmd[c].step \in {"rest", "lock"}
    BY DaemonAssumption DEF DaemonInv, HolderInv
  <1>2. lockedBy = NoCmd => \A j : ~Awaited(j, {"ready"}) /\ ~Awaited(j, {"ready", "write"})
    BY <1>1 DEF Awaited
  <1>3. RunningIsOwn
    <2> SUFFICES ASSUME lockedBy = NoCmd, mishaps = 0, NEW d \in Projects,
                        record[d] # NoRecord, running(record[d])
                 PROVE  LET i == record[d].pid IN servers[i].dir = d /\ Listens(i, record[d].addr)
      BY DEF RunningIsOwn
    <2> DEFINE i == record[d].pid
    <2>1. i \in DOMAIN servers /\ servers[i].dir = d /\ servers[i].addr = record[d].addr
      BY DEF DaemonInv, RecordInv
    <2>2. servers[i].state \notin {"dead", "stranger", "starting"}
      BY <1>2, <2>1 DEF DaemonInv, QuietInv, running, alive
    <2>3. servers[i].state \in {"serving", "dying"}
      BY <2>1, <2>2, ServerFacts DEF DaemonInv, Server
    <2> QED
      BY <2>1, <2>3 DEF Listens
  <1>4. ServerRecorded
    BY <1>2 DEF DaemonInv, ServersInv, OnRecord, ServerRecorded
  <1> QED
    BY <1>3, <1>4 DEF ServersTracked

-----------------------------------------------------------------------------
(* Calls: what a step has to keep *)

AllSteps == {"idle"} \cup HostSteps \cup GuestSteps \cup Finished
Told == {"none", "starting", "running", "exited", "unknown"}

\* Goto moves one call.
LEMMA GotoFacts ==
    ASSUME TypeOK, NEW c \in Calls, NEW p \in AllSteps, Goto(c, p)
    PROVE  /\ pc' \in [Calls -> AllSteps] /\ top' \in [Calls -> Levels]
           /\ pc'[c] = p
           /\ p \notin Finished => top'[c] = top[c]
           /\ \A d \in Calls \ {c} : pc'[d] = pc[d] /\ top'[d] = top[d]
  <1>1. /\ pc' = [pc EXCEPT ![c] = p]
        /\ top' = [top EXCEPT ![c] = IF p \in Finished THEN LevelNone ELSE top[c]]
    BY DEF Goto
  <1>2. pc \in [Calls -> AllSteps] /\ top \in [Calls -> Levels]
    BY DEF TypeOK, AllSteps
  <1>3. LevelNone \in Levels
    BY DEF LevelNone, Levels, LevelExec
  <1> QED
    BY <1>1, <1>2, <1>3

\* The buckets speak of the clock and of what was granted to whom.
LEMMA BucketsKept ==
    ASSUME BucketsTight, UNCHANGED <<limitVars, tool>>
    PROVE  BucketsTight'
  <1>1. UNCHANGED <<now, bucket, at, tool>>
    BY DEF limitVars
  <1>2. Times' = Times
    BY <1>1 DEF Times
  <1>3. \A k, s : GrantedSince(k, s)' = GrantedSince(k, s)
    BY <1>1 DEF GrantedSince
  <1>4. \A k, s : Window(k, s)' = Window(k, s)
    BY <1>1, <1>3 DEF Window
  <1>5. \A k : Level(k)' = Level(k)
    BY <1>1 DEF Level
  <1>6. \A k : Tight(k) => Tight(k)'
    BY <1>2, <1>4, <1>5 DEF Tight
  <1> QED
    BY <1>1, <1>6 DEF BucketsTight

\* A step of a call that is past its arrival and neither loads nor saves jobs.
LEMMA CallStep ==
    ASSUME CallsInv, NEW c \in Calls, NEW p \in AllSteps, Goto(c, p),
           UNCHANGED <<level, limitVars, tool, registry, loaded, raced>>, want' \in [Calls -> Levels],
           NEW j \in Jobs \cup {NoJob}, job' = [job EXCEPT ![c] = j],
           NEW a \in Told, answer' = [answer EXCEPT ![c] = a],
           files' \in [Jobs -> Files], \A x \in Jobs : Stays(x),
           c \in Active, p \notin {"idle", "rename"},
           tool[c] = "exec_bg" => p \in {"gate", "mkjob", "runner", "load", "refused", "failed"},
           p \in {"mkjob", "runner", "load"} => tool[c] = "exec_bg",
           p \in Looking \cup {"find"} => tool[c] \in JobTools,
           p \in Looking \cup {"runner", "load"} => j \in Jobs,
           a # "none" => p \in Looking \cup Finished,
           over' \subseteq over \cup {c},
           c \in over' => /\ j \in Jobs /\ files'[j] \in {"exited", "gone"} /\ a # "running"
                          /\ p \in {"exit", "pid", "dir", "tail"} \cup Finished
                          /\ p \in {"pid", "dir"} => files'[j] = "gone",
           p \in GuestSteps \cup {"asroot", "load", "find", "poll"} => top[c] >= Need[tool[c]],
           p = "sshroot" => top[c] >= LevelExec
    PROVE  CallsInv'
  <1>1. /\ pc' \in [Calls -> AllSteps] /\ top' \in [Calls -> Levels]
        /\ pc'[c] = p
        /\ p \notin Finished => top'[c] = top[c]
        /\ \A d \in Calls \ {c} : pc'[d] = pc[d] /\ top'[d] = top[d]
    BY GotoFacts DEF CallsInv
  <1>2. /\ job'[c] = j /\ answer'[c] = a
        /\ \A d \in Calls \ {c} : job'[d] = job[d] /\ answer'[d] = answer[d]
        /\ job' \in [Calls -> Jobs \cup {NoJob}] /\ answer' \in [Calls -> Told]
    BY DEF CallsInv, TypeOK, Told
  <1>3. TypeOK'
    BY <1>1, <1>2 DEF CallsInv, TypeOK, AllSteps, Told, limitVars
  <1>4. StepsInv'
    <2>1. at' = at /\ pc[c] # "idle"
      BY DEF limitVars, Active
    <2> QED
      BY <1>1, <1>2, <2>1 DEF CallsInv, StepsInv, Finished
  <1>5. RegistryInv'
    <2>1. AnsweredIsListed'
      BY <1>1, <1>2 DEF CallsInv, RegistryInv, AnsweredIsListed
    <2> QED
      BY <1>1, <1>2, <2>1 DEF CallsInv, RegistryInv
  <1>6. OverInv'
    <2> SUFFICES ASSUME NEW d \in over'
                 PROVE  /\ job'[d] \in Jobs /\ Over(job[d])' /\ answer'[d] # "running"
                        /\ pc'[d] \in {"exit", "pid", "dir", "tail"} \cup Finished
                        /\ pc'[d] \in {"pid", "dir"} => files'[job'[d]] = "gone"
      BY DEF OverInv
    <2>1. CASE d = c
      BY <1>1, <1>2, <2>1 DEF Over
    <2>2. CASE d # c
      <3>1. d \in over /\ d \in Calls
        BY <2>2 DEF CallsInv, TypeOK
      <3>2. pc'[d] = pc[d] /\ job'[d] = job[d] /\ answer'[d] = answer[d]
        BY <1>1, <1>2, <2>2, <3>1
      <3>3. Stays(job[d])
        BY <3>1 DEF CallsInv, OverInv
      <3> QED
        BY <3>1, <3>2, <3>3 DEF CallsInv, OverInv, Stays, Over
    <2> QED
      BY <2>1, <2>2
  <1>7. LevelInv'
    <2>1. \A d \in Calls \ {c} : d \in Active' <=> d \in Active
      BY <1>1 DEF Active
    <2>2. p \in GuestSteps \cup {"asroot", "load", "find", "poll"} => p \notin Finished
      BY DEF GuestSteps, Reads, Finished
    <2>3. c \in Active' => p \notin Finished
      BY <1>1 DEF Active
    <2>4. top[c] >= level
      BY DEF CallsInv, LevelInv
    <2> SUFFICES ASSUME NEW d \in Calls
                 PROVE  /\ d \in Active' => top'[d] >= level
                        /\ pc'[d] \in GuestSteps \cup {"asroot", "load", "rename", "find", "poll"} =>
                              top'[d] >= Need[tool[d]]
                        /\ pc'[d] = "sshroot" => top'[d] >= LevelExec
      BY DEF LevelInv
    <2>5. CASE d = c
      BY <1>1, <2>2, <2>3, <2>4, <2>5 DEF Finished
    <2>6. CASE d # c
      BY <1>1, <2>1, <2>6 DEF CallsInv, LevelInv
    <2> QED
      BY <2>5, <2>6
  <1>8. BucketsTight'
    BY BucketsKept DEF CallsInv
  <1> QED
    BY <1>3, <1>4, <1>5, <1>6, <1>7, <1>8 DEF CallsInv

\* The guest moves: what is over stays over.
LEMMA FilesMove ==
    ASSUME CallsInv, files' \in [Jobs -> Files], \A x \in Jobs : Stays(x),
           UNCHANGED <<level, limitVars, pc, callVars, top, over, raced>>
    PROVE  CallsInv'
  <1>1. UNCHANGED <<level, now, bucket, at, pc, registry, tool, job, loaded, want, answer, top, over, raced>>
    BY DEF limitVars, callVars
  <1>2. TypeOK'
    BY <1>1 DEF CallsInv, TypeOK
  <1>3. StepsInv' /\ RegistryInv'
    BY <1>1 DEF CallsInv, StepsInv, RegistryInv, AnsweredIsListed
  <1>4. OverInv'
    <2> SUFFICES ASSUME NEW d \in over
                 PROVE  /\ Over(job[d])'
                        /\ pc[d] \in {"pid", "dir"} => files'[job[d]] = "gone"
      BY <1>1 DEF CallsInv, OverInv
    <2>1. Stays(job[d])
      BY DEF CallsInv, OverInv
    <2> QED
      BY <1>1, <2>1 DEF CallsInv, OverInv, Stays, Over
  <1>5. LevelInv'
    BY <1>1 DEF CallsInv, LevelInv, Active
  <1>6. BucketsTight'
    BY <1>1, BucketsKept DEF CallsInv, limitVars
  <1> QED
    BY <1>2, <1>3, <1>4, <1>5, <1>6 DEF CallsInv

\* A step that leaves the call's job and answer alone.
LEMMA CallMoves ==
    ASSUME CallsInv, NEW c \in Calls, NEW p \in AllSteps, Goto(c, p),
           UNCHANGED <<level, limitVars, callVars, raced>>,
           files' \in [Jobs -> Files], \A x \in Jobs : Stays(x),
           c \in Active, p \notin {"idle", "rename", "signal"},
           tool[c] = "exec_bg" => p \in {"gate", "mkjob", "runner", "load", "refused", "failed"},
           p \in {"mkjob", "runner", "load"} => tool[c] = "exec_bg",
           p \in Looking \cup {"find"} => tool[c] \in JobTools,
           p \in Looking \cup {"runner", "load"} => job[c] \in Jobs,
           pc[c] \in Looking => p \in Looking \cup Finished,
           c \in over => /\ p \in {"exit", "pid", "dir", "tail"} \cup Finished
                         /\ p \in {"pid", "dir"} => files'[job[c]] = "gone",
           p \in GuestSteps \cup {"asroot", "load", "find", "poll"} => top[c] >= Need[tool[c]],
           p = "sshroot" => top[c] >= LevelExec
    PROVE  CallsInv'
  <1>1. UNCHANGED <<level, limitVars, tool, registry, loaded, raced>>
    BY DEF callVars
  <1>2. job' = [job EXCEPT ![c] = job[c]] /\ answer' = [answer EXCEPT ![c] = answer[c]]
    BY DEF callVars, CallsInv, TypeOK
  <1>3. want' \in [Calls -> Levels] /\ job[c] \in Jobs \cup {NoJob} /\ answer[c] \in Told
    BY DEF callVars, CallsInv, TypeOK, Told
  <1>4. pc[c] \notin Finished
    BY DEF Active
  <1>5. answer[c] # "none" => p \in Looking \cup Finished
    BY <1>4 DEF CallsInv, StepsInv
  <1>6. over' \subseteq over \cup {c}
    BY DEF callVars
  <1>7. c \in over' => /\ job[c] \in Jobs /\ files'[job[c]] \in {"exited", "gone"}
                       /\ answer[c] # "running" /\ c \in over
    <2>1. over' = over
      BY DEF callVars
    <2>2. ASSUME c \in over PROVE Stays(job[c])
      BY <2>2 DEF CallsInv, OverInv
    <2> QED
      BY <2>1, <2>2 DEF CallsInv, OverInv, Stays, Over
  <1> QED
    BY <1>1, <1>2, <1>3, <1>4, <1>5, <1>6, <1>7, CallStep

-----------------------------------------------------------------------------
(* The gate and the guest *)

\* What the level reads as, and the level of a tool.
LEMMA LevelFacts ==
    /\ \A t \in Tools : Need[t] \in Levels
    /\ \A l \in Levels : l \in Int
    /\ LevelNone = 0 /\ LevelExec = 3 /\ Levels = 0 .. 3
  BY DEF Need, Tools, Levels, LevelNone, LevelObserve, LevelManage, LevelExec

\* A step that leaves the guest alone keeps its jobs over.
LEMMA FilesSame ==
    ASSUME CallsInv, files' = files
    PROVE  files' \in [Jobs -> Files] /\ \A x \in Jobs : Stays(x)
  BY DEF CallsInv, TypeOK, Over, Stays

\* requireAccess lets a call through at a level it has seen.
LEMMA GateInv ==
    ASSUME CallsInv, NEW c \in Calls, Gate(c)
    PROVE  CallsInv'
  <1>1. /\ pc[c] = "gate" /\ UNCHANGED <<level, files, limitVars, callVars, raced>> /\ c \in Active
        /\ pc[c] \notin Looking
    BY DEF Gate, Active, Finished, Looking, Reads
  <1>2. tool[c] \in Tools /\ Need[tool[c]] \in Int /\ level \in Int /\ top[c] \in Int /\ top[c] >= level
    BY <1>1, LevelFacts DEF CallsInv, LevelInv, TypeOK
  <1>3. CASE Goto(c, "refused")
    BY <1>1, <1>3, CallMoves, FilesSame DEF AllSteps, Finished, Looking, GuestSteps, Reads
  <1>4. CASE level >= Need[tool[c]] /\ \E p \in AfterGate(tool[c]) : Goto(c, p)
    <2>1. PICK p \in AfterGate(tool[c]) : Goto(c, p)
      BY <1>4
    <2>2. /\ p \in {"mkjob", "find", "ssh", "asroot", "exec"}
          /\ p = "mkjob" <=> tool[c] = "exec_bg"
          /\ p = "find" => tool[c] \in JobTools
      BY DEF AfterGate, JobTools
    <2>3. top[c] >= Need[tool[c]]
      BY <1>2, <1>4
    <2>4. p \in AllSteps /\ p \notin Looking \cup {"runner", "load", "idle", "rename", "signal", "sshroot"}
      BY <2>2 DEF AllSteps, HostSteps, GuestSteps, Reads, Looking
    <2>5. c \notin over
      BY <1>1 DEF CallsInv, OverInv, Finished
    <2> QED
      BY <1>1, <2>1, <2>2, <2>3, <2>4, <2>5, CallMoves, FilesSame
  <1> QED
    BY <1>3, <1>4 DEF Gate

\* The second read of the level does the same for a root write.
LEMMA AsRootInv ==
    ASSUME CallsInv, NEW c \in Calls, AsRoot(c)
    PROVE  CallsInv'
  <1>1. /\ pc[c] = "asroot" /\ UNCHANGED <<level, files, limitVars, callVars, raced>> /\ c \in Active
        /\ pc[c] \notin Looking
    BY DEF AsRoot, Active, Finished, Looking, Reads
  <1>2. /\ level \in Int /\ top[c] \in Int /\ top[c] >= level /\ top[c] >= Need[tool[c]]
        /\ LevelExec \in Int
    BY <1>1, LevelFacts DEF CallsInv, LevelInv, TypeOK
  <1>3. tool[c] # "exec_bg" /\ c \notin over
    BY <1>1 DEF CallsInv, StepsInv, OverInv, Finished
  <1>4. CASE level < LevelExec
    <2>1. Goto(c, "refused")
      BY <1>4 DEF AsRoot
    <2> QED
      BY <1>1, <1>3, <2>1, CallMoves, FilesSame DEF AllSteps, Finished, Looking, GuestSteps, Reads
  <1>5. CASE ~(level < LevelExec)
    <2>1. Goto(c, "sshroot")
      BY <1>5 DEF AsRoot
    <2>2. top[c] >= LevelExec
      BY <1>2, <1>5
    <2> QED
      BY <1>1, <1>2, <1>3, <2>1, <2>2, CallMoves, FilesSame DEF AllSteps, Finished, Looking, GuestSteps, Reads
  <1> QED
    BY <1>4, <1>5

\* Ssh answers, or the deadline of exec does.
LEMMA SshInv ==
    ASSUME CallsInv, NEW c \in Calls, Ssh(c) \/ (pc[c] = "exec" /\ Deadline(c))
    PROVE  CallsInv'
  <1>1. /\ pc[c] \in {"ssh", "sshroot", "exec"} /\ UNCHANGED <<level, files, limitVars, callVars, raced>>
        /\ Goto(c, "answered")
    BY DEF Ssh, Deadline, Reads
  <1>2. c \in Active /\ pc[c] \notin Looking
    BY <1>1 DEF Active, Finished, Looking, Reads
  <1>3. tool[c] # "exec_bg" /\ c \notin over
    BY <1>1 DEF CallsInv, StepsInv, OverInv, Finished
  <1> QED
    BY <1>1, <1>2, <1>3, CallMoves, FilesSame DEF AllSteps, Finished, Looking, GuestSteps, Reads

\* A reboot clears /run: what was over is gone.
LEMMA ClearedFacts ==
    ASSUME CallsInv, files' \in {files, Cleared}
    PROVE  files' \in [Jobs -> Files] /\ \A x \in Jobs : Stays(x)
  BY DEF CallsInv, TypeOK, Over, Stays, Cleared, Files

\* start and stop may clear the guest, where only "over" is left.
LEMMA PowerInv ==
    ASSUME CallsInv, NEW c \in Calls, Power(c)
    PROVE  CallsInv'
  <1>1. /\ pc[c] = "switch" /\ UNCHANGED <<level, limitVars, callVars, raced>>
        /\ Goto(c, "answered") /\ files' \in {files, Cleared}
    BY DEF Power
  <1>2. c \in Active /\ pc[c] \notin Looking
    BY <1>1 DEF Active, Finished, Looking, Reads
  <1>3. tool[c] # "exec_bg" /\ c \notin over
    BY <1>1 DEF CallsInv, StepsInv, OverInv, Finished
  <1> QED
    BY <1>1, <1>2, <1>3, CallMoves, ClearedFacts DEF AllSteps, Finished, Looking, GuestSteps, Reads

\* Reboot and Wrapper: the guest moves by itself.
LEMMA GuestInv ==
    ASSUME CallsInv, Reboot \/ \E j \in Jobs : Wrapper(j)
    PROVE  CallsInv'
  <1>1. UNCHANGED <<level, limitVars, pc, callVars, top, over, raced>>
    BY DEF Reboot, Wrapper, callVars
  <1>2. CASE Reboot
    <2>1. files' \in {files, Cleared}
      BY <1>2 DEF Reboot
    <2> QED
      BY <1>1, <2>1, ClearedFacts, FilesMove
  <1>3. CASE \E j \in Jobs : Wrapper(j)
    <2>1. files' \in [Jobs -> Files] /\ \A x \in Jobs : Stays(x)
      BY <1>3 DEF Wrapper, CallsInv, TypeOK, Over, Stays, Files
    <2> QED
      BY <1>1, <2>1, FilesMove
  <1> QED
    BY <1>2, <1>3

\* A handler that cannot reach the guest forgets its job.
LEMMA UnreachableInv ==
    ASSUME CallsInv, NEW c \in Calls, Unreachable(c)
    PROVE  CallsInv'
  <1>1. /\ UNCHANGED <<level, limitVars, tool, registry, loaded, raced>> /\ Goto(c, "failed")
        /\ job' = [job EXCEPT ![c] = NoJob] /\ answer' = [answer EXCEPT ![c] = "none"]
        /\ want' = want /\ files' = files /\ pc[c] \in GuestSteps /\ over' = over \ {c}
    BY DEF Unreachable
  <1>2. c \in Active /\ want' \in [Calls -> Levels]
    BY <1>1 DEF Active, Finished, GuestSteps, Reads, CallsInv, TypeOK
  <1>3. "failed" \in AllSteps /\ "failed" \in Finished /\ "none" \in Told
        /\ "failed" \notin Looking \cup GuestSteps
    BY DEF AllSteps, Finished, Told, Looking, GuestSteps, Reads
  <1>4. over' \subseteq over \cup {c} /\ c \notin over'
    BY <1>1
  <1> QED
    BY <1>1, <1>2, <1>3, <1>4, CallStep, FilesSame

-----------------------------------------------------------------------------
(* Background jobs *)

\* A new job has an id no file and no record has.
LEMMA MkjobInv ==
    ASSUME CallsInv, NEW c \in Calls, Mkjob(c)
    PROVE  CallsInv'
  <1>1. PICK j \in Jobs \ Used : /\ job' = [job EXCEPT ![c] = j]
                                 /\ files' = [files EXCEPT ![j] = "dir"]
    BY DEF Mkjob
  <1>2. /\ pc[c] = "mkjob" /\ Goto(c, "runner")
        /\ UNCHANGED <<level, limitVars, registry, tool, loaded, want, answer, over, raced>>
    BY DEF Mkjob
  <1>3. files[j] = "none" /\ j \in Jobs
    BY DEF Used
  <1>4. files' \in [Jobs -> Files] /\ \A x \in Jobs : Stays(x)
    BY <1>1, <1>3 DEF CallsInv, TypeOK, Over, Stays, Files
  <1>5. c \in Active /\ tool[c] = "exec_bg" /\ top[c] >= Need[tool[c]] /\ answer[c] = "none"
    BY <1>2 DEF Active, Finished, CallsInv, StepsInv, LevelInv, GuestSteps, Reads, Looking
  <1>9. over' = over /\ c \notin over
    BY <1>2 DEF CallsInv, OverInv, Finished
  <1>6. answer' = [answer EXCEPT ![c] = "none"] /\ want' \in [Calls -> Levels]
    BY <1>2, <1>5 DEF CallsInv, TypeOK
  <1>7. "runner" \in AllSteps /\ "none" \in Told /\ j \in Jobs \cup {NoJob}
        /\ "runner" \notin Looking \cup Finished
    BY <1>3 DEF AllSteps, Told, GuestSteps, Reads, Looking, Finished
  <1>8. UNCHANGED <<level, limitVars, tool, registry, loaded, raced>> /\ Goto(c, "runner")
        /\ job' = [job EXCEPT ![c] = j] /\ j \in Jobs
    BY <1>1, <1>2, <1>3
  <1> QED
    BY <1>4, <1>5, <1>6, <1>7, <1>8, <1>9, CallStep

\* A wrapper is only started in a directory that is still there.
LEMMA RunnerInv ==
    ASSUME CallsInv, NEW c \in Calls, Runner(c)
    PROVE  CallsInv'
  <1>1. /\ pc[c] = "runner" /\ Goto(c, "load") /\ UNCHANGED <<level, limitVars, callVars, raced>>
        /\ files' = [files EXCEPT ![job[c]] = IF @ = "dir" THEN "started" ELSE @]
    BY DEF Runner
  <1>2. c \in Active /\ tool[c] = "exec_bg" /\ top[c] >= Need[tool[c]] /\ job[c] \in Jobs
    BY <1>1 DEF Active, Finished, CallsInv, StepsInv, LevelInv, GuestSteps, Reads
  <1>3. files' \in [Jobs -> Files] /\ \A x \in Jobs : Stays(x)
    BY <1>1, <1>2 DEF CallsInv, TypeOK, Over, Stays, Files
  <1>4. "load" \in AllSteps /\ "load" \notin Looking /\ pc[c] \notin Looking
    BY <1>1 DEF AllSteps, HostSteps, Looking, Reads
  <1>5. c \notin over
    BY <1>1 DEF CallsInv, OverInv, Finished
  <1> QED
    BY <1>1, <1>2, <1>3, <1>4, <1>5, CallMoves

\* FindJob and ListJobs: a job of the registry, or none.
LEMMA FindInv ==
    ASSUME CallsInv, NEW c \in Calls, FindJob(c) \/ ListJobs(c)
    PROVE  CallsInv'
  <1>1. /\ pc[c] = "find"
        /\ UNCHANGED <<level, files, limitVars, registry, tool, loaded, want, answer, raced>>
    BY DEF FindJob, ListJobs
  <1>2. /\ c \in Active /\ tool[c] \in JobTools /\ top[c] >= Need[tool[c]] /\ answer[c] = "none"
        /\ tool[c] # "exec_bg" /\ pc[c] \notin Looking /\ c \notin over
    BY <1>1 DEF Active, Finished, CallsInv, StepsInv, OverInv, LevelInv, GuestSteps, Reads, Looking, JobTools
  <1>3. CASE \E j \in registry : LookUp(c, j)
    <2>1. PICK j \in registry : /\ job' = [job EXCEPT ![c] = j] /\ Goto(c, "exit")
                                /\ over' = IF Over(j) THEN over \cup {c} ELSE over
      BY <1>3 DEF LookUp
    <2>2. j \in Jobs
      BY DEF CallsInv, TypeOK
    <2>3. answer' = [answer EXCEPT ![c] = "none"] /\ want' \in [Calls -> Levels]
      BY <1>1, <1>2 DEF CallsInv, TypeOK
    <2>4. "exit" \in AllSteps /\ "none" \in Told /\ j \in Jobs \cup {NoJob} /\ "exit" \notin Finished
      BY <2>2 DEF AllSteps, GuestSteps, Reads, Told, Finished
    <2>5. files' \in [Jobs -> Files] /\ \A x \in Jobs : Stays(x)
      BY <1>1, FilesSame DEF CallsInv
    <2>6. /\ "exit" \notin {"idle", "rename", "mkjob", "runner", "load", "signal", "sshroot"}
          /\ top[c] >= Need[tool[c]] /\ tool[c] \in JobTools
      BY <1>2
    <2>7. UNCHANGED <<level, limitVars, tool, registry, loaded, raced>>
      BY <1>1
    <2>8. over' \subseteq over \cup {c} /\ (c \in over' => files'[j] \in {"exited", "gone"})
      BY <1>1, <1>2, <2>1 DEF Over
    <2> QED
      BY <1>2, <2>1, <2>2, <2>3, <2>4, <2>5, <2>6, <2>7, <2>8, CallStep
  <1>4. CASE \E p \in {"failed", "answered"} : Goto(c, p) /\ UNCHANGED <<job, over>>
    <2>1. PICK p \in {"failed", "answered"} : Goto(c, p) /\ UNCHANGED <<job, over>>
      BY <1>4
    <2>2. UNCHANGED callVars
      BY <1>1, <2>1 DEF callVars
    <2>3. p \in AllSteps /\ p \in Finished /\ p \notin Looking \cup GuestSteps
      BY DEF AllSteps, Finished, Looking, GuestSteps, Reads
    <2> QED
      BY <1>1, <1>2, <2>1, <2>2, <2>3, CallMoves, FilesSame
  <1> QED
    BY <1>3, <1>4 DEF FindJob, ListJobs

\* Reading a state: of a job known to be over it is never "running".
LEMMA ReadInv ==
    ASSUME CallsInv, NEW c \in Calls, NEW st \in {"starting", "running", "exited", "unknown"}, Read(c, st),
           UNCHANGED <<level, files, limitVars, registry, tool, job, loaded, want, raced>>,
           over' \subseteq over, c \in over' => st # "running" /\ st # "starting",
           pc[c] \in Reads
    PROVE  CallsInv'
  <1> DEFINE p == AfterState(c, st)
  <1>1. /\ c \in Active /\ tool[c] \in JobTools /\ top[c] >= Need[tool[c]] /\ tool[c] # "exec_bg"
        /\ job[c] \in Jobs
    BY DEF Active, Finished, CallsInv, StepsInv, LevelInv, GuestSteps, Reads, Looking, JobTools
  <1>2. Goto(c, p) /\ answer' = [answer EXCEPT ![c] = st]
    BY DEF Read
  <1>3. /\ p \in {"poll", "tail", "failed", "signal", "answered"}
        /\ p = "signal" => st = "running"
        /\ p = "poll" => st \in {"starting", "running"}
    BY DEF AfterState
  <1>4. job' = [job EXCEPT ![c] = job[c]] /\ want' \in [Calls -> Levels] /\ st \in Told
    BY DEF CallsInv, TypeOK, Told
  <1>5. c \in over' => /\ files'[job[c]] \in {"exited", "gone"} /\ st # "running"
                       /\ p \in {"tail"} \cup Finished
    BY <1>3 DEF CallsInv, OverInv, Over, Finished
  <1>6. over' \subseteq over \cup {c}
    OBVIOUS
  <1>7. p \in AllSteps /\ p \in Looking \cup Finished /\ p \notin {"idle", "rename", "mkjob", "runner", "load", "sshroot"}
    BY <1>3 DEF AllSteps, HostSteps, GuestSteps, Reads, Finished, Looking
  <1>8. p \notin {"pid", "dir"}
    BY <1>3
  <1> HIDE DEF p
  <1> QED
    BY <1>1, <1>2, <1>3, <1>4, <1>5, <1>6, <1>7, <1>8, CallStep, FilesSame

\* A step from one reading to the next.
LEMMA LooksOn ==
    ASSUME CallsInv, NEW c \in Calls, NEW p \in {"exit", "pid", "dir", "alive", "tail", "answered"}, Goto(c, p),
           UNCHANGED <<level, limitVars, callVars, raced>>, pc[c] \in Looking,
           files' \in [Jobs -> Files], \A x \in Jobs : Stays(x),
           c \in over => p # "alive" /\ (p \in {"pid", "dir"} => files'[job[c]] = "gone")
    PROVE  CallsInv'
  <1>1. /\ c \in Active /\ tool[c] \in JobTools /\ top[c] >= Need[tool[c]] /\ tool[c] # "exec_bg"
        /\ job[c] \in Jobs
    BY DEF Active, Finished, CallsInv, StepsInv, LevelInv, GuestSteps, Reads, Looking, JobTools
  <1>2. p \in AllSteps /\ p \in Looking \cup Finished
    BY DEF AllSteps, GuestSteps, Reads, Finished, Looking
  <1>3. c \in over => p \in {"exit", "pid", "dir", "tail"} \cup Finished
    BY DEF Finished
  <1> QED
    BY <1>1, <1>2, <1>3, CallMoves

\* jobState: the exit file is read first, so the pid is looked at only of a job
\* that was not over or whose directory is gone.
LEMMA JobStateInv ==
    ASSUME CallsInv, NEW c \in Calls, JobState(c) \/ JobStatesLost(c)
    PROVE  CallsInv'
  <1>1. /\ UNCHANGED <<level, files, limitVars, registry, tool, job, loaded, want, over, raced>>
        /\ pc[c] \in Reads /\ pc[c] \in Looking
    BY DEF JobState, JobStatesLost, Looking, Reads
  <1>2. c \in over => /\ pc[c] \in {"exit", "pid", "dir"} /\ Over(job[c])
                      /\ pc[c] \in {"pid", "dir"} => files[job[c]] = "gone"
    BY <1>1 DEF CallsInv, OverInv, Finished, Reads
  <1>3. CASE JobState(c)
    <2>1. \/ pc[c] = "exit" /\ HasExit(job[c]) /\ Read(c, "exited")
          \/ pc[c] = "exit" /\ ~HasExit(job[c]) /\ Goto(c, "pid") /\ UNCHANGED answer
          \/ pc[c] = "pid" /\ HasPid(job[c]) /\ Goto(c, "alive") /\ UNCHANGED answer
          \/ pc[c] = "pid" /\ Goto(c, "dir") /\ UNCHANGED answer
          \/ pc[c] = "dir" /\ HasDir(job[c]) /\ Read(c, "starting")
          \/ pc[c] = "dir" /\ Read(c, "unknown")
          \/ pc[c] = "alive" /\ \E st \in {"running", "unknown"} : Read(c, st)
      BY <1>3 DEF JobState
    <2>2. CASE pc[c] = "exit" /\ HasExit(job[c]) /\ Read(c, "exited")
      BY <1>1, <2>2, ReadInv
    <2>3. CASE /\ UNCHANGED answer
               /\ \/ pc[c] = "exit" /\ ~HasExit(job[c]) /\ Goto(c, "pid")
                  \/ pc[c] = "pid" /\ HasPid(job[c]) /\ Goto(c, "alive")
                  \/ pc[c] = "pid" /\ Goto(c, "dir")
      <3>1. UNCHANGED callVars
        BY <1>1, <2>3 DEF callVars
      <3>2. PICK p \in {"pid", "alive", "dir"} :
              /\ Goto(c, p)
              /\ c \in over => p # "alive" /\ (p \in {"pid", "dir"} => files'[job[c]] = "gone")
        BY <1>1, <1>2, <2>3 DEF HasExit, HasPid, Over
      <3> QED
        BY <1>1, <3>1, <3>2, LooksOn, FilesSame
    <2>4. CASE pc[c] = "dir" /\ HasDir(job[c]) /\ Read(c, "starting")
      <3>1. c \notin over
        BY <1>2, <2>4 DEF HasDir
      <3> QED
        BY <1>1, <2>4, <3>1, ReadInv
    <2>5. CASE pc[c] = "dir" /\ Read(c, "unknown")
      BY <1>1, <2>5, ReadInv
    <2>6. CASE pc[c] = "alive" /\ \E st \in {"running", "unknown"} : Read(c, st)
      <3>1. c \notin over
        BY <1>2, <2>6
      <3> QED
        BY <1>1, <2>6, <3>1, ReadInv
    <2> QED
      BY <2>1, <2>2, <2>3, <2>4, <2>5, <2>6
  <1>4. CASE JobStatesLost(c)
    BY <1>1, <1>4, ReadInv DEF JobStatesLost
  <1> QED
    BY <1>3, <1>4

\* A session that drops may hide the exit file: the call is promised nothing.
LEMMA DroppedInv ==
    ASSUME CallsInv, NEW c \in Calls, Dropped(c)
    PROVE  CallsInv'
  <1>1. /\ UNCHANGED <<level, files, limitVars, registry, tool, job, loaded, want, raced>>
        /\ pc[c] \in Reads \cup {"signal"} /\ pc[c] \in Looking /\ over' = over \ {c}
    BY DEF Dropped, Looking
  <1>2. over' \subseteq over \cup {c} /\ over' \subseteq over /\ c \notin over'
    BY <1>1
  <1>3. CASE pc[c] \in {"dir", "alive"}
    <2>1. Read(c, "unknown") /\ pc[c] \in Reads
      BY <1>3 DEF Dropped, Reads
    <2> QED
      BY <1>1, <1>2, <2>1, ReadInv
  <1>4. CASE pc[c] \in {"exit", "pid", "signal"}
    <2>1. Goto(c, [exit |-> "pid", pid |-> "dir", signal |-> "exit"][pc[c]]) /\ UNCHANGED answer
      BY <1>4 DEF Dropped
    <2>2. PICK p \in {"pid", "dir", "exit"} : Goto(c, p)
      BY <1>4, <2>1
    <2>3. /\ c \in Active /\ tool[c] \in JobTools /\ top[c] >= Need[tool[c]] /\ tool[c] # "exec_bg"
          /\ job[c] \in Jobs
      BY <1>4 DEF Active, Finished, CallsInv, StepsInv, LevelInv, GuestSteps, Reads, Looking, JobTools
    <2>4. p \in AllSteps /\ p \in Looking /\ p \notin {"idle", "rename", "mkjob", "runner", "load", "sshroot"}
      BY DEF AllSteps, GuestSteps, Reads, Looking
    <2>5. /\ job' = [job EXCEPT ![c] = job[c]] /\ answer' = [answer EXCEPT ![c] = answer[c]]
          /\ want' \in [Calls -> Levels] /\ answer[c] \in Told
      BY <1>1, <2>1 DEF CallsInv, TypeOK, Told
    <2> QED
      BY <1>1, <1>2, <2>2, <2>3, <2>4, <2>5, CallStep, FilesSame
  <1> QED
    BY <1>1, <1>3, <1>4 DEF Reads

\* job_wait and job_kill end or look again, and make no job run.
LEMMA WaitsInv ==
    ASSUME CallsInv, NEW c \in Calls,
           Poll(c) \/ (pc[c] # "exec" /\ Deadline(c)) \/ JobTail(c) \/ JobKill(c)
    PROVE  CallsInv'
  <1>1. UNCHANGED <<level, limitVars, callVars, raced>> /\ pc[c] \in Looking
    BY DEF Poll, Deadline, JobTail, JobKill, Looking
  <1>2. CASE Poll(c) \/ (pc[c] # "exec" /\ Deadline(c)) \/ JobTail(c)
    <2>1. PICK p \in {"exit", "tail", "answered"} : Goto(c, p)
      BY <1>2 DEF Poll, Deadline, JobTail
    <2>2. files' = files
      BY <1>2 DEF Poll, Deadline, JobTail
    <2> QED
      BY <1>1, <2>1, <2>2, LooksOn, FilesSame
  <1>3. CASE JobKill(c)
    <2>1. job[c] \in Jobs
      BY <1>1 DEF CallsInv, StepsInv
    <2>2. files' \in [Jobs -> Files] /\ \A x \in Jobs : Stays(x)
      BY <1>3, <2>1 DEF JobKill, CallsInv, TypeOK, Over, Stays, Files
    <2>3. Goto(c, "answered") \/ Goto(c, "exit")
      BY <1>3 DEF JobKill
    <2> QED
      BY <1>1, <2>2, <2>3, LooksOn
  <1> QED
    BY <1>2, <1>3

-----------------------------------------------------------------------------
(* Levels and the registry *)

\* The level moves: whoever is under way sees it.
LEMMA LevelMoves ==
    ASSUME CallsInv, NEW l \in Levels, level' = l, RaiseTop(l),
           \A d \in Calls : \/ pc'[d] = pc[d]
                            \/ pc'[d] \in Finished,
           tool' = tool
    PROVE  LevelInv' /\ top' \in [Calls -> Levels]
  <1>1. /\ top' = [d \in Calls |-> IF d \in Active /\ l > top[d] THEN l ELSE top[d]]
        /\ top \in [Calls -> Levels] /\ l \in Int /\ \A d \in Calls : top[d] \in Int
        /\ \A d \in Calls : Need[tool[d]] \in Int
    BY LevelFacts DEF RaiseTop, CallsInv, TypeOK
  <1>2. top' \in [Calls -> Levels]
    BY <1>1
  <1>3. LevelInv'
    <2> SUFFICES ASSUME NEW d \in Calls
                 PROVE  /\ d \in Active' => top'[d] >= l
                        /\ pc'[d] \in GuestSteps \cup {"asroot", "load", "rename", "find", "poll"} =>
                              top'[d] >= Need[tool[d]]
                        /\ pc'[d] = "sshroot" => top'[d] >= LevelExec
      BY DEF LevelInv
    <2>1. CASE pc'[d] \in Finished
      BY <2>1 DEF Active, Finished, GuestSteps, Reads
    <2>2. CASE pc'[d] = pc[d]
      <3>1. d \in Active' => d \in Active
        BY <2>2 DEF Active
      <3>2. top'[d] >= top[d] /\ (d \in Active => top'[d] >= l) /\ top'[d] \in Int
        BY <1>1
      <3>3. /\ pc[d] \in GuestSteps \cup {"asroot", "load", "rename", "find", "poll"} =>
                              top[d] >= Need[tool[d]]
            /\ pc[d] = "sshroot" => top[d] >= LevelExec
        BY DEF CallsInv, LevelInv
      <3>4. LevelExec \in Int
        BY LevelFacts
      <3> QED
        BY <1>1, <2>2, <3>1, <3>2, <3>3, <3>4
    <2> QED
      BY <2>1, <2>2
  <1> QED
    BY <1>2, <1>3

\* The person's new level is seen by every call at work.
LEMMA PersonInv ==
    ASSUME CallsInv, NEW l \in Settings, Person(l)
    PROVE  CallsInv'
  <1>1. /\ level' = l /\ RaiseTop(l) /\ UNCHANGED <<now, bucket, at>>
        /\ UNCHANGED <<files, limitVars, pc, registry, tool, job, loaded, want, answer, over, raced>>
    BY DEF Person, callVars, limitVars
  <1>2. l \in Levels
    BY LimitsAssumption, LevelFacts
  <1>3. LevelInv' /\ top' \in [Calls -> Levels]
    BY <1>1, <1>2, LevelMoves
  <1>4. TypeOK'
    BY <1>1, <1>2, <1>3 DEF CallsInv, TypeOK
  <1>5. StepsInv' /\ RegistryInv' /\ OverInv'
    BY <1>1 DEF CallsInv, StepsInv, RegistryInv, AnsweredIsListed, OverInv, Over
  <1>6. BucketsTight'
    BY <1>1, BucketsKept DEF CallsInv
  <1> QED
    BY <1>3, <1>4, <1>5, <1>6 DEF CallsInv

\* update only compares; the level is written later.
LEMMA CorePatchInv ==
    ASSUME CallsInv, NEW c \in Calls, CorePatch(c)
    PROVE  CallsInv'
  <1>1. /\ pc[c] = "level"
        /\ UNCHANGED <<level, files, limitVars, registry, tool, job, loaded, answer, over, raced>>
    BY DEF CorePatch
  <1>2. \E p \in {"refused", "save"} : Goto(c, p)
    BY DEF CorePatch
  <1>3. want' \in [Calls -> Levels]
    BY LimitsAssumption, LevelFacts DEF CorePatch, CallsInv, TypeOK
  <1>4. c \in Active /\ answer[c] = "none" /\ tool[c] # "exec_bg" /\ c \notin over
    BY <1>1 DEF Active, Finished, CallsInv, StepsInv, OverInv, Looking, Reads
  <1>5. job' = [job EXCEPT ![c] = job[c]] /\ answer' = [answer EXCEPT ![c] = "none"] /\ "none" \in Told
        /\ job[c] \in Jobs \cup {NoJob}
    BY <1>1, <1>4 DEF CallsInv, TypeOK, Told
  <1>6. \A p \in {"refused", "save"} : p \in AllSteps /\ p \notin Looking \cup GuestSteps
    BY DEF AllSteps, HostSteps, Finished, Looking, GuestSteps, Reads
  <1>7. over' \subseteq over \cup {c} /\ c \notin over'
    BY <1>1, <1>4
  <1> QED
    BY <1>1, <1>2, <1>3, <1>4, <1>5, <1>6, <1>7, CallStep, FilesSame

\* A level written late is seen by every call at work, too.
LEMMA UpdateInv ==
    ASSUME CallsInv, NEW c \in Calls, Update(c)
    PROVE  CallsInv'
  <1>1. /\ pc[c] = "save" /\ level' = want[c] /\ RaiseTop(want[c])
        /\ want' = [want EXCEPT ![c] = LevelNone] /\ pc' = [pc EXCEPT ![c] = "answered"]
        /\ UNCHANGED <<now, bucket, at>>
        /\ UNCHANGED <<files, limitVars, registry, tool, job, loaded, answer, over, raced>>
    BY DEF Update, limitVars
  <1>2. /\ want[c] \in Levels /\ LevelNone \in Levels /\ "answered" \in Finished
        /\ pc \in [Calls -> AllSteps] /\ "answered" \in AllSteps
    BY LevelFacts DEF CallsInv, TypeOK, Finished, AllSteps
  <1>3. pc'[c] = "answered" /\ \A d \in Calls \ {c} : pc'[d] = pc[d]
    BY <1>1, <1>2
  <1>4. LevelInv' /\ top' \in [Calls -> Levels]
    BY <1>1, <1>2, <1>3, LevelMoves
  <1>5. TypeOK'
    BY <1>1, <1>2, <1>4 DEF CallsInv, TypeOK, AllSteps
  <1>6. tool[c] # "exec_bg" /\ answer[c] = "none"
    BY <1>1 DEF CallsInv, StepsInv, Finished, Looking, Reads
  <1>7. StepsInv'
    BY <1>1, <1>2, <1>3, <1>6 DEF CallsInv, StepsInv, Finished, Looking, Reads
  <1>8. RegistryInv'
    BY <1>1, <1>3, <1>6 DEF CallsInv, RegistryInv, AnsweredIsListed
  <1>9. OverInv'
    BY <1>1, <1>3, <1>6 DEF CallsInv, TypeOK, OverInv, Over, Finished
  <1>10. BucketsTight'
    BY <1>1, BucketsKept DEF CallsInv
  <1> QED
    BY <1>4, <1>5, <1>7, <1>8, <1>9, <1>10 DEF CallsInv

\* saveJob's two halves.
LEMMA LoadJobsInv ==
    ASSUME CallsInv, NEW c \in Calls, LoadJobs(c)
    PROVE  CallsInv'
  <1>1. /\ pc[c] = "load" /\ loaded' = [loaded EXCEPT ![c] = registry] /\ Goto(c, "rename")
        /\ raced' = IF Saving = {} THEN raced ELSE raced \cup {job[d] : d \in Saving \cup {c}}
        /\ UNCHANGED <<now, bucket, at>>
        /\ UNCHANGED <<level, files, limitVars, registry, tool, job, want, answer, over>>
    BY DEF LoadJobs, limitVars
  <1>2. "rename" \in AllSteps /\ "rename" \notin Finished
    BY DEF AllSteps, HostSteps, Finished
  <1>3. /\ pc' \in [Calls -> AllSteps] /\ top' \in [Calls -> Levels]
        /\ pc'[c] = "rename" /\ top'[c] = top[c]
        /\ \A d \in Calls \ {c} : pc'[d] = pc[d] /\ top'[d] = top[d]
    BY <1>1, <1>2, GotoFacts DEF CallsInv
  <1>4. tool[c] = "exec_bg" /\ job[c] \in Jobs /\ answer[c] = "none" /\ top[c] >= level
        /\ top[c] >= Need[tool[c]]
    BY <1>1 DEF CallsInv, StepsInv, LevelInv, Active, Finished, Looking, Reads
  <1>5. raced \subseteq raced' /\ raced' \subseteq Jobs
    BY <1>1, <1>4 DEF Saving, CallsInv, StepsInv, TypeOK
  <1>6. TypeOK'
    BY <1>1, <1>3, <1>5 DEF CallsInv, TypeOK, AllSteps
  <1>7. StepsInv'
    BY <1>1, <1>3, <1>4 DEF CallsInv, StepsInv, Finished, Looking, Reads
  <1>8. RegistryInv'
    <2>1. AnsweredIsListed'
      BY <1>1, <1>3, <1>5 DEF CallsInv, RegistryInv, AnsweredIsListed
    <2>2. \A d \in Calls : pc'[d] = "rename" => /\ loaded'[d] \subseteq registry \cup raced'
                                                /\ registry \subseteq loaded'[d] \cup raced'
      BY <1>1, <1>3, <1>5 DEF CallsInv, RegistryInv, TypeOK
    <2>3. ASSUME NEW a \in Calls, NEW b \in Calls, a # b, pc'[a] = "rename", pc'[b] = "rename"
          PROVE  job[a] \in raced'
      <3>1. CASE a # c /\ b # c
        BY <1>3, <1>5, <2>3, <3>1 DEF CallsInv, RegistryInv
      <3>2. CASE a = c \/ b = c
        <4>1. Saving # {} /\ (a = c \/ a \in Saving)
          BY <1>3, <2>3, <3>2 DEF Saving
        <4> QED
          BY <1>1, <4>1
      <3> QED
        BY <3>1, <3>2
    <2> QED
      BY <1>1, <2>1, <2>2, <2>3 DEF RegistryInv
  <1>9. OverInv'
    BY <1>1, <1>3, <1>4 DEF CallsInv, TypeOK, OverInv, Over, Finished
  <1>10. LevelInv'
    BY <1>1, <1>3, <1>4 DEF CallsInv, LevelInv, Active
  <1>11. BucketsTight'
    BY <1>1, BucketsKept DEF CallsInv
  <1> QED
    BY <1>6, <1>7, <1>8, <1>9, <1>10, <1>11 DEF CallsInv

\* saveJob loses no job, unless another save overlapped it.
LEMMA SaveJobInv ==
    ASSUME CallsInv, NEW c \in Calls, SaveJob(c)
    PROVE  CallsInv'
  <1>1. /\ pc[c] = "rename" /\ registry' = loaded[c] \cup {job[c]} /\ loaded' = [loaded EXCEPT ![c] = {}]
        /\ Goto(c, "answered") /\ UNCHANGED <<now, bucket, at>>
        /\ UNCHANGED <<level, files, limitVars, tool, job, want, answer, over, raced>>
    BY DEF SaveJob, limitVars
  <1>2. "answered" \in AllSteps /\ "answered" \in Finished
    BY DEF AllSteps, Finished
  <1>3. /\ pc' \in [Calls -> AllSteps] /\ top' \in [Calls -> Levels]
        /\ pc'[c] = "answered"
        /\ \A d \in Calls \ {c} : pc'[d] = pc[d] /\ top'[d] = top[d]
    BY <1>1, <1>2, GotoFacts DEF CallsInv
  <1>4. tool[c] = "exec_bg" /\ job[c] \in Jobs /\ answer[c] = "none"
    BY <1>1 DEF CallsInv, StepsInv, Finished, Looking, Reads
  <1>5. /\ loaded[c] \subseteq registry \cup raced /\ registry \subseteq loaded[c] \cup raced
        /\ loaded[c] \subseteq Jobs
    BY <1>1 DEF CallsInv, RegistryInv, TypeOK
  <1>6. TypeOK'
    BY <1>1, <1>3, <1>4, <1>5 DEF CallsInv, TypeOK, AllSteps
  <1>7. StepsInv'
    BY <1>1, <1>3, <1>4 DEF CallsInv, StepsInv, Finished, Looking, Reads
  <1>8. RegistryInv'
    <2>1. registry \subseteq registry' \cup raced
      BY <1>1, <1>5
    <2>2. AnsweredIsListed'
      BY <1>1, <1>3, <2>1 DEF CallsInv, RegistryInv, AnsweredIsListed
    <2>3. ASSUME NEW d \in Calls, pc'[d] = "rename"
          PROVE  loaded'[d] \subseteq registry' \cup raced /\ registry' \subseteq loaded'[d] \cup raced
      <3>1. d # c /\ pc[d] = "rename" /\ loaded'[d] = loaded[d]
        BY <1>1, <1>3, <2>3 DEF CallsInv, TypeOK
      <3>2. job[c] \in raced /\ loaded[d] \subseteq registry \cup raced /\ registry \subseteq loaded[d] \cup raced
        BY <1>1, <3>1 DEF CallsInv, RegistryInv
      <3> QED
        BY <1>1, <1>5, <3>1, <3>2
    <2>4. \A a, b \in Calls : a # b /\ pc'[a] = "rename" /\ pc'[b] = "rename" => job[a] \in raced
      BY <1>1, <1>3 DEF CallsInv, RegistryInv
    <2> QED
      BY <1>1, <2>2, <2>3, <2>4 DEF RegistryInv
  <1>9. OverInv'
    BY <1>1, <1>3, <1>4 DEF CallsInv, TypeOK, OverInv, Over, Finished
  <1>10. LevelInv'
    BY <1>1, <1>3 DEF CallsInv, LevelInv, Active, Finished, GuestSteps, Reads
  <1>11. BucketsTight'
    BY <1>1, BucketsKept DEF CallsInv
  <1> QED
    BY <1>6, <1>7, <1>8, <1>9, <1>10, <1>11 DEF CallsInv

-----------------------------------------------------------------------------
(* The limiter *)

\* The smaller of two numbers.
LEMMA MinTwo ==
    ASSUME NEW a \in Int, NEW b \in Int
    PROVE  Min({a, b}) = IF a <= b THEN a ELSE b
  BY DEF Min

\* A bound that a member of a set of numbers meets is its minimum.
LEMMA MinIs ==
    ASSUME NEW S \in SUBSET Int, NEW m \in S, \A x \in S : m <= x
    PROVE  Min(S) = m
  <1>1. \E x \in S : \A y \in S : x <= y
    OBVIOUS
  <1>2. Min(S) \in S /\ \A y \in S : Min(S) <= y
    BY <1>1 DEF Min
  <1>3. Min(S) \in Int /\ m \in Int /\ Min(S) <= m /\ m <= Min(S)
    BY <1>2
  <1> QED
    BY <1>3

\* The numbers of the limiter, with their products out of the way.
Cap(k)     == Unit * Capacity(k)
Drip(k, n) == n * Refill(k)
Cost(n)    == Unit * n

\* The products of the limits, hidden behind names, and all that is used of them.
LEMMA Numbers ==
    /\ \A k : Cap(k) \in Nat /\ Refill(k) \in Nat
    /\ \A k : \A n \in Nat : Drip(k, n) \in Nat /\ Drip(k, n + 1) = Drip(k, n) + Refill(k)
    /\ \A k : Drip(k, 0) = 0
    /\ \A n \in Nat : Cost(n) \in Nat /\ Cost(n + 1) = Cost(n) + Unit
    /\ Cost(0) = 0 /\ Unit \in Nat /\ Unit > 0
  <1>1. \A k : Capacity(k) \in Nat /\ Refill(k) \in Nat
    BY LimitsAssumption DEF Capacity, Refill
  <1>2. Unit \in Nat /\ Unit > 0
    BY LimitsAssumption
  <1>3. \A k : Cap(k) \in Nat
    BY <1>1, <1>2 DEF Cap
  <1>4. ASSUME NEW k, NEW n \in Nat
        PROVE  Drip(k, n) \in Nat /\ Drip(k, n + 1) = Drip(k, n) + Refill(k) /\ Drip(k, 0) = 0
    <2>1. Refill(k) \in Nat
      BY <1>1
    <2> QED
      BY <2>1 DEF Drip
  <1>5. ASSUME NEW n \in Nat PROVE Cost(n) \in Nat /\ Cost(n + 1) = Cost(n) + Unit /\ Cost(0) = 0
    BY <1>2 DEF Cost
  <1> QED
    BY <1>1, <1>2, <1>3, <1>4, <1>5

\* A bucket holds its burst or what it was left with and has dripped since.
LEMMA LevelOf ==
    ASSUME NEW k, NEW tok \in Nat, NEW n \in Nat, NEW last \in 0 .. n
    PROVE  LET x == tok + Drip(k, n - last)
           IN  /\ n - last \in Nat /\ x \in Nat
               /\ Min({Unit * Capacity(k), tok + (n - last) * Refill(k)})
                    = IF Cap(k) <= x THEN Cap(k) ELSE x
  <1> DEFINE x == tok + Drip(k, n - last)
  <1>1. n - last \in Nat
    OBVIOUS
  <1>2. x \in Nat /\ Cap(k) \in Nat
    BY <1>1, Numbers
  <1>3. Min({Cap(k), x}) = IF Cap(k) <= x THEN Cap(k) ELSE x
    BY <1>2, MinTwo
  <1> QED
    BY <1>1, <1>2, <1>3 DEF Cap, Drip

\* What a bucket of the current state holds.
LEMMA LevelIs ==
    ASSUME TypeOK, NEW k \in DOMAIN bucket
    PROVE  /\ now - bucket[k].last \in Nat /\ bucket[k].tokens \in Nat /\ now \in Nat
           /\ bucket[k].last \in 0 .. now /\ Level(k) \in Nat
           /\ LET x == bucket[k].tokens + Drip(k, now - bucket[k].last)
              IN  x \in Nat /\ Level(k) = IF Cap(k) <= x THEN Cap(k) ELSE x
  <1>1. /\ bucket[k].tokens \in Nat /\ bucket[k].last \in 0 .. now /\ now \in Nat
    BY LimitsAssumption DEF TypeOK
  <1> DEFINE x == bucket[k].tokens + Drip(k, now - bucket[k].last)
  <1>2. now - bucket[k].last \in Nat /\ x \in Nat /\ Level(k) = IF Cap(k) <= x THEN Cap(k) ELSE x
    BY <1>1, LevelOf DEF Level
  <1>3. Cap(k) \in Nat
    BY Numbers
  <1> HIDE DEF x
  <1>4. Level(k) \in Nat
    BY <1>2, <1>3
  <1> QED
    BY <1>1, <1>2, <1>4 DEF x

\* A window counts finitely many calls.
LEMMA WindowOf ==
    ASSUME NEW k, NEW n \in Nat, NEW s \in 0 .. n, NEW G \in SUBSET Calls
    PROVE  /\ IsFiniteSet(G) /\ Cardinality(G) \in Nat /\ n - s \in Nat
           /\ Unit * Capacity(k) + Refill(k) * (n - s) - Unit * Cardinality(G)
                = Cap(k) + Drip(k, n - s) - Cost(Cardinality(G))
           /\ Cap(k) + Drip(k, n - s) - Cost(Cardinality(G)) \in Int
  <1>1. IsFiniteSet(G)
    BY LimitsAssumption, FS_Subset
  <1>2. Cardinality(G) \in Nat
    BY <1>1, FS_CardinalityType
  <1>3. n - s \in Nat
    OBVIOUS
  <1>4. Refill(k) \in Nat
    BY Numbers
  <1>5. Refill(k) * (n - s) = Drip(k, n - s)
    BY <1>3, <1>4 DEF Drip
  <1>6. Cap(k) + Drip(k, n - s) - Cost(Cardinality(G)) \in Int
    BY <1>2, <1>3, Numbers
  <1> QED
    BY <1>1, <1>2, <1>3, <1>5, <1>6 DEF Cap, Cost

\* What a window of the current state leaves.
LEMMA WindowIs ==
    ASSUME TypeOK, NEW k, NEW s \in 0 .. now
    PROVE  /\ IsFiniteSet(GrantedSince(k, s)) /\ Cardinality(GrantedSince(k, s)) \in Nat
           /\ now - s \in Nat
           /\ Window(k, s) = Cap(k) + Drip(k, now - s) - Cost(Cardinality(GrantedSince(k, s)))
           /\ Window(k, s) \in Int
  <1>1. PICK G : G = GrantedSince(k, s)
    OBVIOUS
  <1>2. G \in SUBSET Calls /\ now \in Nat
    BY <1>1, LimitsAssumption DEF GrantedSince, TypeOK
  <1>3. /\ IsFiniteSet(G) /\ Cardinality(G) \in Nat /\ now - s \in Nat
        /\ Unit * Capacity(k) + Refill(k) * (now - s) - Unit * Cardinality(G)
             = Cap(k) + Drip(k, now - s) - Cost(Cardinality(G))
        /\ Cap(k) + Drip(k, now - s) - Cost(Cardinality(G)) \in Int
    BY <1>2, WindowOf
  <1>4. Window(k, s) = Unit * Capacity(k) + Refill(k) * (now - s) - Unit * Cardinality(G)
    BY <1>1 DEF Window
  <1> QED
    BY <1>1, <1>3, <1>4

\* Grants are not in the future.
LEMMA TimesAre ==
    ASSUME TypeOK
    PROVE  Times \subseteq 0 .. now
  BY DEF TypeOK, Times, NoTime

\* BucketsTight is BucketsExact.
LEMMA TightIsExact == TypeOK /\ BucketsTight => BucketsExact
  <1> SUFFICES ASSUME TypeOK, BucketsTight, NEW k \in DOMAIN bucket
               PROVE  Level(k) = Min({Unit * Capacity(k)} \cup
                   {Unit * Capacity(k) + Refill(k) * (now - s) - Unit * Cardinality(GrantedSince(k, s)) :
                      s \in {at[c] : c \in {d \in Calls : at[d] # NoTime}}})
    BY DEF BucketsExact
  <1> DEFINE S == {Cap(k)} \cup {Window(k, s) : s \in Times}
  <1>1. Tight(k)
    BY DEF BucketsTight
  <1>2. S \in SUBSET Int
    BY WindowIs, TimesAre, Numbers
  <1>3. Level(k) \in S /\ \A x \in S : Level(k) <= x
    BY <1>1 DEF Tight, Cap
  <1>4. Min(S) = Level(k)
    BY <1>2, <1>3, MinIs
  <1>5. S = {Unit * Capacity(k)} \cup
            {Unit * Capacity(k) + Refill(k) * (now - s) - Unit * Cardinality(GrantedSince(k, s)) :
                      s \in {at[c] : c \in {d \in Calls : at[d] # NoTime}}}
    BY DEF Cap, Window, Times
  <1> QED
    BY <1>4, <1>5

\* Time passes: every window grows by what drips.
LEMMA TickInv ==
    ASSUME CallsInv, Tick
    PROVE  CallsInv'
  <1>1. /\ now' = now + 1 /\ now < MaxTime
        /\ UNCHANGED <<level, files, registry, bucket, pc, tool, at, job, loaded, want,
                       answer, top, over, raced>>
    BY DEF Tick
  <1>2. now \in Nat /\ now' \in 0 .. MaxTime /\ now' \in Nat /\ MaxTime \in Nat
    BY <1>1, LimitsAssumption DEF CallsInv, TypeOK
  <1>3. 0 .. now \subseteq 0 .. now'
    BY <1>1, <1>2
  <1>4. \A k \in DOMAIN bucket : /\ bucket[k].tokens \in 0 .. Unit * Capacity(k)
                                 /\ bucket[k].last \in 0 .. now'
    BY <1>3 DEF CallsInv, TypeOK
  <1>5. at \in [Calls -> 0 .. now' \cup {NoTime}]
    BY <1>3 DEF CallsInv, TypeOK
  <1>6. TypeOK'
    BY <1>1, <1>2, <1>4, <1>5 DEF CallsInv, TypeOK
  <1>7. StepsInv' /\ RegistryInv' /\ OverInv' /\ LevelInv'
    BY <1>1 DEF CallsInv, StepsInv, RegistryInv, AnsweredIsListed, OverInv, Over,
                LevelInv, Active
  <1>8. Times' = Times /\ Times \subseteq 0 .. now
    BY <1>1, TimesAre DEF Times, CallsInv
  <1>9. ASSUME NEW k \in DOMAIN bucket PROVE Tight(k)'
    <2> DEFINE x == bucket[k].tokens + Drip(k, now - bucket[k].last)
    <2>1. /\ now - bucket[k].last \in Nat /\ bucket[k].tokens \in Nat
          /\ x \in Nat /\ Level(k) \in Nat /\ Level(k) = IF Cap(k) <= x THEN Cap(k) ELSE x
      BY LevelIs DEF CallsInv
    <2>2. now' - bucket[k].last = (now - bucket[k].last) + 1
      BY <1>1, <1>2, <1>4
    <2>3. Drip(k, now' - bucket[k].last) = Drip(k, now - bucket[k].last) + Refill(k)
      BY <2>1, <2>2, Numbers
    <2> DEFINE y == bucket[k].tokens + Drip(k, now' - bucket[k].last)
    <2>4. Level(k)' = IF Cap(k) <= y THEN Cap(k) ELSE y
      <3>1. bucket' = bucket /\ bucket[k].last \in 0 .. now' /\ bucket[k].tokens \in Nat
        BY <1>1, <1>4, <2>1
      <3> QED
        BY <1>2, <3>1, LevelOf DEF Level
    <2>5. y = x + Refill(k) /\ Refill(k) \in Nat /\ Cap(k) \in Nat
      <3>1. Drip(k, now - bucket[k].last) \in Nat /\ Refill(k) \in Nat /\ Cap(k) \in Nat
        BY <2>1, Numbers
      <3> QED
        BY <2>1, <2>3, <3>1
    <2> HIDE DEF x, y
    <2>6. ASSUME NEW s \in Times PROVE Window(k, s)' = Window(k, s) + Refill(k) /\ Window(k, s) \in Int
      <3>1. s \in 0 .. now /\ s \in 0 .. now'
        BY <1>3, <1>8
      <3>2. GrantedSince(k, s)' = GrantedSince(k, s)
        BY <1>1 DEF GrantedSince
      <3>3. /\ Window(k, s) = Cap(k) + Drip(k, now - s) - Cost(Cardinality(GrantedSince(k, s)))
            /\ now - s \in Nat /\ Cardinality(GrantedSince(k, s)) \in Nat /\ Window(k, s) \in Int
        BY <3>1, WindowIs DEF CallsInv
      <3>4. now' - s = (now - s) + 1
        BY <1>1, <1>2, <3>1
      <3>5. Drip(k, now' - s) = Drip(k, now - s) + Refill(k)
        BY <3>3, <3>4, Numbers
      <3>6. Window(k, s)' = Cap(k) + Drip(k, now' - s) - Cost(Cardinality(GrantedSince(k, s)))
        <4>1. GrantedSince(k, s) \in SUBSET Calls
          BY DEF GrantedSince
        <4>2. Window(k, s)' = Unit * Capacity(k) + Refill(k) * (now' - s) - Unit * Cardinality(GrantedSince(k, s))
          BY <3>2 DEF Window
        <4>3. Unit * Capacity(k) + Refill(k) * (now' - s) - Unit * Cardinality(GrantedSince(k, s))
                = Cap(k) + Drip(k, now' - s) - Cost(Cardinality(GrantedSince(k, s)))
          BY <1>2, <3>1, <4>1, WindowOf
        <4> QED
          BY <4>2, <4>3
      <3>7. /\ Cap(k) \in Nat /\ Refill(k) \in Nat /\ Drip(k, now - s) \in Nat
            /\ Cost(Cardinality(GrantedSince(k, s))) \in Nat
        BY <3>3, Numbers
      <3> QED
        BY <3>3, <3>5, <3>6, <3>7
    <2>7. /\ Level(k) <= Cap(k) /\ \A s \in Times : Level(k) <= Window(k, s)
          /\ Level(k) = Cap(k) \/ \E s \in Times : Level(k) = Window(k, s)
      BY DEF CallsInv, BucketsTight, Tight, Cap
    <2>8. Level(k)' <= Cap(k) /\ Level(k)' <= Level(k) + Refill(k) /\ Level(k)' \in Nat
          /\ (Level(k)' = Cap(k) \/ (Level(k) < Cap(k) /\ Level(k)' = Level(k) + Refill(k)))
      BY <2>1, <2>4, <2>5
    <2>9. \A s \in Times : Level(k)' <= Window(k, s)'
      BY <2>1, <2>5, <2>6, <2>7, <2>8
    <2>10. Level(k)' = Cap(k) \/ \E s \in Times : Level(k)' = Window(k, s)'
      BY <2>1, <2>5, <2>6, <2>7, <2>8
    <2> QED
      BY <1>8, <2>8, <2>9, <2>10 DEF Tight, Cap, Capacity
  <1> QED
    BY <1>1, <1>6, <1>7, <1>9 DEF CallsInv, BucketsTight

\* A full bucket, at any time.
LEMMA FullFacts ==
    /\ Full \in [Tools \cup {Shared} -> [tokens : Nat, last : Nat]]
    /\ \A k \in Tools \cup {Shared} :
         /\ Full[k].tokens \in 0 .. Unit * Capacity(k) /\ Full[k].last = 0
         /\ \A n \in Nat : Min({Unit * Capacity(k), Full[k].tokens + (n - Full[k].last) * Refill(k)})
                             = Unit * Capacity(k)
  <1>1. \A k : Unit * Capacity(k) \in Nat /\ Cap(k) = Unit * Capacity(k)
    BY Numbers DEF Cap
  <1>2. \A k \in Tools \cup {Shared} : Full[k].tokens = Cap(k) /\ Full[k].last = 0
    BY <1>1 DEF Full
  <1>3. Full \in [Tools \cup {Shared} -> [tokens : Nat, last : Nat]]
    BY <1>1 DEF Full
  <1>4. ASSUME NEW k \in Tools \cup {Shared}, NEW n \in Nat
        PROVE  Min({Unit * Capacity(k), Full[k].tokens + (n - Full[k].last) * Refill(k)}) = Cap(k)
    <2> DEFINE x == Cap(k) + Drip(k, n - 0)
    <2>1. Cap(k) \in Nat /\ 0 \in 0 .. n /\ Full[k].tokens = Cap(k) /\ Full[k].last = 0
      BY <1>1, <1>2
    <2>2. Min({Unit * Capacity(k), Cap(k) + (n - 0) * Refill(k)}) = IF Cap(k) <= x THEN Cap(k) ELSE x
      <3> HIDE DEF Cap
      <3> QED
        BY <2>1, LevelOf
    <2>3. Drip(k, n - 0) \in Nat
      BY Numbers
    <2> QED
      BY <2>1, <2>2, <2>3
  <1>5. \A k \in Tools \cup {Shared} : Full[k].tokens \in 0 .. Unit * Capacity(k)
    BY <1>1, <1>2
  <1> QED
    BY <1>1, <1>2, <1>3, <1>4, <1>5

\* Another server: every bucket full, no call under way.
LEMMA RestartInv ==
    ASSUME CallsInv, Restart
    PROVE  CallsInv'
  <1>1. /\ pc' = [c \in Calls |-> IF c \in Active THEN "refused" ELSE pc[c]]
        /\ at' = [c \in Calls |-> NoTime] /\ loaded' = [c \in Calls |-> {}]
        /\ want' = [c \in Calls |-> LevelNone] /\ bucket' = Full
        /\ top' = [c \in Calls |-> LevelNone] /\ over' = over \ Active
        /\ job' = [c \in Calls |-> IF c \in Active THEN NoJob ELSE job[c]]
        /\ answer' = [c \in Calls |-> IF c \in Active THEN "none" ELSE answer[c]]
        /\ tool' = [c \in Calls |-> IF c \in Active THEN "power" ELSE tool[c]]
        /\ UNCHANGED <<level, files, registry, now, raced>>
    BY DEF Restart
  <1>2. \A c \in Calls : \/ pc'[c] = "refused" /\ job'[c] = NoJob /\ answer'[c] = "none" /\ tool'[c] = "power"
                         \/ /\ pc[c] \in Finished \cup {"idle"}
                            /\ pc'[c] = pc[c] /\ job'[c] = job[c] /\ answer'[c] = answer[c] /\ tool'[c] = tool[c]
    BY <1>1 DEF Active
  <1>3. \A c \in Calls : pc'[c] \in Finished \cup {"idle"}
    BY <1>2 DEF Finished
  <1>4. now \in Nat
    BY LimitsAssumption DEF CallsInv, TypeOK
  <1>5. /\ bucket' \in [Tools \cup {Shared} -> [tokens : Nat, last : Nat]]
        /\ \A k \in DOMAIN bucket' : /\ bucket'[k].tokens \in 0 .. Unit * Capacity(k)
                                     /\ bucket'[k].last \in 0 .. now
    BY <1>1, <1>4, FullFacts
  <1>6. TypeOK'
    <2>1. "refused" \in Finished /\ "power" \in Tools /\ LevelNone \in Levels
      BY LevelFacts DEF Finished, Tools, Need
    <2>2. /\ pc' \in [Calls -> {"idle"} \cup HostSteps \cup GuestSteps \cup Finished]
          /\ job' \in [Calls -> Jobs \cup {NoJob}] /\ tool' \in [Calls -> Tools]
          /\ answer' \in [Calls -> {"none", "starting", "running", "exited", "unknown"}]
      BY <1>1, <2>1 DEF CallsInv, TypeOK
    <2>3. /\ at' \in [Calls -> 0 .. now \cup {NoTime}] /\ loaded' \in [Calls -> SUBSET Jobs]
          /\ want' \in [Calls -> Levels] /\ top' \in [Calls -> Levels]
      BY <1>1, <2>1
    <2> QED
      BY <1>1, <1>5, <2>2, <2>3 DEF CallsInv, TypeOK
  <1>7. StepsInv'
    BY <1>1, <1>2, <1>3 DEF CallsInv, StepsInv, Finished, Looking, Reads
  <1>8. RegistryInv'
    BY <1>1, <1>2, <1>3 DEF CallsInv, RegistryInv, AnsweredIsListed, Finished
  <1>9. OverInv'
    <2> SUFFICES ASSUME NEW c \in over \ Active
                 PROVE  /\ job'[c] \in Jobs /\ Over(job[c])' /\ answer'[c] # "running"
                        /\ pc'[c] \in Finished
      BY <1>1 DEF OverInv, Finished
    <2>1. c \in Calls
      BY DEF CallsInv, TypeOK
    <2>2. pc'[c] = pc[c] /\ job'[c] = job[c] /\ answer'[c] = answer[c]
      BY <1>1, <2>1
    <2>3. pc[c] \in Finished
      BY <2>1 DEF Active, CallsInv, OverInv
    <2> QED
      BY <1>1, <2>2, <2>3 DEF CallsInv, OverInv, Over
  <1>10. LevelInv'
    BY <1>3 DEF LevelInv, Active, Finished, GuestSteps, Reads
  <1>11. BucketsTight'
    <2>1. Times' = {}
      BY <1>1 DEF Times
    <2> SUFFICES ASSUME NEW k \in DOMAIN bucket' PROVE Tight(k)'
      BY DEF BucketsTight
    <2>2. k \in Tools \cup {Shared} /\ Unit * Capacity(k) \in Nat
      BY <1>5, Numbers DEF Cap
    <2>3. Level(k)' = Unit * Capacity(k)
      BY <1>1, <1>4, <2>2, FullFacts DEF Level
    <2> QED
      BY <2>1, <2>2, <2>3 DEF Tight
  <1> QED
    BY <1>6, <1>7, <1>8, <1>9, <1>10, <1>11 DEF CallsInv

-----------------------------------------------------------------------------
(* Arrival *)

\* What a call that is granted adds to the windows.
LEMMA GrantAdds ==
    ASSUME CallsInv, NEW c \in Calls, NEW t \in Tools, pc[c] = "idle",
           tool' = [tool EXCEPT ![c] = t], at' = [at EXCEPT ![c] = now]
    PROVE  /\ Times' = Times \cup {now} /\ at[c] = NoTime
           /\ \A k \in Tools \cup {Shared} : \A s \in 0 .. now :
                /\ c \notin GrantedSince(k, s)
                /\ GrantedSince(k, s)' = GrantedSince(k, s) \cup (IF k \in {t, Shared} THEN {c} ELSE {})
           /\ now \notin Times => \A k : GrantedSince(k, now) = {}
  <1>1. at[c] = NoTime /\ now \in Nat
    BY LimitsAssumption DEF CallsInv, StepsInv, TypeOK
  <1>2. /\ at'[c] = now /\ tool'[c] = t
        /\ \A d \in Calls \ {c} : at'[d] = at[d] /\ tool'[d] = tool[d]
    BY DEF CallsInv, TypeOK
  <1>3. now # NoTime /\ \A s \in 0 .. now : ~(NoTime >= s) /\ now >= s
    BY <1>1 DEF NoTime
  <1>4. Times' = Times \cup {now}
    BY <1>1, <1>2, <1>3 DEF Times
  <1>5. ASSUME NEW k \in Tools \cup {Shared}, NEW s \in 0 .. now
        PROVE  /\ c \notin GrantedSince(k, s)
               /\ GrantedSince(k, s)' = GrantedSince(k, s) \cup (IF k \in {t, Shared} THEN {c} ELSE {})
    <2>1. c \notin GrantedSince(k, s)
      BY <1>1, <1>3 DEF GrantedSince
    <2>2. c \in GrantedSince(k, s)' <=> k \in {t, Shared}
      BY <1>2, <1>3 DEF GrantedSince
    <2>3. \A d \in Calls \ {c} : d \in GrantedSince(k, s)' <=> d \in GrantedSince(k, s)
      BY <1>2 DEF GrantedSince
    <2>4. GrantedSince(k, s) \subseteq Calls /\ GrantedSince(k, s)' \subseteq Calls
      BY DEF GrantedSince
    <2> QED
      BY <2>1, <2>2, <2>3, <2>4
  <1>6. ASSUME now \notin Times, NEW k PROVE GrantedSince(k, now) = {}
    <2> SUFFICES ASSUME NEW d \in Calls, at[d] >= now PROVE FALSE
      BY DEF GrantedSince
    <2>1. at[d] \in 0 .. now \cup {NoTime}
      BY DEF CallsInv, TypeOK
    <2>2. at[d] = now
      BY <1>1, <2>1 DEF NoTime
    <2> QED
      BY <1>3, <1>6, <2>2 DEF Times
  <1> QED
    BY <1>1, <1>4, <1>5, <1>6

\* Charged: every window loses one token, the one that begins now among them.
LEMMA ChargedTight ==
    ASSUME CallsInv, NEW c \in Calls, NEW t \in Tools, pc[c] = "idle", Allowed(t),
           tool' = [tool EXCEPT ![c] = t], at' = [at EXCEPT ![c] = now], now' = now,
           bucket' = Check(t), NEW k \in DOMAIN bucket
    PROVE  /\ Tight(k)'
           /\ bucket'[k] \in [tokens : Nat, last : Nat]
           /\ bucket'[k].tokens \in 0 .. Unit * Capacity(k) /\ bucket'[k].last \in 0 .. now
  <1>1. /\ bucket \in [Tools \cup {Shared} -> [tokens : Nat, last : Nat]]
        /\ now \in Nat /\ k \in Tools \cup {Shared}
    BY LimitsAssumption DEF CallsInv, TypeOK
  <1>2. /\ bucket[k].tokens \in 0 .. Unit * Capacity(k) /\ bucket[k].last \in 0 .. now
        /\ bucket[k].tokens \in Nat /\ Level(k) \in Nat
    BY LevelIs DEF CallsInv, TypeOK
  <1>3. bucket' = [bucket EXCEPT ![t] = Charge(t), ![Shared] = Charge(Shared)]
    BY DEF Allowed, Check
  <1>4. /\ k \in {t, Shared} => bucket'[k] = Charge(k) /\ Level(k) >= Unit
        /\ k \notin {t, Shared} => bucket'[k] = bucket[k]
    BY <1>1, <1>3 DEF Allowed
  <1>5. /\ Times' = Times \cup {now}
        /\ \A s \in 0 .. now :
             /\ c \notin GrantedSince(k, s)
             /\ GrantedSince(k, s)' = GrantedSince(k, s) \cup (IF k \in {t, Shared} THEN {c} ELSE {})
        /\ now \notin Times => GrantedSince(k, now) = {}
    BY <1>1, GrantAdds
  <1>6. Times \subseteq 0 .. now /\ now \in 0 .. now
    BY <1>1, TimesAre DEF CallsInv
  <1>7. /\ Level(k) <= Cap(k) /\ \A s \in Times : Level(k) <= Window(k, s)
        /\ Level(k) = Cap(k) \/ \E s \in Times : Level(k) = Window(k, s)
    BY DEF CallsInv, BucketsTight, Tight, Cap
  <1>8. Cap(k) \in Nat /\ Unit \in Nat /\ Unit > 0 /\ Cap(k) = Unit * Capacity(k)
    BY Numbers DEF Cap
  <1>9. \A s \in 0 .. now : Window(k, s) \in Int
    BY WindowIs DEF CallsInv
  \* The window from now on: at most the burst, and all of it before a grant.
  <1>10. /\ Window(k, now) <= Cap(k)
         /\ now \notin Times => Window(k, now) = Cap(k)
         /\ Level(k) <= Window(k, now)
    <2> DEFINE G == GrantedSince(k, now)
    <2>1. /\ Cardinality(G) \in Nat /\ now - now = 0
          /\ Window(k, now) = Cap(k) + Drip(k, now - now) - Cost(Cardinality(G))
      BY <1>1, <1>6, WindowIs DEF CallsInv
    <2>2. Window(k, now) = Cap(k) - Cost(Cardinality(G)) /\ Cost(Cardinality(G)) \in Nat
      <3>1. Drip(k, 0) = 0 /\ Cost(Cardinality(G)) \in Nat
        BY <2>1, Numbers
      <3> QED
        BY <1>8, <2>1, <3>1
    <2>3. now \notin Times => Cost(Cardinality(G)) = 0
      BY <1>5, Numbers, FS_EmptySet
    <2> HIDE DEF G
    <2> QED
      BY <1>2, <1>7, <1>8, <2>2, <2>3
  <1>11. \A s \in 0 .. now : Window(k, s)' = IF k \in {t, Shared} THEN Window(k, s) - Unit ELSE Window(k, s)
    <2> SUFFICES ASSUME NEW s \in 0 .. now
                 PROVE  Window(k, s)' = IF k \in {t, Shared} THEN Window(k, s) - Unit ELSE Window(k, s)
      OBVIOUS
    <2> DEFINE G == GrantedSince(k, s)
               H == IF k \in {t, Shared} THEN G \cup {c} ELSE G
    <2>1. Window(k, s)' = Unit * Capacity(k) + Refill(k) * (now - s) - Unit * Cardinality(H)
      <3>1. GrantedSince(k, s)' = H
        BY <1>5
      <3> HIDE DEF H
      <3> QED
        BY <3>1 DEF Window
    <2>2. G \in SUBSET Calls /\ H \in SUBSET Calls
      BY DEF GrantedSince
    <2>3. Unit * Capacity(k) + Refill(k) * (now - s) - Unit * Cardinality(H)
            = Cap(k) + Drip(k, now - s) - Cost(Cardinality(H))
      <3> HIDE DEF H
      <3> QED
        BY <1>1, <2>2, WindowOf
    <2>4. /\ Window(k, s) = Cap(k) + Drip(k, now - s) - Cost(Cardinality(G))
          /\ IsFiniteSet(G) /\ Cardinality(G) \in Nat /\ now - s \in Nat
      BY WindowIs DEF CallsInv
    <2>5. CASE k \in {t, Shared}
      <3>1. Cardinality(G \cup {c}) = Cardinality(G) + 1
        BY <1>5, <2>4, FS_AddElement
      <3>2. Cost(Cardinality(H)) = Cost(Cardinality(G)) + Unit
        BY <2>4, <2>5, <3>1, Numbers
      <3>3. Drip(k, now - s) \in Nat /\ Cost(Cardinality(G)) \in Nat
        BY <2>4, Numbers
      <3> HIDE DEF G, H
      <3> QED
        BY <1>8, <2>1, <2>3, <2>4, <2>5, <3>2, <3>3
    <2>6. CASE k \notin {t, Shared}
      <3>1. H = G
        BY <2>6
      <3> HIDE DEF G, H
      <3> QED
        BY <2>1, <2>3, <2>4, <2>6, <3>1
    <2> QED
      BY <2>5, <2>6
  <1>12. CASE k \in {t, Shared}
    <2>1. bucket'[k] = [tokens |-> Level(k) - Unit, last |-> now]
      BY <1>4, <1>12 DEF Charge
    <2>2. Level(k) - Unit \in Nat /\ Level(k) - Unit <= Cap(k)
      BY <1>2, <1>4, <1>7, <1>8, <1>12
    <2>3. /\ bucket'[k] \in [tokens : Nat, last : Nat]
          /\ bucket'[k].tokens = Level(k) - Unit /\ bucket'[k].last = now
      BY <1>1, <2>1, <2>2
    <2>4. Level(k)' = Level(k) - Unit
      <3> DEFINE v == Level(k) - Unit
                 x == v + Drip(k, now - now)
      <3>1. Level(k)' = Min({Unit * Capacity(k), v + (now - now) * Refill(k)})
        BY <2>3 DEF Level
      <3>2. v \in Nat /\ v <= Cap(k)
        BY <2>2
      <3> HIDE DEF v
      <3>3. Min({Unit * Capacity(k), v + (now - now) * Refill(k)}) = IF Cap(k) <= x THEN Cap(k) ELSE x
        BY <1>1, <1>6, <3>2, LevelOf
      <3>4. now - now = 0 /\ Drip(k, 0) = 0
        BY <1>1, Numbers
      <3>5. x = v
        BY <3>2, <3>4
      <3>6. Level(k)' = v
        BY <1>8, <3>1, <3>2, <3>3, <3>5
      <3> QED
        BY <3>6 DEF v
    <2>5. \A s \in 0 .. now : Window(k, s)' = Window(k, s) - Unit
      BY <1>11, <1>12
    <2>6. \A s \in Times' : Level(k)' <= Window(k, s)'
      <3> SUFFICES ASSUME NEW s \in Times \cup {now} PROVE Level(k)' <= Window(k, s)'
        BY <1>5
      <3>1. s \in 0 .. now
        BY <1>6
      <3>2. Level(k) <= Window(k, s)
        BY <1>7, <1>10
      <3>3. Window(k, s) \in Int /\ Window(k, s)' = Window(k, s) - Unit
        BY <1>9, <2>5, <3>1
      <3> QED
        BY <1>2, <1>8, <2>4, <3>2, <3>3
    <2>7. \E s \in Times' : Level(k)' = Window(k, s)'
      <3>1. CASE Level(k) = Cap(k)
        <4>1. Window(k, now) = Cap(k)
          BY <1>6, <1>8, <1>9, <1>10, <3>1
        <4>2. Level(k)' = Window(k, now)'
          BY <1>6, <2>4, <2>5, <3>1, <4>1
        <4> QED
          BY <1>5, <4>2
      <3>2. CASE \E s \in Times : Level(k) = Window(k, s)
        BY <1>5, <1>6, <2>4, <2>5, <3>2
      <3> QED
        BY <1>7, <3>1, <3>2
    <2>8. Tight(k)'
      BY <1>8, <2>2, <2>4, <2>6, <2>7 DEF Tight
    <2> QED
      BY <1>1, <1>6, <1>8, <2>2, <2>3, <2>8
  <1>13. CASE k \notin {t, Shared}
    <2>1. bucket'[k] = bucket[k]
      BY <1>4, <1>13
    <2>2. Level(k)' = Level(k)
      BY <2>1 DEF Level
    <2>3. \A s \in 0 .. now : Window(k, s)' = Window(k, s)
      BY <1>11, <1>13
    <2>4. \A s \in Times' : Level(k)' <= Window(k, s)'
      BY <1>5, <1>6, <1>7, <1>10, <2>2, <2>3
    <2>5. Level(k)' = Cap(k) \/ \E s \in Times' : Level(k)' = Window(k, s)'
      BY <1>5, <1>6, <1>7, <2>2, <2>3
    <2>6. Tight(k)'
      BY <1>7, <1>8, <2>2, <2>4, <2>5 DEF Tight
    <2> QED
      BY <1>1, <1>2, <2>1, <2>6
  <1> QED
    BY <1>12, <1>13

\* A call that arrives: granted it pays, refused it changes no bucket.
LEMMA ArriveInv ==
    ASSUME CallsInv, NEW c \in Calls, NEW t \in Tools, Arrive(c, t)
    PROVE  CallsInv'
  <1>1. /\ pc[c] = "idle" /\ bucket' = Check(t) /\ top' = [top EXCEPT ![c] = level]
        /\ UNCHANGED <<level, files, registry, now, job, loaded, want, answer, over, raced>>
    BY DEF Arrive
  <1>2. at[c] = NoTime /\ answer[c] = "none" /\ pc[c] \notin Finished
    BY <1>1 DEF CallsInv, StepsInv, Looking, Reads, Finished
  <1>3. c \notin over
    BY <1>1 DEF CallsInv, OverInv, Finished
  <1>4. /\ top'[c] = level
        /\ \A d \in Calls \ {c} : top'[d] = top[d]
        /\ top' \in [Calls -> Levels]
    BY <1>1 DEF CallsInv, TypeOK
  <1> DEFINE p == IF Allowed(t) THEN Entry(t) ELSE "refused"
             u == IF Allowed(t) THEN t ELSE tool[c]
             w == IF Allowed(t) THEN now ELSE NoTime
  <1>5. /\ p \in {"level", "switch", "gate", "refused"}
        /\ u = "exec_bg" => p \in {"gate", "refused"}
        /\ u \in Tools /\ w \in 0 .. now \cup {NoTime}
    <2>2. Entry(t) \in {"level", "switch", "gate"} /\ (t = "exec_bg" => Entry(t) = "gate")
      BY DEF Entry
    <2>3. tool[c] \in Tools /\ now \in 0 .. now
      BY LimitsAssumption DEF CallsInv, TypeOK
    <2> QED
      BY <2>2, <2>3
  <1>6. /\ pc' = [pc EXCEPT ![c] = p] /\ tool' = [tool EXCEPT ![c] = u] /\ at' = [at EXCEPT ![c] = w]
    BY DEF Arrive
  <1>7. BucketsTight' /\ bucket' \in [Tools \cup {Shared} -> [tokens : Nat, last : Nat]]
        /\ \A k \in DOMAIN bucket' : /\ bucket'[k].tokens \in 0 .. Unit * Capacity(k)
                                     /\ bucket'[k].last \in 0 .. now
    <2>1. CASE Allowed(t)
      <3>1. tool' = [tool EXCEPT ![c] = t] /\ at' = [at EXCEPT ![c] = now]
        BY <1>6, <2>1
      <3>2. /\ DOMAIN bucket = Tools \cup {Shared} /\ DOMAIN bucket' = Tools \cup {Shared}
            /\ bucket' = [k \in Tools \cup {Shared} |-> bucket'[k]]
        BY <1>1 DEF Check, CallsInv, TypeOK
      <3>3. \A k \in DOMAIN bucket :
              /\ Tight(k)'
              /\ bucket'[k] \in [tokens : Nat, last : Nat]
              /\ bucket'[k].tokens \in 0 .. Unit * Capacity(k) /\ bucket'[k].last \in 0 .. now
        BY <1>1, <2>1, <3>1, ChargedTight
      <3> QED
        BY <3>2, <3>3 DEF BucketsTight
    <2>2. CASE ~Allowed(t)
      <3>1. bucket' = bucket
        BY <1>1, <2>2 DEF Allowed, Check
      <3>2. tool' = tool /\ at' = at
        BY <1>2, <1>6, <2>2 DEF CallsInv, TypeOK
      <3> QED
        BY <1>1, <3>1, <3>2, BucketsKept DEF limitVars, CallsInv, TypeOK
    <2> QED
      BY <2>1, <2>2
  <1> HIDE DEF p, u, w
  <1>8. /\ pc'[c] = p /\ tool'[c] = u
        /\ \A d \in Calls \ {c} : pc'[d] = pc[d] /\ tool'[d] = tool[d] /\ at'[d] = at[d]
        /\ pc' \in [Calls -> AllSteps] /\ tool' \in [Calls -> Tools]
        /\ at' \in [Calls -> 0 .. now \cup {NoTime}]
    <2>1. p \in AllSteps
      BY <1>5 DEF AllSteps, HostSteps, Finished
    <2> QED
      BY <1>5, <1>6, <2>1 DEF CallsInv, TypeOK, AllSteps
  <1>9. TypeOK'
    BY <1>1, <1>4, <1>7, <1>8 DEF CallsInv, TypeOK, AllSteps
  <1>10. StepsInv'
    BY <1>1, <1>2, <1>5, <1>8 DEF CallsInv, StepsInv, Looking, Reads, Finished
  <1>11. RegistryInv'
    BY <1>1, <1>5, <1>8 DEF CallsInv, RegistryInv, AnsweredIsListed
  <1>12. OverInv'
    BY <1>1, <1>3, <1>8 DEF CallsInv, TypeOK, OverInv, Over
  <1>13. LevelInv'
    <2>1. level \in Int
      BY LevelFacts DEF CallsInv, TypeOK
    <2> QED
      BY <1>1, <1>4, <1>5, <1>8, <2>1 DEF CallsInv, LevelInv, Active, GuestSteps, Reads
  <1> QED
    BY <1>7, <1>9, <1>10, <1>11, <1>12, <1>13 DEF CallsInv

-----------------------------------------------------------------------------
(* The service *)

\* The invariant holds when the server starts.
LEMMA CallsInitInv == Init => CallsInv
  <1> SUFFICES ASSUME Init PROVE CallsInv
    OBVIOUS
  <1>1. /\ level = LevelManage /\ registry \in {{}, Recorded} /\ now = 0 /\ bucket = Full
        /\ files = [j \in Jobs |-> IF j \in registry THEN "running" ELSE "none"]
        /\ pc = [c \in Calls |-> "idle"] /\ tool = [c \in Calls |-> "power"]
        /\ at = [c \in Calls |-> NoTime] /\ job = [c \in Calls |-> NoJob]
        /\ loaded = [c \in Calls |-> {}] /\ want = [c \in Calls |-> LevelNone]
        /\ answer = [c \in Calls |-> "none"]
        /\ top = [c \in Calls |-> LevelNone] /\ over = {} /\ raced = {}
    BY DEF Init
  <1>2. TypeOK
    <2>1. level \in Levels /\ LevelNone \in Levels /\ "power" \in Tools /\ 0 \in 0 .. MaxTime
      BY <1>1, LimitsAssumption DEF Levels, LevelManage, LevelNone, LevelExec, Tools, Need
    <2>2. files \in [Jobs -> Files] /\ registry \subseteq Jobs
      BY <1>1, LimitsAssumption DEF Files
    <2>3. /\ bucket \in [Tools \cup {Shared} -> [tokens : Nat, last : Nat]]
          /\ \A k \in DOMAIN bucket : /\ bucket[k].tokens \in 0 .. Unit * Capacity(k)
                                      /\ bucket[k].last \in 0 .. now
      BY <1>1, FullFacts
    <2> QED
      BY <1>1, <2>1, <2>2, <2>3 DEF TypeOK
  <1>3. StepsInv
    BY <1>1 DEF StepsInv, Looking, Reads, Finished
  <1>4. RegistryInv /\ OverInv
    BY <1>1 DEF RegistryInv, AnsweredIsListed, OverInv
  <1>5. LevelInv
    BY <1>1 DEF LevelInv, Active, GuestSteps, Reads
  <1>6. BucketsTight
    <2>1. Times = {} /\ now \in Nat
      BY <1>1 DEF Times
    <2> SUFFICES ASSUME NEW k \in DOMAIN bucket PROVE Tight(k)
      BY DEF BucketsTight
    <2>2. k \in Tools \cup {Shared} /\ Unit * Capacity(k) \in Nat
      BY <1>2, Numbers DEF Cap, TypeOK
    <2>3. Level(k) = Unit * Capacity(k)
      BY <1>1, <2>1, <2>2, FullFacts DEF Level
    <2> QED
      BY <2>1, <2>2, <2>3 DEF Tight
  <1> QED
    BY <1>2, <1>3, <1>4, <1>5, <1>6 DEF CallsInv

\* Every step of the calls, the guest, the person and the clock keeps it.
LEMMA CallsInvNext == CallsInv /\ [Next]_vars => CallsInv'
  <1> SUFFICES ASSUME CallsInv, [Next]_vars PROVE CallsInv'
    OBVIOUS
  <1>1. ASSUME NEW c \in Calls, Step(c) PROVE CallsInv'
    <2>1. CASE Deadline(c)
      BY <1>1, <2>1, SshInv, WaitsInv
    <2>2. CASE ~Deadline(c)
      BY <1>1, <2>2, ArriveInv, GateInv, AsRootInv, CorePatchInv, UpdateInv, PowerInv, UnreachableInv,
         SshInv, MkjobInv, RunnerInv, LoadJobsInv, SaveJobInv, FindInv, JobStateInv, DroppedInv, WaitsInv
         DEF Step, HostStep, GuestStep
    <2> QED
      BY <2>1, <2>2
  <1>2. CASE UNCHANGED vars
    <2>1. BucketsTight'
      BY <1>2, BucketsKept DEF vars, limitVars, CallsInv
    <2>2. TypeOK'
      BY <1>2 DEF vars, CallsInv, TypeOK
    <2>3. StepsInv' /\ RegistryInv'
      BY <1>2 DEF vars, CallsInv, StepsInv, RegistryInv, AnsweredIsListed
    <2>4. OverInv'
      BY <1>2 DEF vars, CallsInv, OverInv, Over, NeverRunsAgain
    <2>5. LevelInv'
      BY <1>2 DEF vars, CallsInv, LevelInv, Active
    <2> QED
      BY <2>1, <2>2, <2>3, <2>4, <2>5 DEF CallsInv
  <1> QED
    BY <1>1, <1>2, GuestInv, PersonInv, TickInv, RestartInv DEF Next

\* The calls and the commands share no variable: both invariants always hold.
LEMMA InvHolds == ServiceSpec => []Inv
  <1>1. Init /\ DaemonInit => Inv
    BY CallsInitInv, DaemonInitInv DEF Inv
  <1>2. Inv /\ [ServiceNext]_<<vars, daemonVars>> => Inv'
    <2> SUFFICES ASSUME Inv, [ServiceNext]_<<vars, daemonVars>> PROVE Inv'
      OBVIOUS
    <2>1. [Next]_vars /\ [DaemonNext]_daemonVars
      BY DEF ServiceNext
    <2> QED
      BY <2>1, CallsInvNext, DaemonInvNext DEF Inv
  <1> QED
    BY <1>1, <1>2, PTL DEF ServiceSpec

\* Types: every variable of the server and of up, down and status keeps its
\* type, for any number of calls, jobs, commands and projects.
THEOREM TypesHold == ServiceSpec => [](TypeOK /\ DaemonTypeOK)
  <1>1. Inv => TypeOK /\ DaemonTypeOK
    BY DEF Inv, CallsInv, DaemonInv
  <1> QED
    BY <1>1, InvHolds, PTL

\* rateLimit and requireAccess: whatever calls run side by side, and however
\* the person and the update tool move the level meanwhile, a bucket holds
\* exactly what the grants left in the tightest window, and a command reaches
\* the guest only for a call whose VM had the level its tool needs.
THEOREM GatesAlwaysHold == ServiceSpec => []GatesHold
  <1>1. Inv => GatesHold
    <2> SUFFICES ASSUME Inv PROVE GatesHold
      OBVIOUS
    <2>1. BucketsExact
      BY TightIsExact DEF Inv, CallsInv
    <2>2. ActsWithinLevel
      BY DEF Inv, CallsInv, LevelInv, ActsWithinLevel
    <2> QED
      BY <2>1, <2>2 DEF GatesHold
  <1> QED
    BY <1>1, InvHolds, PTL

\* saveJob and jobState: a background job whose start was answered stays in
\* jobs.toml unless its save overlapped another, and a call that finds its job
\* over, by its exit file or a reboot, and loses no session never takes a
\* process with the job's old number for it.
THEOREM JobsStayRemembered == ServiceSpec => []JobsRemembered
  <1>1. Inv => JobsRemembered
    <2> SUFFICES ASSUME Inv PROVE JobsRemembered
      OBVIOUS
    <2>1. AnsweredIsListed
      BY DEF Inv, CallsInv, RegistryInv
    <2>2. NeverRunsAgain
      BY DEF Inv, CallsInv, OverInv, NeverRunsAgain, Finished
    <2> QED
      BY <2>1, <2>2 DEF JobsRemembered
  <1> QED
    BY <1>1, InvHolds, PTL

\* up, down and status: while no command holds the lock file, every server
\* nobody lost is on its project's record, and before any mishap a record that
\* counts as running is of the project's own server on its own address.
THEOREM ServersStayTracked == ServiceSpec => []ServersTracked
  <1>1. Inv => ServersTracked
    BY DaemonInvTracks DEF Inv
  <1> QED
    BY <1>1, InvHolds, PTL
=============================================================================
