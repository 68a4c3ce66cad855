------------------------------- MODULE MCP -------------------------------
(***************************************************************************)
(* One MCP server process (internal/mcpsrv) serving concurrent tool calls   *)
(* against one VM: the receiving middleware that charges the rate limiter,  *)
(* the agent_access gate, the tools that run a command in the guest, the    *)
(* update tool that may only lower the level, and the background jobs with  *)
(* their host registry (jobs.toml) and their files in the guest.            *)
(*                                                                          *)
(* Every handler is its own goroutine: it is cut where it talks to the      *)
(* guest (one sshx.Run is one step), where it reads vm.toml or jobs.toml    *)
(* and where it renames a new jobs.toml into place.  The wrapper that runs  *)
(* a job in the guest is a process of its own.                              *)
(***************************************************************************)
EXTENDS Integers, FiniteSets, FiniteSetsExt

CONSTANTS
  Calls,       \* the tools/call requests of a behaviour, each made once
  Jobs,        \* the ids newJobID may return
  Recorded,    \* the jobs an earlier server may have started and recorded
  Unit,        \* one token, in the fractions the refill rates need
  ToolBurst,   \* Limits.ToolBurst
  ToolRate,    \* Limits.ToolRate, in 1/Unit tokens per tick
  Burst,       \* Limits.Burst
  Rate,        \* Limits.Rate, in 1/Unit tokens per tick
  Settings,    \* the levels the person and the update tool ask for
  MaxTime      \* bound on the clock

ASSUME LimitsAssumption ==
  /\ IsFiniteSet(Calls) /\ Recorded \subseteq Jobs /\ Settings \subseteq 0 .. 3
  /\ Unit \in Nat \ {0} /\ MaxTime \in Nat
  /\ ToolBurst \in Nat \ {0} /\ Burst \in Nat \ {0}
  /\ ToolRate \in Nat /\ Rate \in Nat

LevelNone == 0
LevelObserve == 1
LevelManage == 2
LevelExec == 3
Levels == LevelNone .. LevelExec

\* The level each guest tool asks of guestVM.  read_file stands for every tool
\* of registerGuestRead, write_file for every tool of registerGuestWrite; power
\* stands for the host-side tools, which ask for none.
Need == [read_file |-> LevelObserve, write_file |-> LevelManage,
         exec |-> LevelExec, exec_bg |-> LevelExec, job_status |-> LevelExec, job_wait |-> LevelExec,
         job_kill |-> LevelExec, list_jobs |-> LevelExec,
         update |-> LevelNone, power |-> LevelNone]

Tools == DOMAIN Need
JobTools == {"job_status", "job_wait", "job_kill", "list_jobs"}
Shared == "shared"

NoJob == "no job"
NoTime == -1

\* How far a job has come in the guest: its directory made, the wrapper
\* started, the pid file opened and then written, the command reaped, the exit
\* file opened.  A reboot leaves nothing of /run: "gone".
Files == {"none", "dir", "started", "pidopen", "running", "reaped", "exited", "gone"}

Finished == {"refused", "failed", "answered"}
Reads == {"exit", "pid", "dir", "alive"}
GuestSteps == {"ssh", "sshroot", "exec", "mkjob", "runner", "signal", "tail"} \cup Reads
HostSteps == {"gate", "asroot", "load", "rename", "find", "poll", "level", "save", "switch"}

VARIABLES
  level,      \* agent_access in vm.toml
  files,      \* job -> its files in the guest
  registry,   \* the ids in jobs.toml
  now,        \* the clock
  bucket,     \* key -> tokens (in 1/Unit) and the time they were counted at
  pc,         \* call -> its next step, "idle" or one of Finished
  tool,       \* call -> the tool it names
  at,         \* call -> when this server process granted it
  job,        \* call -> the job it is about
  loaded,     \* call -> the registry saveJob read
  want,       \* call -> the level update is to write
  answer,     \* call -> the job state it read last
  top,        \* history: call -> the highest level since it arrived
  over,       \* history: calls whose job was over when they looked it up, and
              \* that have lost no session since
  raced       \* history: jobs saved while another saveJob was under way

limitVars == <<now, bucket, at>>
vars == <<level, files, registry, now, bucket, pc, tool, at, job, loaded, want,
          answer, top, over, raced>>

Active == {c \in Calls : pc[c] \notin Finished \cup {"idle"}}
Used == registry \cup {j \in Jobs : files[j] # "none"}

Capacity(k) == IF k = Shared THEN Burst ELSE ToolBurst
Refill(k) == IF k = Shared THEN Rate ELSE ToolRate

\* newLimiter: a bucket that was never charged reads as a full one.
Full == [k \in Tools \cup {Shared} |-> [tokens |-> Unit * Capacity(k), last |-> 0]]

\* The server starts on a VM in whose guest the jobs an earlier server
\* recorded, if any, are running.
Init ==
  /\ level = LevelManage
  /\ registry \in {{}, Recorded}
  /\ files = [j \in Jobs |-> IF j \in registry THEN "running" ELSE "none"]
  /\ now = 0
  /\ bucket = Full
  /\ pc = [c \in Calls |-> "idle"] /\ tool = [c \in Calls |-> "power"]
  /\ at = [c \in Calls |-> NoTime] /\ job = [c \in Calls |-> NoJob]
  /\ loaded = [c \in Calls |-> {}] /\ want = [c \in Calls |-> LevelNone]
  /\ answer = [c \in Calls |-> "none"]
  /\ top = [c \in Calls |-> LevelNone] /\ over = {} /\ raced = {}

----------------------------------------------------------------------------
(* The rate limiter *)

\* limiter.read: what the bucket holds now.
Level(k) == Min({Unit * Capacity(k), bucket[k].tokens + (now - bucket[k].last) * Refill(k)})

Charge(k) == [tokens |-> Level(k) - Unit, last |-> now]

\* limiter.check under the mutex: both buckets are read before either pays.
MutCheck(t) ==
  IF Level(Shared) < Unit THEN bucket
  ELSE IF Level(t) < Unit THEN [bucket EXCEPT ![Shared] = Charge(Shared)]
  ELSE [bucket EXCEPT ![t] = Charge(t), ![Shared] = Charge(Shared)]

Check(t) ==
  IF Level(t) >= Unit /\ Level(Shared) >= Unit
  THEN [bucket EXCEPT ![t] = Charge(t), ![Shared] = Charge(Shared)]
  ELSE bucket

Allowed(t) == Level(t) >= Unit /\ Level(Shared) >= Unit

\* Where each handler begins once the middleware let the call through.
Entry(t) == CASE t = "update" -> "level" [] t = "power" -> "switch" [] OTHER -> "gate"

\* rateLimit: a tools/call arrives and is charged or refused.
Arrive(c, t) ==
  /\ pc[c] = "idle"
  /\ tool' = [tool EXCEPT ![c] = IF Allowed(t) THEN t ELSE @]
  /\ bucket' = Check(t)
  /\ pc' = [pc EXCEPT ![c] = IF Allowed(t) THEN Entry(t) ELSE "refused"]
  /\ at' = [at EXCEPT ![c] = IF Allowed(t) THEN now ELSE NoTime]
  /\ top' = [top EXCEPT ![c] = level]
  /\ UNCHANGED <<level, files, registry, now, job, loaded, want, answer, over, raced>>

Tick ==
  /\ now < MaxTime
  /\ now' = now + 1
  /\ UNCHANGED <<level, files, registry, bucket, pc, tool, at, job, loaded, want,
                 answer, top, over, raced>>

----------------------------------------------------------------------------
(* The access gate *)

\* The handler moves on.  What a call that is over knew no longer matters.
Goto(c, p) ==
  /\ pc' = [pc EXCEPT ![c] = p]
  /\ top' = [top EXCEPT ![c] = IF p \in Finished THEN LevelNone ELSE @]

callVars == <<registry, tool, job, loaded, want, answer, over>>

\* Where a guest tool goes from guestVM.
AfterGate(t) == CASE t = "exec_bg" -> {"mkjob"}
                  [] t \in JobTools -> {"find"}
                  [] t = "write_file" -> {"ssh", "asroot"}
                  [] t = "exec" -> {"exec"}
                  [] OTHER -> {"ssh"}

MutGate(c) ==
  /\ pc[c] = "gate"
  /\ \E p \in AfterGate(tool[c]) : Goto(c, p)
  /\ UNCHANGED <<level, files, limitVars, callVars, raced>>

\* guestVM: requireAccess reads vm.toml on every call.
Gate(c) ==
  /\ pc[c] = "gate"
  /\ \/ level < Need[tool[c]] /\ Goto(c, "refused")
     \/ level >= Need[tool[c]] /\ \E p \in AfterGate(tool[c]) : Goto(c, p)
  /\ UNCHANGED <<level, files, limitVars, callVars, raced>>

\* write_file with as_root asks for exec on top of manage, with a second read.
AsRoot(c) ==
  /\ pc[c] = "asroot"
  /\ Goto(c, IF level < LevelExec THEN "refused" ELSE "sshroot")
  /\ UNCHANGED <<level, files, limitVars, callVars, raced>>

RaiseTop(l) == top' = [c \in Calls |-> IF c \in Active /\ l > top[c] THEN l ELSE top[c]]

\* stoat update --agent-access: a person sets the level on the host.
Person(l) ==
  /\ l # level
  /\ level' = l
  /\ RaiseTop(l)
  /\ UNCHANGED <<files, limitVars, pc, callVars, raced>>

\* corePatch: the level asked for is compared with the one in vm.toml ...
CorePatch(c) ==
  /\ pc[c] = "level"
  /\ \E l \in Settings :
       IF l > level
       THEN Goto(c, "refused") /\ UNCHANGED want
       ELSE Goto(c, "save") /\ want' = [want EXCEPT ![c] = l]
  /\ UNCHANGED <<level, files, limitVars, registry, tool, job, loaded, answer, over, raced>>

\* ... and core.Update writes it, under the data root's lock, afterwards.
Update(c) ==
  /\ pc[c] = "save"
  /\ level' = want[c]
  /\ RaiseTop(want[c])
  /\ want' = [want EXCEPT ![c] = LevelNone]
  /\ pc' = [pc EXCEPT ![c] = "answered"]
  /\ UNCHANGED <<files, limitVars, registry, tool, job, loaded, answer, over, raced>>

----------------------------------------------------------------------------
(* The guest *)

\* The guest goes down, or comes back: /run is a tmpfs, so a job's files go.
Cleared == [j \in Jobs |-> IF files[j] = "none" THEN "none" ELSE "gone"]

Reboot ==
  /\ files' = Cleared
  /\ files' # files
  /\ UNCHANGED <<level, limitVars, pc, callVars, top, raced>>

\* byName(core.Start) and byName(core.Stop), one core call each.  Whether the
\* guest answers is left open: any ssh may find it unreachable.
Power(c) ==
  /\ pc[c] = "switch"
  /\ files' \in {files, Cleared}
  /\ Goto(c, "answered")
  /\ UNCHANGED <<level, limitVars, callVars, raced>>

\* The wrapper of exec_bg, one shell command at a time: it opens and writes
\* the pid file, reaps the command, then makes the exit file.
Wrapper(j) ==
  /\ \/ files[j] = "started" /\ files' = [files EXCEPT ![j] = "pidopen"]
     \/ files[j] = "pidopen" /\ files' = [files EXCEPT ![j] = "running"]
     \/ files[j] = "running" /\ files' = [files EXCEPT ![j] = "reaped"]
     \/ files[j] = "reaped" /\ files' = [files EXCEPT ![j] = "exited"]
  /\ UNCHANGED <<level, limitVars, pc, callVars, top, raced>>

\* sshx.Run could not connect: ErrUnreachable ends the handler.  jobTail takes
\* it for a stream that cannot be read.
Unreachable(c) ==
  /\ pc[c] \in GuestSteps \ {"tail"}
  /\ Goto(c, "failed")
  /\ job' = [job EXCEPT ![c] = NoJob] /\ answer' = [answer EXCEPT ![c] = "none"]
  /\ over' = over \ {c}
  /\ UNCHANGED <<level, files, limitVars, registry, tool, loaded, want, raced>>

\* read_file, write_file, exec and the tools like them: the command runs.
Ssh(c) ==
  /\ pc[c] \in {"ssh", "sshroot", "exec"}
  /\ Goto(c, "answered")
  /\ UNCHANGED <<level, files, limitVars, callVars, raced>>

----------------------------------------------------------------------------
(* Background jobs *)

\* exec_bg, first command: a fresh id and its directory in the guest.
Mkjob(c) ==
  /\ pc[c] = "mkjob"
  /\ \E j \in Jobs \ Used :
       /\ job' = [job EXCEPT ![c] = j]
       /\ files' = [files EXCEPT ![j] = "dir"]
  /\ Goto(c, "runner")
  /\ UNCHANGED <<level, limitVars, registry, tool, loaded, want, answer, over, raced>>

\* exec_bg, second command: the wrapper is started, and nohup detaches it.  A
\* directory a reboot took away leaves a wrapper that can write nothing.
Runner(c) ==
  /\ pc[c] = "runner"
  /\ files' = [files EXCEPT ![job[c]] = IF @ = "dir" THEN "started" ELSE @]
  /\ Goto(c, "load")
  /\ UNCHANGED <<level, limitVars, callVars, raced>>

Saving == {c \in Calls : pc[c] = "rename"}

\* saveJob reads jobs.toml, with no lock ...
LoadJobs(c) ==
  /\ pc[c] = "load"
  /\ loaded' = [loaded EXCEPT ![c] = registry]
  /\ raced' = IF Saving = {} THEN raced
              ELSE raced \cup {job[d] : d \in Saving \cup {c}}
  /\ Goto(c, "rename")
  /\ UNCHANGED <<level, files, limitVars, registry, tool, job, want, answer, over>>

\* ... and renames the file with one job more over it.
MutSaveJob(c) ==
  /\ pc[c] = "rename"
  /\ registry' = {job[c]}
  /\ loaded' = [loaded EXCEPT ![c] = {}]
  /\ Goto(c, "answered")
  /\ UNCHANGED <<level, files, limitVars, tool, job, want, answer, over, raced>>

SaveJob(c) ==
  /\ pc[c] = "rename"
  /\ registry' = loaded[c] \cup {job[c]}
  /\ loaded' = [loaded EXCEPT ![c] = {}]
  /\ Goto(c, "answered")
  /\ UNCHANGED <<level, files, limitVars, tool, job, want, answer, over, raced>>

\* Nothing a job does is left to happen: its exit file is there, or a reboot
\* took its directory away.
Over(j) == files[j] \in {"exited", "gone"}

\* The call is about job j from here on.
LookUp(c, j) ==
  /\ job' = [job EXCEPT ![c] = j]
  /\ over' = IF Over(j) THEN over \cup {c} ELSE over
  /\ Goto(c, "exit")

\* findJob: the id is in jobs.toml, or the call fails.
FindJob(c) ==
  /\ pc[c] = "find" /\ tool[c] # "list_jobs"
  /\ \/ \E j \in registry : LookUp(c, j)
     \/ Goto(c, "failed") /\ UNCHANGED <<job, over>>
  /\ UNCHANGED <<level, files, limitVars, registry, tool, loaded, want, answer, raced>>

\* list_jobs loads jobs.toml and asks the guest for every job in it; the model
\* follows any one of them.  An empty list needs no guest.
ListJobs(c) ==
  /\ pc[c] = "find" /\ tool[c] = "list_jobs"
  /\ \/ registry = {} /\ Goto(c, "answered") /\ UNCHANGED <<job, over>>
     \/ \E j \in registry : LookUp(c, j)
  /\ UNCHANGED <<level, files, limitVars, registry, tool, loaded, want, answer, raced>>

\* What a job tool does with the state it read.
AfterState(c, st) ==
  CASE tool[c] = "job_wait" -> IF st \in {"starting", "running"} THEN "poll" ELSE "tail"
    [] tool[c] = "job_kill" /\ st = "running" -> IF answer[c] = "running" THEN "failed" ELSE "signal"
    [] OTHER -> "answered"

Read(c, st) == answer' = [answer EXCEPT ![c] = st] /\ Goto(c, AfterState(c, st))

HasExit(j) == files[j] = "exited"
HasPid(j) == files[j] \in {"pidopen", "running", "reaped", "exited"}
HasDir(j) == files[j] \notin {"none", "gone"}

\* kill(1) on the number in the pid file: it reaches the command while that
\* runs.  Once it is reaped the guest may have given the number to any process.
Reaches(j) == CASE files[j] = "running" -> {TRUE}
                [] files[j] \in {"reaped", "exited", "gone"} -> BOOLEAN
                [] OTHER -> {FALSE}

\* jobState, taking the pid file for the better witness.
MutJobState(c) ==
  /\ \/ /\ pc[c] = "exit"
        /\ Goto(c, "pid") /\ UNCHANGED answer
     \/ /\ pc[c] = "pid"
        /\ Goto(c, IF HasPid(job[c]) THEN "alive" ELSE "dir") /\ UNCHANGED answer
     \/ /\ pc[c] = "dir"
        /\ Read(c, IF HasDir(job[c]) THEN "starting" ELSE "unknown")
     \/ /\ pc[c] = "alive"
        /\ \E alive \in Reaches(job[c]) :
             Read(c, IF alive THEN "running" ELSE IF HasExit(job[c]) THEN "exited" ELSE "unknown")
  /\ UNCHANGED <<level, files, limitVars, registry, tool, job, loaded, want, over, raced>>

\* jobState: cat exit, then cat pid, then test -d or kill -0, one ssh each.
JobState(c) ==
  /\ \/ /\ pc[c] = "exit"
        /\ IF HasExit(job[c]) THEN Read(c, "exited")
           ELSE Goto(c, "pid") /\ UNCHANGED answer
     \/ /\ pc[c] = "pid"
        /\ Goto(c, IF HasPid(job[c]) THEN "alive" ELSE "dir") /\ UNCHANGED answer
     \/ /\ pc[c] = "dir"
        /\ Read(c, IF HasDir(job[c]) THEN "starting" ELSE "unknown")
     \/ /\ pc[c] = "alive"
        /\ \E alive \in Reaches(job[c]) : Read(c, IF alive THEN "running" ELSE "unknown")
  /\ UNCHANGED <<level, files, limitVars, registry, tool, job, loaded, want, over, raced>>

\* The session drops without one of transportMarkers: sshx.Run returns exit
\* 255 and no error, which jobState takes for a file that is not there ...
Dropped(c) ==
  /\ pc[c] \in Reads \cup {"signal"} /\ tool[c] # "list_jobs"
  /\ IF pc[c] \in {"dir", "alive"} THEN Read(c, "unknown")
     ELSE /\ Goto(c, [exit |-> "pid", pid |-> "dir", signal |-> "exit"][pc[c]])
          /\ UNCHANGED answer
  /\ over' = over \ {c}
  /\ UNCHANGED <<level, files, limitVars, registry, tool, job, loaded, want, raced>>

\* ... and jobStates for a guest whose jobs are all unknown.
JobStatesLost(c) ==
  /\ pc[c] \in Reads /\ tool[c] = "list_jobs"
  /\ Read(c, "unknown")
  /\ UNCHANGED <<level, files, limitVars, registry, tool, job, loaded, want, over, raced>>

\* job_wait between two polls: it looks again.
Poll(c) ==
  /\ pc[c] = "poll"
  /\ Goto(c, "exit")
  /\ UNCHANGED <<level, files, limitVars, callVars, raced>>

MutDeadline(c) == FALSE /\ UNCHANGED vars

\* The deadline of job_wait ends its loop, killing the ssh it is in; that of
\* exec makes the partial output the answer.
Deadline(c) ==
  /\ \/ tool[c] = "job_wait" /\ pc[c] \in Reads \cup {"poll"} /\ Goto(c, "tail")
     \/ pc[c] = "exec" /\ Goto(c, "answered")
  /\ UNCHANGED <<level, files, limitVars, callVars, raced>>

\* job_wait closes with the ends of both streams, out of its deadline's reach.
JobTail(c) ==
  /\ pc[c] = "tail"
  /\ Goto(c, "answered")
  /\ UNCHANGED <<level, files, limitVars, callVars, raced>>

\* job_kill: the signal reaches the command, or whatever has its number now, or
\* nothing, and then the state is read once more.
JobKill(c) ==
  /\ pc[c] = "signal"
  /\ \E reached \in Reaches(job[c]) :
       IF reached
       THEN /\ Goto(c, "answered")
            /\ \/ UNCHANGED files
               \/ files[job[c]] = "running" /\ files' = [files EXCEPT ![job[c]] = "reaped"]
       ELSE Goto(c, "exit") /\ UNCHANGED files
  /\ UNCHANGED <<level, limitVars, callVars, raced>>

\* The server process is killed and another takes its place: the calls end
\* with it and the limiter starts full.
Restart ==
  /\ pc' = [c \in Calls |-> IF c \in Active THEN "refused" ELSE pc[c]]
  /\ at' = [c \in Calls |-> NoTime]
  /\ loaded' = [c \in Calls |-> {}]
  /\ want' = [c \in Calls |-> LevelNone]
  /\ bucket' = Full
  /\ top' = [c \in Calls |-> LevelNone] /\ over' = over \ Active
  /\ job' = [c \in Calls |-> IF c \in Active THEN NoJob ELSE job[c]]
  /\ answer' = [c \in Calls |-> IF c \in Active THEN "none" ELSE answer[c]]
  /\ tool' = [c \in Calls |-> IF c \in Active THEN "power" ELSE tool[c]]
  /\ UNCHANGED <<level, files, registry, now, raced>>

HostStep(c) ==
  \/ Gate(c) \/ AsRoot(c) \/ CorePatch(c) \/ Update(c) \/ Power(c)
  \/ LoadJobs(c) \/ SaveJob(c) \/ FindJob(c) \/ ListJobs(c) \/ Poll(c)

GuestStep(c) ==
  \/ Unreachable(c) \/ Ssh(c) \/ Mkjob(c) \/ Runner(c)
  \/ JobState(c) \/ Dropped(c) \/ JobStatesLost(c) \/ JobTail(c) \/ JobKill(c)

Step(c) == (\E t \in Tools : Arrive(c, t)) \/ HostStep(c) \/ GuestStep(c) \/ Deadline(c)

Next ==
  \/ \E c \in Calls : Step(c)
  \/ \E j \in Jobs : Wrapper(j)
  \/ \E l \in Settings : Person(l)
  \/ Reboot \/ Tick \/ Restart

\* A goroutine that can take a step on the host takes it, and the deadlines of
\* exec and job_wait pass.  Nothing is assumed of the guest: ssh has a
\* ConnectTimeout, but a session once open may be silent for ever.
Fairness == \A c \in Calls : WF_vars(HostStep(c)) /\ WF_vars(Deadline(c))

Spec == Init /\ [][Next]_vars /\ Fairness
----------------------------------------------------------------------------
(* Properties *)

TypeOK ==
  /\ level \in Levels
  /\ files \in [Jobs -> Files] /\ registry \subseteq Jobs
  /\ now \in 0 .. MaxTime
  /\ bucket \in [Tools \cup {Shared} -> [tokens : Nat, last : Nat]]
  /\ \A k \in DOMAIN bucket : /\ bucket[k].tokens \in 0 .. Unit * Capacity(k)
                             /\ bucket[k].last \in 0 .. now
  /\ pc \in [Calls -> {"idle"} \cup HostSteps \cup GuestSteps \cup Finished]
  /\ tool \in [Calls -> Tools] /\ at \in [Calls -> 0 .. now \cup {NoTime}]
  /\ job \in [Calls -> Jobs \cup {NoJob}] /\ loaded \in [Calls -> SUBSET Jobs]
  /\ want \in [Calls -> Levels] /\ top \in [Calls -> Levels]
  /\ answer \in [Calls -> {"none", "starting", "running", "exited", "unknown"}]
  /\ over \subseteq Calls /\ raced \subseteq Jobs

\* The calls this server process granted under key k from time s on.
GrantedSince(k, s) == {c \in Calls : at[c] >= s /\ (k = Shared \/ tool[c] = k)}

\* limiter.check: what a bucket holds is what the calls that were granted left
\* in it, in the tightest window that ends now.  So no window ever admits more
\* than the burst and the refill of its length, and a call that was refused
\* took nothing from anyone: a tool at its own limit does not starve the rest.
BucketsExact ==
  \A k \in DOMAIN bucket :
    Level(k) = Min({Unit * Capacity(k)} \cup
                   {Unit * Capacity(k) + Refill(k) * (now - s) - Unit * Cardinality(GrantedSince(k, s)) :
                      s \in {at[c] : c \in {d \in Calls : at[d] # NoTime}}})

\* requireAccess: a command reaches the guest only for a call whose VM had, at
\* some moment of that call, the level its tool needs, and exec for a root write,
\* however the person and the update tool move the level meanwhile.
ActsWithinLevel ==
  \A c \in Calls : pc[c] \in GuestSteps =>
    top[c] >= IF pc[c] = "sshroot" THEN LevelExec ELSE Need[tool[c]]

\* What the middleware and the gate let through is what the limits and the
\* person's setting allow, whatever runs beside it.
GatesHold == BucketsExact /\ ActsWithinLevel

\* saveJob: a job whose exec_bg answered stays in jobs.toml, across restarts of
\* the server and of the guest, unless its save raced another one.
AnsweredIsListed ==
  \A c \in Calls :
    tool[c] = "exec_bg" /\ pc[c] = "answered" => job[c] \in registry \cup raced

\* jobState: the exit file outranks the pid.  A call that finds its job over,
\* because it ended or the guest was rebooted, never takes a process that has
\* the job's old number for the job, to report it as running or to signal it.
\* A job that ends during the call may be mistaken, and so may one whose exit
\* file was not read because the session dropped or was never written because
\* the wrapper died.
NeverRunsAgain ==
  \A c \in over : pc[c] # "signal" /\ answer[c] # "running"

\* What is said of a background job stays true: it is listed, and over when it
\* is over.
JobsRemembered == AnsweredIsListed /\ NeverRunsAgain

\* An ssh command that nothing on the host cuts off.
WithoutDeadline(c) ==
  /\ pc[c] \in GuestSteps \ {"exec"}
  /\ tool[c] = "job_wait" => pc[c] = "tail"

\* Every call that arrives is over in the end, even if the guest falls silent
\* at any moment: exec and job_wait by their deadlines, job_wait on a job that
\* runs for ever too.  What may last for ever is one ssh command of a call that
\* gave it no deadline.
CallsEnd ==
  \A c \in Calls : <>[](pc[c] \in Finished \cup {"idle"} \/ WithoutDeadline(c))

\* list_jobs answers for a VM whose agent_access is exec, on a stopped VM too.
ListWorksStopped ==
  \A c \in Calls : tool[c] = "list_jobs" => pc[c] # "failed"
=============================================================================
