----------------------------- MODULE Lifecycle -----------------------------
(***************************************************************************)
(* A VM's qemu process as stoat tracks it.  stoat supervises nothing: qemu *)
(* daemonizes and leaves its pid in <vm>/qemu.pid, and every question      *)
(* about the VM is answered by Running, which reads that file, looks the   *)
(* pid up in /proc, and REMOVES the file when the process is not this      *)
(* VM's.  The module interleaves core.Start, Stop, Destroy, the snapshot   *)
(* operations and the status polls of ls, the TUI and the MCP server at    *)
(* the granularity of those file and /proc accesses, and qemu's own exits  *)
(* and crashes.                                                            *)
(***************************************************************************)
EXTENDS Naturals, Sequences, FiniteSets, FiniteSetsExt

CONSTANTS
    Actors,   \* stoat processes
    Names,    \* local VMs
    Pids,     \* process ids; the kernel hands out the least one nobody names
    RAMs,     \* the memory sizes each VM's vm.toml may ask for
    MaxRAM,   \* limits.max_ram_mb, 0 for no limit
    LiveMode, \* the VMs boot live (no disk; Prepare rebuilds the directory)
    Tags,     \* snapshot tags
    Ops,      \* the operations issued on each VM
    NoActor, NoName, NoTag

SnapOps == {"take", "restore", "delete"}
AllOps == {"create", "setram", "start", "stop", "destroy", "poll"} \cup SnapOps

NoPid == 0

ASSUME NoneAssumption == NoActor \notin Actors /\ NoName \notin Names /\ NoTag \notin Tags
ASSUME PidAssumption == Pids \subseteq Nat \ {0} /\ IsFiniteSet(Pids)
ASSUME RAMAssumption == RAMs \in [Names -> (SUBSET (Nat \ {0})) \ {{}}] /\ MaxRAM \in Nat
ASSUME OpsAssumption == Ops \in [Names -> SUBSET AllOps] /\ LiveMode \in BOOLEAN

VARIABLES
    lock,     \* holder of the data-root flock, or NoActor
    pc, job,  \* the step each actor is at, and what it works on
    reply,    \* what the operation returned that this step ended, else "none"
    recs,     \* the VMs whose vm.toml exists
    ram,      \* the RAM each vm.toml records
    pidfile,  \* the pid in each VM's qemu.pid, or NoPid
    live,     \* the VM each pid runs, NoName when it is not alive
    mem,      \* the RAM each live pid was launched with, else 0
    lost,     \* history: the live pids whose qemu.pid a late Running removed
    resized,  \* history: the live pids whose VM's vm.toml came to ask for other RAM
    snaps     \* the internal snapshots in each VM's disk

vars == <<lock, pc, job, reply, recs, ram, pidfile, live, mem, lost, resized, snaps>>
recVars == <<recs, ram>>
qemuVars == <<live, mem, lost, resized>>
fileVars == <<recVars, pidfile, snaps>>

\* Where the wait for a qemu to go is, and the steps of the operations.
Waits == {"t_wait", "t_wait_term", "t_wait_kill"}

Steps == {"idle", "r_read", "r_check", "r_remove", "p_done", "s_lock", "s_limit",
          "s_launch", "t_state", "t_ask", "t_term", "t_kill", "d_stop", "d_delete",
          "n_list", "n_do", "q_send", "q_read", "i_open", "i_run", "i_done"} \cup Waits

Job == [op : AllOps \cup {"none"}, name : Names \cup {NoName}, ram : Nat,
        seen : Pids \cup {NoPid},   \* the pid Running read
        up : BOOLEAN,               \* what Running answered
        cont : Steps,               \* the step that called Running
        pid : Pids \cup {NoPid},    \* Stop's p; the qemu a QMP session is with
        await : Pids \cup {NoPid},  \* the pid gone opened a pidfd on
        victim : Pids \cup {NoPid}, \* the qemu that was alive when Stop began
        tag : Tags \cup {NoTag},
        inbox : Seq({"event", "return", "error"}), \* what qemu sent and nobody read
        open : BOOLEAN,             \* the image qemu-img has open is still the VM's
        did : BOOLEAN]              \* history: the snapshot operation was carried out

NoJob == [op |-> "none", name |-> NoName, ram |-> 0, seen |-> NoPid, up |-> FALSE,
          cont |-> "idle", pid |-> NoPid, await |-> NoPid, victim |-> NoPid,
          tag |-> NoTag, inbox |-> <<>>, open |-> FALSE, did |-> FALSE]

TypeOK ==
    /\ lock \in Actors \cup {NoActor}
    /\ pc \in [Actors -> Steps]
    /\ job \in [Actors -> Job]
    /\ recs \subseteq Names
    /\ ram \in [Names -> Nat] /\ \A n \in Names : ram[n] \in RAMs[n]
    /\ pidfile \in [Names -> Pids \cup {NoPid}]
    /\ live \in [Pids -> Names \cup {NoName}]
    /\ lost \cup resized \subseteq {q \in Pids : live[q] # NoName}
    /\ snaps \in [Names -> SUBSET Tags]

\* Every VM exists, asks for its least memory and is stopped.
Init ==
    /\ lock = NoActor
    /\ pc = [p \in Actors |-> "idle"]
    /\ job = [p \in Actors |-> NoJob]
    /\ reply = "none"
    /\ recs = Names
    /\ ram = [n \in Names |-> Min(RAMs[n])]
    /\ pidfile = [n \in Names |-> NoPid]
    /\ live = [q \in Pids |-> NoName]
    /\ mem = [q \in Pids |-> 0]
    /\ lost = {} /\ resized = {}
    /\ snaps = [n \in Names |-> {}]

-----------------------------------------------------------------------------
(* Helpers *)

NewJob(o, n) == [NoJob EXCEPT !.op = o, !.name = n]

Silent == reply' = "none"

Return(p, r) ==
    /\ lock' = IF lock = p THEN NoActor ELSE lock
    /\ pc' = [pc EXCEPT ![p] = "idle"]
    /\ job' = [job EXCEPT ![p] = NoJob]
    /\ reply' = r

Goto(p, step) == pc' = [pc EXCEPT ![p] = step] /\ Silent /\ UNCHANGED lock

\* Call Running(v), then go on at a step.
CallRunning(p, j, step) ==
    /\ pc' = [pc EXCEPT ![p] = "r_read"]
    /\ job' = [job EXCEPT ![p] = [j EXCEPT !.cont = step, !.await = NoPid]]
    /\ Silent

Answer(p, up) ==
    /\ Goto(p, job[p].cont)
    /\ job' = [job EXCEPT ![p].up = up, ![p].seen = NoPid, ![p].cont = "idle"]

\* What one uninterrupted Running would answer.
Seen(n) == pidfile[n] # NoPid /\ live[pidfile[n]] = n

\* The RAM runningQEMU sums: what vm.toml records for each VM seen running.
RunningRAM == MapThenSumSet(LAMBDA n : ram[n], {n \in recs : Seen(n)})

\* The RAM the live qemu processes really hold.
HeldRAM == MapThenSumSet(LAMBDA q : mem[q], Pids)

Live(n) == {q \in Pids : live[q] = n}

Dies(q) ==
    /\ live' = [live EXCEPT ![q] = NoName]
    /\ mem' = [mem EXCEPT ![q] = 0]
    /\ lost' = lost \ {q}
    /\ resized' = resized \ {q}

\* A pid is handed out again once nothing refers to it any more.
FreePids == {q \in Pids : /\ live[q] = NoName
                          /\ \A n \in Names : pidfile[n] # q
                          /\ \A p \in Actors : q \notin {job[p].seen, job[p].pid,
                                                         job[p].await, job[p].victim}}

\* An image qemu-img works on, which is locked against qemu and other qemu-imgs.
ImageBusy(n) == \E p \in Actors : pc[p] = "i_run" /\ job[p].name = n /\ job[p].open

-----------------------------------------------------------------------------
(* qemu.Running: read qemu.pid, read /proc/<pid>/cmdline, remove qemu.pid *)

RunningRead(p) ==
    LET q == pidfile[job[p].name] IN
    /\ pc[p] = "r_read"
    /\ \/ q = NoPid /\ Answer(p, FALSE)
       \/ /\ q # NoPid
          /\ job' = [job EXCEPT ![p].seen = q]
          /\ Goto(p, "r_check")
    /\ UNCHANGED <<fileVars, qemuVars>>

\* Mutant: the command line never matches, so every pid looks stale.
MutRunningCheckStale(p) ==
    /\ pc[p] = "r_check"
    /\ Goto(p, "r_remove")
    /\ UNCHANGED <<job, fileVars, qemuVars>>

RunningCheck(p) ==
    /\ pc[p] = "r_check"
    /\ \/ live[job[p].seen] = job[p].name /\ Answer(p, TRUE)
       \/ live[job[p].seen] # job[p].name /\ Goto(p, "r_remove") /\ UNCHANGED job
    /\ UNCHANGED <<fileVars, qemuVars>>

\* os.Remove takes whatever file has the name by now.
RunningRemove(p) ==
    LET n == job[p].name IN
    /\ pc[p] = "r_remove"
    /\ pidfile' = [pidfile EXCEPT ![n] = NoPid]
    /\ lost' = IF Seen(n) /\ pidfile[n] # job[p].seen THEN lost \cup {pidfile[n]} ELSE lost
    /\ Answer(p, FALSE)
    /\ UNCHANGED <<recVars, snaps, live, mem, resized>>

\* ls, get, the TUI and the MCP server ask for a VM's state, without the flock.
Poll(p, n) ==
    /\ "poll" \in Ops[n] /\ pc[p] = "idle" /\ n \in recs
    /\ CallRunning(p, NewJob("poll", n), "p_done")
    /\ UNCHANGED <<lock, fileVars, qemuVars>>

PollDone(p) ==
    /\ pc[p] = "p_done"
    /\ Return(p, "ok")
    /\ UNCHANGED <<fileVars, qemuVars>>

-----------------------------------------------------------------------------
(* core.Start: load, flock, state check, limits, qemu.Start *)

Start(p, n) ==
    /\ "start" \in Ops[n] /\ pc[p] = "idle" /\ n \in recs
    /\ job' = [job EXCEPT ![p] = [NewJob("start", n) EXCEPT !.ram = ram[n]]]
    /\ Goto(p, "s_lock")
    /\ UNCHANGED <<fileVars, qemuVars>>

\* Mutant: start without the flock.
MutStartNoLock(p) ==
    /\ pc[p] = "s_lock"
    /\ CallRunning(p, job[p], "s_limit")
    /\ UNCHANGED <<lock, fileVars, qemuVars>>

StartLock(p) ==
    /\ pc[p] = "s_lock"
    /\ lock = NoActor
    /\ lock' = p
    /\ CallRunning(p, job[p], "s_limit")
    /\ UNCHANGED <<fileVars, qemuVars>>

\* CheckStart polls every VM, which drops the stale pidfiles it meets, and
\* adds this VM's RAM to the sum.  Then qemu.Start asks Running once more.
StartLimit(p) ==
    /\ pc[p] = "s_limit"
    /\ ~job[p].up
    /\ MaxRAM > 0 => RunningRAM + job[p].ram <= MaxRAM
    /\ pidfile' = [n \in Names |-> IF n \in recs /\ ~Seen(n) THEN NoPid ELSE pidfile[n]]
    /\ CallRunning(p, job[p], "s_launch")
    /\ UNCHANGED <<lock, recVars, snaps, qemuVars>>

\* Prepare, then qemu -daemonize, which writes the pidfile.  qemu cannot start
\* while another process holds the VM's host port or its disk; a disk VM's
\* directory must exist, a live VM's is made again by Prepare (apkovl.Build).
Launch(p) ==
    LET n == job[p].name
        q == Min(FreePids)
    IN
    /\ pc[p] = "s_launch"
    /\ ~job[p].up
    /\ n \in recs \/ LiveMode
    /\ Live(n) = {} /\ ~ImageBusy(n)
    /\ FreePids # {}
    /\ live' = [live EXCEPT ![q] = n]
    /\ mem' = [mem EXCEPT ![q] = job[p].ram]
    /\ resized' = IF n \in recs /\ ram[n] # job[p].ram THEN resized \cup {q} ELSE resized
    /\ pidfile' = [pidfile EXCEPT ![n] = q]
    /\ Return(p, "ok")
    /\ UNCHANGED <<recVars, snaps, lost>>

\* Already running, over a limit, out of host memory, or qemu refused.
StartFails(p) ==
    /\ pc[p] \in {"s_limit", "s_launch"}
    /\ Return(p, "err")
    /\ UNCHANGED <<fileVars, qemuVars>>

-----------------------------------------------------------------------------
(* core.Stop and qemu.Stop: powerdown, then SIGTERM, then SIGKILL *)

Stop(p, n) ==
    /\ "stop" \in Ops[n] /\ pc[p] = "idle" /\ n \in recs
    /\ CallRunning(p, [NewJob("stop", n) EXCEPT
                         !.victim = IF Live(n) = {} THEN NoPid ELSE Min(Live(n))], "t_state")
    /\ UNCHANGED <<lock, fileVars, qemuVars>>

\* core.Stop's state check; qemu.Stop then asks again.
StopState(p) ==
    /\ pc[p] = "t_state"
    /\ \/ ~job[p].up /\ Return(p, "err")
       \/ job[p].up /\ CallRunning(p, job[p], "t_ask") /\ UNCHANGED lock
    /\ UNCHANGED <<fileVars, qemuVars>>

\* system_powerdown over the monitor; the guest may or may not act on it.
\* gone asks Running before it waits.  Dialling may fail.
StopAsk(p) ==
    /\ pc[p] = "t_ask"
    /\ \/ ~job[p].up /\ Return(p, "ok")
       \/ job[p].up /\ CallRunning(p, job[p], "t_wait") /\ UNCHANGED lock
       \/ job[p].up /\ Goto(p, "t_term") /\ UNCHANGED job
    /\ UNCHANGED <<fileVars, qemuVars>>

\* gone, once Running has said yes, reads the pidfile again and opens a pidfd.
StopAwait(p) ==
    LET q == pidfile[job[p].name] IN
    /\ pc[p] \in Waits
    /\ job[p].up /\ job[p].await = NoPid /\ q # NoPid
    /\ job' = [job EXCEPT ![p].await = q]
    /\ Silent
    /\ UNCHANGED <<lock, pc, fileVars, qemuVars>>

\* gone answers true: Running said no, the pidfile is not there to be read, or
\* the process waited for has exited.
StopGone(p) ==
    /\ pc[p] \in Waits
    /\ \/ ~job[p].up
       \/ job[p].await = NoPid /\ pidfile[job[p].name] = NoPid
       \/ job[p].await # NoPid /\ live[job[p].await] = NoName
    /\ Return(p, "ok")
    /\ UNCHANGED <<fileVars, qemuVars>>

\* Mutants: SIGTERM is the last resort and its outcome is not looked at; the
\* wait for the guest's shutdown has no deadline.
MutStopTimeoutTermIsEnough(p) ==
    /\ pc[p] \in Waits
    /\ job[p].up /\ job[p].await # NoPid
    /\ \/ pc[p] = "t_wait" /\ Goto(p, "t_term") /\ UNCHANGED job
       \/ pc[p] # "t_wait" /\ Return(p, "ok")
    /\ UNCHANGED <<fileVars, qemuVars>>

MutStopTimeoutNever(p) ==
    /\ pc[p] = "t_wait_kill"
    /\ job[p].up /\ job[p].await # NoPid
    /\ Return(p, "err")
    /\ UNCHANGED <<fileVars, qemuVars>>

\* The wait ran out: on to the next means, or "survived SIGKILL".
StopTimeout(p) ==
    /\ pc[p] \in Waits
    /\ job[p].up /\ job[p].await # NoPid
    /\ \/ pc[p] = "t_wait" /\ Goto(p, "t_term") /\ UNCHANGED job
       \/ pc[p] = "t_wait_term" /\ Goto(p, "t_kill") /\ UNCHANGED job
       \/ pc[p] = "t_wait_kill" /\ Return(p, "err")
    /\ UNCHANGED <<fileVars, qemuVars>>

\* pid(v) is read again and sent SIGTERM.  No pidfile: nothing to stop.
StopTerm(p) ==
    LET q == pidfile[job[p].name] IN
    /\ pc[p] = "t_term"
    /\ \/ q = NoPid /\ Return(p, "ok")
       \/ q # NoPid /\ live[q] = NoName /\ Return(p, "err")
       \/ /\ q # NoPid /\ live[q] # NoName
          /\ CallRunning(p, [job[p] EXCEPT !.pid = q], "t_wait_term")
          /\ UNCHANGED lock
    /\ UNCHANGED <<fileVars, qemuVars>>

\* SIGKILL to the same pid: it dies, unless it is stuck in the kernel.
StopKill(p) ==
    LET q == job[p].pid IN
    /\ pc[p] = "t_kill"
    /\ \/ live[q] = NoName /\ Return(p, "err") /\ UNCHANGED qemuVars
       \/ /\ live[q] # NoName
          /\ CallRunning(p, job[p], "t_wait_kill")
          /\ Dies(q) \/ UNCHANGED qemuVars
          /\ UNCHANGED lock
    /\ UNCHANGED fileVars

-----------------------------------------------------------------------------
(* core.Destroy, and the record operations this module needs *)

Destroy(p, n) ==
    /\ "destroy" \in Ops[n] /\ pc[p] = "idle" /\ lock = NoActor /\ n \in recs
    /\ lock' = p
    /\ CallRunning(p, NewJob("destroy", n), "d_stop")
    /\ UNCHANGED <<fileVars, qemuVars>>

\* Mutant: the state check is gone.
MutDestroyNoCheck(p) ==
    /\ pc[p] = "d_stop"
    /\ CallRunning(p, job[p], "d_delete")
    /\ UNCHANGED <<lock, fileVars, qemuVars>>

\* Destroy refuses a running VM.  The provider's Destroy is qemu.Stop, which
\* finds nothing to stop: starting needs the flock.
DestroyStop(p) ==
    /\ pc[p] = "d_stop"
    /\ \/ job[p].up /\ Return(p, "err")
       \/ ~job[p].up /\ CallRunning(p, job[p], "d_delete") /\ UNCHANGED lock
    /\ UNCHANGED <<fileVars, qemuVars>>

\* The directory goes, with the pidfile and the disk; a qemu-img that has the
\* disk open works on.
DestroyDelete(p) ==
    LET n == job[p].name IN
    /\ pc[p] = "d_delete"
    /\ recs' = recs \ {n}
    /\ pidfile' = [pidfile EXCEPT ![n] = NoPid]
    /\ snaps' = [snaps EXCEPT ![n] = {}]
    /\ lock' = NoActor
    /\ pc' = [pc EXCEPT ![p] = "idle"]
    /\ job' = [q \in Actors |-> IF q = p THEN NoJob
                                ELSE IF job[q].name = n THEN [job[q] EXCEPT !.open = FALSE]
                                ELSE job[q]]
    /\ reply' = "ok"
    /\ UNCHANGED <<ram, qemuVars>>

\* Create and Update in one step each; DataRoot has them in full.  A RAM edit
\* is accepted while the VM runs and waits for its next start.
Create(n, r) ==
    /\ "create" \in Ops[n] /\ lock = NoActor /\ n \notin recs
    /\ recs' = recs \cup {n}
    /\ ram' = [ram EXCEPT ![n] = r]
    /\ resized' = resized \cup {q \in Live(n) : mem[q] # r}
    /\ Silent
    /\ UNCHANGED <<lock, pc, job, pidfile, snaps, live, mem, lost>>

UpdateRAM(n, r) ==
    /\ "setram" \in Ops[n] /\ lock = NoActor /\ n \in recs
    /\ ram' = [ram EXCEPT ![n] = r]
    /\ resized' = resized \cup {q \in Live(n) : mem[q] # r}
    /\ Silent
    /\ UNCHANGED <<lock, pc, job, recs, pidfile, snaps, live, mem, lost>>

-----------------------------------------------------------------------------
(* core.TakeSnapshot, Restore and DeleteSnapshot: no flock; over QMP while  *)
(* the VM runs, by qemu-img while it does not                              *)

\* snapshotTarget: load, and no live-mode VM.  Delete asks for the list first.
Snapshot(p, o, n, t) ==
    /\ o \in Ops[n] /\ pc[p] = "idle" /\ n \in recs /\ ~LiveMode
    /\ CallRunning(p, [NewJob(o, n) EXCEPT !.tag = t],
                   IF o = "delete" THEN "n_list" ELSE "n_do")
    /\ UNCHANGED <<lock, fileVars, qemuVars>>

\* requireSnapshot.  A running VM is asked over QMP, a stopped VM's image read
\* by qemu-img info, which an image in use refuses.
SnapshotList(p) ==
    LET n == job[p].name IN
    /\ pc[p] = "n_list"
    /\ \/ /\ IF job[p].up THEN Live(n) # {} ELSE Live(n) = {} /\ ~ImageBusy(n)
          /\ job[p].tag \in snaps[n]
          /\ IF job[p].op = "restore"
             THEN Goto(p, "i_open") /\ UNCHANGED job
             ELSE CallRunning(p, job[p], "n_do") /\ UNCHANGED lock
       \/ Return(p, "err")
    /\ UNCHANGED <<fileVars, qemuVars>>

\* Restore refuses a running VM and then asks for the list.
RestoreState(p) ==
    /\ pc[p] = "n_do" /\ job[p].op = "restore"
    /\ \/ job[p].up /\ Return(p, "err")
       \/ ~job[p].up /\ CallRunning(p, job[p], "n_list") /\ UNCHANGED lock
    /\ UNCHANGED <<fileVars, qemuVars>>

\* dialQMP and diskDevice: the socket answers as long as a qemu of the VM lives.
QmpDial(p) ==
    LET n == job[p].name IN
    /\ pc[p] = "n_do" /\ job[p].op # "restore" /\ job[p].up
    /\ \/ /\ Live(n) # {}
          /\ job' = [job EXCEPT ![p].pid = Min(Live(n))]
          /\ Goto(p, "q_send")
       \/ Return(p, "err")
    /\ UNCHANGED <<fileVars, qemuVars>>

\* What qemu and qemu-img do: a tag is taken once, deleted or applied when it
\* is there.  (qemu-img -c adds a second snapshot of that name, which the set
\* of tags does not tell from the first.)
Doable(o, n, t) == IF o = "take" THEN t \notin snaps[n] ELSE t \in snaps[n]

SnapsAfter(o, n, t) ==
    [snaps EXCEPT ![n] = CASE o = "take" -> @ \cup {t}
                           [] o = "delete" -> @ \ {t}
                           [] OTHER -> @]

\* The command is sent and carried out or refused; an event may come before
\* its reply.
QmpSend(p) ==
    LET j == job[p]
        yes == Doable(j.op, j.name, j.tag)
        answer == IF yes THEN "return" ELSE "error"
    IN
    /\ pc[p] = "q_send"
    /\ live[j.pid] = j.name
    /\ snaps' = IF yes THEN SnapsAfter(j.op, j.name, j.tag) ELSE snaps
    /\ \E box \in {<<answer>>, <<"event", answer>>} :
         job' = [job EXCEPT ![p].inbox = box, ![p].did = yes]
    /\ Goto(p, "q_read")
    /\ UNCHANGED <<recVars, pidfile, qemuVars>>

\* Mutant: the first message is taken for the reply.
MutQmpReadFirst(p) ==
    LET j == job[p] IN
    /\ pc[p] = "q_read" /\ j.inbox # <<>>
    /\ Return(p, IF Head(j.inbox) = "error" THEN "err" ELSE "ok")
    /\ UNCHANGED <<fileVars, qemuVars>>

\* qmp.command's loop: events are skipped, the first other message answers.
QmpRead(p) ==
    LET j == job[p] IN
    /\ pc[p] = "q_read" /\ j.inbox # <<>>
    /\ \/ /\ Head(j.inbox) = "event"
          /\ job' = [job EXCEPT ![p].inbox = Tail(@)]
          /\ Silent /\ UNCHANGED <<lock, pc>>
       \/ Head(j.inbox) = "return" /\ Return(p, "ok")
       \/ Head(j.inbox) = "error" /\ Return(p, "err")
    /\ UNCHANGED <<fileVars, qemuVars>>

\* qemu goes away, or the deadline of the exchange passes.
QmpLost(p) ==
    /\ pc[p] \in {"q_send", "q_read"}
    /\ Return(p, "err")
    /\ UNCHANGED <<fileVars, qemuVars>>

\* qemu-img opens the disk, which it refuses while qemu or another has it.
ImgOpen(p) ==
    LET n == job[p].name IN
    /\ \/ pc[p] = "i_open"
       \/ pc[p] = "n_do" /\ job[p].op # "restore" /\ ~job[p].up
    /\ \/ /\ n \in recs /\ Live(n) = {} /\ ~ImageBusy(n)
          /\ job' = [job EXCEPT ![p].open = TRUE]
          /\ Goto(p, "i_run")
       \/ Return(p, "err")
    /\ UNCHANGED <<fileVars, qemuVars>>

ImgRun(p) ==
    LET j == job[p]
        yes == j.op = "take" \/ ~j.open \/ j.tag \in snaps[j.name]
    IN
    /\ pc[p] = "i_run"
    /\ \/ /\ yes
          /\ snaps' = IF j.open THEN SnapsAfter(j.op, j.name, j.tag) ELSE snaps
          /\ job' = [job EXCEPT ![p].did = TRUE]
          /\ Goto(p, "i_done")
       \/ Return(p, "err") /\ UNCHANGED snaps
    /\ UNCHANGED <<recVars, pidfile, qemuVars>>

ImgDone(p) ==
    /\ pc[p] = "i_done"
    /\ Return(p, "ok")
    /\ UNCHANGED <<fileVars, qemuVars>>

-----------------------------------------------------------------------------
\* qemu exits: an orderly exit unlinks the pidfile, a crash leaves it.
QemuExits(q) ==
    /\ live[q] # NoName
    /\ Dies(q)
    /\ \/ pidfile' = [n \in Names |-> IF pidfile[n] = q THEN NoPid ELSE pidfile[n]]
       \/ UNCHANGED pidfile
    /\ Silent
    /\ UNCHANGED <<lock, pc, job, recVars, snaps>>

Step(p) ==
    \/ RunningRead(p) \/ RunningCheck(p) \/ RunningRemove(p) \/ PollDone(p)
    \/ StartLock(p) \/ StartLimit(p) \/ Launch(p) \/ StartFails(p)
    \/ StopState(p) \/ StopAsk(p) \/ StopAwait(p) \/ StopGone(p) \/ StopTimeout(p)
    \/ StopTerm(p) \/ StopKill(p)
    \/ DestroyStop(p) \/ DestroyDelete(p)
    \/ SnapshotList(p) \/ RestoreState(p) \/ QmpDial(p) \/ QmpSend(p) \/ QmpRead(p)
    \/ QmpLost(p) \/ ImgOpen(p) \/ ImgRun(p) \/ ImgDone(p)

Begin(p) ==
    \E n \in Names :
        \/ Poll(p, n) \/ Start(p, n) \/ Stop(p, n) \/ Destroy(p, n)
        \/ \E o \in SnapOps, t \in Tags : Snapshot(p, o, n, t)

Next ==
    \/ \E p \in Actors : Begin(p) \/ Step(p)
    \/ \E n \in Names : \E r \in RAMs[n] : Create(n, r) \/ UpdateRAM(n, r)
    \/ \E q \in Pids : QemuExits(q)

Spec == Init /\ [][Next]_vars

\* Every step inside an operation is finite: the waits of Stop have deadlines.
Fairness == \A p \in Actors : WF_vars(Step(p))

FairSpec == Spec /\ Fairness

-----------------------------------------------------------------------------
(* Properties *)

\* A live qemu is the process its VM's pidfile names, so that ls, down, rm,
\* clone and the RAM limit all see it -- unless a Running that had read an
\* older pid removed the file of the new qemu (process_linux.go:40).
LiveIsSeen == \A q \in Pids \ lost : live[q] # NoName => pidfile[live[q]] = q

\* A VM's directory is never removed under a live qemu that can be seen:
\* Destroy "refuses while running", and no start slips past the removal.
LiveHasRecord == \A q \in Pids \ lost : live[q] # NoName => live[q] \in recs

\* No live qemu goes astray: it can be seen, and what it runs on is there.
LiveIsTracked == LiveIsSeen /\ LiveHasRecord

\* The memory of the running VMs never sums to more than limits.max_ram_mb,
\* however starts interleave ("two `up` calls in that gap", CheckStart), as
\* long as all of them are seen and hold what their vm.toml records.
WithinMaxRAM == MaxRAM > 0 /\ lost = {} /\ resized = {} => HeldRAM <= MaxRAM

\* When Stop reports success, the qemu that ran when it was called is gone,
\* if it could be seen: "Returning here left the process running while `down`
\* reported success".
StopStep ==
    \A p \in Actors :
        job[p].op = "stop" /\ pc'[p] = "idle" /\ reply' = "ok"
            /\ job[p].victim \notin lost \cup {NoPid}
        => live'[job[p].victim] = NoName

StopReallyStops == [][StopStep]_vars

\* A snapshot operation that reports success was carried out during the call,
\* by qemu or by qemu-img, whatever events the monitor sent in between and
\* whoever started, stopped or snapshotted the VM meanwhile.
SnapshotStep ==
    \A p \in Actors :
        job[p].op \in SnapOps /\ pc'[p] = "idle" /\ reply' = "ok" => job[p].did

SnapshotOkIsDone == [][SnapshotStep]_vars

\* What Stop and the snapshot operations report as done is done.
OkIsDone == StopReallyStops /\ SnapshotOkIsDone

\* Every Stop comes back, however deaf the guest and the process are.
StopReturns == \A p \in Actors : (job[p].op = "stop") ~> (job[p].op # "stop")
=============================================================================
