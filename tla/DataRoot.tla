------------------------------ MODULE DataRoot ------------------------------
(***************************************************************************)
(* The data root (~/.stoat) as the stoat processes that share it see it:   *)
(* one directory per VM holding vm.toml and disk.qcow2, and one flock      *)
(* (config.Lock) that Create, Clone, Update, Destroy and Start take and    *)
(* that Forward and Apply do not.                                          *)
(*                                                                         *)
(* A process runs one core operation at a time, step by step: a step is    *)
(* what happens between two points where another process can be seen to    *)
(* act (taking the lock, reading the records, truncating vm.toml, writing  *)
(* it, renaming it, running qemu-img, launching qemu).  A process may be   *)
(* killed between any two steps; the kernel then drops its flock.          *)
(*                                                                         *)
(* Of a record only the host ports and the installed flag are kept.  VMs   *)
(* are local disk-mode ones, the mode in which Create allocates a disk.    *)
(***************************************************************************)
EXTENDS Naturals, FiniteSets

CONSTANTS
    Procs,      \* stoat processes: CLI invocations, the TUI, the MCP server
    Names,      \* VM directory names
    Ports,      \* host ports a VM may claim
    NoProc,     \* the flock is free
    NoName,     \* no VM
    NoPort,     \* sshport = 0, what an absent key decodes to
    Ops,        \* the core operations the processes issue
    MaxVMs,     \* limits.max_vms, 0 for no limit
    WriteFails, \* whether a write of vm.toml may fail (full disk)
    Kills       \* whether a process may be killed inside an operation

AllOps == {"create", "clone", "update", "destroy", "forward", "start", "apply"}

\* The operations that hold config.Lock() over their whole read-modify-write.
LockedOps == {"create", "clone", "update", "destroy"}

ASSUME NoProcAssumption == NoProc \notin Procs
ASSUME NoPortAssumption == NoPort \notin Ports
ASSUME NoNameAssumption == NoName \notin Names
ASSUME OpsAssumption == Ops \subseteq AllOps
ASSUME MaxVMsAssumption == MaxVMs \in Nat
ASSUME FailureAssumption == WriteFails \in BOOLEAN /\ Kills \in BOOLEAN

VARIABLES
    lock,     \* the process holding the flock on <root>/.lock, or NoProc
    pc,       \* the step each process is at
    job,      \* what each process is working on
    vms,      \* the names whose vm.toml exists
    toml,     \* the content of each vm.toml (Blank where there is none)
    bak,      \* the vm.toml.old of an update in flight
    fd,       \* where the file a process opened for writing is linked now
    disk,     \* whether disk.qcow2 exists
    backing,  \* the VM whose disk an overlay reads through to, or NoName
    running,  \* the VMs with a live qemu
    bound     \* the host ports each live qemu listens on

vars == <<lock, pc, job, vms, toml, bak, fd, disk, backing, running, bound>>
fileVars == <<vms, toml, bak, fd>>
diskVars == <<disk, backing>>
qemuVars == <<running, bound>>

-----------------------------------------------------------------------------
Record == [ssh : Ports \cup {NoPort}, fwd : SUBSET Ports, inst : BOOLEAN]

\* What an empty vm.toml decodes to: Encode truncates before it writes.
Blank == [ssh |-> NoPort, fwd |-> {}, inst |-> FALSE]

\* params: a second Save is due; fresh: the name is not on disk yet.
Job == [op : AllOps \cup {"none"}, name : Names \cup {NoName},
        src : Names \cup {NoName}, rec : Record,
        params : BOOLEAN, fresh : BOOLEAN]

NoJob == [op |-> "none", name |-> NoName, src |-> NoName, rec |-> Blank,
          params |-> FALSE, fresh |-> FALSE]

Steps == {"idle", "killed", "plan", "trunc", "write", "disk",
          "u_load", "u_check", "u_backup", "u_install",
          "d_check", "d_delete", "f_check",
          "s_lock", "s_check", "s_launch", "a_run"}

TypeOK ==
    /\ lock \in Procs \cup {NoProc}
    /\ pc \in [Procs -> Steps]
    /\ job \in [Procs -> Job]
    /\ vms \subseteq Names
    /\ toml \in [Names -> Record]
    /\ bak \in [Names -> Record]
    /\ fd \in [Procs -> {"none", "toml", "bak"}]
    /\ disk \in [Names -> BOOLEAN]
    /\ backing \in [Names -> Names \cup {NoName}]
    /\ running \subseteq Names
    /\ bound \in [Names -> SUBSET Ports]

Init ==
    /\ lock = NoProc
    /\ pc = [p \in Procs |-> "idle"]
    /\ job = [p \in Procs |-> NoJob]
    /\ vms = {}
    /\ toml = [n \in Names |-> Blank]
    /\ bak = [n \in Names |-> Blank]
    /\ fd = [p \in Procs |-> "none"]
    /\ disk = [n \in Names |-> FALSE]
    /\ backing = [n \in Names |-> NoName]
    /\ running = {}
    /\ bound = [n \in Names |-> {}]

-----------------------------------------------------------------------------
(* Helpers *)

\* The ssh ports config.List() reports; FreePort looks at nothing else.
ClaimedSSH == {toml[m].ssh : m \in vms}

\* What net.Listen refuses because a VM's qemu holds it.
BoundPorts == UNION {bound[m] : m \in running}

\* Mutants: the scan runs one port too far; only bindability is looked at.
MutFreePortsPastEnd == (Ports \cup {2300}) \ (ClaimedSSH \cup BoundPorts)
MutFreePortsBindable == Ports \ BoundPorts

\* FreePort takes the first of these that no other program listens on: any of
\* them, depending on those programs, or an error when they hold all.
FreePorts == Ports \ (ClaimedSSH \cup BoundPorts)

\* The ports validateForwards finds claimed by VMs other than n.
ClaimedByOthers(n) ==
    UNION {{toml[m].ssh} \cup toml[m].fwd : m \in vms \ {n}}

\* Mutant: off by one.
MutLimitPassed == MaxVMs > 0 /\ Cardinality(vms) > MaxVMs

\* CheckCreate counts the VMs config.List() returns.
LimitReached == MaxVMs > 0 /\ Cardinality(vms) >= MaxVMs

NewJob(o, n) == [NoJob EXCEPT !.op = o, !.name = n]

\* Mutant: flock with LOCK_NB and its error ignored.
MutAcquireNoWait(p, o, j, step) ==
    /\ o \in Ops
    /\ pc[p] = "idle"
    /\ lock' = p
    /\ pc' = [pc EXCEPT ![p] = step]
    /\ job' = [job EXCEPT ![p] = j]
    /\ UNCHANGED <<fileVars, diskVars, qemuVars>>

\* A process takes the flock and starts an operation at a step.
Acquire(p, o, j, step) ==
    /\ o \in Ops
    /\ pc[p] = "idle"
    /\ lock = NoProc
    /\ lock' = p
    /\ pc' = [pc EXCEPT ![p] = step]
    /\ job' = [job EXCEPT ![p] = j]
    /\ UNCHANGED <<fileVars, diskVars, qemuVars>>

\* Mutant: an operation that forgets its unlock.
MutReturnLocked(p) ==
    /\ pc' = [pc EXCEPT ![p] = "idle"]
    /\ job' = [job EXCEPT ![p] = NoJob]
    /\ UNCHANGED lock

\* The operation returns: the deferred unlock runs when it holds the flock.
Return(p) ==
    /\ lock' = IF lock = p THEN NoProc ELSE lock
    /\ pc' = [pc EXCEPT ![p] = "idle"]
    /\ job' = [job EXCEPT ![p] = NoJob]

Goto(p, step) ==
    /\ pc' = [pc EXCEPT ![p] = step]
    /\ UNCHANGED lock

\* load(name) of an existing VM, and the step that follows.
LoadUnlocked(p, o, n, step) ==
    /\ o \in Ops
    /\ pc[p] = "idle"
    /\ n \in vms
    /\ job' = [job EXCEPT ![p] = [NewJob(o, n) EXCEPT !.rec = toml[n]]]
    /\ Goto(p, step)
    /\ UNCHANGED <<fileVars, diskVars, qemuVars>>

\* The descriptors open on VM n's files follow the inode, not the name: move
\* says where each link's inode is after a rename or an unlink.
Relink(n, move) ==
    fd' = [q \in Procs |-> IF job[q].name = n THEN move[fd[q]] ELSE fd[q]]

Unlinked == [none |-> "none", toml |-> "none", bak |-> "none"]
BackedUp == [none |-> "none", toml |-> "bak", bak |-> "none"]
Orphaned == [none |-> "none", toml |-> "toml", bak |-> "none"]
RolledBack == [none |-> "none", toml |-> "none", bak |-> "toml"]

Close(p) == fd' = [fd EXCEPT ![p] = "none"]

\* os.RemoveAll of the VM directory: every file in it goes.
RemoveDir(n) ==
    /\ vms' = vms \ {n}
    /\ toml' = [toml EXCEPT ![n] = Blank]
    /\ bak' = [bak EXCEPT ![n] = Blank]
    /\ disk' = [disk EXCEPT ![n] = FALSE]
    /\ backing' = [backing EXCEPT ![n] = NoName]
    /\ Relink(n, Unlinked)

-----------------------------------------------------------------------------
(* Create and Clone: plan, Save, disk.  Both hold the flock throughout. *)

Create(p, n, params) ==
    Acquire(p, "create",
            [NewJob("create", n) EXCEPT !.params = params, !.fresh = TRUE], "plan")

Clone(p, src, n) ==
    Acquire(p, "clone",
            [NewJob("clone", n) EXCEPT !.src = src, !.fresh = TRUE], "plan")

\* plan, or Clone's checks, pass: the name is free and FreePort has a port.
\* Clone makes no CheckCreate call; it copies Installed and drops forwards.
Plan(p) ==
    /\ pc[p] = "plan"
    /\ job[p].name \notin vms
    /\ job[p].op = "create" => ~LimitReached
    /\ job[p].op = "clone" => job[p].src \in vms /\ job[p].src \notin running
    /\ \E q \in FreePorts :
         job' = [job EXCEPT ![p].rec =
                   [Blank EXCEPT !.ssh = q,
                                 !.inst = job[p].op = "clone"
                                            /\ toml[job[p].src].inst]]
    /\ Goto(p, "trunc")
    /\ UNCHANGED <<fileVars, diskVars, qemuVars>>

\* Any of the refusals: limit, name taken, source missing or running, bad
\* image, recipes or sizes, no bindable port.
PlanRefused(p) ==
    /\ pc[p] = "plan"
    /\ Return(p)
    /\ UNCHANGED <<fileVars, diskVars, qemuVars>>

\* qemu-img writes disk.qcow2: a new image, or an overlay on the source's
\* disk, which overlay() stats first.  qemu-img cannot take the image lock of
\* a disk that a live qemu has open.
MakeDisk(p) ==
    /\ pc[p] = "disk"
    /\ job[p].name \notin running
    /\ job[p].op = "clone" => disk[job[p].src]
    /\ disk' = [disk EXCEPT ![job[p].name] = TRUE]
    /\ backing' = [backing EXCEPT ![job[p].name] = job[p].src]
    /\ Return(p)
    /\ UNCHANGED <<fileVars, qemuVars>>

\* A parameter edit, the provider or qemu-img failed: leave no trace.  The
\* parameter edits come between Create's two Saves.
CreateFails(p) ==
    /\ \/ pc[p] = "disk"
       \/ pc[p] = "trunc" /\ job[p].op = "create" /\ ~job[p].fresh
    /\ RemoveDir(job[p].name)
    /\ Return(p)
    /\ UNCHANGED qemuVars

-----------------------------------------------------------------------------
(* config.VM.Save: os.Create truncates vm.toml (making the directory and the
   file if need be), then the encoded record is written. *)

SaveTruncate(p) ==
    /\ pc[p] = "trunc"
    /\ vms' = vms \cup {job[p].name}
    /\ toml' = [toml EXCEPT ![job[p].name] = Blank]
    /\ fd' = [fd EXCEPT ![p] = "toml"]
    /\ Goto(p, "write")
    /\ UNCHANGED <<job, bak, diskVars, qemuVars>>

\* What follows a Save that succeeded.
AfterSave(p) ==
    \/ /\ job[p].op = "create" /\ job[p].params
       /\ job' = [job EXCEPT ![p].params = FALSE, ![p].fresh = FALSE]
       /\ Goto(p, "trunc")
    \/ /\ job[p].op \in {"create", "clone"} /\ ~job[p].params
       /\ job' = [job EXCEPT ![p].fresh = FALSE]
       /\ Goto(p, "disk")
    \/ /\ job[p].op = "start"
       /\ Goto(p, "s_launch")
       /\ UNCHANGED job
    \/ /\ job[p].op \in {"forward", "apply"}
       /\ Return(p)

\* The write lands in the inode that was opened, wherever it is linked now.
SaveWrite(p) ==
    /\ pc[p] = "write"
    /\ toml' = IF fd[p] = "toml" THEN [toml EXCEPT ![job[p].name] = job[p].rec]
               ELSE toml
    /\ bak' = IF fd[p] = "bak" THEN [bak EXCEPT ![job[p].name] = job[p].rec]
              ELSE bak
    /\ Close(p)
    /\ AfterSave(p)
    /\ UNCHANGED <<vms, diskVars, qemuVars>>

\* Creating the file fails, or the write does and the file stays empty.  Create
\* removes the directory when its second Save fails, and not when its first
\* does.
SaveFails(p) ==
    /\ WriteFails
    /\ pc[p] \in {"trunc", "write"}
    /\ IF job[p].op = "create" /\ ~job[p].fresh
       THEN RemoveDir(job[p].name)
       ELSE Close(p) /\ UNCHANGED <<vms, toml, bak, diskVars>>
    /\ Return(p)
    /\ UNCHANGED qemuVars

-----------------------------------------------------------------------------
(* Update: load, validateSSHPort, then commitUpdate's two renames. *)

Update(p, n) == Acquire(p, "update", NewJob("update", n), "u_load")

UpdateLoad(p) ==
    /\ pc[p] = "u_load"
    /\ job[p].name \in vms
    /\ job' = [job EXCEPT ![p].rec = toml[job[p].name]]
    /\ Goto(p, "u_check")
    /\ UNCHANGED <<fileVars, diskVars, qemuVars>>

\* The ssh ports validateSSHPort accepts: it checks the VM's own forwards once
\* more along with the candidate.  An unchanged port is not checked.
NewSSHPorts(p) ==
    LET r == job[p].rec IN
    {r.ssh} \cup
    {q \in Ports \ r.fwd :
        (r.fwd \cup {q}) \cap ({r.ssh} \cup ClaimedByOthers(job[p].name)) = {}}

UpdateCheck(p) ==
    /\ pc[p] = "u_check"
    /\ \E q \in NewSSHPorts(p) : job' = [job EXCEPT ![p].rec.ssh = q]
    /\ Goto(p, "u_backup")
    /\ UNCHANGED <<fileVars, diskVars, qemuVars>>

\* The VM is missing, an edit is invalid, or a file could not be staged.
UpdateRefused(p) ==
    /\ pc[p] \in {"u_load", "u_check", "u_backup"}
    /\ Return(p)
    /\ UNCHANGED <<fileVars, diskVars, qemuVars>>

\* vm.toml is renamed to vm.toml.old in the stage directory.
UpdateBackup(p) ==
    LET n == job[p].name IN
    /\ pc[p] = "u_backup"
    /\ n \in vms
    /\ vms' = vms \ {n}
    /\ bak' = [bak EXCEPT ![n] = toml[n]]
    /\ toml' = [toml EXCEPT ![n] = Blank]
    /\ Relink(n, BackedUp)
    /\ Goto(p, "u_install")
    /\ UNCHANGED <<job, diskVars, qemuVars>>

\* The staged vm.toml is renamed into place and the stage directory removed.
UpdateInstall(p) ==
    LET n == job[p].name IN
    /\ pc[p] = "u_install"
    /\ vms' = vms \cup {n}
    /\ toml' = [toml EXCEPT ![n] = job[p].rec]
    /\ bak' = [bak EXCEPT ![n] = Blank]
    /\ Relink(n, Unlinked)
    /\ Return(p)
    /\ UNCHANGED <<diskVars, qemuVars>>

\* That rename, or the secrets' one, failed: vm.toml.old is renamed back.
UpdateRollback(p) ==
    LET n == job[p].name IN
    /\ pc[p] = "u_install"
    /\ vms' = vms \cup {n}
    /\ toml' = [toml EXCEPT ![n] = bak[n]]
    /\ bak' = [bak EXCEPT ![n] = Blank]
    /\ Relink(n, RolledBack)
    /\ Return(p)
    /\ UNCHANGED <<diskVars, qemuVars>>
-----------------------------------------------------------------------------
(* Destroy: refuse a running VM, then remove its directory. *)

\* Mutant: Destroy without the flock.
MutDestroyUnlocked(p, n) == LoadUnlocked(p, "destroy", n, "d_check")

Destroy(p, n) == Acquire(p, "destroy", NewJob("destroy", n), "d_check")

DestroyCheck(p) ==
    /\ pc[p] = "d_check"
    /\ job[p].name \in vms \ running
    /\ Goto(p, "d_delete")
    /\ UNCHANGED <<job, fileVars, diskVars, qemuVars>>

DestroyRefused(p) ==
    /\ pc[p] = "d_check"
    /\ job[p].name \notin vms \ running
    /\ Return(p)
    /\ UNCHANGED <<fileVars, diskVars, qemuVars>>

DestroyDelete(p) ==
    /\ pc[p] = "d_delete"
    /\ RemoveDir(job[p].name)
    /\ Return(p)
    /\ UNCHANGED qemuVars

-----------------------------------------------------------------------------
(* Operations that load a VM's record without the flock. *)

\* Forward replaces the declared forwards: validate, then Save.  No flock.
Forward(p, n) == LoadUnlocked(p, "forward", n, "f_check")

ForwardCheck(p) ==
    /\ pc[p] = "f_check"
    /\ \E F \in SUBSET (Ports \ ({job[p].rec.ssh} \cup ClaimedByOthers(job[p].name))) :
         job' = [job EXCEPT ![p].rec.fwd = F]
    /\ Goto(p, "trunc")
    /\ UNCHANGED <<fileVars, diskVars, qemuVars>>

\* start loads the record first and takes the flock after.
Start(p, n) == LoadUnlocked(p, "start", n, "s_lock")

\* Mutant: start without the flock.
MutStartNoLock(p) ==
    /\ pc[p] = "s_lock"
    /\ Goto(p, "s_check")
    /\ UNCHANGED <<job, fileVars, diskVars, qemuVars>>

StartLock(p) ==
    /\ pc[p] = "s_lock"
    /\ lock = NoProc
    /\ lock' = p
    /\ pc' = [pc EXCEPT ![p] = "s_check"]
    /\ UNCHANGED <<job, fileVars, diskVars, qemuVars>>

\* Not running and within the limits.  qemu.Start saves the record it was
\* given when it finds that the guest has written the disk.
StartCheck(p) ==
    /\ pc[p] = "s_check"
    /\ job[p].name \notin running
    /\ \/ /\ ~job[p].rec.inst /\ disk[job[p].name]
          /\ job' = [job EXCEPT ![p].rec.inst = TRUE]
          /\ Goto(p, "trunc")
       \/ /\ Goto(p, "s_launch")
          /\ UNCHANGED job
    /\ UNCHANGED <<fileVars, diskVars, qemuVars>>

\* qemu opens the disk and its backing file and binds every host port.
Launch(p) ==
    LET n == job[p].name
        ports == ({job[p].rec.ssh} \cup job[p].rec.fwd) \ {NoPort}
    IN  /\ pc[p] = "s_launch"
        /\ disk[n]
        /\ backing[n] # NoName => disk[backing[n]]
        /\ ports \cap BoundPorts = {}
        /\ running' = running \cup {n}
        /\ bound' = [bound EXCEPT ![n] = ports]
        /\ Return(p)
        /\ UNCHANGED <<fileVars, diskVars>>

\* Already running, over a limit, or qemu refused to start.
StartRefused(p) ==
    /\ pc[p] \in {"s_check", "s_launch"}
    /\ Return(p)
    /\ UNCHANGED <<fileVars, diskVars, qemuVars>>

\* Apply loads the record, then takes the VM's provision.lock without
\* blocking, and needs the VM up.
Apply(p, n) ==
    /\ n \in running
    /\ \A q \in Procs : job[q].op = "apply" => job[q].name # n
    /\ LoadUnlocked(p, "apply", n, "a_run")

\* Recipes ran and their state is recorded: Save of the record loaded then.
ApplyDone(p) ==
    /\ pc[p] = "a_run"
    /\ Goto(p, "trunc")
    /\ UNCHANGED <<job, fileVars, diskVars, qemuVars>>

\* Forwards are invalid, or a recipe or the reboot failed: nothing is saved.
UnlockedFails(p) ==
    /\ pc[p] \in {"f_check", "a_run"}
    /\ Return(p)
    /\ UNCHANGED <<fileVars, diskVars, qemuVars>>

-----------------------------------------------------------------------------
\* The guest powers down, is stopped or killed: its listeners close.
QemuExits(n) ==
    /\ n \in running
    /\ running' = running \ {n}
    /\ bound' = [bound EXCEPT ![n] = {}]
    /\ UNCHANGED <<lock, pc, job, fileVars, diskVars>>

\* A process is killed inside an operation; the kernel closes its files.  An
\* update's stage directory stays, but nothing ever reads its vm.toml.old.
Kill(p) ==
    /\ Kills
    /\ pc[p] \notin {"idle", "killed"}
    /\ lock' = IF lock = p THEN NoProc ELSE lock
    /\ pc' = [pc EXCEPT ![p] = "killed"]
    /\ job' = [job EXCEPT ![p] = NoJob]
    /\ IF pc[p] = "u_install"
       THEN /\ bak' = [bak EXCEPT ![job[p].name] = Blank]
            /\ Relink(job[p].name, Orphaned)
       ELSE Close(p) /\ UNCHANGED bak
    /\ UNCHANGED <<vms, toml, diskVars, qemuVars>>

Restart(p) ==
    /\ pc[p] = "killed"
    /\ Goto(p, "idle")
    /\ UNCHANGED <<job, fileVars, diskVars, qemuVars>>

\* The steps a process takes inside an operation.
Step(p) ==
    \/ Plan(p) \/ PlanRefused(p) \/ MakeDisk(p) \/ CreateFails(p)
    \/ SaveTruncate(p) \/ SaveWrite(p) \/ SaveFails(p)
    \/ UpdateLoad(p) \/ UpdateCheck(p) \/ UpdateRefused(p)
    \/ UpdateBackup(p) \/ UpdateInstall(p) \/ UpdateRollback(p)
    \/ DestroyCheck(p) \/ DestroyRefused(p) \/ DestroyDelete(p)
    \/ ForwardCheck(p) \/ UnlockedFails(p) \/ ApplyDone(p)
    \/ StartLock(p) \/ StartCheck(p) \/ StartRefused(p) \/ Launch(p)

Begin(p) ==
    \E n \in Names :
        \/ \E params \in BOOLEAN : Create(p, n, params)
        \/ \E src \in Names : Clone(p, src, n)
        \/ Update(p, n) \/ Destroy(p, n)
        \/ Forward(p, n) \/ Start(p, n) \/ Apply(p, n)

Next ==
    \/ \E p \in Procs : Begin(p) \/ Step(p) \/ Kill(p) \/ Restart(p)
    \/ \E n \in Names : QemuExits(n)

Spec == Init /\ [][Next]_vars

\* No step inside an operation blocks but StartLock.
Fairness == \A p \in Procs : WF_vars(Step(p))

FairSpec == Spec /\ Fairness
-----------------------------------------------------------------------------
(* Properties *)

\* Two VMs never record the same ssh port: FreePort and validateSSHPort read
\* the records some time before the port they choose is written to a vm.toml
\* (config/lock.go: "two VMs fighting over one host socket").
SSHPortsDistinct ==
    \A m, n \in vms : m # n /\ toml[m].ssh = toml[n].ssh => toml[m].ssh = NoPort

\* Two VMs never declare a forward on the same host port, nor a VM one on its
\* own ssh port (validateForwards).
ForwardsDisjoint ==
    /\ \A m, n \in vms : m # n => toml[m].fwd \cap toml[n].fwd = {}
    /\ \A n \in vms : toml[n].ssh \notin toml[n].fwd

\* When Create or Clone is about to write the vm.toml of its new VM, no VM of
\* that name has come to exist since the name was found free.
NewNameStaysFree ==
    \A p \in Procs :
        pc[p] = "trunc" /\ job[p].op \in {"create", "clone"} /\ job[p].fresh
            => job[p].name \notin vms

\* The record Update is about to replace is the one it read, ssh port apart:
\* no other operation's edit is lost when the new vm.toml is renamed in.
UpdateLosesNothing ==
    \A p \in Procs : pc[p] = "u_backup" =>
        /\ job[p].name \in vms
        /\ toml[job[p].name] = [job[p].rec EXCEPT !.ssh = toml[job[p].name].ssh]

\* A running VM's disk is never removed: Destroy's state check and its
\* RemoveAll, Start's state check and its launch, cannot interleave.
RunningKeepsDisk == \A n \in running : disk[n]

\* From the moment Clone has checked its source until the overlay is made,
\* the source is not destroyed (the reason Destroy takes the flock).
CloneSourceStays ==
    \A p \in Procs :
        pc[p] \in {"trunc", "write", "disk"} /\ job[p].op = "clone"
            => job[p].src \in vms

\* When Create is about to write its new VM, limits.max_vms still has room for
\* it: the count taken by CheckCreate is not overtaken by another process.
LimitNotOvertaken ==
    \A p \in Procs :
        pc[p] = "trunc" /\ job[p].op = "create" /\ job[p].fresh /\ MaxVMs > 0
            => ~(Cardinality(vms) >= MaxVMs)

\* No check is out of date when it is acted on: between what the operations
\* that hold the flock found and what they write, nothing they relied on has
\* changed.
ChecksStillHold ==
    NewNameStaysFree /\ UpdateLosesNothing /\ CloneSourceStays /\ LimitNotOvertaken

AddStep ==
    \A n \in vms' \ vms : \E p \in Procs :
        job[p].name = n /\ job[p].op \in {"create", "clone", "update"}

\* Only a Create or a Clone of that name, or the Update that had moved it
\* aside, brings a vm.toml into existence: a destroyed VM stays destroyed.
OnlyCreateAddsVM == [][AddStep]_vars

\* Whoever takes the data-root flock gives it back: no step under the lock
\* waits for the lock again (the nesting rule of config.Lock), and a killed
\* holder does not keep it.
LockReleased == \A p \in Procs : (lock = p) ~> (lock # p)
=============================================================================
