--------------------------- MODULE DataRootProofs ---------------------------
(***************************************************************************)
(* What DataRoot's runs check on a few processes, names and ports, proved  *)
(* for any number of them.                                                 *)
(*                                                                         *)
(* Everything rests on mutual exclusion by the data-root flock (LockInv):  *)
(* a process that is past its lock call in Create, Clone, Update, Destroy  *)
(* or Start is the flock's holder.  So while one of them is between        *)
(* reading the records and writing its own, no other is.                   *)
(***************************************************************************)
EXTENDS DataRoot, TLAPS

-----------------------------------------------------------------------------
(* The inductive invariants *)

Active(p) == pc[p] \notin {"idle", "killed"}

\* Which operations can be at which step, and that each works on a VM.
Located ==
    \A p \in Procs :
        /\ Active(p) => job[p].name \in Names /\ job[p].op \in Ops
        /\ pc[p] \in {"plan", "disk"} => job[p].op \in {"create", "clone"}
        /\ pc[p] \in {"trunc", "write"} =>
               job[p].op \in {"create", "clone", "start", "forward", "apply"}
        /\ pc[p] \in {"u_load", "u_check", "u_backup", "u_install"} => job[p].op = "update"
        /\ pc[p] \in {"d_check", "d_delete"} => job[p].op = "destroy"
        /\ pc[p] = "f_check" => job[p].op = "forward"
        /\ pc[p] = "a_run" => job[p].op = "apply"
        /\ pc[p] \in {"s_lock", "s_check", "s_launch"} => job[p].op = "start"

TypeInv == TypeOK /\ Located

\* The steps a process takes as the holder of the flock.
Holds(p) ==
    /\ Active(p)
    /\ pc[p] # "s_lock"
    /\ job[p].op \in LockedOps \cup {"start"}

LockInv == \A p \in Procs : Holds(p) => lock = p

\* A port chosen is a port no other VM records, from the choice to the write.
Differ(a, b) == a = b => a = NoPort

PortInv ==
    /\ SSHPortsDistinct
    /\ \A p \in Procs :
         /\ pc[p] \in {"trunc", "write", "u_check", "u_backup", "u_install"} =>
              \A m \in vms \ {job[p].name} : Differ(job[p].rec.ssh, toml[m].ssh)
         /\ pc[p] = "u_install" =>
              \A m \in vms \ {job[p].name} : Differ(bak[job[p].name].ssh, toml[m].ssh)

\* What Create, Clone and Update found is still so when they act on it.
CheckInv ==
    /\ NewNameStaysFree
    /\ CloneSourceStays
    /\ UpdateLosesNothing
    /\ LimitNotOvertaken
    /\ \A p \in Procs : pc[p] = "u_check" =>
         job[p].name \in vms /\ toml[job[p].name] = job[p].rec

\* A disk without a vm.toml is that of a VM whose update is between its two
\* renames: a name Create finds free has no disk, so no running VM.
DiskInv ==
    /\ RunningKeepsDisk
    /\ \A n \in Names : disk[n] /\ n \notin vms =>
         \E p \in Procs : pc[p] = "u_install" /\ job[p].name = n
    /\ \A p \in Procs :
         /\ pc[p] \in {"trunc", "write", "disk"} /\ job[p].op \in {"create", "clone"} =>
              job[p].name \notin running
         /\ pc[p] \in {"write", "disk"} /\ job[p].op \in {"create", "clone"} =>
              job[p].name \in vms
         /\ pc[p] = "d_delete" => job[p].name \notin running

-----------------------------------------------------------------------------
(* Types *)

\* A field of a record can be set to any value of its type.
LEMMA RecordFields ==
    ASSUME NEW r \in Record
    PROVE  /\ \A q \in Ports \cup {NoPort} : [r EXCEPT !.ssh = q] \in Record
           /\ \A F \in SUBSET Ports : [r EXCEPT !.fwd = F] \in Record
           /\ \A b \in BOOLEAN : [r EXCEPT !.inst = b] \in Record
  BY DEF Record

\* k is job j with a new record or new flags: the same operation on the same VM.
SameTask(j, k) == k \in Job /\ k.name = j.name /\ k.op = j.op /\ k.src = j.src

\* So can a record and the flags of a job, which goes on with its task.
LEMMA JobFields ==
    ASSUME NEW j \in Job
    PROVE  /\ \A r \in Record : SameTask(j, [j EXCEPT !.rec = r])
           /\ SameTask(j, [j EXCEPT !.fresh = FALSE])
           /\ SameTask(j, [j EXCEPT !.params = FALSE, !.fresh = FALSE])
  BY DEF Job, SameTask

\* The same of the edits that actions make to one process's job.
LEMMA JobEdits ==
    ASSUME NEW f \in [Procs -> Job], NEW p \in Procs
    PROVE  /\ \A r \in Record : SameTask(f[p], [f EXCEPT ![p].rec = r][p])
           /\ \A q \in Ports \cup {NoPort} :
                SameTask(f[p], [f EXCEPT ![p].rec.ssh = q][p])
           /\ \A F \in SUBSET Ports : SameTask(f[p], [f EXCEPT ![p].rec.fwd = F][p])
           /\ SameTask(f[p], [f EXCEPT ![p].rec.inst = TRUE][p])
           /\ SameTask(f[p], [f EXCEPT ![p].fresh = FALSE][p])
           /\ SameTask(f[p], [f EXCEPT ![p].params = FALSE, ![p].fresh = FALSE][p])
  <1>1. f[p] \in Job /\ f[p].rec \in Record
    BY DEF Job
  <1>2. /\ \A q \in Ports \cup {NoPort} : [f[p].rec EXCEPT !.ssh = q] \in Record
        /\ \A F \in SUBSET Ports : [f[p].rec EXCEPT !.fwd = F] \in Record
        /\ [f[p].rec EXCEPT !.inst = TRUE] \in Record
    BY <1>1, RecordFields
  <1>3. /\ \A r \in Record : SameTask(f[p], [f[p] EXCEPT !.rec = r])
        /\ SameTask(f[p], [f[p] EXCEPT !.fresh = FALSE])
        /\ SameTask(f[p], [f[p] EXCEPT !.params = FALSE, !.fresh = FALSE])
    BY <1>1, JobFields
  <1> QED
    BY <1>2, <1>3

\* The values a job and a record start from.
LEMMA NoValues == Blank \in Record /\ NoJob \in Job
  BY DEF Blank, Record, NoJob, Job

LEMMA TypeInvInit == Init => TypeInv
  BY NoValues DEF Init, TypeInv, TypeOK, Located, Active, Steps

LEMMA TypeInvBegin ==
    ASSUME TypeInv, NEW p \in Procs, Begin(p)
    PROVE  TypeInv'
  <1> USE OpsAssumption, NoNameAssumption, NoPortAssumption
          DEF TypeInv, TypeOK, Located, Active, Record, Job, Steps, Blank, NoJob,
              NewJob, fileVars, diskVars, qemuVars, AllOps
  <1>1. ASSUME NEW n \in Names, NEW params \in BOOLEAN, Create(p, n, params)
       PROVE  TypeInv'
    <2>1. [NewJob("create", n) EXCEPT !.params = params, !.fresh = TRUE] \in Job
      OBVIOUS
    <2> QED
      BY <1>1, <2>1 DEF Create, Acquire
  <1>2. ASSUME NEW n \in Names, NEW src \in Names, Clone(p, src, n)
       PROVE  TypeInv'
    <2>1. [NewJob("clone", n) EXCEPT !.src = src, !.fresh = TRUE] \in Job
      OBVIOUS
    <2> QED
      BY <1>2, <2>1 DEF Clone, Acquire
  <1>3. ASSUME NEW n \in Names, Update(p, n)
       PROVE  TypeInv'
    <2>1. NewJob("update", n) \in Job
      OBVIOUS
    <2> QED
      BY <1>3, <2>1 DEF Update, Acquire
  <1>4. ASSUME NEW n \in Names, Destroy(p, n)
       PROVE  TypeInv'
    <2>1. NewJob("destroy", n) \in Job
      OBVIOUS
    <2> QED
      BY <1>4, <2>1 DEF Destroy, Acquire
  <1>5. ASSUME NEW n \in Names, Forward(p, n)
       PROVE  TypeInv'
    BY <1>5 DEF Forward, LoadUnlocked, Goto
  <1>6. ASSUME NEW n \in Names, Start(p, n)
       PROVE  TypeInv'
    BY <1>6 DEF Start, LoadUnlocked, Goto
  <1>7. ASSUME NEW n \in Names, Apply(p, n)
       PROVE  TypeInv'
    BY <1>7 DEF Apply, LoadUnlocked, Goto
  <1> HIDE DEF TypeInv
  <1> QED
    BY <1>1, <1>2, <1>3, <1>4, <1>5, <1>6, <1>7, Begin(p) DEF Begin

LEMMA TypeInvNext == TypeInv /\ [Next]_vars => TypeInv'
  <1> SUFFICES ASSUME TypeInv, [Next]_vars PROVE TypeInv'
    OBVIOUS
  <1> USE OpsAssumption, NoNameAssumption, NoPortAssumption, NoValues
          DEF TypeInv, TypeOK, Located, Active, Steps, fileVars, diskVars, qemuVars
  <1>1. ASSUME NEW p \in Procs, Begin(p)
       PROVE  TypeInv'
    BY <1>1, TypeInvBegin
  <1>2. ASSUME NEW p \in Procs, Plan(p)
       PROVE  TypeInv'
    <2>1. PICK q \in FreePorts :
             job' = [job EXCEPT ![p].rec =
                       [Blank EXCEPT !.ssh = q,
                                     !.inst = job[p].op = "clone"
                                                /\ toml[job[p].src].inst]]
      BY <1>2 DEF Plan
    <2>2. [Blank EXCEPT !.ssh = q, !.inst = job[p].op = "clone"
                                              /\ toml[job[p].src].inst] \in Record
      BY DEF FreePorts, Blank, Record
    <2>3. SameTask(job[p], job'[p])
      BY <2>1, <2>2, JobEdits
    <2>4. /\ job' \in [Procs -> Job]
          /\ \A o \in Procs \ {p} : job'[o] = job[o]
      BY <2>1, <2>2, <2>3 DEF SameTask
    <2> QED
      BY <1>2, <2>3, <2>4 DEF Plan, Goto, SameTask
  <1>3. ASSUME NEW p \in Procs, PlanRefused(p)
       PROVE  TypeInv'
    BY <1>3 DEF PlanRefused, Return
  <1>4. ASSUME NEW p \in Procs, MakeDisk(p)
       PROVE  TypeInv'
    BY <1>4 DEF MakeDisk, Return, Job
  <1>5. ASSUME NEW p \in Procs, CreateFails(p)
       PROVE  TypeInv'
    BY <1>5 DEF CreateFails, RemoveDir, Relink, Unlinked, Return
  <1>6. ASSUME NEW p \in Procs, SaveTruncate(p)
       PROVE  TypeInv'
    BY <1>6 DEF SaveTruncate, Goto
  <1>7. ASSUME NEW p \in Procs, SaveWrite(p)
       PROVE  TypeInv'
    <2>1. job[p].rec \in Record
      BY DEF Job
    <2>2. toml' \in [Names -> Record] /\ bak' \in [Names -> Record]
      BY <1>7, <2>1 DEF SaveWrite
    <2>3. CASE /\ job' = [job EXCEPT ![p].params = FALSE, ![p].fresh = FALSE]
               /\ job[p].op = "create" /\ Goto(p, "trunc")
      <3>1. SameTask(job[p], job'[p])
        BY <2>3, JobEdits
      <3>2. /\ job' \in [Procs -> Job]
            /\ \A o \in Procs \ {p} : job'[o] = job[o]
        BY <2>3, <3>1 DEF SameTask
      <3> QED
        BY <1>7, <2>2, <2>3, <3>1, <3>2 DEF SaveWrite, Close, Goto, SameTask
    <2>4. CASE /\ job' = [job EXCEPT ![p].fresh = FALSE]
               /\ job[p].op \in {"create", "clone"} /\ Goto(p, "disk")
      <3>1. SameTask(job[p], job'[p])
        BY <2>4, JobEdits
      <3>2. /\ job' \in [Procs -> Job]
            /\ \A o \in Procs \ {p} : job'[o] = job[o]
        BY <2>4, <3>1 DEF SameTask
      <3> QED
        BY <1>7, <2>2, <2>4, <3>1, <3>2 DEF SaveWrite, Close, Goto, SameTask
    <2>5. CASE job[p].op = "start" /\ Goto(p, "s_launch") /\ UNCHANGED job
      BY <1>7, <2>2, <2>5 DEF SaveWrite, Close, Goto
    <2>6. CASE job[p].op \in {"forward", "apply"} /\ Return(p)
      BY <1>7, <2>2, <2>6 DEF SaveWrite, Close, Return
    <2> QED
      BY <1>7, <2>3, <2>4, <2>5, <2>6 DEF SaveWrite, AfterSave
  <1>8. ASSUME NEW p \in Procs, SaveFails(p)
       PROVE  TypeInv'
    <2>1. CASE RemoveDir(job[p].name)
      BY <1>8, <2>1 DEF SaveFails, Return, RemoveDir, Relink, Unlinked
    <2>2. CASE Close(p) /\ UNCHANGED <<vms, toml, bak, diskVars>>
      BY <1>8, <2>2 DEF SaveFails, Return, Close
    <2> QED
      BY <1>8, <2>1, <2>2 DEF SaveFails
  <1>9. ASSUME NEW p \in Procs, UpdateLoad(p)
       PROVE  TypeInv'
    <2>1. job' = [job EXCEPT ![p].rec = toml[job[p].name]]
      BY <1>9 DEF UpdateLoad
    <2>2. toml[job[p].name] \in Record
      BY <1>9 DEF UpdateLoad
    <2>3. SameTask(job[p], job'[p])
      BY <2>1, <2>2, JobEdits
    <2>4. /\ job' \in [Procs -> Job]
          /\ \A o \in Procs \ {p} : job'[o] = job[o]
      BY <2>1, <2>2, <2>3 DEF SameTask
    <2> QED
      BY <1>9, <2>3, <2>4 DEF UpdateLoad, Goto, SameTask
  <1>10. ASSUME NEW p \in Procs, UpdateCheck(p)
       PROVE  TypeInv'
    <2>1. PICK q \in NewSSHPorts(p) : job' = [job EXCEPT ![p].rec.ssh = q]
      BY <1>10 DEF UpdateCheck
    <2>2. q \in Ports \cup {NoPort}
      BY DEF NewSSHPorts, Job, Record
    <2>3. SameTask(job[p], job'[p])
      BY <2>1, <2>2, JobEdits
    <2>4. /\ job' \in [Procs -> Job]
          /\ \A o \in Procs \ {p} : job'[o] = job[o]
      BY <2>1, <2>2, <2>3 DEF SameTask
    <2> QED
      BY <1>10, <2>3, <2>4 DEF UpdateCheck, Goto, SameTask
  <1>11. ASSUME NEW p \in Procs, UpdateRefused(p)
       PROVE  TypeInv'
    BY <1>11 DEF UpdateRefused, Return
  <1>12. ASSUME NEW p \in Procs, UpdateBackup(p)
       PROVE  TypeInv'
    BY <1>12 DEF UpdateBackup, Relink, BackedUp, Goto
  <1>13. ASSUME NEW p \in Procs, UpdateInstall(p)
       PROVE  TypeInv'
    BY <1>13 DEF UpdateInstall, Relink, Unlinked, Return, Job
  <1>14. ASSUME NEW p \in Procs, UpdateRollback(p)
       PROVE  TypeInv'
    BY <1>14 DEF UpdateRollback, Relink, RolledBack, Return
  <1>15. ASSUME NEW p \in Procs, DestroyCheck(p)
       PROVE  TypeInv'
    BY <1>15 DEF DestroyCheck, Goto
  <1>16. ASSUME NEW p \in Procs, DestroyRefused(p)
       PROVE  TypeInv'
    BY <1>16 DEF DestroyRefused, Return
  <1>17. ASSUME NEW p \in Procs, DestroyDelete(p)
       PROVE  TypeInv'
    BY <1>17 DEF DestroyDelete, RemoveDir, Relink, Unlinked, Return
  <1>18. ASSUME NEW p \in Procs, ForwardCheck(p)
       PROVE  TypeInv'
    <2>1. PICK F \in SUBSET Ports : job' = [job EXCEPT ![p].rec.fwd = F]
      BY <1>18 DEF ForwardCheck
    <2>2. SameTask(job[p], job'[p])
      BY <2>1, JobEdits
    <2>3. /\ job' \in [Procs -> Job]
          /\ \A o \in Procs \ {p} : job'[o] = job[o]
      BY <2>1, <2>2 DEF SameTask
    <2> QED
      BY <1>18, <2>2, <2>3 DEF ForwardCheck, Goto, SameTask
  <1>19. ASSUME NEW p \in Procs, UnlockedFails(p)
       PROVE  TypeInv'
    BY <1>19 DEF UnlockedFails, Return
  <1>20. ASSUME NEW p \in Procs, ApplyDone(p)
       PROVE  TypeInv'
    BY <1>20 DEF ApplyDone, Goto
  <1>21. ASSUME NEW p \in Procs, StartLock(p)
       PROVE  TypeInv'
    BY <1>21 DEF StartLock
  <1>22. ASSUME NEW p \in Procs, StartCheck(p)
       PROVE  TypeInv'
    <2>1. CASE job' = [job EXCEPT ![p].rec.inst = TRUE] /\ Goto(p, "trunc")
      <3>1. SameTask(job[p], job'[p])
        BY <2>1, JobEdits
      <3>2. /\ job' \in [Procs -> Job]
            /\ \A o \in Procs \ {p} : job'[o] = job[o]
        BY <2>1, <3>1 DEF SameTask
      <3> QED
        BY <1>22, <2>1, <3>1, <3>2 DEF StartCheck, Goto, SameTask
    <2>2. CASE UNCHANGED job /\ Goto(p, "s_launch")
      BY <1>22, <2>2 DEF StartCheck, Goto
    <2> QED
      BY <1>22, <2>1, <2>2 DEF StartCheck
  <1>23. ASSUME NEW p \in Procs, StartRefused(p)
       PROVE  TypeInv'
    BY <1>23 DEF StartRefused, Return
  <1>24. ASSUME NEW p \in Procs, Launch(p)
       PROVE  TypeInv'
    <2> DEFINE ports == ({job[p].rec.ssh} \cup job[p].rec.fwd) \ {NoPort}
    <2>1. job[p].name \in Names
      BY <1>24 DEF Launch
    <2>2. job[p].rec \in Record
      BY DEF Job
    <2>3. ports \subseteq Ports
      BY <2>2 DEF Record
    <2> QED
      BY <1>24, <2>1, <2>3 DEF Launch, Return
  <1>25. ASSUME NEW p \in Procs, Kill(p)
       PROVE  TypeInv'
    <2>1. fd' \in [Procs -> {"none", "toml", "bak"}] /\ bak' \in [Names -> Record]
      <3>1. CASE pc[p] = "u_install"
        BY <1>25, <3>1 DEF Kill, Relink, Orphaned
      <3>2. CASE pc[p] # "u_install"
        BY <1>25, <3>2 DEF Kill, Close
      <3> QED
        BY <3>1, <3>2
    <2> QED
      BY <1>25, <2>1 DEF Kill
  <1>26. ASSUME NEW p \in Procs, Restart(p)
       PROVE  TypeInv'
    BY <1>26 DEF Restart, Goto
  <1>27. ASSUME NEW n \in Names, QemuExits(n)
       PROVE  TypeInv'
    BY <1>27 DEF QemuExits
  <1>28. CASE UNCHANGED vars
    BY <1>28 DEF vars
  <1> HIDE DEF TypeInv
  <1> QED
    BY <1>1, <1>2, <1>3, <1>4, <1>5, <1>6, <1>7, <1>8, <1>9, <1>10, <1>11,
           <1>12, <1>13, <1>14, <1>15, <1>16, <1>17, <1>18, <1>19, <1>20,
           <1>21, <1>22, <1>23, <1>24, <1>25, <1>26, <1>27, <1>28 DEF Next, Step

\* No stoat process ever finds the data root ill-formed, whatever operations
\* run, fail and are killed: every vm.toml decodes to a record, every job is on
\* a VM's name, every recorded port is one of the range.
THEOREM TypeCorrect == Spec => []TypeOK
  <1>1. TypeInv => TypeOK
    BY DEF TypeInv
  <1> QED
    BY <1>1, TypeInvInit, TypeInvNext, PTL DEF Spec

-----------------------------------------------------------------------------
(* Mutual exclusion by the flock *)

LEMMA LockInvInit == Init => LockInv
  BY DEF Init, LockInv, Holds, Active

LEMMA LockInvNext ==
    ASSUME TypeInv, LockInv, [Next]_vars
    PROVE  LockInv'
  <1> USE NoProcAssumption, NoNameAssumption, OpsAssumption
          DEF TypeInv, TypeOK, Located, LockInv, Holds, Active, Steps, LockedOps,
              NoJob, fileVars, diskVars, qemuVars
  <1>1. ASSUME NEW p \in Procs, NEW n \in Names, NEW params \in BOOLEAN, Create(p, n, params)
       PROVE  LockInv'
    BY <1>1 DEF Create, Acquire, NewJob
  <1>2. ASSUME NEW p \in Procs, NEW n \in Names, NEW src \in Names, Clone(p, src, n)
       PROVE  LockInv'
    BY <1>2 DEF Clone, Acquire, NewJob
  <1>3. ASSUME NEW p \in Procs, NEW n \in Names, Update(p, n)
       PROVE  LockInv'
    BY <1>3 DEF Update, Acquire, NewJob
  <1>4. ASSUME NEW p \in Procs, NEW n \in Names, Destroy(p, n)
       PROVE  LockInv'
    BY <1>4 DEF Destroy, Acquire, NewJob
  <1>5. ASSUME NEW p \in Procs, NEW n \in Names, Forward(p, n)
       PROVE  LockInv'
    BY <1>5 DEF Forward, LoadUnlocked, NewJob, Goto
  <1>6. ASSUME NEW p \in Procs, NEW n \in Names, Start(p, n)
       PROVE  LockInv'
    BY <1>6 DEF Start, LoadUnlocked, NewJob, Goto
  <1>7. ASSUME NEW p \in Procs, NEW n \in Names, Apply(p, n)
       PROVE  LockInv'
    BY <1>7 DEF Apply, LoadUnlocked, NewJob, Goto
  <1>8. ASSUME NEW p \in Procs, Plan(p)
       PROVE  LockInv'
    BY <1>8 DEF Plan, FreePorts, Goto
  <1>9. ASSUME NEW p \in Procs, PlanRefused(p)
       PROVE  LockInv'
    BY <1>9 DEF PlanRefused, Return
  <1>10. ASSUME NEW p \in Procs, MakeDisk(p)
       PROVE  LockInv'
    BY <1>10 DEF MakeDisk, Return
  <1>11. ASSUME NEW p \in Procs, CreateFails(p)
       PROVE  LockInv'
    BY <1>11 DEF CreateFails, RemoveDir, Relink, Unlinked, Return
  <1>12. ASSUME NEW p \in Procs, SaveTruncate(p)
       PROVE  LockInv'
    BY <1>12 DEF SaveTruncate, Goto
  <1>13. ASSUME NEW p \in Procs, SaveWrite(p)
       PROVE  LockInv'
    BY <1>13 DEF SaveWrite, Close, AfterSave, Goto, Return
  <1>14. ASSUME NEW p \in Procs, SaveFails(p)
       PROVE  LockInv'
    BY <1>14 DEF SaveFails, RemoveDir, Relink, Unlinked, Close, Return
  <1>15. ASSUME NEW p \in Procs, UpdateLoad(p)
       PROVE  LockInv'
    BY <1>15 DEF UpdateLoad, Goto
  <1>16. ASSUME NEW p \in Procs, UpdateCheck(p)
       PROVE  LockInv'
    BY <1>16 DEF UpdateCheck, NewSSHPorts, Goto
  <1>17. ASSUME NEW p \in Procs, UpdateRefused(p)
       PROVE  LockInv'
    BY <1>17 DEF UpdateRefused, Return
  <1>18. ASSUME NEW p \in Procs, UpdateBackup(p)
       PROVE  LockInv'
    BY <1>18 DEF UpdateBackup, Relink, BackedUp, Goto
  <1>19. ASSUME NEW p \in Procs, UpdateInstall(p)
       PROVE  LockInv'
    BY <1>19 DEF UpdateInstall, Relink, Unlinked, Return
  <1>20. ASSUME NEW p \in Procs, UpdateRollback(p)
       PROVE  LockInv'
    BY <1>20 DEF UpdateRollback, Relink, RolledBack, Return
  <1>21. ASSUME NEW p \in Procs, DestroyCheck(p)
       PROVE  LockInv'
    BY <1>21 DEF DestroyCheck, Goto
  <1>22. ASSUME NEW p \in Procs, DestroyRefused(p)
       PROVE  LockInv'
    BY <1>22 DEF DestroyRefused, Return
  <1>23. ASSUME NEW p \in Procs, DestroyDelete(p)
       PROVE  LockInv'
    BY <1>23 DEF DestroyDelete, RemoveDir, Relink, Unlinked, Return
  <1>24. ASSUME NEW p \in Procs, ForwardCheck(p)
       PROVE  LockInv'
    BY <1>24 DEF ForwardCheck, Goto
  <1>25. ASSUME NEW p \in Procs, UnlockedFails(p)
       PROVE  LockInv'
    BY <1>25 DEF UnlockedFails, Return
  <1>26. ASSUME NEW p \in Procs, ApplyDone(p)
       PROVE  LockInv'
    BY <1>26 DEF ApplyDone, Goto
  <1>27. ASSUME NEW p \in Procs, StartLock(p)
       PROVE  LockInv'
    BY <1>27 DEF StartLock
  <1>28. ASSUME NEW p \in Procs, StartCheck(p)
       PROVE  LockInv'
    BY <1>28 DEF StartCheck, Goto
  <1>29. ASSUME NEW p \in Procs, StartRefused(p)
       PROVE  LockInv'
    BY <1>29 DEF StartRefused, Return
  <1>30. ASSUME NEW p \in Procs, Launch(p)
       PROVE  LockInv'
    BY <1>30 DEF Launch, Return
  <1>31. ASSUME NEW p \in Procs, Kill(p)
       PROVE  LockInv'
    BY <1>31 DEF Kill, Relink, Orphaned, Close
  <1>32. ASSUME NEW p \in Procs, Restart(p)
       PROVE  LockInv'
    BY <1>32 DEF Restart, Goto
  <1>33. ASSUME NEW n \in Names, QemuExits(n)
       PROVE  LockInv'
    BY <1>33 DEF QemuExits
  <1>34. CASE UNCHANGED vars
    BY <1>34 DEF vars
  <1> HIDE DEF LockInv
  <1> QED
    BY <1>1, <1>2, <1>3, <1>4, <1>5, <1>6, <1>7, <1>8, <1>9, <1>10, <1>11,
           <1>12, <1>13, <1>14, <1>15, <1>16, <1>17, <1>18, <1>19, <1>20,
           <1>21, <1>22, <1>23, <1>24, <1>25, <1>26, <1>27, <1>28, <1>29,
           <1>30, <1>31, <1>32, <1>33, <1>34, [Next]_vars DEF Next, Begin, Step

\* Two processes are never both between their lock and their unlock.
LEMMA Exclusive ==
    ASSUME LockInv, NEW p \in Procs, NEW q \in Procs, Holds(p), Holds(q)
    PROVE  p = q
  BY DEF LockInv

-----------------------------------------------------------------------------
(* What the two actions that edit a job in one of several ways do to it *)

LEMMA SaveWriteTask ==
    ASSUME TypeInv, NEW p \in Procs, SaveWrite(p)
    PROVE  /\ \A q \in Procs \ {p} : pc'[q] = pc[q] /\ job'[q] = job[q]
           /\ \/ /\ pc'[p] = "idle" /\ job[p].op \in {"forward", "apply"}
              \/ /\ pc'[p] = "s_launch" /\ job[p].op = "start" /\ job'[p] = job[p]
              \/ /\ pc'[p] \in {"trunc", "disk"} /\ job[p].op \in {"create", "clone"}
                 /\ SameTask(job[p], job'[p]) /\ job'[p].rec = job[p].rec
                 /\ ~job'[p].fresh
  <1> USE DEF TypeInv, TypeOK
  <1>1. CASE /\ job' = [job EXCEPT ![p].params = FALSE, ![p].fresh = FALSE]
             /\ job[p].op = "create" /\ Goto(p, "trunc")
    <2>1. SameTask(job[p], job'[p])
      BY <1>1, JobEdits
    <2>2. job'[p].rec = job[p].rec /\ ~job'[p].fresh
      BY <1>1 DEF Job
    <2> QED
      BY <1>1, <2>1, <2>2 DEF Goto
  <1>2. CASE /\ job' = [job EXCEPT ![p].fresh = FALSE]
             /\ job[p].op \in {"create", "clone"} /\ Goto(p, "disk")
    <2>1. SameTask(job[p], job'[p])
      BY <1>2, JobEdits
    <2>2. job'[p].rec = job[p].rec /\ ~job'[p].fresh
      BY <1>2 DEF Job
    <2> QED
      BY <1>2, <2>1, <2>2 DEF Goto
  <1>3. CASE job[p].op = "start" /\ Goto(p, "s_launch") /\ UNCHANGED job
    BY <1>3 DEF Goto
  <1>4. CASE job[p].op \in {"forward", "apply"} /\ Return(p)
    BY <1>4 DEF Return
  <1> QED
    BY <1>1, <1>2, <1>3, <1>4, SaveWrite(p) DEF SaveWrite, AfterSave

LEMMA StartCheckTask ==
    ASSUME TypeInv, NEW p \in Procs, StartCheck(p)
    PROVE  /\ \A q \in Procs \ {p} : pc'[q] = pc[q] /\ job'[q] = job[q]
           /\ pc'[p] \in {"trunc", "s_launch"}
           /\ SameTask(job[p], job'[p])
  <1> USE DEF TypeInv, TypeOK
  <1>1. CASE job' = [job EXCEPT ![p].rec.inst = TRUE] /\ Goto(p, "trunc")
    BY <1>1, JobEdits DEF Goto
  <1>2. CASE UNCHANGED job /\ Goto(p, "s_launch")
    BY <1>2 DEF Goto, SameTask
  <1> QED
    BY <1>1, <1>2, StartCheck(p) DEF StartCheck

-----------------------------------------------------------------------------
(* A running VM keeps its disk *)

LEMMA DiskInvInit == Init => DiskInv
  BY DEF Init, DiskInv, RunningKeepsDisk

LEMMA DiskInvNext ==
    ASSUME ~Kills, TypeInv, LockInv, DiskInv, [Next]_vars
    PROVE  DiskInv'
  <1> USE NoProcAssumption, NoNameAssumption, OpsAssumption
          DEF TypeInv, TypeOK, Located, LockInv, Holds, Active, Steps, LockedOps,
              DiskInv, RunningKeepsDisk, NoJob, fileVars, diskVars, qemuVars
  <1>1. ASSUME NEW p \in Procs, NEW n \in Names, NEW params \in BOOLEAN, Create(p, n, params)
       PROVE  DiskInv'
    BY <1>1 DEF Create, Acquire, NewJob
  <1>2. ASSUME NEW p \in Procs, NEW n \in Names, NEW src \in Names, Clone(p, src, n)
       PROVE  DiskInv'
    BY <1>2 DEF Clone, Acquire, NewJob
  <1>3. ASSUME NEW p \in Procs, NEW n \in Names, Update(p, n)
       PROVE  DiskInv'
    BY <1>3 DEF Update, Acquire, NewJob
  <1>4. ASSUME NEW p \in Procs, NEW n \in Names, Destroy(p, n)
       PROVE  DiskInv'
    BY <1>4 DEF Destroy, Acquire, NewJob
  <1>5. ASSUME NEW p \in Procs, NEW n \in Names, Forward(p, n)
       PROVE  DiskInv'
    BY <1>5 DEF Forward, LoadUnlocked, NewJob, Goto
  <1>6. ASSUME NEW p \in Procs, NEW n \in Names, Start(p, n)
       PROVE  DiskInv'
    BY <1>6 DEF Start, LoadUnlocked, NewJob, Goto
  <1>7. ASSUME NEW p \in Procs, NEW n \in Names, Apply(p, n)
       PROVE  DiskInv'
    BY <1>7 DEF Apply, LoadUnlocked, NewJob, Goto
  <1>8. ASSUME NEW p \in Procs, Plan(p)
       PROVE  DiskInv'
    BY <1>8 DEF Plan, FreePorts, Goto
  <1>9. ASSUME NEW p \in Procs, PlanRefused(p)
       PROVE  DiskInv'
    BY <1>9 DEF PlanRefused, Return
  <1>10. ASSUME NEW p \in Procs, MakeDisk(p)
       PROVE  DiskInv'
    BY <1>10 DEF MakeDisk, Return
  <1>11. ASSUME NEW p \in Procs, CreateFails(p)
       PROVE  DiskInv'
    BY <1>11 DEF CreateFails, RemoveDir, Relink, Unlinked, Return
  <1>12. ASSUME NEW p \in Procs, SaveTruncate(p)
       PROVE  DiskInv'
    BY <1>12 DEF SaveTruncate, Goto
  <1>13. ASSUME NEW p \in Procs, SaveWrite(p)
       PROVE  DiskInv'
    <2>1. pc[p] = "write" /\ UNCHANGED <<vms, diskVars, qemuVars>>
      BY <1>13 DEF SaveWrite
    <2>2. \A q \in Procs \ {p} : pc'[q] = pc[q] /\ job'[q] = job[q]
      BY <1>13, SaveWriteTask
    <2>3. \/ pc'[p] \in {"idle", "s_launch"}
          \/ /\ pc'[p] \in {"trunc", "disk"} /\ job[p].op \in {"create", "clone"}
             /\ job'[p].name = job[p].name
      BY <1>13, SaveWriteTask DEF SameTask
    <2> QED
      BY <2>1, <2>2, <2>3
  <1>14. ASSUME NEW p \in Procs, SaveFails(p)
       PROVE  DiskInv'
    <2>1. CASE job[p].op = "create" /\ ~job[p].fresh
      BY <1>14, <2>1 DEF SaveFails, RemoveDir, Return
    <2>2. CASE ~(job[p].op = "create" /\ ~job[p].fresh)
      BY <1>14, <2>2 DEF SaveFails, Return
    <2> QED
      BY <2>1, <2>2
  <1>15. ASSUME NEW p \in Procs, UpdateLoad(p)
       PROVE  DiskInv'
    BY <1>15 DEF UpdateLoad, Goto
  <1>16. ASSUME NEW p \in Procs, UpdateCheck(p)
       PROVE  DiskInv'
    BY <1>16 DEF UpdateCheck, NewSSHPorts, Goto
  <1>17. ASSUME NEW p \in Procs, UpdateRefused(p)
       PROVE  DiskInv'
    BY <1>17 DEF UpdateRefused, Return
  <1>18. ASSUME NEW p \in Procs, UpdateBackup(p)
       PROVE  DiskInv'
    BY <1>18 DEF UpdateBackup, Relink, BackedUp, Goto
  <1>19. ASSUME NEW p \in Procs, UpdateInstall(p)
       PROVE  DiskInv'
    BY <1>19 DEF UpdateInstall, Relink, Unlinked, Return
  <1>20. ASSUME NEW p \in Procs, UpdateRollback(p)
       PROVE  DiskInv'
    BY <1>20 DEF UpdateRollback, Relink, RolledBack, Return
  <1>21. ASSUME NEW p \in Procs, DestroyCheck(p)
       PROVE  DiskInv'
    BY <1>21 DEF DestroyCheck, Goto
  <1>22. ASSUME NEW p \in Procs, DestroyRefused(p)
       PROVE  DiskInv'
    BY <1>22 DEF DestroyRefused, Return
  <1>23. ASSUME NEW p \in Procs, DestroyDelete(p)
       PROVE  DiskInv'
    BY <1>23 DEF DestroyDelete, RemoveDir, Relink, Unlinked, Return
  <1>24. ASSUME NEW p \in Procs, ForwardCheck(p)
       PROVE  DiskInv'
    BY <1>24 DEF ForwardCheck, Goto
  <1>25. ASSUME NEW p \in Procs, UnlockedFails(p)
       PROVE  DiskInv'
    BY <1>25 DEF UnlockedFails, Return
  <1>26. ASSUME NEW p \in Procs, ApplyDone(p)
       PROVE  DiskInv'
    BY <1>26 DEF ApplyDone, Goto
  <1>27. ASSUME NEW p \in Procs, StartLock(p)
       PROVE  DiskInv'
    BY <1>27 DEF StartLock
  <1>28. ASSUME NEW p \in Procs, StartCheck(p)
       PROVE  DiskInv'
    BY <1>28, StartCheckTask DEF StartCheck, SameTask
  <1>29. ASSUME NEW p \in Procs, StartRefused(p)
       PROVE  DiskInv'
    BY <1>29 DEF StartRefused, Return
  <1>30. ASSUME NEW p \in Procs, Launch(p)
       PROVE  DiskInv'
    BY <1>30 DEF Launch, Return
  <1>31. ASSUME NEW p \in Procs, Kill(p)
       PROVE  DiskInv'
    BY <1>31 DEF Kill, Relink, Orphaned, Close
  <1>32. ASSUME NEW p \in Procs, Restart(p)
       PROVE  DiskInv'
    BY <1>32 DEF Restart, Goto
  <1>33. ASSUME NEW n \in Names, QemuExits(n)
       PROVE  DiskInv'
    BY <1>33 DEF QemuExits
  <1>34. CASE UNCHANGED vars
    BY <1>34 DEF vars
  <1> HIDE DEF DiskInv
  <1> QED
    BY <1>1, <1>2, <1>3, <1>4, <1>5, <1>6, <1>7, <1>8, <1>9, <1>10, <1>11,
           <1>12, <1>13, <1>14, <1>15, <1>16, <1>17, <1>18, <1>19, <1>20,
           <1>21, <1>22, <1>23, <1>24, <1>25, <1>26, <1>27, <1>28, <1>29,
           <1>30, <1>31, <1>32, <1>33, <1>34, [Next]_vars DEF Next, Begin, Step

\* If no process is killed inside an operation, a running VM's disk is never
\* removed, by any operations in any order: Destroy's state check and its
\* RemoveAll, a failed Create's RemoveAll and Start's launch exclude each
\* other, and a name that Create finds free has no disk.
THEOREM RunningDiskStays == ASSUME ~Kills PROVE Spec => []RunningKeepsDisk
  <1>1. TypeInv /\ LockInv /\ DiskInv /\ [Next]_vars => (TypeInv /\ LockInv /\ DiskInv)'
    BY TypeInvNext, LockInvNext, DiskInvNext
  <1>2. DiskInv => RunningKeepsDisk
    BY DEF DiskInv
  <1> QED
    BY <1>1, <1>2, TypeInvInit, LockInvInit, DiskInvInit, PTL DEF Spec

-----------------------------------------------------------------------------
(* The operations that hold the flock throughout *)

\* One operation at a time: while a process is inside one, the others are not.
LEMMA Alone ==
    ASSUME Ops \subseteq LockedOps, TypeInv, LockInv, NEW p \in Procs, Active(p)
    PROVE  \A q \in Procs \ {p} : pc[q] \in {"idle", "killed"}
  BY DEF TypeInv, Located, LockInv, Holds, Active, LockedOps

LEMMA PortInvInit == Init => PortInv
  BY DEF Init, PortInv, SSHPortsDistinct

LEMMA PortInvNext ==
    ASSUME Ops \subseteq LockedOps, TypeInv, LockInv, PortInv, [Next]_vars
    PROVE  PortInv'
  <1> USE NoProcAssumption, NoNameAssumption, NoPortAssumption
          DEF TypeInv, TypeOK, Located, LockInv, Holds, Active, Steps, LockedOps,
              PortInv, SSHPortsDistinct, Differ, NoJob, Blank, fileVars, diskVars, qemuVars
  <1>1. ASSUME NEW p \in Procs, NEW n \in Names, NEW params \in BOOLEAN, Create(p, n, params)
       PROVE  PortInv'
    BY <1>1 DEF Create, Acquire, NewJob
  <1>2. ASSUME NEW p \in Procs, NEW n \in Names, NEW src \in Names, Clone(p, src, n)
       PROVE  PortInv'
    BY <1>2 DEF Clone, Acquire, NewJob
  <1>3. ASSUME NEW p \in Procs, NEW n \in Names, Update(p, n)
       PROVE  PortInv'
    BY <1>3 DEF Update, Acquire, NewJob
  <1>4. ASSUME NEW p \in Procs, NEW n \in Names, Destroy(p, n)
       PROVE  PortInv'
    BY <1>4 DEF Destroy, Acquire, NewJob
  <1>5. ASSUME NEW p \in Procs, NEW n \in Names, Forward(p, n)
       PROVE  PortInv'
    BY <1>5 DEF Forward, LoadUnlocked, NewJob, Goto
  <1>6. ASSUME NEW p \in Procs, NEW n \in Names, Start(p, n)
       PROVE  PortInv'
    BY <1>6 DEF Start, LoadUnlocked, NewJob, Goto
  <1>7. ASSUME NEW p \in Procs, NEW n \in Names, Apply(p, n)
       PROVE  PortInv'
    BY <1>7 DEF Apply, LoadUnlocked, NewJob, Goto
  <1>8. ASSUME NEW p \in Procs, Plan(p)
       PROVE  PortInv'
    BY <1>8 DEF Plan, FreePorts, Goto, ClaimedSSH
  <1>9. ASSUME NEW p \in Procs, PlanRefused(p)
       PROVE  PortInv'
    BY <1>9 DEF PlanRefused, Return
  <1>10. ASSUME NEW p \in Procs, MakeDisk(p)
       PROVE  PortInv'
    BY <1>10 DEF MakeDisk, Return
  <1>11. ASSUME NEW p \in Procs, CreateFails(p)
       PROVE  PortInv'
    BY <1>11 DEF CreateFails, RemoveDir, Relink, Unlinked, Return
  <1>12. ASSUME NEW p \in Procs, SaveTruncate(p)
       PROVE  PortInv'
    BY <1>12 DEF SaveTruncate, Goto
  <1>13. ASSUME NEW p \in Procs, SaveWrite(p)
       PROVE  PortInv'
    <2>1. pc[p] = "write" /\ \A q \in Procs \ {p} : pc'[q] \in {"idle", "killed"}
      BY <1>13, Alone, SaveWriteTask DEF SaveWrite
    <2>2. /\ pc'[p] \in {"trunc", "disk"}
          /\ job'[p].name = job[p].name /\ job'[p].rec = job[p].rec
      BY <1>13, <2>1, SaveWriteTask DEF SameTask
    <2>3. vms' = vms /\ \A m \in vms \ {job[p].name} : toml'[m] = toml[m]
      BY <1>13 DEF SaveWrite
    <2>4. job[p].name \in vms =>
            toml'[job[p].name] \in {toml[job[p].name], job[p].rec}
      BY <1>13 DEF SaveWrite
    <2>5. SSHPortsDistinct'
      BY <2>1, <2>3, <2>4
    <2> QED
      BY <2>1, <2>2, <2>3, <2>5
  <1>14. ASSUME NEW p \in Procs, SaveFails(p)
       PROVE  PortInv'
    BY <1>14 DEF SaveFails, RemoveDir, Relink, Unlinked, Close, Return
  <1>15. ASSUME NEW p \in Procs, UpdateLoad(p)
       PROVE  PortInv'
    BY <1>15 DEF UpdateLoad, Goto
  <1>16. ASSUME NEW p \in Procs, UpdateCheck(p)
       PROVE  PortInv'
    BY <1>16 DEF UpdateCheck, NewSSHPorts, Goto, ClaimedByOthers
  <1>17. ASSUME NEW p \in Procs, UpdateRefused(p)
       PROVE  PortInv'
    BY <1>17 DEF UpdateRefused, Return
  <1>18. ASSUME NEW p \in Procs, UpdateBackup(p)
       PROVE  PortInv'
    BY <1>18 DEF UpdateBackup, Relink, BackedUp, Goto
  <1>19. ASSUME NEW p \in Procs, UpdateInstall(p)
       PROVE  PortInv'
    <2>1. \A q \in Procs : pc'[q] \in {"idle", "killed"}
      BY <1>19, Alone DEF UpdateInstall, Return
    <2>2. SSHPortsDistinct'
      BY <1>19 DEF UpdateInstall
    <2> QED
      BY <2>1, <2>2
  <1>20. ASSUME NEW p \in Procs, UpdateRollback(p)
       PROVE  PortInv'
    <2>1. \A q \in Procs : pc'[q] \in {"idle", "killed"}
      BY <1>20, Alone DEF UpdateRollback, Return
    <2>2. SSHPortsDistinct'
      BY <1>20 DEF UpdateRollback
    <2> QED
      BY <2>1, <2>2
  <1>21. ASSUME NEW p \in Procs, DestroyCheck(p)
       PROVE  PortInv'
    BY <1>21 DEF DestroyCheck, Goto
  <1>22. ASSUME NEW p \in Procs, DestroyRefused(p)
       PROVE  PortInv'
    BY <1>22 DEF DestroyRefused, Return
  <1>23. ASSUME NEW p \in Procs, DestroyDelete(p)
       PROVE  PortInv'
    BY <1>23 DEF DestroyDelete, RemoveDir, Relink, Unlinked, Return
  <1>24. ASSUME NEW p \in Procs, ForwardCheck(p)
       PROVE  PortInv'
    BY <1>24 DEF ForwardCheck, Goto
  <1>25. ASSUME NEW p \in Procs, UnlockedFails(p)
       PROVE  PortInv'
    BY <1>25 DEF UnlockedFails, Return
  <1>26. ASSUME NEW p \in Procs, ApplyDone(p)
       PROVE  PortInv'
    BY <1>26 DEF ApplyDone, Goto
  <1>27. ASSUME NEW p \in Procs, StartLock(p)
       PROVE  PortInv'
    BY <1>27 DEF StartLock
  <1>28. ASSUME NEW p \in Procs, StartCheck(p)
       PROVE  PortInv'
    BY <1>28 DEF StartCheck
  <1>29. ASSUME NEW p \in Procs, StartRefused(p)
       PROVE  PortInv'
    BY <1>29 DEF StartRefused, Return
  <1>30. ASSUME NEW p \in Procs, Launch(p)
       PROVE  PortInv'
    BY <1>30 DEF Launch, Return
  <1>31. ASSUME NEW p \in Procs, Kill(p)
       PROVE  PortInv'
    BY <1>31 DEF Kill, Relink, Orphaned, Close
  <1>32. ASSUME NEW p \in Procs, Restart(p)
       PROVE  PortInv'
    BY <1>32 DEF Restart, Goto
  <1>33. ASSUME NEW n \in Names, QemuExits(n)
       PROVE  PortInv'
    BY <1>33 DEF QemuExits
  <1>34. CASE UNCHANGED vars
    BY <1>34 DEF vars
  <1> HIDE DEF PortInv
  <1> QED
    BY <1>1, <1>2, <1>3, <1>4, <1>5, <1>6, <1>7, <1>8, <1>9, <1>10, <1>11,
           <1>12, <1>13, <1>14, <1>15, <1>16, <1>17, <1>18, <1>19, <1>20,
           <1>21, <1>22, <1>23, <1>24, <1>25, <1>26, <1>27, <1>28, <1>29,
           <1>30, <1>31, <1>32, <1>33, <1>34, [Next]_vars DEF Next, Begin, Step

LEMMA CheckInvInit == Init => CheckInv
  BY DEF Init, CheckInv, NewNameStaysFree, CloneSourceStays, UpdateLosesNothing,
         LimitNotOvertaken

LEMMA CheckInvNext ==
    ASSUME Ops \subseteq LockedOps, TypeInv, LockInv, CheckInv, [Next]_vars
    PROVE  CheckInv'
  <1> USE NoProcAssumption, NoNameAssumption, NoPortAssumption
          DEF TypeInv, TypeOK, Located, LockInv, Holds, Active, Steps, LockedOps,
              CheckInv, NewNameStaysFree, CloneSourceStays, UpdateLosesNothing,
              LimitNotOvertaken, NoJob, Blank, fileVars, diskVars, qemuVars
  <1>1. ASSUME NEW p \in Procs, NEW n \in Names, NEW params \in BOOLEAN, Create(p, n, params)
       PROVE  CheckInv'
    BY <1>1 DEF Create, Acquire, NewJob
  <1>2. ASSUME NEW p \in Procs, NEW n \in Names, NEW src \in Names, Clone(p, src, n)
       PROVE  CheckInv'
    BY <1>2 DEF Clone, Acquire, NewJob
  <1>3. ASSUME NEW p \in Procs, NEW n \in Names, Update(p, n)
       PROVE  CheckInv'
    BY <1>3 DEF Update, Acquire, NewJob
  <1>4. ASSUME NEW p \in Procs, NEW n \in Names, Destroy(p, n)
       PROVE  CheckInv'
    BY <1>4 DEF Destroy, Acquire, NewJob
  <1>5. ASSUME NEW p \in Procs, NEW n \in Names, Forward(p, n)
       PROVE  CheckInv'
    BY <1>5 DEF Forward, LoadUnlocked, NewJob, Goto
  <1>6. ASSUME NEW p \in Procs, NEW n \in Names, Start(p, n)
       PROVE  CheckInv'
    BY <1>6 DEF Start, LoadUnlocked, NewJob, Goto
  <1>7. ASSUME NEW p \in Procs, NEW n \in Names, Apply(p, n)
       PROVE  CheckInv'
    BY <1>7 DEF Apply, LoadUnlocked, NewJob, Goto
  <1>8. ASSUME NEW p \in Procs, Plan(p)
       PROVE  CheckInv'
    <2>1. PICK r : job' = [job EXCEPT ![p].rec = r]
      BY <1>8 DEF Plan
    <2>2. /\ pc[p] = "plan" /\ pc' = [pc EXCEPT ![p] = "trunc"] /\ UNCHANGED vms
          /\ job[p].name \notin vms
          /\ job[p].op = "create" => ~LimitReached
          /\ job[p].op = "clone" => job[p].src \in vms
      BY <1>8 DEF Plan, Goto
    <2>3. \A o \in Procs \ {p} : pc'[o] \in {"idle", "killed"}
      BY <2>2, Alone
    <2>4. job[p] \in Job
      OBVIOUS
    <2>5. job'[p].name = job[p].name /\ job'[p].op = job[p].op /\ job'[p].src = job[p].src
      BY <2>1, <2>4 DEF Job
    <2>6. NewNameStaysFree' /\ CloneSourceStays' /\ UpdateLosesNothing'
      BY <2>2, <2>3, <2>5
    <2>7. LimitNotOvertaken'
      BY <2>2, <2>3, <2>5 DEF LimitReached
    <2> QED
      BY <2>2, <2>3, <2>6, <2>7
  <1>9. ASSUME NEW p \in Procs, PlanRefused(p)
       PROVE  CheckInv'
    BY <1>9 DEF PlanRefused, Return
  <1>10. ASSUME NEW p \in Procs, MakeDisk(p)
       PROVE  CheckInv'
    BY <1>10 DEF MakeDisk, Return
  <1>11. ASSUME NEW p \in Procs, CreateFails(p)
       PROVE  CheckInv'
    <2>1. \A q \in Procs : pc'[q] \in {"idle", "killed"}
      BY <1>11, Alone DEF CreateFails, Return
    <2> QED
      BY <2>1
  <1>12. ASSUME NEW p \in Procs, SaveTruncate(p)
       PROVE  CheckInv'
    BY <1>12 DEF SaveTruncate, Goto
  <1>13. ASSUME NEW p \in Procs, SaveWrite(p)
       PROVE  CheckInv'
    <2>1. pc[p] = "write" /\ \A q \in Procs \ {p} : pc'[q] \in {"idle", "killed"}
      BY <1>13, Alone, SaveWriteTask DEF SaveWrite
    <2>2. pc'[p] \in {"trunc", "disk"} /\ ~job'[p].fresh /\ SameTask(job[p], job'[p])
      BY <1>13, <2>1, SaveWriteTask
    <2>3. vms' = vms
      BY <1>13 DEF SaveWrite
    <2> QED
      BY <2>1, <2>2, <2>3 DEF SameTask
  <1>14. ASSUME NEW p \in Procs, SaveFails(p)
       PROVE  CheckInv'
    <2>1. \A q \in Procs : pc'[q] \in {"idle", "killed"}
      BY <1>14, Alone DEF SaveFails, Return
    <2> QED
      BY <2>1
  <1>15. ASSUME NEW p \in Procs, UpdateLoad(p)
       PROVE  CheckInv'
    BY <1>15 DEF UpdateLoad, Goto
  <1>16. ASSUME NEW p \in Procs, UpdateCheck(p)
       PROVE  CheckInv'
    <2>1. PICK q : job' = [job EXCEPT ![p].rec.ssh = q]
      BY <1>16 DEF UpdateCheck
    <2>2. /\ pc' = [pc EXCEPT ![p] = "u_backup"] /\ pc[p] = "u_check"
          /\ UNCHANGED <<vms, toml>>
      BY <1>16 DEF UpdateCheck, Goto
    <2>3. \A o \in Procs \ {p} : pc'[o] \in {"idle", "killed"}
      BY <2>2, Alone
    <2>4. job[p] \in Job /\ job[p].rec \in Record
      BY DEF Job
    <2>5. job'[p].name = job[p].name /\ job'[p].rec = [job[p].rec EXCEPT !.ssh = q]
      BY <2>1, <2>4 DEF Job
    <2>6. job[p].rec = [job'[p].rec EXCEPT !.ssh = job[p].rec.ssh]
      BY <2>4, <2>5 DEF Record
    <2>7. job[p].name \in vms /\ toml[job[p].name] = job[p].rec
      BY <2>2
    <2>8. /\ job'[p].name \in vms'
          /\ toml'[job'[p].name] = [job'[p].rec EXCEPT !.ssh = toml'[job'[p].name].ssh]
      BY <2>2, <2>5, <2>6, <2>7
    <2>9. \A o \in Procs : pc'[o] \notin {"trunc", "write", "disk", "u_check"}
      BY <2>2, <2>3
    <2>10. UpdateLosesNothing'
      BY <2>3, <2>8
    <2> QED
      BY <2>9, <2>10
  <1>17. ASSUME NEW p \in Procs, UpdateRefused(p)
       PROVE  CheckInv'
    BY <1>17 DEF UpdateRefused, Return
  <1>18. ASSUME NEW p \in Procs, UpdateBackup(p)
       PROVE  CheckInv'
    <2>1. pc[p] = "u_backup" /\ pc' = [pc EXCEPT ![p] = "u_install"]
      BY <1>18 DEF UpdateBackup, Goto
    <2>2. \A q \in Procs : pc'[q] \in {"u_install", "idle", "killed"}
      BY <2>1, Alone
    <2> QED
      BY <2>2
  <1>19. ASSUME NEW p \in Procs, UpdateInstall(p)
       PROVE  CheckInv'
    <2>1. \A q \in Procs : pc'[q] \in {"idle", "killed"}
      BY <1>19, Alone DEF UpdateInstall, Return
    <2> QED
      BY <2>1
  <1>20. ASSUME NEW p \in Procs, UpdateRollback(p)
       PROVE  CheckInv'
    <2>1. \A q \in Procs : pc'[q] \in {"idle", "killed"}
      BY <1>20, Alone DEF UpdateRollback, Return
    <2> QED
      BY <2>1
  <1>21. ASSUME NEW p \in Procs, DestroyCheck(p)
       PROVE  CheckInv'
    BY <1>21 DEF DestroyCheck, Goto
  <1>22. ASSUME NEW p \in Procs, DestroyRefused(p)
       PROVE  CheckInv'
    BY <1>22 DEF DestroyRefused, Return
  <1>23. ASSUME NEW p \in Procs, DestroyDelete(p)
       PROVE  CheckInv'
    <2>1. \A q \in Procs : pc'[q] \in {"idle", "killed"}
      BY <1>23, Alone DEF DestroyDelete, Return
    <2> QED
      BY <2>1
  <1>24. ASSUME NEW p \in Procs, ForwardCheck(p)
       PROVE  CheckInv'
    BY <1>24 DEF ForwardCheck, Goto
  <1>25. ASSUME NEW p \in Procs, UnlockedFails(p)
       PROVE  CheckInv'
    BY <1>25 DEF UnlockedFails, Return
  <1>26. ASSUME NEW p \in Procs, ApplyDone(p)
       PROVE  CheckInv'
    BY <1>26 DEF ApplyDone, Goto
  <1>27. ASSUME NEW p \in Procs, StartLock(p)
       PROVE  CheckInv'
    BY <1>27 DEF StartLock
  <1>28. ASSUME NEW p \in Procs, StartCheck(p)
       PROVE  CheckInv'
    BY <1>28 DEF StartCheck
  <1>29. ASSUME NEW p \in Procs, StartRefused(p)
       PROVE  CheckInv'
    BY <1>29 DEF StartRefused, Return
  <1>30. ASSUME NEW p \in Procs, Launch(p)
       PROVE  CheckInv'
    BY <1>30 DEF Launch, Return
  <1>31. ASSUME NEW p \in Procs, Kill(p)
       PROVE  CheckInv'
    BY <1>31 DEF Kill, Relink, Orphaned, Close
  <1>32. ASSUME NEW p \in Procs, Restart(p)
       PROVE  CheckInv'
    BY <1>32 DEF Restart, Goto
  <1>33. ASSUME NEW n \in Names, QemuExits(n)
       PROVE  CheckInv'
    BY <1>33 DEF QemuExits
  <1>34. CASE UNCHANGED vars
    BY <1>34 DEF vars
  <1> HIDE DEF CheckInv
  <1> QED
    BY <1>1, <1>2, <1>3, <1>4, <1>5, <1>6, <1>7, <1>8, <1>9, <1>10, <1>11,
           <1>12, <1>13, <1>14, <1>15, <1>16, <1>17, <1>18, <1>19, <1>20,
           <1>21, <1>22, <1>23, <1>24, <1>25, <1>26, <1>27, <1>28, <1>29,
           <1>30, <1>31, <1>32, <1>33, <1>34, [Next]_vars DEF Next, Begin, Step

LockedInv == TypeInv /\ LockInv /\ PortInv /\ CheckInv

LEMMA LockedInvariant == ASSUME Ops \subseteq LockedOps PROVE Spec => []LockedInv
  <1>1. Init => LockedInv
    BY TypeInvInit, LockInvInit, PortInvInit, CheckInvInit DEF LockedInv
  <1>2. LockedInv /\ [Next]_vars => LockedInv'
    BY TypeInvNext, LockInvNext, PortInvNext, CheckInvNext DEF LockedInv
  <1> QED
    BY <1>1, <1>2, PTL DEF Spec

\* Creates, clones, updates and destroys, any number of them, interleaved and
\* killed anywhere, never give two VMs the same ssh port.
THEOREM PortsStayDistinct ==
    ASSUME Ops \subseteq LockedOps PROVE Spec => []SSHPortsDistinct
  <1>1. LockedInv => SSHPortsDistinct
    BY DEF LockedInv, PortInv
  <1> QED
    BY <1>1, LockedInvariant, PTL

\* Between those operations' checks and their writes nothing they checked
\* changes: the name is still free, the record read is still the record, the
\* source of a clone is there until its overlay is made and the limit still
\* has room.
THEOREM ChecksHold == ASSUME Ops \subseteq LockedOps PROVE Spec => []ChecksStillHold
  <1>1. LockedInv => ChecksStillHold
    BY DEF LockedInv, CheckInv, ChecksStillHold
  <1> QED
    BY <1>1, LockedInvariant, PTL

-----------------------------------------------------------------------------
(* What a step may never do *)

LEMMA AddNext ==
    ASSUME Ops \subseteq LockedOps, TypeInv, [Next]_vars
    PROVE  AddStep
  <1> USE NoProcAssumption, NoNameAssumption
          DEF TypeInv, TypeOK, Located, Active, Steps, LockedOps, AddStep,
              fileVars, diskVars, qemuVars
  <1>1. ASSUME NEW p \in Procs, NEW n \in Names, NEW params \in BOOLEAN, Create(p, n, params)
       PROVE  AddStep
    BY <1>1 DEF Create, Acquire, NewJob
  <1>2. ASSUME NEW p \in Procs, NEW n \in Names, NEW src \in Names, Clone(p, src, n)
       PROVE  AddStep
    BY <1>2 DEF Clone, Acquire, NewJob
  <1>3. ASSUME NEW p \in Procs, NEW n \in Names, Update(p, n)
       PROVE  AddStep
    BY <1>3 DEF Update, Acquire, NewJob
  <1>4. ASSUME NEW p \in Procs, NEW n \in Names, Destroy(p, n)
       PROVE  AddStep
    BY <1>4 DEF Destroy, Acquire, NewJob
  <1>5. ASSUME NEW p \in Procs, NEW n \in Names, Forward(p, n)
       PROVE  AddStep
    BY <1>5 DEF Forward, LoadUnlocked, NewJob, Goto
  <1>6. ASSUME NEW p \in Procs, NEW n \in Names, Start(p, n)
       PROVE  AddStep
    BY <1>6 DEF Start, LoadUnlocked, NewJob, Goto
  <1>7. ASSUME NEW p \in Procs, NEW n \in Names, Apply(p, n)
       PROVE  AddStep
    BY <1>7 DEF Apply, LoadUnlocked, NewJob, Goto
  <1>8. ASSUME NEW p \in Procs, Plan(p)
       PROVE  AddStep
    BY <1>8 DEF Plan, FreePorts, Goto
  <1>9. ASSUME NEW p \in Procs, PlanRefused(p)
       PROVE  AddStep
    BY <1>9 DEF PlanRefused, Return
  <1>10. ASSUME NEW p \in Procs, MakeDisk(p)
       PROVE  AddStep
    BY <1>10 DEF MakeDisk, Return
  <1>11. ASSUME NEW p \in Procs, CreateFails(p)
       PROVE  AddStep
    BY <1>11 DEF CreateFails, RemoveDir, Relink, Unlinked, Return
  <1>12. ASSUME NEW p \in Procs, SaveTruncate(p)
       PROVE  AddStep
    BY <1>12 DEF SaveTruncate, Goto
  <1>13. ASSUME NEW p \in Procs, SaveWrite(p)
       PROVE  AddStep
    BY <1>13 DEF SaveWrite, Close, AfterSave, Goto, Return
  <1>14. ASSUME NEW p \in Procs, SaveFails(p)
       PROVE  AddStep
    BY <1>14 DEF SaveFails, RemoveDir, Relink, Unlinked, Close, Return
  <1>15. ASSUME NEW p \in Procs, UpdateLoad(p)
       PROVE  AddStep
    BY <1>15 DEF UpdateLoad, Goto
  <1>16. ASSUME NEW p \in Procs, UpdateCheck(p)
       PROVE  AddStep
    BY <1>16 DEF UpdateCheck, NewSSHPorts, Goto
  <1>17. ASSUME NEW p \in Procs, UpdateRefused(p)
       PROVE  AddStep
    BY <1>17 DEF UpdateRefused, Return
  <1>18. ASSUME NEW p \in Procs, UpdateBackup(p)
       PROVE  AddStep
    BY <1>18 DEF UpdateBackup, Relink, BackedUp, Goto
  <1>19. ASSUME NEW p \in Procs, UpdateInstall(p)
       PROVE  AddStep
    BY <1>19 DEF UpdateInstall, Relink, Unlinked, Return
  <1>20. ASSUME NEW p \in Procs, UpdateRollback(p)
       PROVE  AddStep
    BY <1>20 DEF UpdateRollback, Relink, RolledBack, Return
  <1>21. ASSUME NEW p \in Procs, DestroyCheck(p)
       PROVE  AddStep
    BY <1>21 DEF DestroyCheck, Goto
  <1>22. ASSUME NEW p \in Procs, DestroyRefused(p)
       PROVE  AddStep
    BY <1>22 DEF DestroyRefused, Return
  <1>23. ASSUME NEW p \in Procs, DestroyDelete(p)
       PROVE  AddStep
    BY <1>23 DEF DestroyDelete, RemoveDir, Relink, Unlinked, Return
  <1>24. ASSUME NEW p \in Procs, ForwardCheck(p)
       PROVE  AddStep
    BY <1>24 DEF ForwardCheck, Goto
  <1>25. ASSUME NEW p \in Procs, UnlockedFails(p)
       PROVE  AddStep
    BY <1>25 DEF UnlockedFails, Return
  <1>26. ASSUME NEW p \in Procs, ApplyDone(p)
       PROVE  AddStep
    BY <1>26 DEF ApplyDone, Goto
  <1>27. ASSUME NEW p \in Procs, StartLock(p)
       PROVE  AddStep
    BY <1>27 DEF StartLock
  <1>28. ASSUME NEW p \in Procs, StartCheck(p)
       PROVE  AddStep
    BY <1>28 DEF StartCheck, Goto
  <1>29. ASSUME NEW p \in Procs, StartRefused(p)
       PROVE  AddStep
    BY <1>29 DEF StartRefused, Return
  <1>30. ASSUME NEW p \in Procs, Launch(p)
       PROVE  AddStep
    BY <1>30 DEF Launch, Return
  <1>31. ASSUME NEW p \in Procs, Kill(p)
       PROVE  AddStep
    BY <1>31 DEF Kill, Relink, Orphaned, Close
  <1>32. ASSUME NEW p \in Procs, Restart(p)
       PROVE  AddStep
    BY <1>32 DEF Restart, Goto
  <1>33. ASSUME NEW n \in Names, QemuExits(n)
       PROVE  AddStep
    BY <1>33 DEF QemuExits
  <1>34. CASE UNCHANGED vars
    BY <1>34 DEF vars
  <1> HIDE DEF AddStep
  <1> QED
    BY <1>1, <1>2, <1>3, <1>4, <1>5, <1>6, <1>7, <1>8, <1>9, <1>10, <1>11,
           <1>12, <1>13, <1>14, <1>15, <1>16, <1>17, <1>18, <1>19, <1>20,
           <1>21, <1>22, <1>23, <1>24, <1>25, <1>26, <1>27, <1>28, <1>29,
           <1>30, <1>31, <1>32, <1>33, <1>34, [Next]_vars DEF Next, Begin, Step

\* The operations that hold the flock throughout bring no destroyed VM back.
THEOREM DestroyedStaysDestroyed ==
    ASSUME Ops \subseteq LockedOps PROVE Spec => OnlyCreateAddsVM
  <1>1. TypeInv /\ [Next]_vars => [AddStep]_vars
    BY AddNext
  <1> QED
    BY <1>1, TypeInvInit, TypeInvNext, PTL DEF Spec, OnlyCreateAddsVM
=============================================================================
