---------------------------- MODULE CommitUpdate ----------------------------
(***************************************************************************)
(* The last part of core.Update: the disk is grown, then commitUpdate      *)
(* stages the new vm.toml and secrets.toml in a temporary directory, moves *)
(* the old ones aside and renames the new ones in, undoing what it did     *)
(* when a step fails.  Any step may fail, and the process may be killed    *)
(* between any two.  The flock is held, so one update runs at a time.      *)
(***************************************************************************)
CONSTANT RollbackFails  \* whether a rename inside rollback may fail too

ASSUME RollbackAssumption == RollbackFails \in BOOLEAN

VARIABLES
    touched,  \* secretTouched: the edit changes secrets
    emptied,  \* the new secrets are empty, so SaveSecrets writes no file
    grow,     \* the edit grows the disk
    had,      \* what secrets.toml was before: "old" or "none"
    vm, sec,  \* vm.toml and secrets.toml: "old", "new" or "none"
    svm, ssec, bvm, bsec, \* staged files and backups in the stage directory
    disk,     \* the size of disk.qcow2, "old" or "new"
    flags,    \* vmHadOld, secretHadOld, vmInstalled, secretInstalled
    pc,       \* the next step
    reply     \* what Update returned

input == <<touched, emptied, grow, had>>
targets == <<vm, sec>>
stage == <<svm, ssec, bvm, bsec>>
vars == <<input, targets, stage, disk, flags, pc, reply>>

Flags == {"vmHadOld", "secretHadOld", "vmInstalled", "secretInstalled"}

Steps == {"resize", "stage", "probe", "stage_sec", "backup", "backup_sec",
          "install", "install_sec", "rb_rm_sec", "rb_rm_vm", "rb_sec", "rb_vm",
          "cleanup", "done", "killed"}

TypeOK ==
    /\ touched \in BOOLEAN /\ emptied \in BOOLEAN /\ grow \in BOOLEAN
    /\ had \in {"old", "none"}
    /\ vm \in {"old", "new", "none"} /\ sec \in {"old", "new", "none"}
    /\ svm \in {"new", "none"} /\ ssec \in {"new", "none"}
    /\ bvm \in {"old", "none"} /\ bsec \in {"old", "none"}
    /\ disk \in {"old", "new"}
    /\ flags \subseteq Flags
    /\ pc \in Steps
    /\ reply \in {"none", "ok", "err"}

Init ==
    /\ touched \in BOOLEAN /\ emptied \in BOOLEAN /\ grow \in BOOLEAN
    /\ had \in {"old", "none"}
    /\ vm = "old" /\ sec = had
    /\ svm = "none" /\ ssec = "none" /\ bvm = "none" /\ bsec = "none"
    /\ disk = "old"
    /\ flags = {}
    /\ pc = "resize"
    /\ reply = "none"

-----------------------------------------------------------------------------
\* Mutant: a failed qemu-img resize is only logged.
MutResizeIgnoresError ==
    /\ pc = "resize"
    /\ pc' = "stage" /\ disk' \in (IF grow THEN {"old", "new"} ELSE {disk})
    /\ UNCHANGED <<input, targets, stage, flags, reply>>

\* qemu-img resize, before anything is written.  A failure returns at once.
Resize ==
    /\ pc = "resize"
    /\ \/ pc' = "stage" /\ disk' = (IF grow THEN "new" ELSE disk) /\ UNCHANGED reply
       \/ grow /\ pc' = "done" /\ reply' = "err" /\ UNCHANGED disk
    /\ UNCHANGED <<input, targets, stage, flags>>

\* Before the first rename a failure needs no undoing: only the deferred
\* RemoveAll of the stage directory runs.
StageFails ==
    /\ pc \in {"stage", "probe", "stage_sec", "backup"}
    /\ pc' = "cleanup" /\ reply' = "err"
    /\ UNCHANGED <<input, targets, stage, disk, flags>>

StageVM ==
    /\ pc = "stage"
    /\ svm' = "new"
    /\ pc' = "probe"
    /\ UNCHANGED <<input, targets, ssec, bvm, bsec, disk, flags, reply>>

\* vm.toml must be there and writable, as a Save in place would need.
Probe ==
    /\ pc = "probe"
    /\ vm # "none"
    /\ pc' = "stage_sec"
    /\ UNCHANGED <<input, targets, stage, disk, flags, reply>>

StageSecrets ==
    /\ pc = "stage_sec"
    /\ ssec' = IF touched /\ ~emptied THEN "new" ELSE "none"
    /\ pc' = "backup"
    /\ UNCHANGED <<input, targets, svm, bvm, bsec, disk, flags, reply>>

\* Mutant: the old vm.toml is removed instead of moved aside.
MutBackupRemoves ==
    /\ pc = "backup"
    /\ bvm' = "none" /\ vm' = "none"
    /\ flags' = flags \cup {"vmHadOld"}
    /\ pc' = "backup_sec"
    /\ UNCHANGED <<input, sec, svm, ssec, bsec, disk, reply>>

Backup ==
    /\ pc = "backup"
    /\ bvm' = vm /\ vm' = "none"
    /\ flags' = flags \cup {"vmHadOld"}
    /\ pc' = "backup_sec"
    /\ UNCHANGED <<input, sec, svm, ssec, bsec, disk, reply>>

BackupSecrets ==
    /\ pc = "backup_sec"
    /\ IF touched /\ sec # "none"
       THEN bsec' = sec /\ sec' = "none" /\ flags' = flags \cup {"secretHadOld"}
       ELSE UNCHANGED <<bsec, sec, flags>>
    /\ pc' = "install"
    /\ UNCHANGED <<input, vm, svm, ssec, bvm, disk, reply>>

Install ==
    /\ pc = "install"
    /\ vm' = svm /\ svm' = "none"
    /\ flags' = flags \cup {"vmInstalled"}
    /\ pc' = "install_sec"
    /\ UNCHANGED <<input, sec, ssec, bvm, bsec, disk, reply>>

InstallSecrets ==
    /\ pc = "install_sec"
    /\ IF touched /\ ssec # "none"
       THEN sec' = ssec /\ ssec' = "none" /\ flags' = flags \cup {"secretInstalled"}
       ELSE UNCHANGED <<sec, ssec, flags>>
    /\ pc' = "cleanup" /\ reply' = "ok"
    /\ UNCHANGED <<input, vm, svm, bvm, bsec, disk>>

\* A rename, or the stat before it, failed: rollback() runs.
SwapFails ==
    /\ \/ pc = "install"
       \/ pc \in {"backup_sec", "install_sec"} /\ touched
    /\ pc' = "rb_rm_sec"
    /\ UNCHANGED <<input, targets, stage, disk, flags, reply>>

-----------------------------------------------------------------------------
(* rollback: remove what was installed, rename the backups back.  Its errors
   are dropped. *)

RollbackRemoveSecrets ==
    /\ pc = "rb_rm_sec"
    /\ sec' = IF "secretInstalled" \in flags THEN "none" ELSE sec
    /\ pc' = "rb_rm_vm"
    /\ UNCHANGED <<input, vm, stage, disk, flags, reply>>

RollbackRemoveVM ==
    /\ pc = "rb_rm_vm"
    /\ vm' = IF "vmInstalled" \in flags THEN "none" ELSE vm
    /\ pc' = "rb_sec"
    /\ UNCHANGED <<input, sec, stage, disk, flags, reply>>

\* Mutant: only vm.toml is restored.
MutRollbackVMOnly ==
    /\ pc = "rb_sec"
    /\ pc' = "rb_vm"
    /\ UNCHANGED <<input, targets, stage, disk, flags, reply>>

RollbackSecrets ==
    /\ pc = "rb_sec"
    /\ \/ /\ "secretHadOld" \in flags
          /\ sec' = bsec /\ bsec' = "none"
       \/ /\ "secretHadOld" \notin flags \/ RollbackFails
          /\ UNCHANGED <<sec, bsec>>
    /\ pc' = "rb_vm"
    /\ UNCHANGED <<input, vm, svm, ssec, bvm, disk, flags, reply>>

RollbackVM ==
    /\ pc = "rb_vm"
    /\ \/ /\ "vmHadOld" \in flags
          /\ vm' = bvm /\ bvm' = "none"
       \/ /\ "vmHadOld" \notin flags \/ RollbackFails
          /\ UNCHANGED <<vm, bvm>>
    /\ pc' = "cleanup" /\ reply' = "err"
    /\ UNCHANGED <<input, sec, svm, ssec, bsec, disk, flags>>

\* The deferred os.RemoveAll(stageDir), on every return.
Cleanup ==
    /\ pc = "cleanup"
    /\ svm' = "none" /\ ssec' = "none" /\ bvm' = "none" /\ bsec' = "none"
    /\ pc' = "done"
    /\ UNCHANGED <<input, targets, disk, flags, reply>>

\* The process dies: nothing more runs, not even the deferred call.
Kill ==
    /\ pc \notin {"done", "killed"}
    /\ pc' = "killed"
    /\ UNCHANGED <<input, targets, stage, disk, flags, reply>>

Next ==
    \/ Resize \/ StageFails \/ StageVM \/ Probe \/ StageSecrets
    \/ Backup \/ BackupSecrets \/ Install \/ InstallSecrets \/ SwapFails
    \/ RollbackRemoveSecrets \/ RollbackRemoveVM \/ RollbackSecrets \/ RollbackVM
    \/ Cleanup \/ Kill

Spec == Init /\ [][Next]_vars

-----------------------------------------------------------------------------
(* Properties *)

\* secrets.toml after a successful update.
Wanted == IF ~touched THEN had ELSE IF emptied THEN "none" ELSE "new"

\* The pair of files as Update's caller finds it once Update has returned;
\* while it runs, the flock keeps the other writers out.
Files == IF pc = "done" /\ reply = "ok" /\ vm = "new" /\ sec = Wanted THEN "new"
         ELSE IF pc # "done" \/ (vm = "old" /\ sec = had) THEN "old"
         ELSE "torn"

Reply == IF pc = "done" THEN reply ELSE "none"

Atomic == INSTANCE AtomicUpdate WITH files <- Files, reply <- Reply

\* Update is all or nothing over its two files: a failed step, whichever it
\* is, leaves both as they were ("a failure of the second replacement restores
\* the first", commitUpdate).
AllOrNothing == Atomic!Spec

\* The VM's configuration is never lost: at every moment, after a kill too,
\* the old or the new vm.toml is in place or in the stage directory.
RecordSurvives == vm # "none" \/ bvm # "none"

\* vm.toml never claims a disk larger than the one that exists, after a kill
\* or a failure too ("vm.toml still describes the disk that exists").
DiskNotOverstated == grow /\ vm = "new" => disk = "new"

\* Through failures and kills the VM keeps a record, and one that is true of
\* its disk.
RecordSound == RecordSurvives /\ DiskNotOverstated
=============================================================================
