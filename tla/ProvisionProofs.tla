-------------------------- MODULE ProvisionProofs --------------------------
(***************************************************************************)
(* What Provision's run checks on two appliers and two recipes, proved for *)
(* any number of them and any dependencies.                                *)
(*                                                                         *)
(* Two facts carry the proofs.  An applier past provision.lock is its      *)
(* holder (LockInv), so one run at a time works in the guest and writes    *)
(* the log.  And outside live mode a recipe that has run to its end in the *)
(* guest stays run (Ran): so the record, the copies of it that appliers    *)
(* loaded before the lock, cloud-init's markers and the part of a run that *)
(* is behind it all speak of recipes that did run (RecordInv, JobInv),     *)
(* however stale they are.                                                 *)
(***************************************************************************)
EXTENDS Provision, TLAPS

-----------------------------------------------------------------------------
(* The inductive invariant *)

\* cloud-init runs one entry at a time, of a seed made when it was taken up.
CloudInv ==
    /\ \A s, t \in scripts : s[1] = CloudInit /\ t[1] = CloudInit => s = t
    /\ \A s \in scripts : s[1] = CloudInit => CloudInitRunning
    /\ ci > 0 => \A r \in Recipes : seed[r] # 0
    /\ mode = "cloud" /\ up => ci > 0

LockInv == \A p \in Appliers : pc[p] \notin {"idle", "lock"} => lock = p

Past == {"next", "script", "record", "reboot", "reach", "health"}

\* Past its wait for cloud-init, a run never meets it again.
WaitInv ==
    \A p \in Appliers : pc[p] \in Past /\ mode = "cloud" => ci > Len(VMRecipes)

\* The log of a run that works in the guest is its own and not at its end.
LogInv ==
    \A p \in Appliers : pc[p] \in {"ssh", "ci", "next", "script"} => log # "done"

Ran(r) == mode = "live" \/ installed[r] # 0

RecordInv ==
    /\ \A r \in Recipes : applied[r].body # 0 => Ran(r)
    /\ \A r \in markers : Ran(r)

\* From the plan to the record: every dependency of what is kept is kept too or
\* on record, and what is behind the run has run.
Planned == {"open", "ssh", "ci", "next", "script", "record"}

JobInv(p) ==
    LET j == job[p] IN
    /\ \A r \in Recipes : j.v[r].body # 0 => Ran(r)
    /\ pc[p] \in Planned =>
         /\ \A r \in j.kept : \A d \in Depends[r] : d \in j.kept \/ j.v[d].body # 0
         /\ \A r \in j.kept \ j.todo : Ran(r)
         /\ j.todo \subseteq j.kept
    /\ pc[p] = "script" => j.cur \in j.todo /\ \A d \in Depends[j.cur] : Ran(d)
    /\ pc[p] = "record" => j.todo = {}

Inv ==
    /\ TypeOK /\ CloudInv /\ LockInv /\ WaitInv /\ LogInv /\ RecordInv
    /\ \A p \in Appliers : JobInv(p)

-----------------------------------------------------------------------------
(* Types *)

\* An idle job and an empty provision.lock have their types.
LEMMA NoJobType == NoJob \in Job /\ NothingApplied \in Applied
  BY BoundAssumption DEF NoJob, NothingApplied, Job, Applied, Bodies

\* The edits that steps make to a job.
LEMMA DueEdit ==
    ASSUME NEW j \in Job, NEW K \in SUBSET Recipes
    PROVE  /\ [j EXCEPT !.kept = K, !.todo = K] \in Job
           /\ [j EXCEPT !.kept = K, !.todo = K].v = j.v
           /\ [j EXCEPT !.kept = K, !.todo = K].only = j.only
           /\ [j EXCEPT !.kept = K, !.todo = K].kept = K
           /\ [j EXCEPT !.kept = K, !.todo = K].todo = K
  BY DEF Job

LEMMA CurEdit ==
    ASSUME NEW j \in Job, NEW r \in Recipes
    PROVE  /\ [j EXCEPT !.cur = r] \in Job
           /\ [j EXCEPT !.cur = r].v = j.v
           /\ [j EXCEPT !.cur = r].kept = j.kept
           /\ [j EXCEPT !.cur = r].todo = j.todo
           /\ [j EXCEPT !.cur = r].cur = r
  BY DEF Job

LEMMA TodoEdit ==
    ASSUME NEW j \in Job, NEW T \in SUBSET Recipes
    PROVE  /\ [j EXCEPT !.todo = T, !.cur = NoRecipe] \in Job
           /\ [j EXCEPT !.todo = T, !.cur = NoRecipe].v = j.v
           /\ [j EXCEPT !.todo = T, !.cur = NoRecipe].kept = j.kept
           /\ [j EXCEPT !.todo = T, !.cur = NoRecipe].todo = T
  BY DEF Job

LEMMA AppliedEdit ==
    ASSUME NEW j \in Job, NEW a \in Applied
    PROVE  /\ [j EXCEPT !.v = a] \in Job
           /\ [j EXCEPT !.v = a].v = a
           /\ [j EXCEPT !.v = a].kept = j.kept
           /\ [j EXCEPT !.v = a].todo = j.todo
  BY DEF Job

\* A script abandoned is gone, or an orphan; the scripts of the others stay.
LEMMA AbandonEffect ==
    ASSUME TypeOK, NEW p \in Appliers, Abandon(p)
    PROVE  /\ scripts' \subseteq (Appliers \cup {CloudInit, NoApplier}) \X Recipes \X (1 .. MaxBody)
           /\ \A s \in scripts' : s[1] # NoApplier => s \in scripts
  <1> DEFINE All == (Appliers \cup {CloudInit, NoApplier}) \X Recipes \X (1 .. MaxBody)
  <1>1. \A s \in scripts : s \in All /\ s[2] \in Recipes /\ s[3] \in 1 .. MaxBody
    BY DEF TypeOK
  <1>2. \A s \in scripts' : \/ s \in scripts
                            \/ \E t \in scripts : s = <<NoApplier, t[2], t[3]>>
    BY DEF Abandon
  <1>3. \A s \in scripts' : s \in All /\ (s[1] # NoApplier => s \in scripts)
    BY <1>1, <1>2
  <1> QED
    BY <1>3

\* No applier but p has moved on.
OthersStay(p) == \A q \in Appliers \ {p} : pc'[q] = pc[q] /\ job'[q] = job[q]

\* What the ways to leave a step do to p and to the others.
LEMMA GotoEffect ==
    ASSUME TypeOK, NEW p \in Appliers, NEW step \in Steps, Goto(p, step)
    PROVE  /\ pc' \in [Appliers -> Steps] /\ pc'[p] = step
           /\ \A q \in Appliers \ {p} : pc'[q] = pc[q]
  BY DEF TypeOK, Goto

\* What returning changes of the caller.
LEMMA ReturnEffect ==
    ASSUME TypeOK, NEW p \in Appliers, Return(p)
    PROVE  /\ pc' \in [Appliers -> Steps] /\ pc'[p] = "idle"
           /\ job' \in [Appliers -> Job] /\ job'[p] = NoJob
           /\ OthersStay(p)
           /\ lock' \in Appliers \cup {NoApplier}
           /\ lock' = IF lock = p THEN NoApplier ELSE lock
  BY NoJobType DEF TypeOK, Return, OthersStay, Steps

\* p's job is replaced.
LEMMA JobEffect ==
    ASSUME TypeOK, NEW p \in Appliers, NEW k \in Job, job' = [job EXCEPT ![p] = k]
    PROVE  /\ job' \in [Appliers -> Job] /\ job'[p] = k
           /\ \A q \in Appliers \ {p} : job'[q] = job[q]
  BY DEF TypeOK

\* The jobs after each of p's steps that go on.
LEMMA JobSteps ==
    ASSUME TypeOK, NEW p \in Appliers
    PROVE  /\ \A r \in Recipes : Script(p, r) => job' = [job EXCEPT ![p] = [job[p] EXCEPT !.cur = r]]
           /\ ScriptEnds(p) => job' = [job EXCEPT ![p] =
                 [job[p] EXCEPT !.todo = job[p].todo \ {job[p].cur}, !.cur = NoRecipe]]
           /\ \A K : job' = [job EXCEPT ![p].kept = K, ![p].todo = K]
                 => job' = [job EXCEPT ![p] = [job[p] EXCEPT !.kept = K, !.todo = K]]
           /\ \A a : job' = [job EXCEPT ![p].v = a]
                 => job' = [job EXCEPT ![p] = [job[p] EXCEPT !.v = a]]
  BY DEF TypeOK, Script, ScriptEnds

\* The invariant holds before anything runs.
LEMMA InitInv == Init => Inv
  <1> SUFFICES ASSUME Init PROVE Inv
    OBVIOUS
  <1>1. TypeOK
    <2>1. Len(VMRecipes) \in Nat /\ MaxBody \in Nat \ {0}
      BY RecipesAssumption, BoundAssumption
    <2>2. 0 \in 0 .. Len(VMRecipes) + 1 /\ 0 \in Bodies /\ 1 \in 1 .. MaxBody
      BY <2>1 DEF Bodies
    <2> QED
      BY <2>2, NoJobType DEF Init, TypeOK, Steps
  <1>2. CloudInv /\ LockInv /\ WaitInv /\ LogInv
    BY DEF Init, CloudInv, LockInv, WaitInv, LogInv, Past, CloudInitRunning
  <1>3. RecordInv /\ \A p \in Appliers : JobInv(p)
    BY DEF Init, RecordInv, JobInv, NoJob, NothingApplied, Planned
  <1> QED
    BY <1>1, <1>2, <1>3 DEF Inv

\* The guest's own steps.
Outside ==
    \/ Boot \/ GuestDown \/ CloudInitScript \/ CloudInitScriptEnds
    \/ \E r \in Recipes : Edit(r)
    \/ \E s \in scripts : OrphanEnds(s)

\* The steps outside the runs keep the types.
LEMMA TypeOutside ==
    ASSUME TypeOK, CloudInv, Outside
    PROVE  TypeOK'
  <1> USE DEF fixed, hostVars, guestVars
  <1>0. /\ VMRecipes \in Seq(Recipes) /\ Len(VMRecipes) \in Nat
        /\ MaxBody \in Nat \ {0}
        /\ \A s \in scripts : s[2] \in Recipes /\ s[3] \in 1 .. MaxBody /\ s[3] \in Bodies
    BY RecipesAssumption, BoundAssumption DEF TypeOK, Bodies
  <1>1. CASE Boot
    BY <1>0, <1>1 DEF Boot, TypeOK, Bodies
  <1>2. CASE GuestDown
    <2>1. ci' \in 0 .. Len(VMRecipes) + 1 /\ 0 \in Bodies
      BY <1>0, <1>2 DEF GuestDown, Bodies
    <2> QED
      BY <1>2, <2>1 DEF GuestDown, TypeOK
  <1>3. CASE CloudInitScript
    <2> DEFINE r == VMRecipes[ci]
    <2>1. r \in Recipes /\ seed[r] \in 1 .. MaxBody
      BY <1>0, <1>3 DEF CloudInitScript, CloudInitRunning, CloudInv, TypeOK, Bodies
    <2>2. <<CloudInit, r, seed[r]>> \in (Appliers \cup {CloudInit, NoApplier}) \X Recipes \X (1 .. MaxBody)
      BY <2>1
    <2> QED
      BY <1>3, <2>2 DEF CloudInitScript, TypeOK
  <1>4. CASE CloudInitScriptEnds
    <2>1. CloudInitRunning /\ ci + 1 \in 0 .. Len(VMRecipes) + 1
      BY <1>0, <1>4 DEF CloudInitScriptEnds, CloudInv, CloudInitRunning
    <2> QED
      BY <1>0, <1>4, <2>1 DEF CloudInitScriptEnds, TypeOK
  <1>5. ASSUME NEW r \in Recipes, Edit(r) PROVE TypeOK'
    BY <1>0, <1>5 DEF Edit, TypeOK
  <1>6. ASSUME NEW s \in scripts, OrphanEnds(s) PROVE TypeOK'
    BY <1>0, <1>6 DEF OrphanEnds, TypeOK
  <1> QED
    BY <1>1, <1>2, <1>3, <1>4, <1>5, <1>6 DEF Outside

\* The steps of a run keep the types.
LEMMA TypeStep ==
    ASSUME TypeOK, NEW p \in Appliers,
           Kill(p) \/ Step(p) \/ \E only \in SUBSET Recipes : Apply(p, only)
    PROVE  TypeOK' /\ OthersStay(p)
  <1> USE DEF fixed, hostVars, guestVars
  <1>0. /\ job[p] \in Job /\ MaxBody \in Nat \ {0} /\ job[p].v \in Applied
        /\ job[p].kept \subseteq Recipes /\ job[p].todo \subseteq Recipes
        /\ body \in [Recipes -> Bodies]
        /\ \A s \in scripts : s[2] \in Recipes /\ s[3] \in Bodies
    BY BoundAssumption DEF TypeOK, Bodies, Job
  <1>1. ASSUME NEW only \in SUBSET Recipes, Apply(p, only) PROVE TypeOK' /\ OthersStay(p)
    <2>1. [NoJob EXCEPT !.only = only, !.v = applied] \in Job
      BY NoJobType DEF Job, TypeOK
    <2> QED
      BY <1>1, <2>1 DEF Apply, Goto, TypeOK, Steps, OthersStay
  <1>2. CASE Lock(p) \/ OpenLog(p) \/ SSHReady(p) \/ CloudInitReady(p) \/ ProvisionDone(p)
             \/ Reboot(p) \/ Reach(p)
    BY <1>2 DEF Lock, OpenLog, SSHReady, CloudInitReady, ProvisionDone, Reboot, Reach,
                Goto, TypeOK, Steps, OthersStay
  <1>3. CASE Refused(p) \/ AfterRunFails(p)
    BY <1>3, ReturnEffect DEF Refused, AfterRunFails, TypeOK
  <1>4. CASE Kill(p) \/ ProvisionFails(p)
    BY <1>4, ReturnEffect, AbandonEffect DEF Kill, ProvisionFails, TypeOK
  <1>5. CASE DiscoverCloudInitApplied(p)
    <2>1. applied' \in Applied
      <3>1. \A r \in Recipes : (IF r \in markers THEN body[r] ELSE 0) \in Bodies
        BY <1>0 DEF Bodies
      <3>2. \/ applied' = applied
            \/ applied' = [r \in Recipes |->
                           [body |-> IF r \in markers THEN body[r] ELSE 0, health |-> "unknown"]]
        BY <1>5 DEF DiscoverCloudInitApplied
      <3> QED
        BY <3>1, <3>2 DEF TypeOK, Applied
    <2>2. job' = job \/ job' = [job EXCEPT ![p] = [job[p] EXCEPT !.v = applied']]
      BY <1>5, JobSteps DEF DiscoverCloudInitApplied
    <2>3. job' \in [Appliers -> Job] /\ \A q \in Appliers \ {p} : job'[q] = job[q]
      BY <1>0, <2>1, <2>2, AppliedEdit, JobEffect DEF TypeOK
    <2> QED
      BY <1>5, <2>1, <2>3 DEF DiscoverCloudInitApplied, Goto, TypeOK, Steps, OthersStay
  <1>6. CASE Plan(p)
    <2>1. CASE Return(p)
      BY <1>6, <2>1, ReturnEffect DEF Plan, TypeOK
    <2>2. CASE /\ job' = [job EXCEPT ![p].kept = Due(p), ![p].todo = Due(p)]
               /\ Goto(p, "open") /\ UNCHANGED lock
      <3>1. Due(p) \subseteq Recipes
        BY <1>0 DEF Due, Targets, Job
      <3>2. job' = [job EXCEPT ![p] = [job[p] EXCEPT !.kept = Due(p), !.todo = Due(p)]]
        BY <2>2, JobSteps
      <3>3. job' \in [Appliers -> Job] /\ \A q \in Appliers \ {p} : job'[q] = job[q]
        BY <1>0, <3>1, <3>2, DueEdit, JobEffect
      <3> QED
        BY <1>6, <2>2, <3>3 DEF Plan, Goto, TypeOK, Steps, OthersStay
    <2> QED
      BY <1>6, <2>1, <2>2 DEF Plan
  <1>7. ASSUME NEW r \in Recipes, Script(p, r) PROVE TypeOK' /\ OthersStay(p)
    <2>1. job' \in [Appliers -> Job] /\ \A q \in Appliers \ {p} : job'[q] = job[q]
      <3>1. [job[p] EXCEPT !.cur = r] \in Job
        BY <1>0, CurEdit
      <3>2. job' = [job EXCEPT ![p] = [job[p] EXCEPT !.cur = r]]
        BY <1>7, JobSteps
      <3> QED
        BY <3>1, <3>2, JobEffect
    <2>2. <<p, r, body[r]>> \in (Appliers \cup {CloudInit, NoApplier}) \X Recipes \X (1 .. MaxBody)
      BY DEF TypeOK
    <2> QED
      BY <1>7, <2>1, <2>2 DEF Script, Goto, TypeOK, Steps, OthersStay
  <1>8. CASE ScriptEnds(p)
    <2>1. job' \in [Appliers -> Job] /\ \A q \in Appliers \ {p} : job'[q] = job[q]
      <3>1. job[p].todo \ {job[p].cur} \in SUBSET Recipes
        BY <1>0
      <3>2. [job[p] EXCEPT !.todo = job[p].todo \ {job[p].cur}, !.cur = NoRecipe] \in Job
        BY <1>0, <3>1, TodoEdit
      <3> QED
        BY <1>8, <3>2, JobSteps, JobEffect
    <2> QED
      BY <1>0, <1>8, <2>1 DEF ScriptEnds, Goto, TypeOK, Steps, OthersStay
  <1>9. CASE Record(p)
    <2> DEFINE a == [r \in Recipes |-> IF r \in job[p].kept
                                       THEN [body |-> body[r], health |-> "unknown"]
                                       ELSE job[p].v[r]]
    <2>1. a \in Applied
      BY <1>0 DEF Applied
    <2>2. job' = [job EXCEPT ![p] = [job[p] EXCEPT !.v = a]]
      BY <1>9, JobSteps DEF Record
    <2> HIDE DEF a
    <2>3. job' \in [Appliers -> Job] /\ \A q \in Appliers \ {p} : job'[q] = job[q]
      BY <1>0, <2>1, <2>2, AppliedEdit, JobEffect
    <2> QED
      BY <1>9, <2>3 DEF Record, Goto, TypeOK, Steps, OthersStay
  <1>10. CASE Health(p)
    <2>1. PICK h \in healthChecksForVM(p) :
            applied' = [r \in Recipes |->
                          IF r \in DOMAIN h THEN [job[p].v[r] EXCEPT !.health = h[r]]
                          ELSE job[p].v[r]]
      BY <1>10 DEF Health
    <2>2. \A r \in DOMAIN h : h[r] \in {"unknown", "ok", "failed"}
      BY DEF healthChecksForVM
    <2>3. applied' \in Applied
      BY <1>0, <2>1, <2>2 DEF Applied
    <2> QED
      BY <1>10, <2>3, ReturnEffect DEF Health, TypeOK
  <1> QED
    BY <1>1, <1>2, <1>3, <1>4, <1>5, <1>6, <1>7, <1>8, <1>9, <1>10 DEF Step

-----------------------------------------------------------------------------
(* The invariant is inductive *)

\* A recipe that ran stays run: scripts have content, and only a live guest
\* forgets.
LEMMA RanStays ==
    ASSUME TypeOK, [Next]_vars, NEW r \in Recipes, Ran(r)
    PROVE  Ran(r)'
  <1>1. mode' = mode
    BY DEF Next, vars, Step, Boot, GuestDown, CloudInitScript, CloudInitScriptEnds, Edit,
           OrphanEnds, Kill, Apply, Lock, Refused, DiscoverCloudInitApplied, Plan, OpenLog,
           SSHReady, CloudInitReady, Script, ScriptEnds, ProvisionFails, ProvisionDone,
           Record, Reboot, Reach, AfterRunFails, Health, fixed
  <1>2. \A s \in scripts : s[3] # 0
    BY DEF TypeOK
  <1>3. \/ installed' = installed
        \/ \E s \in scripts : installed' = [installed EXCEPT ![s[2]] = s[3]]
        \/ mode = "live"
    BY DEF Next, vars, Step, Boot, GuestDown, CloudInitScript, CloudInitScriptEnds, Edit,
           OrphanEnds, Kill, Apply, Lock, Refused, DiscoverCloudInitApplied, Plan, OpenLog,
           SSHReady, CloudInitReady, Script, ScriptEnds, ProvisionFails, ProvisionDone,
           Record, Reboot, Reach, AfterRunFails, Health, guestVars
  <1> QED
    BY <1>1, <1>2, <1>3 DEF Ran, TypeOK

\* The steps outside the runs keep the invariant.
LEMMA InvOutside ==
    ASSUME Inv, Outside
    PROVE  Inv'
  <1>0. /\ TypeOK /\ CloudInv /\ TypeOK'
        /\ UNCHANGED <<mode, pc, job, lock, log, applied>>
        /\ Len(VMRecipes) \in Nat /\ MaxBody \in Nat \ {0}
    <2>1. TypeOK /\ CloudInv /\ TypeOK'
      BY TypeOutside DEF Inv
    <2>2. UNCHANGED <<mode, pc, job, lock, log, applied>>
      BY DEF Outside, Boot, GuestDown, CloudInitScript, CloudInitScriptEnds, Edit,
             OrphanEnds, fixed, hostVars
    <2>3. Len(VMRecipes) \in Nat /\ MaxBody \in Nat \ {0}
      BY RecipesAssumption, BoundAssumption
    <2> QED
      BY <2>1, <2>2, <2>3
  <1>r. \A r \in Recipes : Ran(r) => Ran(r)'
    BY <1>0, RanStays DEF Outside, Next
  <1>1. LockInv' /\ LogInv'
    BY <1>0 DEF Inv, LockInv, LogInv
  <1>2. CloudInv'
    <2>1. CASE Boot
      BY <1>0, <2>1 DEF Boot, CloudInv, CloudInitRunning, TypeOK
    <2>2. CASE GuestDown
      BY <1>0, <2>2 DEF GuestDown, CloudInv, CloudInitRunning, TypeOK
    <2>3. CASE CloudInitScript
      BY <1>0, <2>3 DEF CloudInitScript, CloudInv, CloudInitRunning, guestVars
    <2>4. CASE CloudInitScriptEnds
      <3>1. PICK s \in scripts : s[1] = CloudInit /\ scripts' = scripts \ {s}
        BY <2>4 DEF CloudInitScriptEnds
      <3>2. \A t \in scripts' : t \in scripts /\ t[1] # CloudInit
        BY <1>0, <3>1 DEF CloudInv
      <3>3. ci > 0
        BY <1>0, <3>1 DEF CloudInv, CloudInitRunning
      <3> QED
        BY <1>0, <2>4, <3>2, <3>3 DEF CloudInitScriptEnds, CloudInv, TypeOK
    <2>5. CASE (\E r \in Recipes : Edit(r)) \/ (\E s \in scripts : OrphanEnds(s))
      <3>1. scripts' \subseteq scripts /\ UNCHANGED <<mode, up, ci, seed>>
        BY <2>5 DEF Edit, OrphanEnds, guestVars, fixed
      <3> QED
        BY <1>0, <3>1 DEF CloudInv, CloudInitRunning
    <2> QED
      BY <2>1, <2>2, <2>3, <2>4, <2>5 DEF Outside
  <1>3. WaitInv'
    <2>1. mode = "cloud" /\ ci > Len(VMRecipes) => ci' > Len(VMRecipes)
      BY <1>0 DEF Outside, Boot, GuestDown, CloudInitScript, CloudInitScriptEnds, Edit,
                  OrphanEnds, guestVars, TypeOK
    <2> QED
      BY <1>0, <2>1 DEF Inv, WaitInv
  <1>4. RecordInv'
    <2>1. \A r \in markers' : r \in markers \/ installed'[r] # 0
      <3>1. CASE CloudInitScriptEnds
        <4>1. \A s \in scripts : s[2] \in Recipes /\ s[3] # 0
          BY <1>0 DEF TypeOK
        <4> QED
          BY <1>0, <3>1, <4>1 DEF CloudInitScriptEnds, TypeOK
      <3>2. CASE ~CloudInitScriptEnds
        BY <3>2 DEF Outside, Boot, GuestDown, CloudInitScript, Edit, OrphanEnds, guestVars
      <3> QED
        BY <3>1, <3>2
    <2>2. \A r \in markers' : Ran(r)'
      BY <1>0, <1>r, <2>1 DEF Inv, RecordInv, Ran, TypeOK
    <2> QED
      BY <1>0, <1>r, <2>2 DEF Inv, RecordInv
  <1>5. \A p \in Appliers : JobInv(p)'
    <2> SUFFICES ASSUME NEW p \in Appliers PROVE JobInv(p)'
      OBVIOUS
    <2>1. JobInv(p) /\ job[p] \in Job
      BY <1>0 DEF Inv, TypeOK
    <2>2. /\ job[p].kept \subseteq Recipes
          /\ job[p].cur \in Recipes => Depends[job[p].cur] \subseteq Recipes
          /\ job[p].todo \subseteq Recipes
      BY <2>1, RecipesAssumption DEF Job
    <2> QED
      BY <1>0, <1>r, <2>1, <2>2 DEF JobInv
  <1> QED
    BY <1>0, <1>1, <1>2, <1>3, <1>4, <1>5 DEF Inv

\* The appliers that stay where they are keep what they know.
LEMMA JobInvStays ==
    ASSUME Inv, [Next]_vars, NEW p \in Appliers, pc'[p] = pc[p], job'[p] = job[p]
    PROVE  JobInv(p)'
  <1>1. TypeOK /\ JobInv(p) /\ job[p] \in Job
    BY DEF Inv, TypeOK
  <1>2. \A r \in Recipes : Ran(r) => Ran(r)'
    BY <1>1, RanStays
  <1>3. /\ job[p].kept \subseteq Recipes
        /\ job[p].cur \in Recipes => Depends[job[p].cur] \subseteq Recipes
        /\ job[p].todo \subseteq Recipes
    BY <1>1, RecipesAssumption DEF Job
  <1> QED
    BY <1>1, <1>2, <1>3 DEF JobInv

\* cloud-init, the lock and the log through a step of an applier.
LEMMA RunStep ==
    ASSUME Inv, NEW p \in Appliers,
           Kill(p) \/ Step(p) \/ \E only \in SUBSET Recipes : Apply(p, only)
    PROVE  CloudInv' /\ LockInv' /\ WaitInv' /\ LogInv'
  <1>0. /\ TypeOK /\ TypeOK' /\ OthersStay(p)
        /\ CloudInv /\ LockInv /\ WaitInv /\ LogInv
        /\ UNCHANGED <<mode, up, ci, seed>> /\ Len(VMRecipes) \in Nat
    <2>1. TypeOK /\ CloudInv /\ LockInv /\ WaitInv /\ LogInv
      BY DEF Inv
    <2>2. TypeOK' /\ OthersStay(p)
      BY <2>1, TypeStep
    <2>3. UNCHANGED <<mode, up, ci, seed>>
      BY DEF Step, Kill, Apply, Lock, Refused, DiscoverCloudInitApplied, Plan, OpenLog,
             SSHReady, CloudInitReady, Script, ScriptEnds, ProvisionFails, ProvisionDone,
             Record, Reboot, Reach, AfterRunFails, Health, fixed, guestVars
    <2>4. Len(VMRecipes) \in Nat
      BY RecipesAssumption
    <2> QED
      BY <2>1, <2>2, <2>3, <2>4
  <1>1. \A s \in scripts' : s[1] = CloudInit => s \in scripts
    <2>1. CASE Kill(p) \/ ProvisionFails(p)
      BY <1>0, <2>1, AbandonEffect, NoneAssumption DEF Kill, ProvisionFails
    <2>2. CASE ~(Kill(p) \/ ProvisionFails(p))
      <3>1. \/ scripts' \subseteq scripts
            \/ \E r \in Recipes : scripts' = scripts \cup {<<p, r, body[r]>>}
        BY <2>2
        DEF Step, Apply, Lock, Refused, DiscoverCloudInitApplied, Plan, OpenLog, SSHReady,
            CloudInitReady, Script, ScriptEnds, ProvisionDone, Record, Reboot, Reach,
            AfterRunFails, Health
      <3> QED
        BY <3>1, NoneAssumption
    <2> QED
      BY <2>1, <2>2
  <1>2. CloudInv'
    BY <1>0, <1>1 DEF CloudInv, CloudInitRunning
  <1>3. /\ pc'[p] \notin {"idle", "lock"} => lock' = p
        /\ lock' # lock => lock \in {p, NoApplier}
    <2>1. CASE Lock(p)
      BY <1>0, <2>1 DEF Lock
    <2>2. CASE /\ pc'[p] = "idle" /\ lock' = IF lock = p THEN NoApplier ELSE lock
      BY <2>2
    <2>3. CASE \E only \in SUBSET Recipes : Apply(p, only)
      BY <1>0, <2>3 DEF Apply, Goto, TypeOK
    <2>4. CASE lock' = lock /\ pc[p] \notin {"idle", "lock"}
      BY <1>0, <2>4 DEF LockInv
    <2>5. ASSUME Return(p)
          PROVE  pc'[p] = "idle" /\ lock' = IF lock = p THEN NoApplier ELSE lock
      BY <1>0, <2>5, ReturnEffect
    <2> QED
      BY <2>1, <2>2, <2>3, <2>4, <2>5
      DEF Step, Kill, Refused, DiscoverCloudInitApplied, Plan, OpenLog, SSHReady,
          CloudInitReady, Script, ScriptEnds, ProvisionFails, ProvisionDone, Record,
          Reboot, Reach, AfterRunFails, Health
  <1>4. LockInv'
    BY <1>0, <1>3, NoneAssumption DEF LockInv, OthersStay
  <1>5. WaitInv'
    <2>1. pc'[p] \in Past => pc[p] \in Past \/ CloudInitReady(p)
      <3>1. Return(p) => pc'[p] = "idle"
        BY <1>0, ReturnEffect
      <3> QED
        BY <1>0, <3>1
        DEF Step, Kill, Apply, Lock, Refused, DiscoverCloudInitApplied, Plan, OpenLog,
            SSHReady, Script, ScriptEnds, ProvisionFails, ProvisionDone, Record, Reboot,
            Reach, AfterRunFails, Health, Goto, Past, TypeOK
    <2>2. CloudInitReady(p) /\ mode = "cloud" => ci > Len(VMRecipes)
      BY <1>0 DEF CloudInitReady, CloudInv, CloudInitRunning, TypeOK
    <2> QED
      BY <1>0, <2>1, <2>2 DEF WaitInv, OthersStay
  <1>6. LogInv'
    <2> DEFINE In == {"ssh", "ci", "next", "script"}
    <2>1. log' = "done" => log = "done" \/ ProvisionDone(p)
      BY DEF Step, Kill, Apply, Lock, Refused, DiscoverCloudInitApplied, Plan, OpenLog,
             SSHReady, CloudInitReady, Script, ScriptEnds, ProvisionFails, Record, Reboot,
             Reach, AfterRunFails, Health, hostVars
    <2>2. pc'[p] \in In => log' # "done"
      <3>1. Return(p) => pc'[p] = "idle"
        BY <1>0, ReturnEffect
      <3> QED
        BY <1>0, <3>1
        DEF Step, Kill, Apply, Lock, Refused, DiscoverCloudInitApplied, Plan, OpenLog,
            SSHReady, CloudInitReady, Script, ScriptEnds, ProvisionFails, ProvisionDone,
            Record, Reboot, Reach, AfterRunFails, Health, Goto, TypeOK, LogInv, hostVars
    <2>3. \A q \in Appliers \ {p} : pc[q] \in In => ~ProvisionDone(p)
      BY <1>0 DEF ProvisionDone, LockInv
    <2> QED
      BY <1>0, <2>1, <2>2, <2>3 DEF LogInv, OthersStay
  <1> QED
    BY <1>2, <1>4, <1>5, <1>6

\* The record and the jobs through a step of an applier.
LEMMA RecordStep ==
    ASSUME Inv, NEW p \in Appliers,
           Kill(p) \/ Step(p) \/ \E only \in SUBSET Recipes : Apply(p, only)
    PROVE  RecordInv' /\ JobInv(p)'
  <1> DEFINE j == job[p]
  <1>0. /\ TypeOK /\ TypeOK' /\ RecordInv /\ JobInv(p) /\ j \in Job
        /\ \A r \in Recipes : Ran(r) => Ran(r)'
    <2>1. TypeOK /\ RecordInv /\ JobInv(p) /\ j \in Job
      BY DEF Inv, TypeOK
    <2>2. Next
      BY DEF Next
    <2> QED
      BY <2>1, <2>2, TypeStep, RanStays
  <1>t. /\ j.v \in Applied /\ j.kept \subseteq Recipes /\ j.todo \subseteq Recipes
        /\ Depends \in [Recipes -> SUBSET Recipes] /\ markers' = markers
        /\ markers \subseteq Recipes
    <2>1. markers' = markers
      BY DEF Step, Kill, Apply, Lock, Refused, DiscoverCloudInitApplied, Plan, OpenLog,
             SSHReady, CloudInitReady, Script, ScriptEnds, ProvisionFails, ProvisionDone,
             Record, Reboot, Reach, AfterRunFails, Health, guestVars
    <2> QED
      BY <1>0, <2>1, RecipesAssumption DEF Job, TypeOK
  <1>a. applied' = applied => RecordInv'
    BY <1>0, <1>t DEF RecordInv
  <1>b. Return(p) => JobInv(p)'
    <2> HAVE Return(p)
    <2>1. pc'[p] = "idle" /\ job'[p] = NoJob
      BY <1>0, ReturnEffect
    <2>2. \A r \in Recipes : job'[p].v[r].body = 0
      BY <2>1 DEF NoJob, NothingApplied
    <2> QED
      BY <2>1, <2>2 DEF JobInv, Planned
  \* A step that leaves the job as it is.
  <1>c. ASSUME job' = job, pc'[p] \in Planned => pc[p] \in Planned,
               pc'[p] # "script", pc'[p] = "record" => j.todo = {}
        PROVE  JobInv(p)'
    BY <1>0, <1>t, <1>c DEF JobInv
  <1>1. ASSUME NEW only \in SUBSET Recipes, Apply(p, only) PROVE RecordInv' /\ JobInv(p)'
    <2>1. job' = [job EXCEPT ![p] = [NoJob EXCEPT !.only = only, !.v = applied]]
          /\ pc'[p] = "lock" /\ applied' = applied
      BY <1>0, <1>1 DEF Apply, Goto, TypeOK, hostVars
    <2>2. job'[p].v = applied
      BY <1>0, <2>1 DEF NoJob, TypeOK
    <2> QED
      BY <1>0, <1>a, <2>1, <2>2 DEF JobInv, RecordInv, Planned
  <1>2. CASE Lock(p) \/ OpenLog(p) \/ SSHReady(p) \/ CloudInitReady(p) \/ ProvisionDone(p)
             \/ Reboot(p) \/ Reach(p)
    <2>1. /\ job' = job /\ applied' = applied
          /\ pc'[p] \in Planned => pc[p] \in Planned
          /\ pc'[p] # "script" /\ (pc'[p] = "record" => j.todo = {})
      BY <1>0, <1>2
      DEF Lock, OpenLog, SSHReady, CloudInitReady, ProvisionDone, Reboot, Reach, Goto,
          TypeOK, Planned, hostVars
    <2> QED
      BY <1>a, <1>c, <2>1
  <1>3. CASE Refused(p) \/ AfterRunFails(p) \/ Kill(p) \/ ProvisionFails(p)
    BY <1>3, <1>a, <1>b DEF Refused, AfterRunFails, Kill, ProvisionFails, hostVars
  <1>4. CASE DiscoverCloudInitApplied(p)
    <2>1. pc'[p] = "plan"
      BY <1>0, <1>4 DEF DiscoverCloudInitApplied, Goto, TypeOK
    <2>2. CASE UNCHANGED <<applied, job>>
      BY <1>a, <1>c, <2>1, <2>2 DEF Planned
    <2>3. CASE /\ applied' = [r \in Recipes |->
                                [body |-> IF r \in markers THEN body[r] ELSE 0,
                                 health |-> "unknown"]]
               /\ job' = [job EXCEPT ![p].v = applied']
      <3>1. \A r \in Recipes : applied'[r].body # 0 => r \in markers
        BY <2>3
      <3>2. RecordInv'
        BY <1>0, <1>t, <3>1 DEF RecordInv
      <3>3. job'[p].v = applied'
        <4>1. job' = [job EXCEPT ![p] = [job[p] EXCEPT !.v = applied']]
          BY <1>0, <2>3, JobSteps
        <4>2. applied' \in Applied
          BY <1>0 DEF TypeOK
        <4>3. [job[p] EXCEPT !.v = applied'] \in Job /\ [job[p] EXCEPT !.v = applied'].v = applied'
          BY <1>0, <4>2, AppliedEdit
        <4> QED
          BY <1>0, <4>1, <4>3, JobEffect
      <3> QED
        BY <2>1, <3>2, <3>3 DEF JobInv, RecordInv, Planned
    <2> QED
      BY <1>4, <2>2, <2>3 DEF DiscoverCloudInitApplied
  <1>5. CASE Plan(p)
    <2>1. applied' = applied
      BY <1>5 DEF Plan, hostVars
    <2>2. CASE /\ job' = [job EXCEPT ![p].kept = Due(p), ![p].todo = Due(p)]
               /\ Goto(p, "open")
      <3> DEFINE K == Due(p)
      <3>1. K \subseteq Recipes
        BY <1>0 DEF Due, Targets, Job
      <3>2. \A r \in K : \A d \in Depends[r] : d \in K \/ j.v[d].body # 0
        BY <1>5 DEF Plan, Satisfied
      <3>3. job' = [job EXCEPT ![p] = [job[p] EXCEPT !.kept = K, !.todo = K]]
        BY <1>0, <2>2, JobSteps
      <3> HIDE DEF K
      <3>4. job'[p].v = j.v /\ job'[p].kept = K /\ job'[p].todo = K /\ pc'[p] = "open"
        <4> DEFINE k == [job[p] EXCEPT !.kept = K, !.todo = K]
        <4>1. k \in Job /\ k.v = j.v /\ k.kept = K /\ k.todo = K
          BY <1>0, <3>1 DEF Job
        <4>2. job'[p] = k
          BY <1>0, <3>3, <4>1, JobEffect
        <4> QED
          BY <1>0, <2>2, <4>1, <4>2 DEF TypeOK, Goto
      <3> QED
        BY <1>0, <1>a, <2>1, <3>2, <3>4 DEF JobInv, Planned
    <2> QED
      BY <1>5, <1>a, <1>b, <2>1, <2>2 DEF Plan
  <1>6. ASSUME NEW r \in Recipes, Script(p, r) PROVE RecordInv' /\ JobInv(p)'
    <2>1. applied' = applied /\ pc'[p] = "script" /\ pc[p] = "next" /\ r \in j.todo
          /\ Depends[r] \cap j.todo = {}
      BY <1>0, <1>6 DEF Script, Goto, TypeOK, hostVars
    <2>2. /\ job'[p].v = j.v /\ job'[p].kept = j.kept /\ job'[p].todo = j.todo
          /\ job'[p].cur = r
      <3>1. job' = [job EXCEPT ![p] = [job[p] EXCEPT !.cur = r]]
        BY <1>0, <1>6, JobSteps
      <3> QED
        BY <1>0, <3>1, CurEdit DEF TypeOK
    <2>3. \A d \in Depends[r] : d \in Recipes /\ Ran(d)
      BY <1>0, <1>t, <2>1 DEF JobInv, Planned
    <2> QED
      BY <1>0, <1>t, <1>a, <2>1, <2>2, <2>3 DEF JobInv, Planned
  <1>7. CASE ScriptEnds(p)
    <2>1. applied' = applied /\ pc'[p] = "next" /\ pc[p] = "script"
      BY <1>0, <1>7 DEF ScriptEnds, Goto, TypeOK, hostVars
    <2>2. job'[p].v = j.v /\ job'[p].kept = j.kept /\ job'[p].todo = j.todo \ {j.cur}
      <3>1. job' = [job EXCEPT ![p] =
              [job[p] EXCEPT !.todo = job[p].todo \ {job[p].cur}, !.cur = NoRecipe]]
        BY <1>0, <1>7, JobSteps
      <3>2. j.todo \ {j.cur} \in SUBSET Recipes
        BY <1>t
      <3> DEFINE k == [job[p] EXCEPT !.todo = job[p].todo \ {job[p].cur}, !.cur = NoRecipe]
      <3>3. k \in Job /\ k.v = j.v /\ k.kept = j.kept /\ k.todo = j.todo \ {j.cur}
        BY <1>0, <3>2 DEF Job
      <3>4. job'[p] = k
        BY <1>0, <3>1, <3>3, JobEffect
      <3> QED
        BY <3>3, <3>4
    <2>3. installed'[j.cur] # 0
      <3>1. PICK s \in scripts : s[2] = j.cur /\ installed' = [installed EXCEPT ![s[2]] = s[3]]
        BY <1>7 DEF ScriptEnds
      <3>2. s[2] \in Recipes /\ s[3] # 0
        BY <1>0 DEF TypeOK
      <3> QED
        BY <1>0, <3>1, <3>2 DEF TypeOK
    <2>4. \A r \in j.kept \ (j.todo \ {j.cur}) : Ran(r)'
      BY <1>0, <1>t, <2>1, <2>3 DEF JobInv, Planned, Ran
    <2> QED
      BY <1>0, <1>t, <1>a, <2>1, <2>2, <2>4 DEF JobInv, Planned
  <1>8. CASE Record(p)
    <2> DEFINE a == [r \in Recipes |-> IF r \in j.kept
                                       THEN [body |-> body[r], health |-> "unknown"]
                                       ELSE j.v[r]]
    <2>1. applied' = applied /\ pc'[p] \in {"reboot", "health"} /\ pc[p] = "record"
      BY <1>0, <1>8 DEF Record, Goto, TypeOK, hostVars
    <2>2. \A r \in Recipes : a[r].body # 0 => Ran(r)
      BY <1>0, <2>1 DEF JobInv, Planned
    <2>3. a \in Applied
      <3>1. body \in [Recipes -> Bodies]
        BY <1>0, BoundAssumption DEF TypeOK, Bodies
      <3> QED
        BY <1>t, <3>1 DEF Applied
    <2>4. job' = [job EXCEPT ![p] = [job[p] EXCEPT !.v = a]]
      BY <1>0, <1>8, JobSteps DEF Record
    <2> HIDE DEF a
    <2>5. job'[p].v = a
      <3>1. [job[p] EXCEPT !.v = a] \in Job /\ [job[p] EXCEPT !.v = a].v = a
        BY <1>0, <2>3, AppliedEdit
      <3> QED
        BY <1>0, <2>4, <3>1, JobEffect
    <2> QED
      BY <1>0, <1>a, <2>1, <2>2, <2>5 DEF JobInv, Planned
  <1>9. CASE Health(p)
    <2>1. \A r \in Recipes : applied'[r].body = j.v[r].body
      BY <1>t, <1>9 DEF Health, Applied
    <2>2. RecordInv'
      BY <1>0, <1>t, <2>1 DEF RecordInv, JobInv
    <2> QED
      BY <1>9, <1>b, <2>2 DEF Health
  <1> QED
    BY <1>1, <1>2, <1>3, <1>4, <1>5, <1>6, <1>7, <1>8, <1>9 DEF Step

\* Every step keeps it.
LEMMA InvNext == Inv /\ [Next]_vars => Inv'
  <1> SUFFICES ASSUME Inv, [Next]_vars PROVE Inv'
    OBVIOUS
  <1>1. CASE Outside
    BY <1>1, InvOutside
  <1>2. ASSUME NEW p \in Appliers,
               Kill(p) \/ Step(p) \/ \E only \in SUBSET Recipes : Apply(p, only)
        PROVE  Inv'
    <2>1. TypeOK' /\ OthersStay(p)
      BY <1>2, TypeStep DEF Inv
    <2>2. CloudInv' /\ LockInv' /\ WaitInv' /\ LogInv'
      BY <1>2, RunStep
    <2>3. RecordInv' /\ JobInv(p)'
      BY <1>2, RecordStep
    <2>4. \A q \in Appliers \ {p} : JobInv(q)'
      BY <2>1, JobInvStays DEF OthersStay
    <2> QED
      BY <2>1, <2>2, <2>3, <2>4 DEF Inv
  <1>3. CASE UNCHANGED vars
    BY <1>3 DEF vars, Inv, TypeOK, CloudInv, CloudInitRunning, LockInv, WaitInv, LogInv,
                RecordInv, JobInv, Ran
  <1> QED
    BY <1>1, <1>2, <1>3 DEF Next, Outside

\* So it always holds.
LEMMA InvHolds == Spec => []Inv
  BY InitInv, InvNext, PTL DEF Spec

-----------------------------------------------------------------------------
(* The theorems *)

\* The types of the variables; in particular cloud-init never leaves its list.
THEOREM TypeCorrect == Spec => []TypeOK
  <1>1. Inv => TypeOK
    BY DEF Inv
  <1> QED
    BY <1>1, InvHolds, PTL

\* OneRunAtATime: provision.lock and the wait for cloud-init keep every two
\* runs, and every run and cloud-init, apart -- through kills and reboots.
THEOREM RunsExclude == Spec => []OneRunAtATime
  <1>1. Inv => OneRunAtATime
    <2> SUFFICES ASSUME Inv PROVE OneRunAtATime
      OBVIOUS
    <2>1. \A p, q \in Attended : p = q
      BY DEF Inv, LockInv, Attended
    <2>2. \A p \in Attended : mode = "cloud" => ci > Len(VMRecipes)
      BY DEF Inv, WaitInv, Attended, Past
    <2>3. Len(VMRecipes) \in Nat /\ ci \in Nat
      BY RecipesAssumption DEF Inv, TypeOK
    <2> QED
      BY <2>1, <2>2, <2>3 DEF OneRunAtATime, CloudInitRunning
  <1> QED
    BY <1>1, InvHolds, PTL

\* DependenciesMet: outside live mode, whose guest forgets what ran in it, a
\* script never starts before the recipes it depends on have run to their end.
THEOREM DependenciesStayMet ==
    ASSUME "live" \notin Modes
    PROVE  Spec => []DependenciesMet
  <1>1. Inv => DependenciesMet
    BY DEF Inv, TypeOK, JobInv, Ran, DependenciesMet, Attended
  <1> QED
    BY <1>1, InvHolds, PTL

\* ReportsAreTrue: outside live mode what is on record has run to its end in
\* the guest, and a log that says "done" is that of a run that is over.
THEOREM ReportsStayTrue ==
    ASSUME "live" \notin Modes
    PROVE  Spec => []ReportsAreTrue
  <1>1. Inv => ReportsAreTrue
    <2>1. Inv => RecordedRan
      BY DEF Inv, TypeOK, RecordInv, Ran, RecordedRan
    <2>2. Inv => DoneIsDone
      BY DEF Inv, LogInv, DoneIsDone, Attended
    <2> QED
      BY <2>1, <2>2 DEF ReportsAreTrue
  <1> QED
    BY <1>1, InvHolds, PTL
=============================================================================
