----------------------------- MODULE Provision -----------------------------
(***************************************************************************)
(* Applying a VM's recipes.  core.Apply loads the VM's record, takes the   *)
(* VM's provision.lock without waiting, decides which recipes are due,     *)
(* runs their scripts in the guest over ssh, writes last-provision.log as  *)
(* it goes, reboots the guest when a recipe asks for it, checks health and *)
(* only then saves what it applied.  Beside it the guest's cloud-init runs *)
(* the same recipes at first boot, the guest may go down, the recipe files *)
(* may be edited and stoat may be killed.                                  *)
(*                                                                         *)
(* Of a recipe's script, its content is a number: 0 is "never ran", and an *)
(* edit makes the next one.  RecipePlan has the ordering of a run in full. *)
(***************************************************************************)
EXTENDS Naturals, Sequences, FiniteSets

CONSTANTS
    Appliers,    \* stoat processes that call Apply
    Recipes,     \* the recipes of the VM
    VMRecipes,   \* v.Recipes: the same, in the order the user listed them
    Depends,     \* the recipes each recipe's manifest names in depends
    Reboots,     \* the recipes with reboot = true
    Checked,     \* the recipes that declare a health check
    Modes,       \* the modes the VM may have been created in
    RunModes,    \* the run modes the recipes' manifests may declare
    MaxBody,     \* bound: how often a script is edited, plus one
    MaxOrphans,  \* bound: the scripts nobody waits for that go on in the guest
    NoApplier, NoRecipe,
    CloudInit    \* the guest's cloud-init, as the owner of a script

ASSUME NoneAssumption ==
    /\ NoApplier \notin Appliers /\ NoRecipe \notin Recipes
    /\ CloudInit \notin Appliers \cup {NoApplier}
ASSUME RecipesAssumption ==
    /\ VMRecipes \in Seq(Recipes)
    /\ Depends \in [Recipes -> SUBSET Recipes]
    /\ Reboots \subseteq Recipes /\ Checked \subseteq Recipes
ASSUME BoundAssumption == MaxBody \in Nat \ {0} /\ MaxOrphans \in Nat
ASSUME ModesAssumption ==
    /\ Modes \subseteq {"disk", "cloud", "live"}
    /\ RunModes \subseteq [Recipes -> {"once", "always", "manual"}]

VARIABLES
    mode,      \* cloud (the cloudinit backend), disk or live (another one)
    run,       \* the run mode in each recipe's manifest
    body,      \* the script of each recipe, as it is on the host
    up,        \* the guest is running and its sshd answers
    seed,      \* the scripts in the cloud-init seed, made at the first start
    ci,        \* the next runcmd entry of cloud-init; 0 before the first boot
    scripts,   \* the scripts running in the guest: <<owner, recipe, body>>;
               \* NoApplier owns the orphans
    installed, \* the script that last ran to its end in the guest
    markers,   \* the marker files cloud-init's entries left
    lock,      \* the holder of provision.lock, or NoApplier
    log,       \* the last line of last-provision.log
    applied,   \* [applied] of vm.toml: the script and the health on record
    pc, job    \* the step each applier is at, and its work

vars == <<mode, run, body, up, seed, ci, scripts, installed, markers, lock, log,
          applied, pc, job>>
guestVars == <<up, seed, ci, installed, markers>>
hostVars == <<log, applied>>
fixed == <<mode, run>>

Bodies == 0 .. MaxBody
Applied == [Recipes -> [body : Bodies, health : {"unknown", "ok", "failed"}]]
NothingApplied == [r \in Recipes |-> [body |-> 0, health |-> "unknown"]]

Job == [only : SUBSET Recipes,   \* ApplyOpts.Only
        v : Applied,             \* v.Applied, as loaded and then as changed
        kept : SUBSET Recipes,   \* runTargets
        todo : SUBSET Recipes,   \* those of them still to run
        cur : Recipes \cup {NoRecipe}]

NoJob == [only |-> {}, v |-> NothingApplied, kept |-> {}, todo |-> {}, cur |-> NoRecipe]

Steps == {"idle", "lock", "discover", "plan", "open", "ssh", "ci", "next", "script",
          "record", "reboot", "reach", "health"}

TypeOK ==
    /\ mode \in Modes
    /\ run \in RunModes
    /\ body \in [Recipes -> 1 .. MaxBody]
    /\ up \in BOOLEAN
    /\ seed \in [Recipes -> Bodies]
    /\ ci \in 0 .. Len(VMRecipes) + 1
    /\ scripts \subseteq (Appliers \cup {CloudInit, NoApplier}) \X Recipes \X (1 .. MaxBody)
    /\ installed \in [Recipes -> Bodies]
    /\ markers \subseteq Recipes
    /\ lock \in Appliers \cup {NoApplier}
    /\ log \in {"none", "running", "failed", "done", "rebooting"}
    /\ applied \in Applied
    /\ pc \in [Appliers -> Steps]
    /\ job \in [Appliers -> Job]

Init ==
    /\ mode \in Modes
    /\ run \in RunModes
    /\ body = [r \in Recipes |-> 1]
    /\ up = FALSE /\ ci = 0 /\ scripts = {}
    /\ seed = [r \in Recipes |-> 0]
    /\ installed = [r \in Recipes |-> 0]
    /\ markers = {}
    /\ lock = NoApplier
    /\ log = "none"
    /\ applied = NothingApplied
    /\ pc = [p \in Appliers |-> "idle"]
    /\ job = [p \in Appliers |-> NoJob]

-----------------------------------------------------------------------------
(* The guest *)

\* The guest boots.  A cloud VM's first start makes the seed (Prepare), from
\* all of v.Recipes, and cloud-init takes it up.
Boot ==
    /\ ~up
    /\ up' = TRUE
    /\ \/ mode = "cloud" /\ ci = 0 /\ ci' = 1 /\ seed' = body
       \/ ~(mode = "cloud" /\ ci = 0) /\ UNCHANGED <<ci, seed>>
    /\ UNCHANGED <<fixed, body, scripts, installed, markers, lock, hostVars, pc, job>>

\* The guest powers off, crashes or is stopped: what runs in it is gone.
\* cloud-init does not take up a runcmd list it had begun; a live root is RAM.
GuestDown ==
    /\ up
    /\ up' = FALSE
    /\ ci' = IF ci > 0 THEN Len(VMRecipes) + 1 ELSE 0
    /\ scripts' = {}
    /\ installed' = IF mode = "live" THEN [r \in Recipes |-> 0] ELSE installed
    /\ markers' = IF mode = "live" THEN {} ELSE markers
    /\ UNCHANGED <<fixed, body, seed, lock, hostVars, pc, job>>

CloudInitRunning == ci \in 1 .. Len(VMRecipes)

\* The seed's runcmd entries run one after the other, in v.Recipes order and
\* whatever their run mode.
CloudInitScript ==
    /\ up /\ CloudInitRunning
    /\ \A s \in scripts : s[1] # CloudInit
    /\ scripts' = scripts \cup {<<CloudInit, VMRecipes[ci], seed[VMRecipes[ci]]>>}
    /\ UNCHANGED <<fixed, body, guestVars, lock, hostVars, pc, job>>

\* An entry ends.  It leaves its marker only when the script succeeded; the
\* next entry runs either way.
CloudInitScriptEnds ==
    /\ \E s \in scripts :
         /\ s[1] = CloudInit
         /\ scripts' = scripts \ {s}
         /\ \/ /\ installed' = [installed EXCEPT ![s[2]] = s[3]]
               /\ markers' = markers \cup {s[2]}
            \/ UNCHANGED <<installed, markers>>
    /\ ci' = ci + 1
    /\ UNCHANGED <<fixed, body, up, seed, lock, hostVars, pc, job>>

\* The user, or an update of the recipe package, changes a script.
Edit(r) ==
    /\ body[r] < MaxBody
    /\ body' = [body EXCEPT ![r] = @ + 1]
    /\ UNCHANGED <<fixed, guestVars, scripts, lock, hostVars, pc, job>>

-----------------------------------------------------------------------------
(* core.Apply up to the run: load, lock, discover, plan *)

Goto(p, step) == pc' = [pc EXCEPT ![p] = step]

\* Apply returns; the deferred unlock releases provision.lock.
Return(p) ==
    /\ lock' = IF lock = p THEN NoApplier ELSE lock
    /\ pc' = [pc EXCEPT ![p] = "idle"]
    /\ job' = [job EXCEPT ![p] = NoJob]

\* load(name), before the lock.
Apply(p, only) ==
    /\ pc[p] = "idle"
    /\ job' = [job EXCEPT ![p] = [NoJob EXCEPT !.only = only, !.v = applied]]
    /\ Goto(p, "lock")
    /\ UNCHANGED <<fixed, body, guestVars, scripts, lock, hostVars>>

\* Mutant: ErrWouldBlock is taken for success.
MutLockShared(p) ==
    /\ pc[p] = "lock"
    /\ lock' = p
    /\ Goto(p, "discover")
    /\ UNCHANGED <<fixed, body, guestVars, scripts, hostVars, job>>

\* A non-blocking flock on provision.lock.
Lock(p) ==
    /\ pc[p] = "lock"
    /\ lock = NoApplier
    /\ lock' = p
    /\ Goto(p, "discover")
    /\ UNCHANGED <<fixed, body, guestVars, scripts, hostVars, job>>

\* ErrProvisionInProgress, ErrNotRunning, a recipe without manifest, a lock
\* file out of date, a cycle or a dependency that nothing satisfies, a log that
\* cannot be created.
Refused(p) ==
    /\ \/ pc[p] = "lock" /\ lock # NoApplier
       \/ pc[p] \in {"discover", "plan", "open"}
    /\ Return(p)
    /\ UNCHANGED <<fixed, body, guestVars, scripts, hostVars>>

\* A cloud VM with nothing on record: the markers cloud-init left are recorded
\* under the scripts as they are now, and saved.  An ssh error finds nothing.
DiscoverCloudInitApplied(p) ==
    /\ pc[p] = "discover"
    /\ up
    /\ \/ /\ mode = "cloud" /\ markers # {}
          /\ \A r \in Recipes : job[p].v[r].body = 0
          /\ applied' = [r \in Recipes |->
                           [body |-> IF r \in markers THEN body[r] ELSE 0,
                            health |-> "unknown"]]
          /\ job' = [job EXCEPT ![p].v = applied']
       \/ UNCHANGED <<applied, job>>
    /\ Goto(p, "plan")
    /\ UNCHANGED <<fixed, body, guestVars, scripts, lock, log>>

\* resolveTargets: the recipes named, or all of them.
Targets(p) == IF job[p].only = {} THEN Recipes ELSE job[p].only

\* The targets planRecipes decides to run.
Due(p) ==
    {r \in Targets(p) :
        CASE run[r] = "manual" -> r \in job[p].only
          [] run[r] = "once"   -> job[p].v[r].body # body[r]
          [] run[r] = "always" -> TRUE}

\* A set of targets in which each one waits for another of them.
Cyclic(T) == \E S \in SUBSET T : S # {} /\ \A r \in S : Depends[r] \cap S # {}

\* Mutant: a dependency among the targets counts as met, whether it is due or
\* has ever run.
MutSatisfiedByTarget(p, r) ==
    \A d \in Depends[r] : d \in Targets(p) \/ job[p].v[d].body # 0

\* Every dependency of r runs earlier in this run or is on record.
Satisfied(p, r) == \A d \in Depends[r] : d \in Due(p) \/ job[p].v[d].body # 0

\* Mutant: what is kept is recorded before the run.
MutPlanRecords(p) ==
    /\ pc[p] = "plan"
    /\ ~Cyclic(Targets(p))
    /\ \A r \in Due(p) : Satisfied(p, r)
    /\ Due(p) # {}
    /\ job' = [job EXCEPT ![p].kept = Due(p), ![p].todo = Due(p)]
    /\ applied' = [r \in Recipes |-> IF r \in Due(p) THEN [body |-> body[r], health |-> "unknown"]
                                     ELSE job[p].v[r]]
    /\ Goto(p, "open")
    /\ UNCHANGED <<fixed, body, guestVars, scripts, log, lock>>

\* filterByRunMode; nothing due is a success without a run.
Plan(p) ==
    /\ pc[p] = "plan"
    /\ ~Cyclic(Targets(p))
    /\ \A r \in Due(p) : Satisfied(p, r)
    /\ \/ /\ Due(p) = {}
          /\ Return(p)
       \/ /\ Due(p) # {}
          /\ job' = [job EXCEPT ![p].kept = Due(p), ![p].todo = Due(p)]
          /\ Goto(p, "open")
          /\ UNCHANGED lock
    /\ UNCHANGED <<fixed, body, guestVars, scripts, hostVars>>

-----------------------------------------------------------------------------
(* sshx.Provision *)

\* os.Create truncates the log of the run before.
OpenLog(p) ==
    /\ pc[p] = "open"
    /\ log' = "running"
    /\ Goto(p, "ssh")
    /\ UNCHANGED <<fixed, body, guestVars, scripts, lock, applied, job>>

SSHReady(p) ==
    /\ pc[p] = "ssh"
    /\ up
    /\ Goto(p, "ci")
    /\ UNCHANGED <<fixed, body, guestVars, scripts, lock, hostVars, job>>

\* Mutant: no wait for cloud-init.
MutCloudInitIgnored(p) ==
    /\ pc[p] = "ci"
    /\ Goto(p, "next")
    /\ UNCHANGED <<fixed, body, guestVars, scripts, lock, hostVars, job>>

\* waitCloudInit polls until cloud-init reports done.
CloudInitReady(p) ==
    /\ pc[p] = "ci"
    /\ mode = "cloud" => up /\ ~CloudInitRunning
    /\ Goto(p, "next")
    /\ UNCHANGED <<fixed, body, guestVars, scripts, lock, hostVars, job>>

\* The next script is read from the recipe's directory and sent over ssh.  The
\* run's order puts a recipe after those it depends on.
Script(p, r) ==
    /\ pc[p] = "next"
    /\ up
    /\ r \in job[p].todo
    /\ Depends[r] \cap job[p].todo = {}
    /\ scripts' = scripts \cup {<<p, r, body[r]>>}
    /\ job' = [job EXCEPT ![p].cur = r]
    /\ Goto(p, "script")
    /\ UNCHANGED <<fixed, body, guestVars, lock, hostVars>>

ScriptEnds(p) ==
    /\ pc[p] = "script"
    /\ \E s \in scripts :
         /\ s[1] = p /\ s[2] = job[p].cur
         /\ scripts' = scripts \ {s}
         /\ installed' = [installed EXCEPT ![s[2]] = s[3]]
    /\ job' = [job EXCEPT ![p].todo = @ \ {job[p].cur}, ![p].cur = NoRecipe]
    /\ Goto(p, "next")
    /\ UNCHANGED <<fixed, body, up, seed, ci, markers, lock, hostVars>>

\* p no longer waits for its script, which ends with its ssh or goes on in the
\* guest.
Abandon(p) ==
    LET others == {s \in scripts : s[1] # p}
        orphans == {<<NoApplier, s[2], s[3]>> : s \in scripts \ others}
    IN  \/ scripts' = others
        \/ /\ Cardinality({s \in scripts : s[1] = NoApplier}) < MaxOrphans
           /\ scripts' = others \cup orphans

\* "FAILED: ..." or "CANCELLED: ...": no ssh, cloud-init in error, a script or
\* its outputs failing, ctx cancelled; no line when the log cannot be flushed.
\* Nothing is saved.
ProvisionFails(p) ==
    /\ pc[p] \in {"ssh", "ci", "next", "script"}
    /\ Abandon(p)
    /\ \/ log' = "failed"
       \/ pc[p] = "script" /\ UNCHANGED log
    /\ Return(p)
    /\ UNCHANGED <<fixed, body, guestVars, applied>>

\* A script nobody waits for any more comes to its end.
OrphanEnds(s) ==
    /\ s[1] = NoApplier
    /\ scripts' = scripts \ {s}
    /\ installed' = [installed EXCEPT ![s[2]] = s[3]]
    /\ UNCHANGED <<fixed, body, up, seed, ci, markers, lock, hostVars, pc, job>>

\* The last line of a run that succeeded.
ProvisionDone(p) ==
    /\ pc[p] = "next"
    /\ job[p].todo = {}
    /\ log' = "done"
    /\ Goto(p, "record")
    /\ UNCHANGED <<fixed, body, guestVars, scripts, lock, applied, job>>

-----------------------------------------------------------------------------
(* applyLocked after the run: record, reboot, health, save *)

\* The hashes recorded are those of the scripts as they are now.  One recipe
\* that asks for it reboots a disk VM.
Record(p) ==
    /\ pc[p] = "record"
    /\ job' = [job EXCEPT ![p].v =
                 [r \in Recipes |-> IF r \in job[p].kept
                                    THEN [body |-> body[r], health |-> "unknown"]
                                    ELSE job[p].v[r]]]
    /\ Goto(p, IF mode = "disk" /\ job[p].kept \cap Reboots # {} THEN "reboot" ELSE "health")
    /\ UNCHANGED <<fixed, body, guestVars, scripts, lock, hostVars>>

\* rebootAndWait logs the reboot and sends it; ssh's error is not looked at.
Reboot(p) ==
    /\ pc[p] = "reboot"
    /\ log' = "rebooting"
    /\ scripts' \in {{}, scripts}
    /\ Goto(p, "reach")
    /\ UNCHANGED <<fixed, body, guestVars, lock, applied, job>>

\* waitReachable polls the guest's sshd.
Reach(p) ==
    /\ pc[p] = "reach"
    /\ up
    /\ Goto(p, "health")
    /\ UNCHANGED <<fixed, body, guestVars, scripts, lock, hostVars, job>>

\* The guest did not come back, a hash could not be computed, or ctx ended:
\* the recipes ran and nothing of it is saved.
AfterRunFails(p) ==
    /\ pc[p] \in {"record", "reach"}
    /\ Return(p)
    /\ UNCHANGED <<fixed, body, guestVars, scripts, log, applied>>

\* Each recipe of the run that declares a check gets a verdict, "unknown" when
\* ctx ended before it.
healthChecksForVM(p) == [job[p].kept \cap Checked -> {"unknown", "ok", "failed"}]

\* The verdicts, then Save, of the record that was loaded before the lock, and
\* an error when a check failed.
Health(p) ==
    /\ pc[p] = "health"
    /\ \E h \in healthChecksForVM(p) :
         applied' = [r \in Recipes |->
                       IF r \in DOMAIN h THEN [job[p].v[r] EXCEPT !.health = h[r]]
                       ELSE job[p].v[r]]
    /\ Return(p)
    /\ UNCHANGED <<fixed, body, guestVars, scripts, log>>

\* stoat is killed: the kernel drops provision.lock.
Kill(p) ==
    /\ pc[p] # "idle"
    /\ Abandon(p)
    /\ Return(p)
    /\ UNCHANGED <<fixed, body, guestVars, hostVars>>

Step(p) ==
    \/ Lock(p) \/ Refused(p) \/ DiscoverCloudInitApplied(p) \/ Plan(p)
    \/ OpenLog(p) \/ SSHReady(p) \/ CloudInitReady(p)
    \/ \E r \in Recipes : Script(p, r)
    \/ ScriptEnds(p) \/ ProvisionFails(p) \/ ProvisionDone(p)
    \/ Record(p) \/ Reboot(p) \/ Reach(p) \/ AfterRunFails(p) \/ Health(p)

Next ==
    \/ Boot \/ GuestDown \/ CloudInitScript \/ CloudInitScriptEnds
    \/ \E r \in Recipes : Edit(r)
    \/ \E s \in scripts : OrphanEnds(s)
    \/ \E p \in Appliers : Kill(p) \/ Step(p) \/ \E only \in SUBSET Recipes : Apply(p, only)

Spec == Init /\ [][Next]_vars

-----------------------------------------------------------------------------
(* Properties *)

\* Those whose script runs in the guest and who wait for it.
Attended == {p \in Appliers : pc[p] = "script"}

\* Two runs never work in one guest at a time, nor does a run while cloud-init
\* does: both would "start apk and race on its database lock" (Apply,
\* provision.lock; waitCloudInit).
OneRunAtATime ==
    /\ \A p, q \in Attended : p = q
    /\ \A p \in Attended : mode = "cloud" => ~CloudInitRunning

\* A script Apply starts finds every recipe it depends on run to its end in
\* this guest, in this run or before: through failed runs, kills, stale copies
\* of the record and edits ("rather than run the dependent against an unmet
\* one", filterByRunMode).
DependenciesMet ==
    \A p \in Attended : \A d \in Depends[job[p].cur] : installed[d] # 0

\* A recipe on record as applied has run to its end in the guest: a failed,
\* cancelled or killed run, or one whose guest did not come back, records none.
RecordedRan == \A r \in Recipes : applied[r].body # 0 => installed[r] # 0

\* A log that ends in "done" is that of a run that is over: wait --until applied
\* never returns while a script of the run, or of a later one, still runs.
DoneIsDone == log = "done" => Attended = {}

\* Neither the record nor the log is ahead of the guest.
ReportsAreTrue == RecordedRan /\ DoneIsDone

\* What waitApplied polls for.
AppliedSeen ==
    IF mode = "cloud" THEN \A r \in Recipes : applied[r].body # 0 ELSE log = "done"

\* Once a run has succeeded and is saved, wait --until applied returns ("the
\* most recent recipe run having finished successfully").
AppliedIsSeen ==
    [][\A p \in Appliers :
         /\ pc[p] = "health" /\ pc'[p] = "idle" /\ applied' # applied
         /\ \A r \in job[p].kept : applied'[r].health # "failed"
         => AppliedSeen']_vars

\* Any script in the guest, cloud-init's too, finds the recipes it depends on
\* run to their end ("depends names recipes that must run first").
DependsRunFirst == \A s \in scripts : \A d \in Depends[s[2]] : installed[d] # 0
=============================================================================
