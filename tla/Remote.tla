------------------------------ MODULE Remote ------------------------------
(***************************************************************************)
(* A project (stoat.toml) whose VMs run on Google Compute Engine: the       *)
(* declarations and their reconciliation with the VM records                *)
(* (internal/project, core/project.go), the fan-out of up, down and rm over *)
(* the declared VMs (cli/run_project.go, mcpsrv/tools_project.go), the gce  *)
(* provider (internal/provider/gce), the remote pass of prune and the soft  *)
(* deadline of `gce extend`.                                                *)
(*                                                                          *)
(* A process is one stoat command; it is cut where it takes or releases the *)
(* data-root lock, reads or writes a record, and at every call of the       *)
(* compute API.  The API is external: an operation it accepted goes on      *)
(* whether or not the process that asked for it still waits.                *)
(***************************************************************************)
EXTENDS Integers, Sequences, FiniteSets

CONSTANTS
  VMs,          \* the declared VMs, by global name
  Order,        \* Project.VMs: the declarations in file order
  Recipes,      \* the recipes a declaration may name
  Decls,        \* the declarations the user may write for a VM
  Callers,      \* the stoat processes alive at one time
  Gcps,         \* the Google Cloud projects
  Listed,       \* the one config.toml names: where Create pins, what List asks
  Limit,        \* max_run_duration, in ticks
  Durations,    \* what `gce extend` may be asked for, in ticks
  MaxCommands,  \* bound: commands run in a behaviour
  MaxEvents     \* bound: kills, and edits of stoat.toml, in a behaviour

Unset == "unset"
NoDeadline == -1
Nobody == "nobody"
DefaultCPUs == 1

\* vm.toml and secrets.toml as far as a declaration describes them: image
\* stands for everything Diff refuses to change (image, provider, disk), cpus
\* for the plain fields, params and secrets hold one value per recipe.
Declaration == [image : STRING, cpus : Nat, recipes : SUBSET Recipes,
                params : [Recipes -> STRING], secrets : [Recipes -> STRING]]

\* The VM that has no record.
NoRecord == [image |-> Unset, cpus |-> 0, recipes |-> {},
             params |-> [r \in Recipes |-> Unset], secrets |-> [r \in Recipes |-> Unset]]

ASSUME RemoteAssumption ==
  /\ VMs # {} /\ Nobody \notin Callers
  /\ Order \in Seq(VMs) /\ \A n \in VMs : \E i \in DOMAIN Order : Order[i] = n
  /\ \A i, j \in DOMAIN Order : Order[i] = Order[j] => i = j
  /\ Decls \subseteq Declaration /\ Decls # {} /\ \A d \in Decls : d.image # Unset
  /\ Listed \in Gcps
  /\ Limit \in Nat \ {0} /\ Durations \subseteq Nat \ {0}
  /\ MaxCommands \in Nat /\ MaxEvents \in Nat

FanOuts == {"up", "project_up", "down", "project_down", "rm"}
Commands == FanOuts \cup {"prune", "extend"}

\* The places a process can be at.  "...Wait" is inside op.Wait; the state of
\* the operation it waits for is then moved on by Complete.
Waits == {"insWait", "startWait", "stopWait", "deleteWait"}
Places == Waits \cup
  {"idle", "load", "diff", "create", "update", "get", "startLoad", "startLock",
   "firewall", "insert", "undo", "instanceStart", "stopState", "instanceStop",
   "rmGet", "destroyLock", "instanceDelete", "ruleDelete", "recordDelete",
   "pruneLock", "list", "sweep", "extendGet", "setLabels"}

Statuses == {"none", "STAGING", "RUNNING", "STOPPING", "TERMINATED"}

VARIABLES
  file,      \* stoat.toml: the declaration of each VM
  served,    \* the project an MCP server loaded when it started
  rec,       \* the record of each VM, or NoRecord
  lock,      \* the process that holds the data-root flock
  pinned,    \* gce_project of each record; Listed where there is none
  inst,      \* the status of the instance at each site
  flight,    \* the operation GCE is carrying out on it
  rule,      \* whether its firewall rule exists
  hard,      \* ticks left until GCE stops it, NoDeadline while it never ran
  soft,      \* ticks left until its stoat-soft-deadline label
  proc,      \* of each process: where it is and what it holds
  unowned,   \* history: instances whose record was lost under the lock
  blind,     \* history: labels written by an extend that saw no hard deadline
  commands, events

\* An instance and its rule carry the name of the VM in one GCP project.
Sites == VMs \X Gcps

gce == <<inst, flight, rule, hard, soft>>
histories == <<unowned, blind>>
bounds == <<commands, events>>
remoteVars == <<file, served, rec, lock, pinned, inst, flight, rule, hard, soft, proc,
          unowned, blind, commands, events>>

\* A process that does not run: no place, no command (cmd), no VMs left (todo),
\* no round of `up` (phase), no project (proj), nothing of Reconcile's first
\* load (had) and its Diff (drift), of the GCP project of the record it loaded
\* (gcp), of the VMs prune saw an instance of (seen), of the deadline extend
\* writes (due), the label it read (label) and whether it saw no hard deadline
\* (blind).
Idle == [pc |-> "idle", cmd |-> "none", todo |-> <<>>, phase |-> "none",
         proj |-> <<>>, had |-> NoRecord, drift |-> {}, gcp |-> Listed,
         seen |-> {}, due |-> 0, label |-> NoDeadline, blind |-> FALSE]

\* The record Create writes for a declaration.
RecordOf(d) == [d EXCEPT !.cpus = IF @ = 0 THEN DefaultCPUs ELSE @]

\* Values may be given only for recipes the VM has: manifestForVM.
GivenFor(values, recipes) == \A r \in Recipes : values[r] # Unset => r \in recipes

\* A project nobody has brought up yet, or one an earlier `stoat up` left
\* running, whose declaration Create accepted; config.toml may have named
\* another GCP project (g) at that time.
RemoteInit ==
  \E d \in Decls, up \in BOOLEAN, g \in Gcps :
  /\ up => GivenFor(d.params, d.recipes) /\ GivenFor(d.secrets, d.recipes)
  /\ file = [n \in VMs |-> d]
  /\ served = file
  /\ rec = [n \in VMs |-> IF up THEN RecordOf(d) ELSE NoRecord]
  /\ lock = Nobody
  /\ pinned = [n \in VMs |-> IF up THEN g ELSE Listed]
  /\ inst = [s \in Sites |-> IF up /\ s[2] = g THEN "RUNNING" ELSE "none"]
  /\ flight = [s \in Sites |-> "none"]
  /\ rule = [s \in Sites |-> up /\ s[2] = g]
  /\ hard = [s \in Sites |-> IF up /\ s[2] = g THEN Limit ELSE NoDeadline]
  /\ soft = [s \in Sites |-> NoDeadline]
  /\ proc = [p \in Callers |-> Idle]
  /\ unowned = {} /\ blind = {}
  /\ commands = 0 /\ events = 0

Set(p, me) == proc' = [proc EXCEPT ![p] = me]
PC(p) == proc[p].pc

\* The VM the fan-out of p is at, and its declaration.
At(p) == Head(proc[p].todo)
Declared(p) == proc[p].proj[At(p)]

\* Where the record of n says its instance is, and where the one p loaded did.
Place(n) == <<n, pinned[n]>>
Site(p) == <<At(p), proc[p].gcp>>

Running(status) == status \in {"STAGING", "RUNNING"}

----------------------------------------------------------------------------
(* The commands.                                                           *)

\* Where a command begins with a VM.
Entry(c) ==
  CASE c \in {"up", "project_up"} -> "load"
    [] c \in {"down", "project_down"} -> "stopState"
    [] c = "rm" -> "rmGet"
    [] c = "prune" -> "pruneLock"
    [] c = "extend" -> "extendGet"

\* A CLI process loads stoat.toml when it starts; the tools of an MCP server
\* use the project the server loaded.
Invoke(p, c, names) ==
  /\ PC(p) = "idle" /\ commands < MaxCommands
  /\ commands' = commands + 1
  /\ Set(p, [Idle EXCEPT !.pc = Entry(c), !.cmd = c, !.todo = names,
               !.proj = IF c = "project_up" THEN served ELSE IF c = "up" THEN file ELSE @,
               !.phase = IF c = "up" THEN "reconcile" ELSE "each"])
  /\ UNCHANGED <<file, served, rec, pinned, lock, gce, histories, events>>

FanOut(p) == \E c \in FanOuts : Invoke(p, c, Order)
Prune(p) == Invoke(p, "prune", <<>>)
Extend(p) == \E n \in VMs : Invoke(p, "extend", <<n>>)

\* fanOut: the next declared VM after one that went well, the end after the
\* last one or after a failure, which skips the rest.  `up` first reconciles
\* every declaration and then goes over them again, reconciling each once more
\* before it starts it.
Fresh(me) == [Idle EXCEPT !.pc = Entry(me.cmd), !.cmd = me.cmd, !.proj = me.proj]
Done(me) ==
  IF Len(me.todo) > 1 THEN [Fresh(me) EXCEPT !.todo = Tail(me.todo), !.phase = me.phase]
  ELSE IF me.phase = "reconcile" THEN [Fresh(me) EXCEPT !.todo = Order, !.phase = "each"]
  ELSE Idle

\* A process goes on at a place, or the VM-level function it is in returns.
Moved(me, place) ==
  CASE place = "ok" -> Done(me)
    [] place = "failed" -> Idle
    [] OTHER -> [me EXCEPT !.pc = place]
Go(p, place) == Set(p, Moved(proc[p], place))

\* Mutant: an error path that forgets to unlock.
MutUnlock(p) == UNCHANGED lock

\* A return with the unlock it deferred.
Unlock(p) == lock' = IF lock = p THEN Nobody ELSE lock
Return(p, how) == Go(p, how) /\ Unlock(p)

\* SIGKILL, or the machine going down: the flock goes with the process, an
\* operation GCE accepted does not.
KillCommand(p) ==
  /\ PC(p) # "idle" /\ events < MaxEvents
  /\ events' = events + 1
  /\ Set(p, Idle) /\ Unlock(p)
  /\ UNCHANGED <<file, served, rec, pinned, gce, histories, commands>>

----------------------------------------------------------------------------
(* Reconcile.                                                              *)

\* project.Secrets reads every table of the VM; filterSecrets keeps the ones
\* of the recipes the declaration still names.
FilterSecrets(d) == [r \in Recipes |-> IF r \in d.recipes THEN d.secrets[r] ELSE Unset]

\* Diff's list of drifted fields.
Diff(v, d) ==
  {f \in {"cpus"} : d.cpus # 0 /\ d.cpus # v.cpus}
    \cup {f \in {"recipes"} : d.recipes # v.recipes}
    \cup {f \in {"params"} : d.params # v.params}

\* Mutant: a parameter the declaration dropped is left in the record.
MutRemovedParams(v, d) == {}

\* removedParams: values the record has and the declaration no longer states,
\* of recipes it keeps.
RemovedParams(v, d) == {r \in d.recipes : v.params[r] # Unset /\ d.params[r] = Unset}

\* Update under a patch made of the drifted fields, the parameters to unset and
\* the secrets.  A recipe dropped from the list takes its values with it.
Patched(v, d, fields, unset) ==
  LET recipes == IF "recipes" \in fields THEN d.recipes ELSE v.recipes
      dropped == v.recipes \ recipes
  IN  [v EXCEPT
        !.cpus = IF "cpus" \in fields THEN d.cpus ELSE @,
        !.recipes = recipes,
        !.params = [r \in Recipes |->
          IF r \in dropped THEN Unset
          ELSE IF "params" \in fields /\ d.params[r] # Unset THEN d.params[r]
          ELSE IF r \in unset THEN Unset ELSE @[r]],
        !.secrets = [r \in Recipes |->
          IF r \in dropped THEN Unset
          ELSE IF FilterSecrets(d)[r] # Unset THEN FilterSecrets(d)[r] ELSE @[r]]]

\* stageParamEdits refuses a value for a recipe the patched VM does not have.
Accepted(v, d, fields, unset) ==
  LET recipes == IF "recipes" \in fields THEN d.recipes ELSE v.recipes
  IN  /\ "params" \in fields => GivenFor(d.params, recipes)
      /\ unset \subseteq recipes
      /\ GivenFor(FilterSecrets(d), recipes)

\* The place after a Reconcile that returned nil: `up` goes on with the next
\* declaration, then with core.Get; project_up calls core.Start.
Reconciled(p) ==
  LET me == proc[p] IN
  Set(p, IF me.phase = "reconcile" THEN Done(me)
         ELSE [me EXCEPT !.pc = IF me.cmd = "up" THEN "get" ELSE "startLoad",
                         !.had = NoRecord, !.drift = {}])

Load(p) ==
  /\ PC(p) = "load"
  /\ Set(p, [proc[p] EXCEPT !.had = rec[At(p)],
                            !.pc = IF rec[At(p)] = NoRecord THEN "create" ELSE "diff"])
  /\ UNCHANGED <<file, served, rec, pinned, lock, gce, histories, bounds>>

\* Create is one locked step: CheckCreate, plan, Save, the parameters and the
\* provider's checks.  It is given the secrets unfiltered and no GCP project,
\* so the record is pinned to config.toml's.
Create(p) ==
  LET d == Declared(p) IN
  /\ PC(p) = "create" /\ lock = Nobody
  /\ IF rec[At(p)] = NoRecord /\ GivenFor(d.params, d.recipes) /\ GivenFor(d.secrets, d.recipes)
     THEN /\ rec' = [rec EXCEPT ![At(p)] = RecordOf(d)]
          /\ pinned' = [pinned EXCEPT ![At(p)] = Listed]
          /\ unowned' = unowned \ {<<At(p), Listed>>}
          /\ Reconciled(p)
     ELSE Go(p, "failed") /\ UNCHANGED <<rec, pinned, unowned>>
  /\ UNCHANGED <<file, served, lock, gce, blind, bounds>>

\* Diff loads the record again; with no drift the stored secrets decide
\* whether there is anything to write.
DiffStep(p) ==
  LET v == rec[At(p)]
      d == Declared(p)
  IN
  /\ PC(p) = "diff"
  /\ IF v = NoRecord \/ v.image # d.image THEN Go(p, "failed")
     ELSE IF Diff(v, d) = {} /\ v.secrets = FilterSecrets(d) THEN Reconciled(p)
     ELSE Set(p, [proc[p] EXCEPT !.drift = Diff(v, d), !.pc = "update"])
  /\ UNCHANGED <<file, served, rec, pinned, lock, gce, histories, bounds>>

Update(p) ==
  LET v == rec[At(p)]
      d == Declared(p)
      fields == proc[p].drift
      unset == IF "params" \in fields THEN RemovedParams(proc[p].had, d) ELSE {}
  IN
  /\ PC(p) = "update" /\ lock = Nobody
  /\ IF v # NoRecord /\ Accepted(v, d, fields, unset)
     THEN rec' = [rec EXCEPT ![At(p)] = Patched(v, d, fields, unset)] /\ Reconciled(p)
     ELSE Go(p, "failed") /\ UNCHANGED rec
  /\ UNCHANGED <<file, served, pinned, lock, gce, histories, bounds>>

----------------------------------------------------------------------------
(* Start: core.start and the gce provider's Start and insert.              *)

others == <<file, served, rec, pinned, bounds>>

\* runUp's core.Get: a VM that runs already is a success of `up`.
Get(p) ==
  /\ PC(p) = "get"
  /\ \/ Go(p, IF rec[At(p)] = NoRecord THEN "failed"
               ELSE IF Running(inst[Place(At(p))]) THEN "ok" ELSE "startLoad")
     \/ Go(p, "failed")
  /\ UNCHANGED <<others, lock, gce, histories>>

\* The record is loaded before the lock is taken.
StartLoad(p) ==
  /\ PC(p) = "startLoad"
  /\ IF rec[At(p)] = NoRecord THEN Go(p, "failed")
     ELSE Set(p, [proc[p] EXCEPT !.pc = "startLock", !.gcp = pinned[At(p)]])
  /\ UNCHANGED <<others, lock, gce, histories>>

\* A record lists the instance at s.
Recorded(s) == rec[s[1]] # NoRecord /\ pinned[s[1]] = s[2]

\* Under the lock StateOf refuses a running VM; the provider's own Get tells
\* the first start from a later one.  Both read the instance, which only a
\* holder of the lock inserts or deletes.
StartLock(p) ==
  LET s == Site(p) IN
  /\ PC(p) = "startLock" /\ lock = Nobody
  /\ \/ /\ ~Running(inst[s])
        /\ lock' = p
        /\ Go(p, IF inst[s] = "none" THEN "firewall" ELSE "instanceStart")
        /\ unowned' = IF Recorded(s) THEN unowned ELSE unowned \cup {s}
     \/ Return(p, "failed") /\ UNCHANGED unowned
  /\ UNCHANGED <<others, gce, blind>>

\* Mutant: the error of the rule's Wait is ignored.
MutFirewall(p) ==
  /\ PC(p) = "firewall"
  /\ rule' \in {rule, [rule EXCEPT ![Site(p)] = TRUE]}
  /\ Go(p, "insert")
  /\ UNCHANGED <<others, lock, inst, flight, hard, soft, histories>>

\* Firewalls.Insert and its Wait.  A rule of that name is a conflict; a Wait
\* that fails leaves a rule that may or may not exist.
Firewall(p) ==
  LET s == Site(p) IN
  /\ PC(p) = "firewall"
  /\ \/ ~rule[s] /\ rule' = [rule EXCEPT ![s] = TRUE] /\ Go(p, "insert") /\ UNCHANGED lock
     \/ ~rule[s] /\ rule' = [rule EXCEPT ![s] = TRUE] /\ Return(p, "failed")
     \/ UNCHANGED rule /\ Return(p, "failed")
  /\ UNCHANGED <<others, inst, flight, hard, soft, histories>>

\* insertRequest and Instances.Insert; the rule is given back when either
\* fails.
Insert(p) ==
  LET s == Site(p) IN
  /\ PC(p) = "insert"
  /\ \/ /\ inst[s] = "none"
        /\ inst' = [inst EXCEPT ![s] = "STAGING"]
        /\ flight' = [flight EXCEPT ![s] = "insert"]
        /\ Go(p, "insWait")
     \/ Go(p, "undo") /\ UNCHANGED <<inst, flight>>
  /\ UNCHANGED <<others, lock, rule, hard, soft, histories>>

\* The deleteFirewallRule of a failed insert; its own error is dropped.
Undo(p) ==
  LET s == Site(p) IN
  /\ PC(p) = "undo"
  /\ rule' \in {rule, [rule EXCEPT ![s] = FALSE]}
  /\ Return(p, "failed")
  /\ UNCHANGED <<others, inst, flight, hard, soft, histories>>

\* Instances.Start.  GCE refuses it unless the instance is stopped.
InstanceStart(p) ==
  LET s == Site(p) IN
  /\ PC(p) = "instanceStart"
  /\ \/ /\ inst[s] = "TERMINATED"
        /\ inst' = [inst EXCEPT ![s] = "STAGING"]
        /\ flight' = [flight EXCEPT ![s] = "start"]
        /\ Go(p, "startWait") /\ UNCHANGED lock
     \/ Return(p, "failed") /\ UNCHANGED <<inst, flight>>
  /\ UNCHANGED <<others, rule, hard, soft, histories>>

----------------------------------------------------------------------------
(* Stop, without the lock, and Destroy, under it.                          *)

\* `down` counts a stopped VM as done, project_down's core.Stop as an error.
StopState(p) ==
  LET n == At(p) IN
  /\ PC(p) = "stopState"
  /\ \/ /\ rec[n] # NoRecord
        /\ IF Running(inst[Place(n)])
           THEN Set(p, [proc[p] EXCEPT !.pc = "instanceStop", !.gcp = pinned[n]])
           ELSE Go(p, IF proc[p].cmd = "down" THEN "ok" ELSE "failed")
     \/ Go(p, "failed")
  /\ UNCHANGED <<others, lock, gce, histories>>

InstanceStop(p) ==
  LET s == Site(p) IN
  /\ PC(p) = "instanceStop"
  /\ \/ /\ inst[s] = "RUNNING" /\ flight[s] = "none"
        /\ inst' = [inst EXCEPT ![s] = "STOPPING"]
        /\ flight' = [flight EXCEPT ![s] = "stop"]
        /\ Go(p, "stopWait")
     \/ inst[s] = "TERMINATED" /\ Go(p, "ok") /\ UNCHANGED <<inst, flight>>
     \/ Go(p, "failed") /\ UNCHANGED <<inst, flight>>
  /\ UNCHANGED <<others, lock, rule, hard, soft, histories>>

\* runRM looks before it asks for confirmation; Destroy looks again under the
\* lock.
RmGet(p) ==
  /\ PC(p) = "rmGet"
  /\ \/ Go(p, IF rec[At(p)] = NoRecord \/ Running(inst[Place(At(p))]) THEN "failed"
            ELSE "destroyLock")
     \/ Go(p, "failed")
  /\ UNCHANGED <<others, lock, gce, histories>>

DestroyLock(p) ==
  LET n == At(p) IN
  /\ PC(p) = "destroyLock" /\ lock = Nobody
  /\ \/ /\ rec[n] # NoRecord /\ ~Running(inst[Place(n)])
        /\ lock' = p
        /\ Set(p, [proc[p] EXCEPT !.pc = "instanceDelete", !.gcp = pinned[n]])
     \/ Return(p, "failed")
  /\ UNCHANGED <<others, gce, histories>>

\* An instance that does not exist is an error of Delete like any other.
InstanceDelete(p) ==
  LET s == Site(p) IN
  /\ PC(p) = "instanceDelete"
  /\ \/ /\ inst[s] # "none" /\ flight[s] = "none"
        /\ inst' = [inst EXCEPT ![s] = "STOPPING"]
        /\ flight' = [flight EXCEPT ![s] = "delete"]
        /\ Go(p, "deleteWait") /\ UNCHANGED lock
     \/ Return(p, "failed") /\ UNCHANGED <<inst, flight>>
  /\ UNCHANGED <<others, rule, hard, soft, histories>>

\* Mutant: the record goes although the rule could not be deleted.
MutRuleDelete(p) ==
  /\ PC(p) = "ruleDelete"
  /\ rule' \in {rule, [rule EXCEPT ![Site(p)] = FALSE]}
  /\ Go(p, "recordDelete")
  /\ UNCHANGED <<others, lock, inst, flight, hard, soft, histories>>

RuleDelete(p) ==
  LET s == Site(p) IN
  /\ PC(p) = "ruleDelete"
  /\ \/ rule[s] /\ rule' = [rule EXCEPT ![s] = FALSE] /\ Go(p, "recordDelete") /\ UNCHANGED lock
     \/ rule' \in {rule, [rule EXCEPT ![s] = FALSE]} /\ Return(p, "failed")
  /\ UNCHANGED <<others, inst, flight, hard, soft, histories>>

RecordDelete(p) ==
  /\ PC(p) = "recordDelete"
  /\ rec' = [rec EXCEPT ![At(p)] = NoRecord]
  /\ pinned' = [pinned EXCEPT ![At(p)] = Listed]
  /\ Return(p, "ok")
  /\ UNCHANGED <<file, served, gce, histories, bounds>>

\* op.Wait fails though the operation goes on.
LoseContact(p) ==
  /\ PC(p) \in Waits
  /\ IF PC(p) = "insWait" THEN Go(p, "undo") /\ UNCHANGED lock ELSE Return(p, "failed")
  /\ UNCHANGED <<others, gce, histories>>

----------------------------------------------------------------------------
(* prune's remote pass, under the lock: the instances, then the records.   *)

PruneLock(p) ==
  /\ PC(p) = "pruneLock" /\ lock = Nobody
  /\ lock' = p
  /\ Go(p, "list")
  /\ UNCHANGED <<others, gce, histories>>

\* Mutant: the listing is filtered to instances that run.
MutList(p) ==
  /\ PC(p) = "list"
  /\ Set(p, [proc[p] EXCEPT !.pc = "sweep", !.seen = {n \in VMs : Running(inst[<<n, Listed>>])}])
  /\ UNCHANGED <<others, lock, gce, histories>>

\* The instances of config.toml's GCP project, by the name of their VM.
List(p) ==
  /\ PC(p) = "list"
  /\ \/ /\ Set(p, [proc[p] EXCEPT !.pc = "sweep",
                                  !.seen = {n \in VMs : inst[<<n, Listed>>] # "none"}])
        /\ UNCHANGED lock
     \/ Return(p, "failed")
  /\ UNCHANGED <<others, gce, histories>>

\* The records of VMs the listing does not name are stale, whatever project they
\* are pinned to: their directories are removed, one after the other.  Orphans
\* and stopped instances are only reported.
Stale(p) == {n \in VMs : rec[n] # NoRecord /\ n \notin proc[p].seen}

\* prune removes the record of n: an instance in another project is lost.
Drop(n) ==
  /\ rec' = [rec EXCEPT ![n] = NoRecord]
  /\ pinned' = [pinned EXCEPT ![n] = Listed]
  /\ unowned' = IF pinned[n] = Listed THEN unowned ELSE unowned \cup {Place(n)}

Sweep(p) ==
  /\ PC(p) = "sweep"
  /\ \/ /\ Stale(p) = {} /\ Return(p, "ok") /\ UNCHANGED <<rec, pinned, unowned>>
     \/ \E n \in Stale(p) : Drop(n) /\ UNCHANGED <<lock, proc>>
  /\ UNCHANGED <<file, served, gce, blind, bounds>>

----------------------------------------------------------------------------
(* gce extend: a new soft deadline, written as a label.                    *)

\* Mutant: the run-time limit is not looked at.
MutExtendGet(p) ==
  /\ PC(p) = "extendGet" /\ inst[Place(At(p))] # "none"
  /\ \E d \in Durations :
       Set(p, [proc[p] EXCEPT !.pc = "setLabels", !.due = d, !.gcp = pinned[At(p)],
                              !.label = soft[Place(At(p))]])
  /\ UNCHANGED <<others, lock, gce, histories>>

\* The hard deadline is computed from the instance's last start: while it is
\* provisioned for the first time there is none, and any duration is accepted.
ExtendGet(p) ==
  LET n == At(p)
      s == Place(n)
  IN
  /\ PC(p) = "extendGet"
  /\ \/ \E d \in Durations :
          /\ rec[n] # NoRecord /\ inst[s] # "none"
          /\ hard[s] # NoDeadline => d <= hard[s]
          /\ Set(p, [proc[p] EXCEPT !.pc = "setLabels", !.gcp = pinned[n], !.due = d,
                                    !.label = soft[s], !.blind = hard[s] = NoDeadline])
     \/ Go(p, "failed")
  /\ UNCHANGED <<others, lock, gce, histories>>

\* SetLabels carries the fingerprint of the labels that were read: GCE refuses
\* it when they have changed since.
SetLabels(p) ==
  LET s == Site(p) IN
  /\ PC(p) = "setLabels"
  /\ \/ /\ inst[s] # "none" /\ proc[p].label = soft[s]
        /\ soft' = [soft EXCEPT ![s] = proc[p].due]
        /\ blind' = IF proc[p].blind THEN blind \cup {s} ELSE blind \ {s}
        /\ Go(p, "ok")
     \/ Go(p, "failed") /\ UNCHANGED <<soft, blind>>
  /\ UNCHANGED <<others, lock, inst, flight, rule, hard, unowned>>

----------------------------------------------------------------------------
(* Google Compute Engine, and the user's editor.                           *)

\* Where the process that waits for the operation on s goes on.
Waiting(s) == {p \in Callers : PC(p) \in Waits /\ Site(p) = s}
After(place, ok) ==
  CASE place = "insWait" -> IF ok THEN "ok" ELSE "undo"
    [] place = "deleteWait" -> IF ok THEN "ruleDelete" ELSE "failed"
    [] OTHER -> IF ok THEN "ok" ELSE "failed"

\* An insert or a start may fail for want of resources.
Complete(s, ok) ==
  /\ flight[s] # "none"
  /\ ok \/ flight[s] \in {"insert", "start"}
  /\ flight' = [flight EXCEPT ![s] = "none"]
  /\ inst' = [inst EXCEPT ![s] =
       CASE flight[s] = "insert" -> IF ok THEN "RUNNING" ELSE "none"
         [] flight[s] = "start" -> IF ok THEN "RUNNING" ELSE "TERMINATED"
         [] flight[s] = "stop" -> "TERMINATED"
         [] flight[s] = "delete" -> "none"]
  /\ hard' = [hard EXCEPT ![s] = IF inst'[s] = "RUNNING" THEN Limit
                                 ELSE IF inst'[s] = "none" THEN NoDeadline ELSE @]
  /\ soft' = [soft EXCEPT ![s] = IF inst'[s] = "none" THEN NoDeadline ELSE @]
  /\ blind' = IF inst'[s] = "none" THEN blind \ {s} ELSE blind
  /\ proc' = [p \in Callers |-> IF p \in Waiting(s) THEN Moved(proc[p], After(PC(p), ok))
                               ELSE proc[p]]
  /\ lock' = IF lock \in {p \in Waiting(s) : After(PC(p), ok) \in {"ok", "failed"}}
             THEN Nobody ELSE lock
  /\ UNCHANGED <<others, rule, unowned>>

Later(t) == IF t > 0 THEN t - 1 ELSE t

Tick ==
  /\ hard' = [s \in Sites |-> Later(hard[s])]
  /\ soft' = [s \in Sites |-> Later(soft[s])]
  /\ proc' = [p \in Callers |-> [proc[p] EXCEPT !.due = Later(@), !.label = Later(@)]]
  /\ UNCHANGED <<others, lock, inst, flight, rule, histories>>

\* maxRunDuration with instanceTerminationAction STOP.
TimeLimit(s) ==
  /\ inst[s] = "RUNNING" /\ flight[s] = "none" /\ hard[s] = 0
  /\ inst' = [inst EXCEPT ![s] = "TERMINATED"]
  /\ UNCHANGED <<others, lock, flight, rule, hard, soft, proc, histories>>

EditProject ==
  /\ events < MaxEvents
  /\ events' = events + 1
  /\ \E n \in VMs : \E d \in Decls \ {file[n]} : file' = [file EXCEPT ![n] = d]
  /\ UNCHANGED <<served, rec, pinned, lock, gce, proc, histories, commands>>

----------------------------------------------------------------------------
Step(p) ==
  \/ Load(p) \/ Create(p) \/ DiffStep(p) \/ Update(p)
  \/ Get(p) \/ StartLoad(p) \/ StartLock(p) \/ Firewall(p) \/ Insert(p) \/ Undo(p)
  \/ InstanceStart(p) \/ StopState(p) \/ InstanceStop(p)
  \/ RmGet(p) \/ DestroyLock(p) \/ InstanceDelete(p) \/ RuleDelete(p) \/ RecordDelete(p)
  \/ PruneLock(p) \/ List(p) \/ Sweep(p) \/ ExtendGet(p) \/ SetLabels(p)

RemoteNext ==
  \/ \E p \in Callers : Step(p) \/ LoseContact(p) \/ KillCommand(p)
                      \/ FanOut(p) \/ Prune(p) \/ Extend(p)
  \/ \E s \in Sites, ok \in BOOLEAN : Complete(s, ok)
  \/ \E s \in Sites : TimeLimit(s)
  \/ Tick \/ EditProject

\* A process that is scheduled goes on and GCE finishes what it accepted.
\* Nothing says that a command is run, that a process is killed, that a Wait
\* fails or that time passes.
Fairness ==
  /\ \A p \in Callers : WF_remoteVars(Step(p))
  /\ WF_remoteVars(\E s \in Sites, ok \in BOOLEAN : Complete(s, ok))

RemoteSpec == RemoteInit /\ [][RemoteNext]_remoteVars /\ Fairness

----------------------------------------------------------------------------
(* Properties.                                                             *)

\* A record holds values some declaration gave.
Images == {d.image : d \in Decls}
ParamValues == {Unset} \cup {d.params[r] : d \in Decls, r \in Recipes}
SecretValues == {Unset} \cup {d.secrets[r] : d \in Decls, r \in Recipes}

CloudRecord ==
  [image : Images, cpus : Nat, recipes : SUBSET Recipes,
   params : [Recipes -> ParamValues], secrets : [Recipes -> SecretValues]]

Process ==
  [pc : Places, cmd : Commands \cup {"none"}, todo : Seq(VMs),
   phase : {"none", "reconcile", "each"}, proj : {<<>>} \cup [VMs -> Decls],
   had : {NoRecord} \cup CloudRecord, drift : SUBSET {"cpus", "recipes", "params"},
   gcp : Gcps, seen : SUBSET VMs, due : Nat, label : Nat \cup {NoDeadline},
   blind : BOOLEAN]

\* The places between config.Lock and unlock.
LockPlaces ==
  {"firewall", "insert", "insWait", "undo", "instanceStart", "startWait",
   "instanceDelete", "deleteWait", "ruleDelete", "recordDelete", "list", "sweep"}

\* Every variable has its type, the lock is held exactly by a process between
\* config.Lock and unlock, and GCE carries out one operation on an instance at
\* a time.
RemoteTypeOK ==
  /\ file \in [VMs -> Decls] /\ served \in [VMs -> Decls]
  /\ rec \in [VMs -> {NoRecord} \cup CloudRecord]
  /\ pinned \in [VMs -> Gcps]
  /\ inst \in [Sites -> Statuses]
  /\ flight \in [Sites -> {"none", "insert", "start", "stop", "delete"}]
  /\ rule \in [Sites -> BOOLEAN]
  /\ hard \in [Sites -> NoDeadline .. Limit]
  /\ soft \in [Sites -> Nat \cup {NoDeadline}]
  /\ proc \in [Callers -> Process]
  /\ lock \in Callers \cup {Nobody}
  /\ \A p \in Callers : (lock = p) <=> PC(p) \in LockPlaces
  /\ unowned \subseteq Sites /\ blind \subseteq Sites
  /\ \A s \in Sites : \A p, q \in Waiting(s) : p = q /\ flight[s] # "none"

\* Every instance has a record that `stoat rm` can find it by: Destroy deletes
\* vm.toml only after the instance, prune's remote pass deletes it only when it
\* lists none, and no kill, failed call or lost answer on the way changes that.
\* Two kinds of instances are excepted, because the code does lose them: one
\* started from a record that was loaded before the lock and removed while the
\* start waited for it, and one whose record is pinned to another GCP project
\* than the one prune lists.
InstanceRecorded ==
  \A s \in Sites : inst[s] # "none" => Recorded(s) \/ s \in unowned

\* insert creates the firewall rule and the instance in that order: no
\* instance begins to come up before the rule that locks it down exists.  (It
\* may lose the rule later: the answer to the insert is lost, the rule is
\* deleted, and the instance comes up all the same.)
BornLocked ==
  [][\A s \in Sites : inst[s] = "none" /\ inst'[s] # "none" => rule[s]]_remoteVars

\* A VM that `stoat rm` reports as deleted leaves nothing behind on GCE where
\* its record was pinned: neither its instance nor its firewall rule.
DestroyClean ==
  [][\A p \in Callers : PC(p) = "recordDelete" /\ rec' # rec =>
       inst[Site(p)] = "none" /\ ~rule[Site(p)]]_remoteVars

\* A soft deadline that `gce extend` promised is never later than the moment
\* GCE stops the instance, though the instance may be stopped, started,
\* deleted or extended by someone else between extend's read and its write.
\* Excepted is a promise given while the instance had no hard deadline yet.
SoftWithinHard ==
  \A s \in Sites : inst[s] = "RUNNING" /\ s \notin blind => soft[s] <= hard[s]

\* Nothing of a VM on GCE is out of stoat's hands but for the exceptions above:
\* no instance without a record or born without its rule, nothing left by rm,
\* no promise beyond the hard deadline.
CloudAccounted == [](InstanceRecorded /\ SoftWithinHard) /\ BornLocked /\ DestroyClean

\* Nobody else changed the record of the VM p is at: the one p loaded is the one
\* Diff compared and still the one on disk.
Undisturbed(p) ==
  /\ rec[At(p)] = proc[p].had
  /\ PC(p) = "update" => proc[p].drift = Diff(rec[At(p)], Declared(p))

\* Reconcile makes the VM match its declaration: when no other process changed
\* the record while it ran, and the declaration gives parameters only to recipes
\* it names, the record it leaves has no drift, and every secret the declaration
\* gives is stored.
Converges ==
  [][\A p \in Callers :
       LET n == At(p)
           d == Declared(p)
       IN  PC(p) \in {"create", "update"} /\ proc'[p].pc \notin {"idle", PC(p)}
             /\ Undisturbed(p) /\ GivenFor(d.params, d.recipes)
           => /\ Diff(rec'[n], d) = {}
              /\ \A r \in d.recipes : d.secrets[r] # Unset => rec'[n].secrets[r] = d.secrets[r]
              /\ GivenFor(rec'[n].params, rec'[n].recipes)
              /\ GivenFor(rec'[n].secrets, rec'[n].recipes)]_remoteVars

\* Every command ends: no process waits for the data-root lock or for an
\* operation for ever.
CommandsEnd == \A p \in Callers : (PC(p) # "idle") ~> (PC(p) = "idle")
============================================================================
