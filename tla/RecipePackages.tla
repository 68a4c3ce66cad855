--------------------------- MODULE RecipePackages ---------------------------
(***************************************************************************)
(* Remote recipes.  A scope, the project in the working directory or the   *)
(* user's home, has a lock file pinning each recipe to a commit and a      *)
(* cache of checkouts; the project also declares its recipes in stoat.toml *)
(* and ignores the cache in .gitignore.  Add, Update, Remove and Sync      *)
(* stage what is new and publish it file by file, each old file moved      *)
(* aside first, and put everything back when a step fails.                 *)
(*                                                                         *)
(* Every command is a process of its own.  Three flocks order them: one    *)
(* per scope, shared or exclusive, and one for the clone of the index in   *)
(* which names without a source are looked up.                             *)
(*                                                                         *)
(* A commit is a number, and what a ref resolves to at a given moment is   *)
(* any of them.  A user edits stoat.toml or a checkout only while no       *)
(* command works on the project: the code has no guard against the other.  *)
(***************************************************************************)
EXTENDS Naturals, Sequences, SequencesExt

CONSTANTS
    Procs,        \* stoat processes
    Packages,     \* the names of recipes
    Order,        \* the same, as sort.Strings orders them
    Commits,      \* what the recipes' repositories hold
    Refs,         \* tags and branches a declaration may ask for
    LockOrder,    \* the two scopes in the order of their lock files' paths
    Flags,        \* the values of --global the commands are called with
    RollbackFails,\* whether a step of the rollback may fail too
    Limit,        \* bounds: commands, edits, kills, and how often
                  \* RepairSnapshot finds the project only under its locks
    NoProc, None

Scopes == {"project", "global"}
Files == {"lock", "toml", "ignore"}
Targets == Files \cup Packages

Bounded == {"calls", "edits", "kills", "intrusions"}

ASSUME NamesAssumption == NoProc \notin Procs /\ Packages \cap Files = {}
ASSUME OrderAssumption ==
    Order \in Seq(Packages) /\ ToSet(Order) = Packages /\ IsInjective(Order)
ASSUME HoldingsAssumption == Commits # {} /\ Refs # {}
ASSUME LockOrderAssumption == LockOrder \in Seq(Scopes) /\ ToSet(LockOrder) = Scopes
ASSUME FaultAssumption == Flags \subseteq BOOLEAN /\ RollbackFails \in BOOLEAN /\ Limit \in [Bounded -> Nat]

VARIABLES
    disk,    \* what each scope has at each target; None: there is no such file
    junk,    \* the checkouts in backup directories left in each scope's cache
    saved,   \* a backup of stoat.toml was left behind
    excl,    \* the holder of each scope's flock in exclusive mode, or NoProc
    shared,  \* the holders of each scope's flock in shared mode
    ilock,   \* the holder of the index's flock, or NoProc
    pc, job, \* the step each process is at, and its work
    reply,   \* what each process's last operation returned
    count    \* how often each of the bounded steps was taken

pkgVars == <<disk, junk, saved, excl, shared, ilock, pc, job, reply, count>>
lockVars == <<excl, shared, ilock>>
diskVars == <<disk, junk, saved>>

-----------------------------------------------------------------------------
Entry == [ref : Refs, commit : Commits]
Tree == [commit : Commits, dirty : BOOLEAN]
NoPins == [r \in Packages |-> None]

Content(t) == {None} \cup
    CASE t = "lock" -> [Packages -> Entry \cup {None}]
      [] t = "toml" -> [Packages -> Refs \cup {None}]
      [] t = "ignore" -> {"stoat"}
      [] OTHER -> Tree

\* None is no name and no content.
ASSUME NoneAssumption ==
    /\ None \notin Packages \cup Commits \cup Refs \cup Entry \cup Tree \cup {"stoat"}
    /\ None \notin [Packages -> Entry \cup {None}] \cup [Packages -> Refs \cup {None}]

Nothing == [t \in Targets |-> None]

Ops == {"Add", "LockAll", "Sync", "SyncProject", "Update", "Remove",
        "ListSnapshot", "RepairSnapshot", "SearchIndex"}

NoJob == [op |-> "none", scope |-> "global", names |-> {}, ref |-> None, force |-> FALSE,
          want |-> <<>>, before |-> Nothing,
          arts |-> <<>>, n |-> 1, old |-> Nothing, torn |-> FALSE, swept |-> FALSE]

Steps == {"idle", "lookup", "indexed", "wait", "work", "backup", "install",
          "undo", "restore", "sweep", "snapshot"}

PkgTypeOK ==
    /\ \A s \in Scopes : \A t \in Targets : disk[s][t] \in Content(t)
    /\ disk["global"]["toml"] = None /\ disk["global"]["ignore"] = None
    /\ junk \in [Scopes -> SUBSET Packages]
    /\ saved \in BOOLEAN
    /\ excl \in [Scopes -> Procs \cup {NoProc}]
    /\ shared \in [Scopes -> SUBSET Procs]
    /\ \A s \in Scopes : excl[s] # NoProc => shared[s] = {}
    /\ ilock \in Procs \cup {NoProc}
    /\ pc \in [Procs -> Steps]
    /\ \A p \in Procs : job[p].op \in Ops \cup {"none"} /\ job[p].n \in 1 .. Len(job[p].arts) + 1
    /\ reply \in [Procs -> {"none", "ok", "error", "leftover", "torn"}]
    /\ \A b \in Bounded : count[b] \in 0 .. Limit[b]

\* A scope with one recipe, as an earlier Add left it.
Added(s, r) ==
    LET ref == CHOOSE v \in Refs : TRUE
        c == CHOOSE c \in Commits : TRUE
        g == [Nothing EXCEPT !["lock"] = [NoPins EXCEPT ![r] = [ref |-> ref, commit |-> c]],
                             ![r] = [commit |-> c, dirty |-> FALSE]]
    IN IF s = "global" THEN g
       ELSE [g EXCEPT !["toml"] = [NoPins EXCEPT ![r] = ref], !["ignore"] = "stoat"]

\* A scope nobody has used yet; the working directory may be no project.
Untouched(s) == {Nothing} \cup IF s = "global" THEN {} ELSE {[Nothing EXCEPT !["toml"] = NoPins]}

Starts(s) == Untouched(s) \cup {Added(s, r) : r \in Packages}

PkgInit ==
    /\ \E x \in Starts("project"), y \in Starts("global") :
          disk = [s \in Scopes |-> IF s = "project" THEN x ELSE y]
    /\ junk = [s \in Scopes |-> {}]
    /\ saved = FALSE
    /\ excl = [s \in Scopes |-> NoProc]
    /\ shared = [s \in Scopes |-> {}]
    /\ ilock = NoProc
    /\ pc = [p \in Procs |-> "idle"]
    /\ job = [p \in Procs |-> NoJob]
    /\ reply = [p \in Procs |-> "none"]
    /\ count = [b \in Bounded |-> 0]

-----------------------------------------------------------------------------
(* Helpers *)

\* A missing lock file is an empty lock.
Pins(s) == IF disk[s]["lock"] = None THEN NoPins ELSE disk[s]["lock"]
Pinned(s) == {r \in Packages : Pins(s)[r] # None}
Decls(s) == IF disk[s]["toml"] = None THEN NoPins ELSE disk[s]["toml"]

InProject == disk["project"]["toml"] # None

\* stoat.toml in the working directory makes the project's scope.
ScopeFor(global) == IF ~global /\ InProject THEN "project" ELSE "global"

Spend(b) == count[b] < Limit[b] /\ count' = [count EXCEPT ![b] = @ + 1]

Goto(p, step) == pc' = [pc EXCEPT ![p] = step]

\* The locks of lockRecipeScopes, in one order for everybody.
AllScopes == IF InProject THEN LockOrder ELSE <<"global">>

Unlock(p) ==
    /\ excl' = [s \in Scopes |-> IF excl[s] = p THEN NoProc ELSE excl[s]]
    /\ shared' = [s \in Scopes |-> shared[s] \ {p}]
    /\ ilock' = IF ilock = p THEN NoProc ELSE ilock

Return(p, r) ==
    /\ Goto(p, "idle")
    /\ job' = [job EXCEPT ![p] = NoJob]
    /\ reply' = [reply EXCEPT ![p] = r]
    /\ Unlock(p)

-----------------------------------------------------------------------------
(* The calls *)

Begin(p, o, scope, names, step, want) ==
    /\ pc[p] = "idle"
    /\ job' = [job EXCEPT ![p] = [NoJob EXCEPT !.op = o, !.scope = scope, !.names = names, !.want = want]]
    /\ Goto(p, step)
    /\ reply' = [reply EXCEPT ![p] = "none"]
    /\ Spend("calls")
    /\ UNCHANGED <<diskVars, lockVars>>

\* The source is a URL, or a name to be looked up before the scope is locked.
Add(p, global, r, ref, force, step) ==
    LET s == ScopeFor(global) IN
    /\ pc[p] = "idle"
    /\ job' = [job EXCEPT ![p] =
                 [NoJob EXCEPT !.op = "Add", !.scope = s, !.names = {r}, !.ref = ref,
                               !.force = force, !.want = <<s>>]]
    /\ Goto(p, step)
    /\ reply' = [reply EXCEPT ![p] = "none"]
    /\ Spend("calls")
    /\ UNCHANGED <<diskVars, lockVars>>

\* LockAll looks the declared names up first, and again nothing is held then.
LockAll(p, global) ==
    LET s == ScopeFor(global)
        declared == {r \in Packages : (IF s = "global" THEN Pins(s)[r] ELSE Decls(s)[r]) # None}
    IN \/ Begin(p, "LockAll", s, declared, "wait", <<s>>)
       \/ declared # {} /\ Begin(p, "LockAll", s, declared, "lookup", <<s>>)

Sync(p, global) ==
    Begin(p, "Sync", ScopeFor(global), {}, "wait", <<ScopeFor(global)>>)

\* Outside a project SyncProject has nothing to do.
SyncProject(p) ==
    InProject /\ Begin(p, "SyncProject", "project", {}, "wait", <<"project">>)

Update(p, global, names) ==
    Begin(p, "Update", ScopeFor(global), names, "wait", <<ScopeFor(global)>>)

RemoveRecipe(p, global, r) ==
    Begin(p, "Remove", ScopeFor(global), {r}, "wait", <<ScopeFor(global)>>)

ListSnapshot(p) == Begin(p, "ListSnapshot", "project", {}, "wait", AllScopes)

\* Mutant: the project, which is the one to be repaired, is locked first.
MutRepairSnapshot(p) == Begin(p, "RepairSnapshot", "project", {}, "wait", Reverse(AllScopes))

RepairSnapshot(p) == Begin(p, "RepairSnapshot", "project", {}, "wait", AllScopes)

SearchIndex(p) == Begin(p, "SearchIndex", "global", {}, "lookup", <<>>)

-----------------------------------------------------------------------------
(* The flocks *)

IndexLock(p) ==
    /\ pc[p] = "lookup" /\ ilock = NoProc
    /\ ilock' = p
    /\ Goto(p, "indexed")
    /\ UNCHANGED <<diskVars, excl, shared, job, reply, count>>

\* The clone is refreshed when it is a day old and swapped for the old one; the
\* names are found in it or not.  The old clone survives a failed refresh.
IndexLookup(p) ==
    /\ pc[p] = "indexed"
    /\ IF job[p].op = "SearchIndex"
       THEN Return(p, "ok")
       ELSE /\ ilock' = NoProc
            /\ Goto(p, "wait")
            /\ UNCHANGED <<excl, shared, job, reply>>
    /\ UNCHANGED <<diskVars, count>>

IndexFails(p) ==
    /\ pc[p] = "indexed"
    /\ Return(p, "error")
    /\ UNCHANGED <<diskVars, count>>

LockScope(p) ==
    LET s == Head(job[p].want) IN
    /\ pc[p] = "wait"
    /\ excl[s] = NoProc
    /\ IF job[p].op = "ListSnapshot"
       THEN shared' = [shared EXCEPT ![s] = @ \cup {p}] /\ UNCHANGED excl
       ELSE shared[s] = {} /\ excl' = [excl EXCEPT ![s] = p] /\ UNCHANGED shared
    /\ job' = [job EXCEPT ![p].want = Tail(@)]
    /\ Goto(p, IF Len(job[p].want) > 1 THEN "wait" ELSE "work")
    /\ UNCHANGED <<diskVars, ilock, reply, count>>

-----------------------------------------------------------------------------
(* What an operation publishes, decided under its lock *)

Art(t, new) == [target |-> t, new |-> new]

\* The checkouts to be put in place, in the order of the names.
ArtsOf(tree) ==
    LET upTo[k \in 0 .. Len(Order)] ==
          IF k = 0 THEN <<>>
          ELSE IF Order[k] \in DOMAIN tree THEN Append(upTo[k - 1], Art(Order[k], tree[Order[k]]))
          ELSE upTo[k - 1]
    IN upTo[Len(Order)]

Clean(c) == [commit |-> c, dirty |-> FALSE]
Dirty(s, r) == disk[s][r] # None /\ disk[s][r].dirty

\* The label of the first root that has the recipe and owns the name.
ResolvePath(r) ==
    IF InProject /\ disk["project"][r] # None THEN "project"
    ELSE IF disk["global"][r] = None THEN "none"
    ELSE IF Pins("global")[r] # None THEN "global" ELSE "local"

CheckCollision(s, r) == Pins(s)[r] = None /\ ResolvePath(r) \notin {s, "local"}

\* The recipes an Update is about: all of the scope's when none is named.
Asked(p) ==
    IF job[p].op = "Update" /\ job[p].names = {} THEN Pinned(job[p].scope) ELSE job[p].names

\* A declaration the lock does not follow: ErrLockOutOfDate.
Stale(s) == \E r \in Packages : Decls(s)[r] # None
                 /\ (IF Pins(s)[r] = None THEN TRUE ELSE Pins(s)[r].ref # Decls(s)[r])

\* What an operation refuses before anything is published.
Refused(p) ==
    LET s == job[p].scope
        gone == s = "project" /\ ~InProject   \* no stoat.toml to read
    IN CASE job[p].op = "Add" ->
              gone \/ (~job[p].force /\ \E r \in Asked(p) : ~CheckCollision(s, r))
         [] job[p].op = "LockAll" -> gone
         [] job[p].op = "Update" ->
              ~(Asked(p) \subseteq Pinned(s)) \/ \E r \in Asked(p) : Dirty(s, r)
         [] job[p].op = "Remove" -> gone \/ ~(Asked(p) \subseteq Pinned(s))
         [] job[p].op = "Sync" -> \E r \in Pinned(s) : Dirty(s, r)
         [] job[p].op = "SyncProject" -> gone \/ Stale(s) \/ \E r \in Pinned(s) : Dirty(s, r)
         [] job[p].op = "RepairSnapshot" ->
              InProject /\ (Stale(s) \/ \E r \in Pinned(s) : Dirty(s, r))
         [] OTHER -> FALSE

\* prepareAddArtifacts: lock, declaration, .gitignore, checkout.
AddArts(p, cs) ==
    LET s == job[p].scope  r == CHOOSE r \in job[p].names : TRUE
        pin == Art("lock", [Pins(s) EXCEPT ![r] = [ref |-> job[p].ref, commit |-> cs[r]]])
    IN <<pin>> \o
       (IF s = "project"
        THEN <<Art("toml", [Decls(s) EXCEPT ![r] = job[p].ref])>> \o
             (IF disk[s]["ignore"] = None THEN <<Art("ignore", "stoat")>> ELSE <<>>)
        ELSE <<>>) \o
       <<Art(r, Clean(cs[r]))>>

UpdateArts(p, cs) ==
    LET s == job[p].scope
        pins == [r \in Packages |->
                   IF r \in Asked(p) THEN [ref |-> Pins(s)[r].ref, commit |-> cs[r]] ELSE Pins(s)[r]]
    IN ArtsOf([r \in Asked(p) |-> Clean(cs[r])]) \o <<Art("lock", pins)>>

RemoveArts(p) ==
    LET s == job[p].scope  r == CHOOSE r \in job[p].names : TRUE
    IN <<Art("lock", [Pins(s) EXCEPT ![r] = None]), Art(r, None)>> \o
       (IF s = "project" THEN <<Art("toml", [Decls(s) EXCEPT ![r] = None])>> ELSE <<>>)

\* The checkouts that do not match their pin, then the strays of a project.
SyncArts(s) ==
    LET wrong == {r \in Pinned(s) : disk[s][r] # Clean(Pins(s)[r].commit)}
        stray == IF s # "project" THEN {} ELSE {r \in Packages \ Pinned(s) : disk[s][r] # None}
    IN ArtsOf([r \in wrong |-> Clean(Pins(s)[r].commit)]) \o ArtsOf([r \in stray |-> None])

\* LockAll saves the new lock in one rename; it does not touch the cache.
LockAllWork(p, cs) ==
    LET s == job[p].scope
        refs == [r \in Packages |->
                   IF s = "project" THEN Decls(s)[r]
                   ELSE IF Pins(s)[r] = None THEN None ELSE Pins(s)[r].ref]
    IN /\ disk' = [disk EXCEPT ![s]["lock"] =
                     [r \in Packages |-> IF refs[r] = None THEN None
                                        ELSE [ref |-> refs[r], commit |-> cs[r]]]]
       /\ Return(p, "ok")
       /\ UNCHANGED <<junk, saved>>

Publish(p, arts, swept) ==
    /\ job' = [job EXCEPT ![p].arts = arts, ![p].swept = swept, ![p].before = disk[job[p].scope]]
    /\ Goto(p, IF arts = <<>> THEN "sweep" ELSE "backup")
    /\ UNCHANGED <<diskVars, lockVars, reply>>

\* RepairSnapshot looks for stoat.toml again once it has its locks.  It may be
\* back by then, moved aside by a command that publishes a new one.
Intrudes(p) == job[p].op = "RepairSnapshot" /\ InProject /\ excl["project"] # p

Work(p, cs) ==
    /\ pc[p] = "work"
    /\ ~Refused(p)
    /\ IF Intrudes(p) THEN Spend("intrusions") ELSE UNCHANGED count
    /\ CASE job[p].op = "Add" -> Publish(p, AddArts(p, cs), FALSE)
         [] job[p].op = "Update" -> Publish(p, UpdateArts(p, cs), FALSE)
         [] job[p].op = "Remove" -> Publish(p, RemoveArts(p), FALSE)
         [] job[p].op \in {"Sync", "SyncProject"} ->
               Publish(p, SyncArts(job[p].scope), job[p].scope = "project")
         [] job[p].op = "RepairSnapshot" /\ InProject -> Publish(p, SyncArts("project"), TRUE)
         [] job[p].op = "LockAll" -> LockAllWork(p, cs)
         [] OTHER -> /\ Goto(p, "snapshot")
                     /\ UNCHANGED <<diskVars, lockVars, job, reply>>

\* Refused, or a clone, a check of the tree or the staging of a file fails.
WorkFails(p) ==
    /\ pc[p] = "work"
    /\ job[p].op # "ListSnapshot"
    /\ Return(p, "error")
    /\ UNCHANGED <<diskVars, count>>

-----------------------------------------------------------------------------
(* publishArtifacts and rollbackPublished *)

Current(p) == job[p].arts[job[p].n]

\* Mutant: the old version is removed, to make room for the new one.
MutBackup(p) ==
    /\ pc[p] = "backup"
    /\ disk' = [disk EXCEPT ![job[p].scope][Current(p).target] = None]
    /\ Goto(p, "install")
    /\ UNCHANGED <<junk, saved, lockVars, job, reply, count>>

Backup(p) ==
    LET s == job[p].scope  t == Current(p).target IN
    /\ pc[p] = "backup"
    /\ disk' = [disk EXCEPT ![s][t] = None]
    /\ job' = [job EXCEPT ![p].old[t] = disk[s][t]]
    /\ Goto(p, "install")
    /\ UNCHANGED <<junk, saved, lockVars, reply, count>>

Install(p) ==
    LET s == job[p].scope  last == job[p].n = Len(job[p].arts) IN
    /\ pc[p] = "install"
    /\ disk' = [disk EXCEPT ![s][Current(p).target] = Current(p).new]
    /\ job' = [job EXCEPT ![p].n = @ + 1]
    /\ Goto(p, IF last THEN "sweep" ELSE "backup")
    /\ UNCHANGED <<junk, saved, lockVars, reply, count>>

\* Mutant: the artifact whose old version was just moved aside is forgotten.
MutPublishFails(p) ==
    /\ pc[p] \in {"backup", "install"}
    /\ job[p].n > 1
    /\ job' = [job EXCEPT ![p].n = @ - 1]
    /\ Goto(p, "undo")
    /\ UNCHANGED <<diskVars, lockVars, reply, count>>

\* A rename fails: at the backup the artifact has not moved, at the install its
\* old version has.
PublishFails(p) ==
    /\ \/ pc[p] = "backup" /\ job[p].n = 1 /\ Return(p, "error")
       \/ /\ pc[p] = "backup" /\ job[p].n > 1
          /\ job' = [job EXCEPT ![p].n = @ - 1]
          /\ Goto(p, "undo")
          /\ UNCHANGED <<lockVars, reply>>
       \/ /\ pc[p] = "install" /\ Current(p).new # None
          /\ Goto(p, "restore")
          /\ UNCHANGED <<lockVars, job, reply>>
    /\ UNCHANGED <<diskVars, count>>

Undo(p) ==
    /\ pc[p] = "undo"
    /\ disk' = [disk EXCEPT ![job[p].scope][Current(p).target] = None]
    /\ Goto(p, "restore")
    /\ UNCHANGED <<junk, saved, lockVars, job, reply, count>>

\* The backups a process leaves behind: old checkouts and an old stoat.toml.
LeaveBackups(p, old) ==
    /\ junk' = [junk EXCEPT ![job[p].scope] = @ \cup {r \in Packages : old[r] # None}]
    /\ saved' = (saved \/ old["toml"] # None)

\* The rollback goes on to the artifact published before this one, or ends.
RollOn(p, old, torn) ==
    IF job[p].n > 1
    THEN /\ job' = [job EXCEPT ![p].n = @ - 1, ![p].old = old, ![p].torn = torn]
         /\ Goto(p, "undo")
         /\ UNCHANGED <<junk, saved, lockVars, reply>>
    ELSE LeaveBackups(p, old) /\ Return(p, IF torn THEN "torn" ELSE "error")

\* RemoveAll of the new version fails: the old one stays in its backup.
UndoFails(p) ==
    /\ RollbackFails /\ pc[p] = "undo"
    /\ RollOn(p, job[p].old, TRUE)
    /\ UNCHANGED <<disk, count>>

\* One artifact after the other, the last first.  A failed rename leaves its
\* backup behind and goes on with the next.
Restore(p) ==
    LET s == job[p].scope  t == Current(p).target IN
    /\ pc[p] = "restore"
    /\ \E ok \in (IF RollbackFails THEN BOOLEAN ELSE {TRUE}) :
         /\ disk' = IF ok THEN [disk EXCEPT ![s][t] = job[p].old[t]] ELSE disk
         /\ RollOn(p, IF ok THEN [job[p].old EXCEPT ![t] = None] ELSE job[p].old, job[p].torn \/ ~ok)
    /\ UNCHANGED count

\* Mutant: the stray backups of earlier runs are not swept.
MutSweep(p) ==
    /\ pc[p] = "sweep"
    /\ IF job[p].op = "RepairSnapshot"
       THEN Goto(p, "snapshot") /\ job' = [job EXCEPT ![p].old = Nothing] /\ UNCHANGED <<lockVars, reply>>
       ELSE Return(p, "ok")
    /\ UNCHANGED <<diskVars, count>>

\* The backups go; in a project's cache those of earlier runs were strays too.
Sweep(p) ==
    /\ pc[p] = "sweep"
    /\ junk' = IF job[p].swept THEN [junk EXCEPT !["project"] = {}] ELSE junk
    /\ IF job[p].op = "RepairSnapshot"
       THEN Goto(p, "snapshot") /\ job' = [job EXCEPT ![p].old = Nothing] /\ UNCHANGED <<lockVars, reply>>
       ELSE Return(p, "ok")
    /\ UNCHANGED <<disk, saved, count>>

\* The new files are in place and a backup cannot be removed: an error that
\* says so.
SweepFails(p) ==
    /\ pc[p] = "sweep"
    /\ \E t \in Targets : job[p].old[t] # None
    /\ LeaveBackups(p, job[p].old)
    /\ Return(p, "leftover")
    /\ UNCHANGED <<disk, count>>

\* A backup directory in a cache is read as a recipe; the snapshot fails when
\* no root has a recipe of that name any more.
Snapshot(p) ==
    LET s == IF InProject THEN Scopes ELSE {"global"}
        lost == \E r \in UNION {junk[x] : x \in s} : ResolvePath(r) = "none"
    IN /\ pc[p] = "snapshot"
       /\ Return(p, IF lost THEN "error" ELSE "ok")
       /\ UNCHANGED <<diskVars, count>>

-----------------------------------------------------------------------------
(* The user, and kills *)

EditDecl(r, ref) ==
    /\ InProject /\ excl["project"] = NoProc
    /\ disk' = [disk EXCEPT !["project"]["toml"][r] = ref]
    /\ Spend("edits")
    /\ UNCHANGED <<junk, saved, lockVars, pc, job, reply>>

EditTree(s, r) ==
    /\ excl[s] = NoProc /\ disk[s][r] # None
    /\ disk' = [disk EXCEPT ![s][r].dirty = ~@]
    /\ Spend("edits")
    /\ UNCHANGED <<junk, saved, lockVars, pc, job, reply>>

Kill(p) ==
    /\ pc[p] # "idle"
    /\ Spend("kills")
    /\ LeaveBackups(p, job[p].old)
    /\ Return(p, "none")
    /\ UNCHANGED disk

-----------------------------------------------------------------------------
Step(p) ==
    \/ IndexLock(p) \/ IndexLookup(p) \/ IndexFails(p) \/ LockScope(p)
    \/ \E cs \in [Packages -> Commits] : Work(p, cs)
    \/ WorkFails(p)
    \/ Backup(p) \/ Install(p) \/ PublishFails(p) \/ Undo(p) \/ UndoFails(p) \/ Restore(p)
    \/ Sweep(p) \/ SweepFails(p) \/ Snapshot(p)

Call(p) ==
    \/ \E g \in Flags, r \in Packages, ref \in Refs, f \in BOOLEAN, step \in {"lookup", "wait"} :
         Add(p, g, r, ref, f, step)
    \/ \E g \in Flags : LockAll(p, g) \/ Sync(p, g)
    \/ \E g \in Flags, names \in SUBSET Packages : Update(p, g, names)
    \/ \E g \in Flags, r \in Packages : RemoveRecipe(p, g, r)
    \/ SyncProject(p) \/ ListSnapshot(p) \/ RepairSnapshot(p) \/ SearchIndex(p)

User ==
    \/ \E r \in Packages, ref \in Refs \cup {None} : EditDecl(r, ref)
    \/ \E s \in Scopes, r \in Packages : EditTree(s, r)

PkgNext == User \/ \E p \in Procs : Call(p) \/ Step(p) \/ Kill(p)

PkgSpec == PkgInit /\ [][PkgNext]_pkgVars

\* A process inside an operation goes on, and waits for nothing but a flock.
PkgFairSpec == PkgSpec /\ \A p \in Procs : WF_pkgVars(Step(p))

-----------------------------------------------------------------------------
(* Properties *)

\* An Add, Update, Remove or Sync that fails leaves the lock file, stoat.toml
\* and every checkout as it found them, whichever rename failed.
FailedLeavesAll ==
    [][\A p \in Procs :
         pc[p] \in {"backup", "install", "restore"} /\ reply'[p] = "error" =>
             disk'[job[p].scope] = job[p].before]_pkgVars

\* After a sync that succeeds, through whatever kills and edits came before, a
\* project's cache holds exactly the pinned commits and nothing else.
SyncedIsCurrent ==
    [][\A p \in Procs : pc[p] = "sweep" /\ job[p].swept /\ (pc'[p] = "snapshot" \/ reply'[p] = "ok") =>
         /\ junk'["project"] = {}
         /\ \A r \in Packages :
              disk'["project"][r] = IF r \in Pinned("project")' THEN Clean(Pins("project")'[r].commit) ELSE None
      ]_pkgVars

HasDecl == InProject \/ saved \/ \E p \in Procs : job[p].old["toml"] # None

\* The user's stoat.toml is never lost: through every command, rollback and
\* kill, it or a version written by a command is in place or in a backup.
DeclSurvives == [][HasDecl => HasDecl']_pkgVars

\* Publishing loses nothing: a failed command leaves no trace, and no command,
\* failed or killed, leaves the project without its declarations.
PublishLosesNothing == FailedLeavesAll /\ DeclSurvives

\* RepairSnapshot is said to keep exclusive locks "for the full
\* read-may-repair": whoever moves files in a scope holds the scope's lock.
RepairIsLocked ==
    \A p \in Procs : pc[p] \in {"backup", "install", "undo", "restore"} => excl[job[p].scope] = p

\* No set of commands waits for each other's flocks: whoever holds one gives it
\* back.
LocksReleased == \A s \in Scopes : [](excl[s] # NoProc => <>(excl[s] = NoProc))
=============================================================================
