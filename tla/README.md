# A TLA+ model of stoat

stoat manages small virtual machines: it keeps one directory per VM under a data
root (`~/.stoat`), runs qemu on them or inserts them on GCE, installs recipes into
the guests over ssh, and offers all of it through a command line, a terminal
interface and an MCP server. There is no daemon that owns the state. Every command
is a process of its own that reads and rewrites the same TOML files, so what keeps
the VMs apart is a handful of `flock`s, the order of file operations, and checks that
were true when they were made. The modules here state what that amounts to, check it
with TLC on small instances, and prove the central parts with TLAPS for every
instance.

Paths below are relative to `src/internal/` unless they start with `src/`.

## 1. Inventory

| Component | State | Operations | Who touches it | Hard behaviour |
|---|---|---|---|---|
| Data root (`config`, `tomlx`, `filelock`) | `vm.toml` per VM, `.lock` | `Lock`, `Load`, `List`, `Save`, `Delete`, `FreePort` | every process | `Save` truncates before it writes; `flock` does not nest; processes are killed |
| VM operations (`core`) | the records, disks and overlays | `Create`, `Clone`, `Update`, `Destroy`, `Forward`, `start` | CLI, TUI, MCP | check-then-act across processes; several file steps of which one fails |
| Start of every command (`recipes.Install`, `keys`) | the bundled recipes in the user's directory, `.manifest`, `.bak` files, the key pair | `Install`, `Refresh`, `Ensure` | every command, before anything else | two first runs at once; an upgrade beside a hand edit; a command cut short |
| qemu lifecycle and snapshots (`qemu`, `provider/qemu`, `core`) | `qemu.pid`, the process, qcow2 snapshots | `Start`, `Stop`, `Running`, `TakeSnapshot`, `Restore`, `DeleteSnapshot` | the operations, and every status poll | the pidfile is removed by whoever finds it stale; stop escalates on timeouts; a snapshot goes to QMP or to `qemu-img` by a check made before |
| Provisioning (`core/apply.go`, `sshx`) | `[applied]` of `vm.toml`, `provision.lock`, `last-provision.log`, the guest | `Apply`, `waitApplied` | CLI, TUI, MCP; cloud-init in the guest | cloud-init runs the same scripts; runs are cut off anywhere; scripts are edited |
| Recipes (`recipes`, `core/deps.go`) | manifests; dependency order | `TopoSort`, `CheckDependencies`, `ResolveDependencies`, `planRecipes` | CLI, TUI, MCP | cyclic manifests |
| Recipe packages (`recipes/remote.go`, `snapshot.go`) | `stoat.toml`, lock file, cache, three flocks | add, update, remove, lock, sync, repair, list | CLI, MCP | several artefacts published together; a kill between renames; lock order |
| Images (`iso`, `core/prune.go`) | `isos/`, `*.part` | download, verify, prune, create | CLI, TUI, MCP | two downloads of one image; prune against a download or a create |
| MCP server (`mcpsrv`) | `jobs.toml`, rate buckets, `agent_access` | the tools, `exec_bg` and its jobs | agents | concurrent calls; a level moved during a call; guests that reboot |
| MCP daemon (`mcpsrv/daemon.go`) | a record per project, the server processes | `Up`, `Down`, `Status` | CLI | pid and port are no identity; a kill between spawn and record |
| Project file and GCE (`project`, `core/project.go`, `provider/gce`) | `stoat.toml`, the records, instance and firewall rule in the cloud | `Reconcile`, `Start`, `Stop`, `Destroy`, prune's comparison, `Extend` | `stoat up/down/rm/prune`, MCP | two remote resources, no transaction; contexts end; 404s; lost answers |
| Terminal interface (`tui`) | the screen's model, messages in flight | `Update` on keys and messages; the form, the pickers, the snapshots pane | one user | a message that arrives after the list, the screen or the question it was about has changed |
| Boot media (`apkovl`, `cloudinit`, `backend`) | overlay, seed | `Prepare` | start | a partial `Prepare` is taken for a complete one |
| CLI, `ui`, `theme` | none beyond a process | parsing, rendering | – | – |
| Guest tables, host checks, installer | none | lookups, probes | – | – |

What makes them correct: no two VMs share an ssh port and no check an operation made
is out of date when it acts (data root); an operation happens entirely or not at all
(update, packages); a user's edit is never taken for stock text or the reverse (setup);
a live qemu is always tracked, keeps its files, and stays within the memory limit
(lifecycle); one run at a time in a guest, each script after those it depends on, and
nothing on record that did not run (provisioning); an order is topological and a
reported cycle exists (recipes); no job, server, image or instance is lost track of
(MCP, daemon, images, GCE); a late message changes nothing it is not about (TUI).
`PROJECT.json` lists the hazards behind these, each at its line, with the property that
covers it.

## 2. Modules

| Module | Models | Extends / instantiates |
|---|---|---|
| `DataRoot`, `MCDataRoot` | the shared data root, seven operations step by step, kills | – |
| `Lifecycle`, `MCLifecycle` | pidfile, qemu process, stop escalation, RAM limit, snapshots | – |
| `AtomicUpdate` | abstract: an edit replaces two files at once or leaves them | – |
| `CommitUpdate` | disk growth and two-file swap inside one `Update` | `AtomicUpdate` through a refinement mapping |
| `Setup` | what every command does first: bundled recipes and keys | – |
| `UpdateCommand`, `MCUpdateCommand` | `stoat update`: the setup, then the update | `Setup`, `CommitUpdate` |
| `Provision`, `MCProvision` | `Apply` with the guest, cloud-init and edits beside it | – |
| `RecipePlan`, `MCRecipePlan` | `TopoSort` and its three callers | – |
| `RecipePackages`, `MCRecipePackages` | remote packages of a project and of the home | – |
| `TUI` | list, detail, edit and the messages in flight | – |
| `SnapshotsPane`, `MCTUI` | the snapshots pane; the two side by side | `TUI`, `SnapshotsPane` |
| `Forms`, `MCForms` | the new-VM form, image picker, scan, download, wizard | – |
| `Images` | the image cache under downloads, creates and prune | – |
| `MCP` | rate limits, levels and the tools that change state | – |
| `Daemon` | `mcp up`, `down`, `status` and their servers | – |
| `MCPService`, `MCMCP` | the server with its calls beside the daemon commands | `MCP`, `Daemon` |
| `Remote`, `MCRemote` | project reconciliation over the GCE provider | – |
| `DataRootProofs`, `LifecycleProofs`, `ProvisionProofs` | the theorems about | the module of that name |
| `ImagesProofs` | the theorems about the images and the form that chooses one | `Images`, `Forms` |
| `RecipeProofs` | the theorems about the plan and the packages | `RecipePlan`, `RecipePackages` |
| `UpdateCommandProofs` | the theorems about the update, the setup and the cloud | `UpdateCommand`, `Remote` |
| `MCPServiceProofs`, `TUIProofs` | the theorems about the MCP server with its daemon, and about the screen and the pane | `MCPService`; `TUI`, `SnapshotsPane` |

Definitions named `Mut...` are wrong variants of the definition that follows them: with
the variant in place TLC finds a property violated, which shows that the property
depends on that piece of code.

Where several conditions answer one question, they are named one by one and checked as
one property: `ChecksStillHold`, for example, is the conjunction of `NewNameStaysFree`,
`UpdateLosesNothing`, `CloneSourceStays` and `LimitNotOvertaken`. Section 3 lists the
parts. Every component module defines its type invariant; `DataRoot`'s is part of a run, the
others have been checked by adding them to their configuration, and section 4 says which
are proved.

### DataRoot

A process is idle or at a step of one operation (`pc`, `job`). A step is what
happens between two points where other processes can be seen to act: taking the
flock, reading the records, truncating `vm.toml` (`os.Create` in
`tomlx/tomlx.go`), writing it, renaming it, running `qemu-img`, launching qemu.
`fd` remembers which directory entry an opened file is linked under, because
`Update` renames `vm.toml` away while another process may be writing to it. `Kill`
ends a process between any two steps and drops its flock.

| Action | Code |
|---|---|
| `Create`, `Clone`, `Plan`, `SaveTruncate`, `SaveWrite`, `MakeDisk`, `PlanRefused`, `SaveFails`, `CreateFails` | `core/core.go` `Create`, `core/clone.go`, `config.Save` |
| `Update`… (`u_load` to `u_install`) | `core/update.go`, the swap as one rename pair (in full in `CommitUpdate`) |
| `Destroy`, check, delete | `core/vm.go` `Destroy`, `config.Delete` |
| `Forward`, `Start`, `Apply` | `core/forward.go`, `core/vm.go` `start` with `qemu.Start`'s `Save`, the load and `Save` around `core/apply.go` |
| `FreePorts` | `config.FreePort`: a port no record names as its ssh port and nobody listens on |

Of a record only the ports and the installed flag are kept; VMs are local and in
disk mode. `Ops` selects the operations the processes issue, because some
properties hold for the operations that hold the flock over their whole
read-modify-write (`LockedOps`) and not beside the others; section 5 lists those.

### Lifecycle

`qemu.Running` is three steps (read the pidfile, look at `/proc/<pid>/cmdline`,
remove the file), called from every operation and from polls that hold no lock.
`Stop` is the escalation of `qemu/run.go`: powerdown, wait, SIGTERM, wait, SIGKILL,
wait, with the process exiting at any moment. The limit check is `CheckStart`'s sum of
recorded RAM. Snapshots ask `Running` and then go over QMP or to `qemu-img`, without
the flock, so the VM may start or stop in between. `Ops` and `RAMs` give each VM its
operations and sizes; each launch has a pid of its own.

### CommitUpdate, AtomicUpdate, Setup, UpdateCommand

`CommitUpdate` is one `Update` after its checks: `qemu-img resize`, the two staged
files, the two backups, the two installs, the rollback and the clean-up, with any step
failing and a kill anywhere. `AtomicUpdate` has one step: the files become new and the
answer is ok, or they stay and it is an error. The mapping calls the files new only
when both are installed and the operation has answered.

`Setup` is what `cli.Run` does before any command: `recipes.Install` with the sweep of
the old flat layout and the comparison of each file with `.manifest`, `keys.Ensure`
under its lock file, and `recipe refresh` with its `.bak` files. A file's content is a
release number, the user's text, or half a write. Beside the commands the user edits
files and the program is upgraded to a release that drops a file. `UpdateCommand` runs a
command's `Setup` and then `CommitUpdate`, so the swap happens only after the setup
succeeded.

### Provision

`Apply` from its load of the record to its final `Save`, one action per point where
the guest, the scripts or another applier can interfere: `provision.lock` (taken
without waiting), the cloud-init markers, the plan, ssh, cloud-init's end, each
script's begin and end, the recorded hashes, the reboot, the health checks. Beside
it the guest boots, goes down and runs cloud-init's list; recipe scripts are edited
on the host; processes are killed and leave scripts running (orphans). A script's
content is a number, 0 for "never ran".

### RecipePlan

`TopoSort` with its explicit stack, and `CheckDependencies`,
`ResolveDependencies` and `planRecipes` around it, one call per behaviour on inputs
chosen in `Init`. The references it is compared with (`DueSet`, the smallest closed
set) are stated without a search.

### RecipePackages

Two scopes (project and home), each with its cache, lock file and, for the project,
`stoat.toml` and `.gitignore`. A command takes the scope's flock (the listing takes both,
shared, in `LockOrder`), resolves its commits, and publishes a list of artefacts: each
target is renamed to a backup, the staged one renamed over it, and on a failure the
backups are renamed back in reverse order; the removal of a new version and the rename of
an old one may each fail there, and the rollback goes on (`RollbackFails`).
`Repair` mends what a kill left. A checkout is a commit and a flag for local changes.

### TUI and SnapshotsPane

The bubbletea loop: a key or a message replaces the model `m` and issues commands;
commands run and their messages arrive in any order. The messages are those that carry
state over time: list loads, tick chains with their generations, starts, install and ssh
watches, provision results, cloud-init polls, the restart after an unattended install.
VMs also change from outside. The snapshots pane has its VM, its rows, its prompt, and a
bag of commands and messages.

### Forms

The create form: image selection, a download with its generation and tick chain, the
bring-your-own picker with its directory scan (batches through a bounded channel, a
generation per scan), the closure of selected recipes under `depends`, and the queue of
the parameter wizard with esc, tab and space.

### Images

Downloads into `*.part` files block by block, the digest where one is published, the
rename; the stall timer; the publisher that rolls an image; prune's two passes with its
two-minute rule; a create that picks an image and a start that makes an overlay on it.
An image's content is the version of each of its blocks, so a mixture shows.

### MCP, Daemon, MCPService

`MCP` has the limiter in integer tokens with a clock, the level check of each tool,
`exec` and `exec_bg` with the job's files in the guest, `jobs.toml` as read and rewritten
by each call, and the tools that change `agent_access`, power and the record. An ssh
command is one step that may never come; the guest may give a dead job's number to another
process, which `kill -0` and `job_kill` then reach (`Reaches`). `Daemon` has
the three commands under their lock file, the server processes with pid and address, and
what goes wrong: a server that crashes, hangs or fails to bind, a command killed,
another program on the address. `MCPService` puts the two side by side; a call reads
nothing the daemon commands write (a client may start its server itself, over stdio).

### Remote

`stoat up`, `project_up`, `down`, `project_down`, `rm`, `prune` and `gce extend` as steps
with one REST operation each (instance insert, rule insert, polls, deletes), over a
project whose declaration is edited meanwhile. API calls fail, answers are lost after the
operation took place, and commands are killed. An instance is at a site, a VM's name in one
of two GCP projects: a record is pinned to the project `config.toml` named when it was made
(`pinned`), while prune lists the one it names now (`Listed`). Zones are left out.

## 3. Runs

All runs are exhaustive and pass. Times are for two workers.

| Run | Bounds | Checks | States |
|---|---|---|---|
| `dataroot_locked` | 2 processes, 3 names, 2 ports, `MaxVMs` 2, failing writes, kills; the locked operations | `TypeOK`; `SSHPortsDistinct`; `ChecksStillHold` (`NewNameStaysFree`, `UpdateLosesNothing`, `CloneSourceStays`, `LimitNotOvertaken`); `LockReleased` (fair) | 477 k, 1 min |
| `dataroot_running` | 2 processes, 1 name, 2 ports, failing writes; every operation | `RunningKeepsDisk` | 222 k, 5 s |
| `lifecycle` | 2 actors, 2 pids, 1 tag, `MaxRAM` 2; VM `a` (RAM 2) with every operation, VM `b` (RAM 1 or 2) started and resized beside it | `LiveIsTracked` (`LiveIsSeen`, `LiveHasRecord`); `WithinMaxRAM`; `OkIsDone` (`StopReallyStops`, `SnapshotOkIsDone`); `StopReturns` (fair) | 1.07 M, 3.5 min |
| `update_command` | 2 commands, 2 releases, 2 recipe files of which the second release drops one, 1 command cut short, all 16 inputs of the update | `RecordSound` (`RecordSurvives`, `DiskNotOverstated`); `EditsToldApart` (`EditKept`, `StockRecognised`); `KeyStable`; `AllOrNothing` (refinement) | 1.93 M, 1 min |
| `provision` | 2 appliers, `b` depends on `a`, listed `<<b, a>>`, 1 edit per script, 1 orphan, disk and cloud VMs | `OneRunAtATime`; `DependenciesMet`; `ReportsAreTrue` (`RecordedRan`, `DoneIsDone`) | 5.4 M, 2 min |
| `recipe_plan` | all 512 depends relations on 3 recipes | `OrderIsTopological`; `CycleIsReal`; `PlanIsReference`; `ResolveIsClosure`; `Returns` (fair) | 2.6 M, 1 min |
| `recipe_packages` | 2 processes, 2 scopes, 1 recipe, 2 commits, 2 calls, 1 edit, 1 kill, failing renames in the rollback too | `PublishLosesNothing` (`FailedLeavesAll`, `DeclSurvives`); `SyncedIsCurrent`; `LocksReleased` (fair) | 802 k, 3 min |
| `tui` | 2 VMs in two fleets, 3 keys, 1 change from outside; the pane over 2 VMs and 2 tags, 6 keys, 1 change from outside | `OneOfEach` (`OneProvision`, `OneTickChain`); `PromptStays`; `PaneFaithful` (`DoneWasAsked`, `RowsAreCurrent`) | 1.36 M, 30 s |
| `mcp` | 2 calls of any tools, 2 job ids, 2 time steps, levels 0 and 3; 2 daemon commands, 2 projects, 1 address, 2 pids, 1 mishap | `GatesHold` (`BucketsExact`, `ActsWithinLevel`); `JobsRemembered` (`AnsweredIsListed`, `NeverRunsAgain`); `ServersTracked` (`RunningIsOwn`, `ServerRecorded`); `CallsEnd` (fair) | 820 k, 1 min |
| `remote` | 2 VMs, 2 GCP projects, 2 declarations, 2 commands, 1 kill or edit, durations 1 and 2 with a limit of 1 | `CloudAccounted` (`InstanceRecorded`, `SoftWithinHard`, `BornLocked`, `DestroyClean`); `Converges`; `CommandsEnd` (fair) | 436 k, 3 min |
| `forms` | 2 catalogue entries, 3 files, 3 recipes, 6 keys | `FormFaithful` (`BuildsShown`, `SelectionClosed`, `ValuesKept`); `WorkFollowed` (`FetchFollowed`, `ScanFaithful`); `ScanEnds` (fair) | 942 k, 3 min |
| `images` | 1 entry with and without a digest, 2 downloaders, 1 VM, 2 versions, 2 part files | `CacheSound` (`FinalComplete`, `LivePartsStay`, `ImageThere`); `DownloadEnds` (fair) | 452 k, 1.5 min |

Why the bounds are enough for the case each property is about:

- Two processes show every race of one operation with another. Three names let a
  clone, its source and a competing create meet under a limit of two; two ports make
  every second allocation a contended one. The theorems of section 4 remove these
  bounds for the properties of the locked operations.
- A VM of RAM 2 and one of 1 or 2 under a limit of 2 have pairs that fit only when one
  of them is down. Two pids are one old and one new qemu, which is what a stale pidfile
  confuses; an instance with three pids (17 M states) passes the safety properties too.
- Two releases and a dropped file have every relation of a file to its manifest entry
  (stock, edited, adopted, orphaned).
- Two recipes listed against their dependency order, one edit (so that a recorded hash
  and the script differ) and one orphan give every pair of scripts that can meet;
  more edits or orphans repeat them.
- A list of recipes is one of `<<a>>`, `<<a,b>>`, `<<a,b,a>>`, `<<a,b,c>>` with
  the names exchanged, and all graphs are tried on each, so nothing is lost by not
  permuting them. Three recipes have every shape of cycle up to length three and a
  cycle reached through a tail.
- A package publication already has several artefacts with one recipe (lock file,
  `stoat.toml`, `.gitignore`, checkout), so a failure or kill falls between any two.
- Six keys are enough to open the form or the pane, start something, leave, come back
  and meet its message; the pane alone passes with eight (15.5 M states).
- Buckets of one token and a clock of two ticks have every grant and refusal of two
  calls; one pid more than a project needs lets a dead server's pid come back. The
  daemon alone passes with 2 addresses, 3 pids and 2 mishaps (939 k states).
- `remote` begins with a project that is not up, or one brought up while `config.toml`
  named the same GCP project or another one. `SmallInit` pairs the first case with the
  declaration that has everything and the last with the smaller one. Two commands, each
  over both VMs, show every pair; three, or a kill and an edit in one behaviour, take
  much longer, and `CloudStaysAccounted` covers them.

Three instances leave out interleavings that cannot differ. In `MCUpdateCommand` the
update reads nothing the setup writes and the reverse, so their steps commute: the
action constraint lets the update run when no other command is about. In `MCMCP` and
`MCTUI` the two modules share no variable, and each is explored while the other is in
its first state; the properties speak of one module at a time.

`CHECK_DEADLOCK FALSE` is set where a behaviour really ends: after the calls, keys or
commands the bounds allow. Symmetry is used only in `dataroot_running` and
`provision`, which have no temporal property, over constants nothing orders or names.

Fairness, and why the code justifies it:

- `DataRoot`, `Lifecycle`, `RecipePackages`: `Step(p)` of each process. Inside an
  operation nothing blocks but a flock, whose holder is fair too or is killed and so
  releases it, and `Stop`'s waits, which have deadlines (`qemu/run.go:164-201`). No
  operation is obliged to begin, no guest to react, no qemu to exit.
- `RecipePlan`: `Next` of one sequential call.
- `TUI`: the provision command and the handling of its result; bubbletea runs every
  command and delivers every message.
- `Forms`: the scan goroutine and the pump that drains it. No key is obliged.
- `Images`: a download's own steps, its stall timer and the clock. No byte is obliged to
  arrive.
- `MCP`: the steps a call takes on the host, and the deadlines `exec` and `job_wait` give
  their ssh commands. Nothing is assumed of the guest: only `ConnectTimeout` bounds the other
  ssh commands (`mcpsrv/tools_exec.go:257-258`, `mcpsrv/tools_exec.go:464`), and once
  connected they may be silent for ever. So `CallsEnd` says that a call ends or stays inside
  one ssh command that nothing on the host cuts off (`WithoutDeadline`): `job_wait` gets past
  its polls, but not past its closing `jobTail`.
- `Remote`: the steps of a command, and that GCE completes an operation it accepted,
  well or not. This takes every API call to answer: the calls run under contexts without a
  deadline (`core/vm.go:686`, `core/vm.go:781`), and `operatorRange`'s HTTP request
  (`provider/gce/instance.go:182-191`) has no timeout of its own. Whatever bounds them is
  below this code; what it leaves open, a command holds open too, and with it the data-root
  lock.
- `Provision` states no liveness: after a reboot the poll for sshd has no deadline of
  its own (`core/wait.go:188`). `Setup` and `Daemon` state none either.

### Where the code and its comments disagree

The following came up while translating. Each has a configuration of its own that
TLC answers with a counterexample; they ask about a sentence in a comment or a doc and
are kept apart from the runs above.

| Configuration | Property | What is said | What the code does |
|---|---|---|---|
| `DataRootStart` | `SSHPortsDistinct` | the lock covers the whole read-modify-write, so that no two updates claim one port (`core/update.go:115-117`, `config/lock.go:24`) | `start` loads the record, then takes the flock, and its `Save` undoes an `Update` in between (`core/vm.go:658`); the old port may by then belong to another VM |
| `ProvisionWait` | `AppliedIsSeen` | `wait --until applied` waits for the most recent run to have succeeded | after a recipe that reboots, the log does not end in the line it looks for (`core/apply.go:287`) |
| `ProvisionOrder` | `DependsRunFirst` | `depends` names recipes that must run first | cloud-init's first boot runs them as listed (`backend/cloudinit.go:108`) |
| `RecipePackagesRepair` | `RepairIsLocked` | `RepairSnapshot` retains exclusive locks for the full read-may-repair (`recipes/snapshot.go:179-180`) | it asks again, after locking, which scope is the project's (`recipes/snapshot.go:186`); a `stoat.toml` that appeared in between is repaired without its lock |
| `UpdateCommandRefresh` | `StockRecognised` | a fixed recipe reaches those who have the old one | `recipe refresh` and another command's `Install` each write the `.manifest` they computed; the entry lost makes a stock file an edit after the next upgrade |
| `TUIInstall` | `InstallFollowed` | stoat notices the install and offers to apply recipes (`tui/provision.go:69-70`) | the message is judged by the rows last loaded, which may not show the VM installed and running yet, and is then dropped (`tui/app.go:364-374`) |
| `TUITicks` | `DetailTicks` | a diverted message must not be swallowed, the tick chain depends on it (`tui/app.go:191-195`, `tui/edit.go:385-388`) | a tick that arrives under the pager or the snapshots pane is taken by it, and closing the overlay starts no new chain |
| `TUI`, with this property | `ResultFindsList` | when a result arrives the pane is back at the plain list (`tui/snapshots.go:140-143`) | keys are free while the action runs, so it may find a prompt |
| `FormsDownload` | `OneDownload` | only one download runs at a time (`tui/download.go:22-24`) | a new form counts generations from 0 again and takes the cancelled fetch's outcome for its own |
| `ImagesBase` | `BaseUnchanged` | fetching again repairs an image at no risk to a good one (`tui/form.go:797-801`) | the rename replaces the file other VMs' overlays are backed by (`iso/iso.go:711`) |
| `ImagesSeed` | `OverlayHasSeed` | `Prepare` makes overlay and seed on the first start (`backend/cloudinit.go:26-28`) | it takes the overlay's existence for both (`backend/cloudinit.go:38`) |
| `MCPList` | `ListWorksStopped` | `list_jobs` has to work on a stopped VM (`mcpsrv/jobs.go:21`, `mcpsrv/tools_exec.go:426`) | an ssh session that fails is an error of the call (`mcpsrv/tools_exec.go:435`) |

Three more properties hold and are no run's: `ProvisioningEnds` under `TUI`'s
configuration (688 k states with no pane keys), and `ForwardsDisjoint` with
`OnlyCreateAddsVM` under `DataRootLocked`'s with `Procs = {p1}`, `Names = {a, b}` and
`Ops <- EveryOp` (750 k states); with two processes the last two fail (section 5). The
instance of theorem `EditsStayToldApart`, `UpdateCommand`'s configuration with
`Procs = {p1}`, `RefreshAlone = FALSE` and `MaxCuts = 0`, has 47 k states.

## 4. Proofs

Every theorem holds for arbitrary constants that satisfy the modules' `ASSUME`s (most say
that a "none" value is none of the others, that a list ranges over the set it lists, and
that a bound is a number); a further assumption is in the theorem's statement. Every
invariant below was first checked by TLC on the run's instance. A theorem's module is
that of the component, or of one it composes well with: `UpdateCommandProofs` is about the
commands that write records, `stoat update` and `stoat up` on GCE with what undoes it.

**DataRootProofs.** `TypeInv` is `TypeOK` with `Located`, which ties a process's step
to the operation and the VM its job must have. `LockInv` says which steps only the flock's holder is at;
its lemma `Exclusive` gives that two processes are never at such steps together, and most
of the rest follows from it. Upon these:
- `PortInv` (for `SSHPortsDistinct`): besides the records on disk, the record a process is
  about to write, and the one `Update` has moved to `vm.toml.old`, have ports no other VM
  has. The bare invariant is not inductive because a port is chosen steps
  before it is written. Theorem `PortsStayDistinct`, for `Ops \subseteq LockedOps`.
- `CheckInv`: what was checked is still so at every step up to its use. Theorem
  `ChecksHold` gives `ChecksStillHold`, all four parts.
- `DiskInv`: a running VM has its disk, a disk without `vm.toml` belongs to an update
  between its renames, and a VM about to be made or deleted is not running. Theorem `RunningDiskStays`, for all
  operations, without kills (section 5 says why).
- `DestroyedStaysDestroyed` is an action property proved from the same invariants, one case
  per action.
- `TypeCorrect` needs no assumption.

**LifecycleProofs.** `TypeCorrect`, `LiveStaysTracked` (`LiveIsTracked`, for
`LiveMode = FALSE`: a live-mode start makes a destroyed VM's directory again),
`OkMeansDone` (`OkIsDone`) and `MemoryStaysWithin` (`WithinMaxRAM`). What a `Running` found is stale by the time its caller acts, so
the invariant `ActorInv` says of each step what is still true of it: `Stale`, that the pid
somebody is about to find dead, or of another VM, does not become this VM's; `DestroyInv`,
that from `Destroy`'s check to its end no live qemu of the VM can be seen, since a launch
needs the flock that `Destroy` holds; `StopInv`, that the one qemu `Stop` was called on is
still there until it is gone for good; and `SnapInv`, which ties a reply to the command that
was carried out. `Env` collects what one process may count on while another
moves, so the preservation proof is one lemma per procedure and one for everybody else.
`MemoryStaysWithin` (`WithinMaxRAM`, for `LiveMode = FALSE`) strengthens the limit to
`RAMInv`: the sum is taken over the qemus that can be seen and hold what their `vm.toml`
records (`Counted`), whatever else runs; and a start that passed the check (`Admitted`)
still has room for its own RAM on top, which holds until its launch because it keeps the
flock. The sum is `MapThenSumSet`'s; that its value does not depend on the order elements
are chosen in (`TotalRemove`), and that sending each element to one of its own that counts
for no less bounds one sum by another (`TotalDominated`, used for the check, which sums over
VMs what the invariant sums over pids), is proved by smallest counterexample, on the number
of elements.

**UpdateCommandProofs.** `CommitInv` describes, for every step, where each version of the
two files is (`VMShape`, `SecretsShape`), what answer is due (`ReplyShape`) and how large
the disk is (`DiskShape`). From it `TypeCorrect`, `RecordStaysSound` (`RecordSound`)
and the refinement `UpdateIsAtomic`: initial states map to initial states and each step to
the abstract step or a stutter. All assume that the rollback's own renames succeed
(`~RollbackFails`). `CommandIsAtomic` carries both over to the whole command.
- The setup: `SetupTypes`; `KeyStays` (`KeyStable`) from `KeyInv`, by which one `Ensure` at
  a time is past the flock and clears half a pair only before anybody went on with
  it; and two theorems from `RecipesInv`, which says for every process
  in the walk what it has read, what it decided, and why nobody else's walk makes that
  decision wrong. `EditsStayToldApart` is for one stoat at a time that nothing cuts short
  (`OneAtATime`, `MaxCuts = 0`), and says `EditsToldApart` with nothing exempt: `spoiled`, the
  files somebody read half written, stays empty (lemma `NothingSpoiled`). With several
  commands and kills `UnspoiledStaysToldApart` gives `EditsToldApart`, which is about the
  files not in `spoiled` only, and assumes besides that a refresh runs alone
  (`RefreshAlone`), which no lock of the code sees to. Both assume `NeverReturns`: no
  release brings back a file that an earlier one dropped (section 5).
- The cloud (`Remote`): `CloudTypes` (`RemoteTypeOK`), `CloudStaysAccounted` (`CloudAccounted`) and
  `UpConverges` (`Converges`), from `CloudInv`. Its `Placed` says what a process relies on at
  each place: the record it starts from is there or was removed before the lock, the rule
  exists before the insert, what `rm` deletes next is no longer used, what prune did not see has no
  instance where it looked, the operation it waits for is going on, and the deadline it is about
  to promise is within the hard one if there was one to compare with. `CloudAccounted` has the
  exceptions the code makes (`unowned`, `blind`, section 5). `Effects` says what each step leaves alone for the
  others: an operation that goes on, and without the lock every rule, every record and every
  absent instance. `FlightInv` ties an operation to the instance's status and `RecordInv`
  says that a record gives values only to recipes it lists, without which `Update` would not
  converge. `UpConverges` then is an algebraic fact about `Diff`, `RemovedParams` and
  `Patched` (lemmas `CreatedFacts`, `PatchedFacts`, `PatchConverges`), for every declaration.

**RecipeProofs.** The plan: `SortInv` carries the depth-first search: the frames of the stack
are the grey recipes, linked by depends edges (`StackInv`, `ColorInv`), and what is put
out has its dependencies before it (`OrderInv`). `CoverInv` adds that no recipe gets lost
between the roots still to visit, the stack and the order; `KeptInv` that `planRecipes` has
decided exactly the recipes it has passed; `ClosureInv` that the worklist of
`ResolveDependencies` holds every dependency not yet added (`ReachInv`), that nothing is
added twice (`AddedInv`) and that every set closed under depends which holds the list holds
what was added (`LeastInv`, which is how a least fixed point is proved without an
induction). Theorems: `TypeCorrect`, `Topological`, `ReportedCycle`, `PlanDecidesTheSet`,
`ClosureIsLeast`, for every number of recipes and every relation.
- The packages: `PackagesTypes` (`PkgTypeOK`), with `Typed`, which gives every file of a scope
  what its kind of file may hold and every step the job it needs. `ArtsOfLists` says that the
  loop over the sorted names stages each checkout once, and lemmas of their own say of each
  operation that its list has one artifact a target, `stoat.toml` only in a project.
- `PublishingLosesNothing` (`PublishLosesNothing`) and `SyncLeavesThePins` (`SyncedIsCurrent`)
  follow from `PublishInv`. Its `Progress` says of every target of a process that it is as
  the operation found it (`Kept`), aside (`Aside`), replaced with its old version aside
  (`Placed`), or, in a rollback, back or aside for good because its rename failed (`Back`);
  `Plan` says what is published, and of a sync that it is every checkout which is not the one
  due; `Held` that who moves files holds the scope's lock. So the files a process stands on do
  not change under it (`Alone`, `OthersSound`), and each step needs to be looked at for its own
  process only (`ProgressOn`: nothing but the target of the step changes).
- Both assume `Limit["intrusions"] = 0`, as the run does: a `RepairSnapshot` that finds a
  project only after it has taken its locks publishes there without the project's lock
  (`RecipePackagesRepair`, section 3), and then nothing is promised to the process that holds it.

**ProvisionProofs.** `TypeCorrect`; `RunsExclude` (`OneRunAtATime`) from `LockInv`, `WaitInv`
and `CloudInv`, by which an applier past `provision.lock` is its holder and, once past its
wait, never meets cloud-init again; and, for `Modes` without `"live"` (a live guest forgets
what ran in it), `DependenciesStayMet` (`DependenciesMet`) and `ReportsStayTrue`
(`ReportsAreTrue`). These need that everything which speaks of finished recipes speaks
the truth, however stale it is: the record (`RecordInv`), the copies appliers loaded before the
lock and the part of a run behind it (`JobInv`), and the log (`LogInv`).

**ImagesProofs.** `TypeCorrect` and `CacheStaysSound` (`CacheSound`), from three invariants: no
two downloads at work share a `.part`, and none is older than the stall timeout (`OwnParts`);
the blocks up to where a download is are of the one version it asked for
(`DownloadInv`); and what is on prune's list is in no record, since records come to name
an image only under the flock prune holds (`RecordsInv`, `PruneInv`).
- The form: `FormsTypes`, `FormStaysFaithful` (`FormFaithful`) and `WorkStaysFollowed`
  (`WorkFollowed`), from `FormInv`. `Whole` says that the selection is what was asked for and
  what that needs (closed again after a check because `Depends` is transitive, lemma
  `Checked`), and that the open wizard asks for checked recipes only and for the one that
  opened it last, which has no answer yet: so abandoning it takes no answer away
  (`CancelKeeps`). That the Spec's overrides never reach a catalogue image needs no invariant:
  `Apply` and `Resolved` agree for every form (`BuildsIsResolved`). `SearchOK` is about the
  search: generation and picker together tell the commands of the open search from any
  earlier one (`Knows`); exactly one command waits on its channel, until the end has been
  seen (`OnlyOne`); and the list, the batch in that command's hand, the batches in the
  channel and the batch being gathered are, in this order, the files the walk has passed
  (`Run`, `Follows`, `Content`). `mixed` is what it excludes: generations begin again with each
  picker, so a late batch of an earlier picker's scan can be taken for one of the current one.

**MCPServiceProofs.** `TypesHold`, `GatesAlwaysHold` (`GatesHold`), `JobsStayRemembered`
(`JobsRemembered`) and `ServersStayTracked` (`ServersTracked`), for every rate, burst and
unit. `BucketsExact` says that a bucket is the minimum over the windows behind it, which is
not what a step preserves; `BucketsTight` says that it is below each and equal to one, and
each step preserves that by a lemma of its own. `RegistryInv` tells saves that overlap from
those that do not, `OverInv` says that the job of a
call in `over` is over still, so that the call reads the exit file or finds neither pid nor
directory, `LevelInv` which
level let a call past the gate. For the daemon `HolderInv` gives one command at a time past
the lock file, `CommandInv` what it may rely on, and `ServersInv` that a server nobody lost is on
record or the child of that command.

**TUIProofs.** For the screen `TypeCorrect`, `NothingIsDoubled` (`OneOfEach`) and
`TheQuestionStays` (`PromptStays`), from `LoopInv`: a VM is marked as provisioning exactly
while one command or message of it is in the bag of messages in flight (`RunsMarked`, `RunsAlone`,
`MarksHaveRun`), and no tick in flight is of a later generation than the screen's. For the
pane `PaneTypes` and `PaneStaysFaithful` (`PaneFaithful`), from `PaneInv`: with one command at a time one
thing is in flight, it was asked for, and it knows the disk as it is. The bag lemmas at the
beginning say how many copies of each element adding and taking away leave.

Type invariants are proved for all modules.

Only model-checked are the liveness properties (`LockReleased`, `StopReturns`, `Returns`,
`LocksReleased`, `CallsEnd`, `CommandsEnd`, `ScanEnds`, `DownloadEnds`), which are out of the
prover's reach.

## 5. Limits of what holds

While modelling, the following turned out to be needed for the properties above, or not
to hold. The constants of the modules reproduce those marked with their setting.

Ports and records
- `FreePort` looks at ssh ports only, not at the forwards other VMs declare
  (`config/config.go:453`); `ForwardsDisjoint` is about forwards among each other and
  holds for one process only.
- `Forward` saves without the flock and `Encode` truncates first, so a create beside it
  may read an empty record (`core/forward.go:63`, `tomlx/tomlx.go:144`):
  `Ops = {"create", "forward"}` violates `SSHPortsDistinct`.
- `Forward`'s and `Apply`'s `Save` bring back a VM destroyed meanwhile
  (`core/apply.go:268`): with two processes `OnlyCreateAddsVM` fails.
- A kill between `Update`'s renames leaves a directory with a disk and no `vm.toml`; a
  create of that name makes a new disk. `RunningKeepsDisk` is checked and proved with
  `Kills = FALSE`.
- When `Create`'s first `Save` fails, an empty `vm.toml` stays (`core/core.go:168`), while
  every later failure removes the directory (`core/core.go:171-191`). Both are in
  `dataroot_locked`; the removal is one step, so nothing is stated about it.
- A Forward, Apply or start that reads `vm.toml` beside a `Save` decodes an empty record;
  under the flock nobody does, so `SSHPortsDistinct` does not meet this in its run.
- When the rollback of `Update` itself fails, `vm.toml` is lost with the stage directory
  (`core/update.go:403`): `RollbackFails = TRUE` violates `RecordSurvives`.
- A clone's overlay is backed by its source's disk: `Destroy` does not ask about it, and
  starting the source or restoring a snapshot of it changes what the clone reads
  (`core/clone.go:28-31`). `Clone` does not consult `CheckCreate` (`core/limits.go:59`).

Setup
- `EditKept` leaves out files a release no longer ships: `recipe refresh` writes the stock
  text of a dropped file over the `.bak` that held the user's edit. A kill between the
  adoption of an edit and the write of `.manifest`, followed by an upgrade, overwrites the
  `.bak` as well, so the property is about commands that were not cut short.
- A file that one release drops and a later one brings back is taken for an edit: `Install`
  records only files of the release it runs from, so the copy left behind has no entry in
  the manifest when the file returns. `EditsStayToldApart` assumes that none does.
- A write cut short leaves a truncated recipe that counts as a hand edit from then on; a
  truncated `.manifest` reads as empty, not as missing; two first commands may read each
  other's half-written files; the loser of the v1 sweep fails its command.
- `keys.Ensure` takes any `.pub` for a complete pair; a kill may leave an empty one. An
  `ssh-keygen` that outlives a killed stoat is not modelled.
- The run takes a refresh to be alone (`RefreshAlone`); beside another command it loses
  manifest entries (section 3), and nothing in the code keeps it alone.

Lifecycle
- A late `Running` that had read an old pid removes the pidfile of the new qemu
  (`qemu/process_linux.go:40`): the VM looks stopped and `Destroy` removes it under its
  live qemu, against `core/vm.go:758-760` and `src/docs/reference/cli.md:344`. The
  properties exempt exactly those processes (`lost`).
- The memory limit sums recorded RAM, which `update` may change under a running VM
  (`core/limits.go:138`); `WithinMaxRAM` exempts such VMs (`resized`). A record that spells
  out `provider = "qemu"` is not counted (`core/limits.go:83`).
- A live-mode start behind a `Destroy` makes the directory again (`core/vm.go:658`,
  `apkovl/apkovl.go:153`): `LiveMode = TRUE` violates `LiveHasRecord`. The
  limit sums over the `vm.toml`s, so it misses that qemu: `WithinMaxRAM` is violated too.
- Pids are not reused in the model; `Stop` signals a pid it read again without the cmdline
  check.
- A take that reports an error may have made the snapshot, and `qemu-img` adds a second
  snapshot of the same name.

Provisioning
- The markers of the first boot are recorded under the hash of today's script, so a
  script edited since counts as applied (`core/apply.go:390`).
- The hash recorded after a run is that of the script as it is then
  (`core/apply.go:230`), and the record is loaded before `provision.lock` is taken
  (`core/apply.go:61`), so what an earlier run saved in between is written over.
- A script orphaned by a kill or a cancelled context may overlap the next run;
  `OneRunAtATime` is about the scripts somebody waits for.
- Manual recipes run at the first boot of a cloud VM, which
  `src/docs/writing-recipes.md:151` excludes.

Recipe packages
- A kill between renames can leave `stoat.toml` in a backup only; no command puts it back,
  and the backup directories it leaves are listed as recipes.
- A missing lock file reads as an empty one, so a sync then empties the project's cache;
  a sync removes stray directories without asking whether they hold changes; the check for
  changes precedes the publication by several steps.
- A failed sweep of backups is reported as a failure of a command that published.

Terminal interface
- Snapshot, log and edit results carry no VM name, and list loads no generation: a late
  one is shown for another VM or over a newer list. `RowsAreCurrent` is therefore stated for
  one command at a time, none failing, and no other process.
- Each start of a cloud VM adds a poll chain; a late screen change brings the user back to
  the list; a saved edit may move to the detail screen with the delete question armed.
- An open parameter form takes download ticks and outcomes and drops them, against
  `tui/app.go:432-438` (`FetchFollowed` exempts it, `stranded`); a new image picker counts
  scans from 0, so an earlier picker's scan may answer in its place (`ScanFaithful`,
  `mixed`); space on a recipe selected only as a dependency discards its answers
  (`ValuesKept`); a late download outcome moves the picker and leaves the overrides.

Images
- prune's rule that a `.part` untouched for two minutes has no writer (`core/prune.go:25`)
  leaves out a suspended process. A body that ends with its connection could truncate an
  image without a digest. Entries that name a file per version never replace one.

MCP and daemon
- `saveJob` rewrites the whole registry without a lock (`mcpsrv/jobs.go:84`): a job of one
  of two servers may be lost; an empty exit file reads as exit code 0, an empty pid file as
  a job unknown. The update tool checks its level before the lock.
- `jobState` asks the pid only when there is no exit file, and then believes it
  (`mcpsrv/tools_exec.go:370-409`). A job that ends between the two reads, one whose exit file
  a dropped session hid, and one whose wrapper died before writing it may be taken for
  running when the guest has used the number again, and `job_kill` then signals a
  stranger, against "a job that is not running is not signaled". `NeverRunsAgain` is about
  calls that find the job over when they look it up and keep their session.
- A level lowered between a call's gate and its ssh command stops nothing
  (`mcpsrv/access.go:71`).
- A live pid and an answering address are not an identity (`mcpsrv/daemon.go:173-176`):
  after a crash, with the pid reused and the address served by another project, `down`
  signals a stranger. `RunningIsOwn` is stated without such mishaps; an `Up` killed between
  spawn and record leaves a server nobody can stop.

Projects and GCE
- `start` loads the record before the lock, so an instance may be inserted for a VM that
  was removed meanwhile (`InstanceRecorded` exempts it, `unowned`).
- prune lists the instances of `config.toml`'s GCP project only
  (`provider/gce/reconcile.go:61-77`) and takes every gce record it has no instance for as
  stale, one pinned to another project too (`core/prune.go:206-243`): with `--apply` the
  record of a running instance goes (`unowned` again).
- `extend` compares with the hard deadline only when there is one
  (`provider/gce/extend.go:40`), and an instance that is provisioned for the first time has
  none (`provider/gce/deadline.go:16-24`): any duration is accepted then (`SoftWithinHard`
  exempts it, `blind`).
- When the answer to the insert is lost, the rule is deleted while the instance comes up
  (`provider/gce/gce.go:164-174`). It then runs without its rule (`BornLocked` is about the
  moment of the insert), and `rm` deletes the instance but fails on the rule that is gone,
  so the record stays.
- `Destroy` fails when the instance does not exist, so a VM never started cannot be
  removed, while prune takes its record for stale (`provider/gce/gce.go:81-84`); the report
  of an orphan advises `stoat rm`, which needs a record. A rule left behind makes every
  later start fail (`gce.go:113-114`). `extend` can move a deadline backwards.
- A declaration that drops a recipe but keeps its table of parameters is reconciled once and
  then refused: `Update` removes the recipe with its values, `Diff` sees the table as drift,
  and the next `up` fails with `ErrRecipeNotApplicable` (`core/update.go:268`,
  `core/project.go:382-416`), against "Reconcile makes the VM named by one declaration match
  it" (`core/project.go:346`). `Converges` is about declarations whose parameters are for
  recipes they name.
- `Reconcile` loads the record three times. A record that another process changes after the
  first load and changes back after `Diff` is patched with a list of fields that is out of
  date; `Converges` is about a record nobody else changed (`Undisturbed`).
- The MCP tools `project_up` and `project_down` fail on a VM already up or down, against
  `mcpsrv/tools_project.go:40-43`; removed secrets are never unset, so every `up` updates
  again.

Not modelled: TOML text, argument parsing, rendering, key tables and themes, the contents
of overlays, seeds and argv, recipe parameters and their validation, manifest schema, git and
archive formats, the read-only MCP tools and redaction, host probes and the installer script,
the process code of systems other than Linux, and the HTTP layer under the cloud's
operations. They are formats, tables and I/O without state shared between processes.

## 6. Plan

Done: the data root, the process lifecycle with snapshots, the update with its setup,
provisioning, recipes and their packages, images, the MCP server and its daemon, project and
cloud, and the three parts of the terminal interface; proofs of the safety and action
properties of all of them.

Worth adding to the models: the pid reuse that `Stop` is exposed to, `Forward` on a running VM
over QMP, and the commands `up`, `down` and `apply` as sequences over `DataRoot`'s state.
