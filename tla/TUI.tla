-------------------------------- MODULE TUI --------------------------------
(***************************************************************************)
(* The terminal interface as the message loop it is: internal/tui holds    *)
(* one model value, Update turns a key or a message into the next value    *)
(* and a set of commands, and every command runs in a goroutine of its own *)
(* and later delivers one message.  Commands and messages in flight are    *)
(* one bag, so they run and arrive in any order.                           *)
(*                                                                         *)
(* Covered: the list, detail and edit screens, the create form as far as   *)
(* it creates, the log pager and the snapshots pane as the two overlays of *)
(* the detail screen, the watches that follow a start (cloud-init, the     *)
(* unattended install, sshd) and the provision run.  What is only drawn    *)
(* (toasts, spinner, help, log tail, the edit form's running hint) is left *)
(* out.  A key acts on any listed row: movement and the search filter can  *)
(* put the cursor on each of them.                                         *)
(***************************************************************************)
EXTENDS Integers, Sequences, FiniteSets, Bags, BagsExt

CONSTANTS
    Last,         \* the VM directories are 1..Last, in the order of the list
    Fleets,       \* the VMs to begin with: how each boots, and its recipes
    MaxKeys,      \* keys pressed in a behaviour
    MaxOutside    \* changes made by other processes and by guests

ASSUME BoundsAssumption == Last \in Nat \ {0} /\ MaxKeys \in Nat /\ MaxOutside \in Nat
ASSUME FleetsAssumption ==
    Fleets \subseteq [1..Last -> [mode : {"live", "disk", "cloud"}, work : {"none", "pending"}]]

VARIABLES
    mode,      \* how each VM boots; immutable
    vm,        \* what the data root and the provider say of each VM
    m,         \* the model value of the program
    cmds,      \* bag of commands running and messages not yet delivered
    keys,      \* keys pressed so far
    outside    \* changes made elsewhere so far

vars == <<mode, vm, m, cmds, keys, outside>>

VMs  == 1..Last
None == 0

(* What vm.toml says of the recipes: none selected, some that are not      *)
(* recorded as applied, or all of them applied.                            *)
Works   == {"none", "pending", "applied"}
States  == {"absent", "stopped", "running", "broken"}
Machine == [state : States, installed : BOOLEAN, written : BOOLEAN, work : Works]

(* core.VM, the value the program keeps of a VM: its directory, and what   *)
(* was true of it when it was read.                                        *)
Shown == [n : VMs \cup {None}, state : States, installed : BOOLEAN, work : Works]
NoVM  == [n |-> None, state |-> "absent", installed |-> FALSE, work |-> "none"]
As(n, x) == [n |-> n, state |-> x.state, installed |-> x.installed, work |-> x.work]
Read(n)  == As(n, vm[n])

(* core.Get succeeds for a broken VM as well, core.load does not.          *)
Exists(n) == vm[n].state # "absent"
Loads(n)  == vm[n].state \in {"stopped", "running"}

(* core.List: every VM there is, broken ones too; its order is that of the *)
(* directories.                                                            *)
List == {Read(n) : n \in {i \in VMs : Exists(i)}}

------------------------------------------------------------------------------
(* Commands and messages                                                   *)

Cmd(op, n)       == [op |-> op, n |-> n, v |-> NoVM, vms |-> {}, gen |-> 0]
OfVM(op, v)      == [Cmd(op, v.n) EXCEPT !.v = v]
Tick(g)          == [Cmd("tick", None) EXCEPT !.gen = g]
Load             == Cmd("load", None)
Loaded(vms)      == [Cmd("vmsLoaded", None) EXCEPT !.vms = vms]
Batch(S)         == SetToBag(S)

(* A command ends with nothing to say, or becomes its message.             *)
Ends(c)          == cmds' = BagRemove(cmds, c)
Becomes(c, d)    == cmds' = BagAdd(BagRemove(cmds, c), d)

(* Update: the next model value and the commands it issues.                *)
Return(next, S)  == m' = next /\ cmds' = cmds (+) Batch(S)
Handled(c, next, S) == m' = next /\ cmds' = BagRemove(cmds, c) (+) Batch(S)

InFlight(op)     == {c \in BagToSet(cmds) : c.op = op}
Copies(c, B)     == IF BagIn(c, B) THEN B[c] ELSE 0

Init ==
    /\ \E f \in Fleets :
        /\ mode = [n \in VMs |-> f[n].mode]
        /\ vm = [n \in VMs |-> [state |-> "stopped", installed |-> FALSE, written |-> FALSE,
                               work |-> f[n].work]]
    /\ m = [screen |-> "list", vms |-> {}, pendingDelete |-> None, status |-> None,
            detail |-> NoVM, overlay |-> "none", edit |-> None, detailGen |-> 0,
            provisioning |-> {}, cloudInit |-> [n \in VMs |-> "none"]]
    /\ cmds = Batch({Load})
    /\ keys = 0
    /\ outside = 0

------------------------------------------------------------------------------
(* Helpers of the model value                                              *)

ByName(n)  == {v \in m.vms : v.n = n}         \* m.vmByName: empty or one row

(* Whether a start is followed by a provision run without a key.  A live   *)
(* VM loses its recipes with every boot; an uninstalled disk VM runs its   *)
(* installer.                                                              *)
needsAutoProvision(v) ==
    IF mode[v.n] = "live" THEN v.work # "none"
    ELSE v.work = "pending" /\ ~(mode[v.n] = "disk" /\ ~v.installed)

MutProvisions(v) ==
    /\ ~(mode[v.n] = "disk" /\ ~v.installed)
    /\ v.work # "none"

(* startProvision, shared by both "p" keys and the sshd watch: the model   *)
(* value and the command, or nothing to do.                                *)
Provisions(v) ==
    /\ ~(mode[v.n] = "disk" /\ ~v.installed)
    /\ v.work # "none"
    /\ v.n \notin m.provisioning

Provisioning(n) == [m EXCEPT !.provisioning = @ \cup {n}, !.status = None]

Press == keys < MaxKeys /\ keys' = keys + 1 /\ UNCHANGED <<mode, outside>>
Key   == Press /\ UNCHANGED vm

------------------------------------------------------------------------------
(* The list screen                                                         *)

ListKey == Key /\ m.screen = "list" /\ m.pendingDelete = None

(* enter: stop a VM the row shows running, start any other.  A broken row  *)
(* only gets a toast.                                                      *)
ListEnter ==
    /\ ListKey
    /\ \E v \in m.vms :
        /\ v.state # "broken"
        /\ Return([m EXCEPT !.status = None],
                  {OfVM(IF v.state = "running" THEN "stop" ELSE "start", v)})

(* d: ask before a delete, of a broken VM too, never of a running row.     *)
ListDelete ==
    /\ ListKey
    /\ \E v \in m.vms :
        /\ v.state # "running"
        /\ Return([m EXCEPT !.status = v.n, !.pendingDelete = v.n], {})

(* While the question is open it owns the keyboard: y deletes and then     *)
(* lists, every other key cancels.                                         *)
Answer ==
    /\ Key
    /\ m.screen = "list"
    /\ m.pendingDelete # None
    /\ LET asked == [m EXCEPT !.pendingDelete = None, !.status = None]
       IN  Return(asked, {Cmd("delete", m.pendingDelete)}) \/ Return(asked, {})

ListProvision ==
    /\ ListKey
    /\ \E v \in m.vms :
        /\ v.state # "broken"
        /\ Provisions(v)
        /\ Return(Provisioning(v.n), {OfVM("provision", v)})

ListNew == ListKey /\ Return([m EXCEPT !.screen = "form"], {})

(* right: the detail screen of the VM as it is now, not as the row has it. *)
(* Every visit has a tick chain of its own generation.                     *)
ListDetail ==
    /\ ListKey
    /\ \E v \in m.vms :
        /\ v.state # "broken"
        /\ Exists(v.n)
        /\ Return([m EXCEPT !.detail = Read(v.n), !.overlay = "none",
                            !.screen = "detail", !.detailGen = @ + 1],
                  {Tick(m.detailGen + 1)})

(* esc with nothing pending clears the status line.                        *)
ListEsc == ListKey /\ m.status # None /\ Return([m EXCEPT !.status = None], {})

------------------------------------------------------------------------------
(* The create form: enter creates, lists and comes back to the list, in    *)
(* that order; the form stays open until it does.                          *)

FormEsc ==
    /\ Key
    /\ m.screen = "form"
    /\ Return([m EXCEPT !.screen = "list", !.status = None], {})

FormEnter ==
    /\ Key
    /\ m.screen = "form"
    /\ \E n \in VMs : ~Exists(n) /\ Return(m, {Cmd("create", n)})

------------------------------------------------------------------------------
(* The detail screen                                                       *)

DetailKey == Press /\ m.screen = "detail" /\ m.overlay = "none"

DetailEsc ==
    /\ DetailKey
    /\ UNCHANGED vm
    /\ Return([m EXCEPT !.screen = "list"], {Load})

DetailEdit ==
    /\ DetailKey
    /\ UNCHANGED vm
    /\ Loads(m.detail.n)
    /\ Return([m EXCEPT !.edit = m.detail.n, !.screen = "edit", !.status = None], {})

(* E hands the terminal to an editor on vm.toml and reloads by directory.  *)
(* The session may leave the file unreadable, or readable again; the       *)
(* record of a running VM is taken to stay readable.                       *)
DetailEditor ==
    /\ DetailKey
    /\ Exists(m.detail.n)
    /\ \E s \in {"stopped", "broken"} :
        /\ vm' = [vm EXCEPT ![m.detail.n].state = IF @ = "running" THEN @ ELSE s]
        /\ Return(m, {OfVM("vmReloaded", As(m.detail.n, vm'[m.detail.n]))})

(* i flips installed on disk first and on screen after.                    *)
DetailInstalled ==
    /\ DetailKey
    /\ mode[m.detail.n] = "disk"
    /\ Loads(m.detail.n)
    /\ vm' = [vm EXCEPT ![m.detail.n].installed = ~m.detail.installed]
    /\ Return([m EXCEPT !.detail = As(m.detail.n, vm'[m.detail.n])], {Load})

DetailProvision ==
    /\ DetailKey
    /\ UNCHANGED vm
    /\ Exists(m.detail.n)
    /\ LET v == Read(m.detail.n)
       IN  Provisions(v) /\ Return(Provisioning(v.n), {OfVM("provision", v)})

(* d cycles the display preference through core.Update: the pane shows the *)
(* record as it was saved.                                                 *)
DetailDisplay ==
    /\ DetailKey
    /\ UNCHANGED vm
    /\ Loads(m.detail.n)
    /\ Return([m EXCEPT !.detail = Read(m.detail.n)], {})

DetailOpen ==
    /\ DetailKey
    /\ UNCHANGED vm
    /\ \E op \in {"openLog", "openSnapshots"} : Return(m, {Cmd(op, m.detail.n)})

(* esc closes the pager, or the snapshots pane when it has no question of  *)
(* its own open.                                                           *)
OverlayEsc ==
    /\ Key
    /\ m.screen = "detail"
    /\ m.overlay # "none"
    /\ Return([m EXCEPT !.overlay = "none"], {})

------------------------------------------------------------------------------
(* The edit screen: esc and a save both re-arm the detail ticker.          *)

EditEsc ==
    /\ Key
    /\ m.screen = "edit"
    /\ Return([m EXCEPT !.screen = "detail", !.detailGen = @ + 1], {Tick(m.detailGen + 1)})

(* A patch of the fields that differ from the record the form was opened   *)
(* on: other recipes, none, or none of what matters here.                  *)
Saves(n) ==
    /\ Loads(n)
    /\ \E w \in {vm[n].work, "none", "pending"} : vm' = [vm EXCEPT ![n].work = w]

(* enter writes the patch under the data root's lock, in the key handler   *)
(* itself, and reports the saved record by a message.                      *)
EditEnter ==
    /\ Press
    /\ m.screen = "edit"
    /\ Saves(m.edit)
    /\ Return(m, {Cmd("vmSaved", m.edit)})

------------------------------------------------------------------------------
(* Commands at work: what core does, and the message that comes of it      *)

World == UNCHANGED <<mode, m, keys, outside>>
Calm  == World /\ UNCHANGED vm

(* qemu.Start marks a disk VM installed once its disk has been written.    *)
Booted(n) == [vm[n] EXCEPT !.state = "running",
                           !.installed = @ \/ (mode[n] = "disk" /\ vm[n].written)]

(* core.Start fails or the VM is up: the message carries the row the key   *)
(* was pressed on, not the record after the start.                         *)
StartVM(c) ==
    /\ World
    /\ \/ vm[c.n].state = "stopped" /\ vm' = [vm EXCEPT ![c.n] = Booted(c.n)]
                                    /\ Becomes(c, OfVM("vmStarted", c.v))
       \/ UNCHANGED vm /\ Ends(c)

(* stopVM and then loadVMs, in sequence; the list follows a failure too.   *)
StopVM(c) ==
    /\ World
    /\ \/ vm[c.n].state = "running" /\ vm' = [vm EXCEPT ![c.n].state = "stopped"]
       \/ UNCHANGED vm
    /\ Becomes(c, Load)

(* core.Destroy refuses a running VM and takes a broken one.               *)
DeleteVM(c) ==
    /\ World
    /\ \/ vm[c.n].state \in {"stopped", "broken"} /\ vm' = [vm EXCEPT ![c.n].state = "absent"]
       \/ UNCHANGED vm
    /\ Becomes(c, Load)

CreateVM(c) ==
    /\ World
    /\ \/ /\ ~Exists(c.n)
          /\ vm' = [vm EXCEPT ![c.n] = [state |-> "stopped", installed |-> FALSE,
                                        written |-> FALSE, work |-> "pending"]]
       \/ UNCHANGED vm
    /\ Becomes(c, Cmd("loadThenList", None))

LoadVMs(c) ==
    /\ Calm
    /\ IF c.op = "load"
       THEN Becomes(c, Loaded(List))
       ELSE cmds' = BagRemove(cmds, c) (+) Batch({Loaded(List), Cmd("screenList", None)})

(* core.Apply, refused when the row the key was pressed on, or the VM now, *)
(* is not running.  Every outcome is reported.                             *)
Apply(c) ==
    /\ World
    /\ \/ c.v.state = "running" /\ vm[c.n].state = "running"
          /\ vm' = [vm EXCEPT ![c.n].work = IF @ = "pending" THEN "applied" ELSE @]
       \/ UNCHANGED vm
    /\ Becomes(c, Cmd("provisionDone", c.n))

(* core.AutoRestartAfterInstall: only an uninstalled disk VM that runs is  *)
(* watched; when it stops it is started again; a timeout is silent.        *)
AwaitInstall(c) ==
    /\ Calm
    /\ IF vm[c.n].state = "running" /\ mode[c.n] = "disk" /\ ~vm[c.n].installed
       THEN Becomes(c, Cmd("waitStopped", c.n)) ELSE Ends(c)
WaitStopped(c) ==
    /\ Calm
    /\ \/ vm[c.n].state # "running" /\ Becomes(c, Cmd("restart", c.n))
       \/ Ends(c)
Restart(c) ==
    /\ World
    /\ \/ /\ vm[c.n].state = "stopped"
          /\ vm' = [vm EXCEPT ![c.n] = Booted(c.n)]
          /\ Becomes(c, Cmd("installRestarted", c.n))
       \/ /\ vm[c.n].state = "running"
          /\ UNCHANGED vm
          /\ Becomes(c, Cmd("installRestarted", c.n))
       \/ UNCHANGED vm /\ Ends(c)

(* core.Wait until sshd answers, or gives up without a word.               *)
AwaitSSH(c) ==
    /\ Calm
    /\ \/ vm[c.n].state = "running" /\ Becomes(c, Cmd("sshReady", c.n))
       \/ Ends(c)

(* An unreachable guest answers "waiting", which keeps the poll going.     *)
CheckCloudInit(c) ==
    /\ Calm
    /\ \/ Becomes(c, Cmd("cloudInitWaiting", c.n))
       \/ vm[c.n].state = "running" /\ Becomes(c, Cmd("cloudInitDone", c.n))

OpenOverlay(c) ==
    /\ Calm
    /\ \/ c.op = "openLog" /\ Exists(c.n) /\ Becomes(c, Cmd("logOpened", c.n))
       \/ c.op = "openSnapshots" /\ Loads(c.n) /\ mode[c.n] # "live"
            /\ Becomes(c, Cmd("snapshotsOpened", c.n))
       \/ Ends(c)

------------------------------------------------------------------------------
(* Messages handled whatever the screen                                    *)

Still == UNCHANGED <<mode, vm, keys, outside>>

VMsLoaded(c) == Still /\ Handled(c, [m EXCEPT !.vms = c.vms], {})

(* What follows a start depends on how the VM boots, as the row before the *)
(* start had it.                                                           *)
VMStarted(c) ==
    /\ Still
    /\ CASE mode[c.n] = "cloud" ->
              Handled(c, [m EXCEPT !.cloudInit[c.n] = "waiting"],
                      {Load, Cmd("checkCloudInit", c.n)})
         [] mode[c.n] = "disk" /\ ~c.v.installed ->
              Handled(c, m, {Load, Cmd("awaitInstall", c.n)})
         [] OTHER ->
              Handled(c, m, {Load} \cup IF needsAutoProvision(c.v)
                                        THEN {Cmd("awaitSSH", c.n)} ELSE {})

(* The restart after an install, judged by the list the program has.       *)
InstallRestarted(c) ==
    /\ Still
    /\ Handled(c, m, IF m.pendingDelete = None
                        /\ \E v \in ByName(c.n) : v.state = "running" /\ v.installed
                     THEN {Cmd("awaitSSH", c.n)} ELSE {})

MutAutoProvisions(n) ==
    \E v \in ByName(n) : v.state = "running" /\ needsAutoProvision(v) /\ Provisions(v)

(* sshd answers: provision, unless the list says otherwise by now or a     *)
(* delete question is open, which must not lose its prompt.                *)
AutoProvisions(n) ==
    /\ \E v \in ByName(n) : v.state = "running" /\ needsAutoProvision(v) /\ Provisions(v)
    /\ m.pendingDelete = None

SSHReady(c) ==
    /\ Still
    /\ IF AutoProvisions(c.n)
       THEN \E v \in ByName(c.n) : Handled(c, Provisioning(c.n), {OfVM("provision", v)})
       ELSE Handled(c, m, {})

(* The result of a run, handled whatever the screen: the mark goes, and a  *)
(* failure or another process's run only changes the toast.                *)
ProvisionDone(c) == Still /\ Handled(c, [m EXCEPT !.provisioning = @ \ {c.n}], {})

(* A poll answer that is final ends the poll; so does a VM the list does   *)
(* not show running.                                                       *)
CloudInit(c) ==
    /\ Still
    /\ IF c.op = "cloudInitDone"
       THEN Handled(c, [m EXCEPT !.cloudInit[c.n] = "done"], {})
       ELSE Handled(c, [m EXCEPT !.cloudInit[c.n] = "waiting"],
                    {Cmd("cloudInitTick", v.n) : v \in {w \in ByName(c.n) : w.state = "running"}})

(* pollCloudInit's timer is up: the list may say something else by now.    *)
CloudInitTick(c) ==
    /\ Still
    /\ Handled(c, m, {Cmd("checkCloudInit", v.n) : v \in {w \in ByName(c.n) : w.state = "running"}})

MutVMSaved(c) ==
    /\ Still
    /\ IF Exists(c.n)
       THEN Handled(c, [m EXCEPT !.detail = Read(c.n), !.edit = c.n, !.screen = "detail"],
                    {Load, Tick(m.detailGen)})
       ELSE Handled(c, m, {})

(* A saved edit shows the record on the detail screen, wherever the user   *)
(* is by now, and starts a new tick chain.                                 *)
VMSaved(c) ==
    /\ Still
    /\ IF Exists(c.n)
       THEN Handled(c, [m EXCEPT !.detail = Read(c.n), !.edit = c.n, !.screen = "detail",
                                 !.detailGen = @ + 1],
                    {Load, Tick(m.detailGen + 1)})
       ELSE Handled(c, m, {})

ScreenMsg(c) == Still /\ Handled(c, [m EXCEPT !.screen = "list"], {})

(* Messages that go to the screen that is open: only the detail screen     *)
(* knows them, and an overlay takes every one of them first.               *)
DetailMsg(c) ==
    /\ Still
    /\ IF m.screen # "detail" \/ m.overlay # "none" THEN Handled(c, m, {})
       ELSE CASE c.op = "logOpened"       -> Handled(c, [m EXCEPT !.overlay = "pager"], {})
              [] c.op = "snapshotsOpened" -> Handled(c, [m EXCEPT !.overlay = "snapshots"], {})
              [] c.op = "vmReloaded"      -> Handled(c, [m EXCEPT !.detail = c.v], {Load})
              [] OTHER                    -> Handled(c, m, IF c.gen = m.detailGen
                                                           THEN {Tick(m.detailGen)} ELSE {})

------------------------------------------------------------------------------
(* The world outside: another stoat process, or the guest itself           *)

Elsewhere ==
    /\ outside < MaxOutside
    /\ outside' = outside + 1
    /\ \E n \in VMs :
        \/ vm[n].state = "stopped" /\ vm' = [vm EXCEPT ![n] = Booted(n)]
        \/ vm[n].state = "running" /\ vm' = [vm EXCEPT ![n].state = "stopped"]
        \/ vm[n].state = "stopped" /\ vm' = [vm EXCEPT ![n].state = "absent"]
    /\ UNCHANGED <<mode, m, cmds, keys>>

(* The unattended installer writes the disk and powers the guest off.      *)
InstallerEnds ==
    /\ \E n \in VMs :
        /\ mode[n] = "disk" /\ vm[n].state = "running" /\ ~vm[n].installed
        /\ vm' = [vm EXCEPT ![n].state = "stopped", ![n].written = TRUE]
    /\ UNCHANGED <<mode, m, cmds, keys, outside>>

------------------------------------------------------------------------------

ListKeys   == ListEnter \/ ListDelete \/ Answer \/ ListProvision \/ ListNew \/ ListDetail \/ ListEsc
DetailKeys == DetailEsc \/ DetailEdit \/ DetailEditor \/ DetailInstalled \/ DetailProvision
              \/ DetailDisplay \/ DetailOpen \/ OverlayEsc
Keys       == ListKeys \/ FormEsc \/ FormEnter \/ DetailKeys \/ EditEsc \/ EditEnter

On(op, A(_)) == \E c \in InFlight(op) : A(c)

Working ==
    \/ On("start", StartVM) \/ On("stop", StopVM) \/ On("delete", DeleteVM)
    \/ On("create", CreateVM) \/ On("load", LoadVMs) \/ On("loadThenList", LoadVMs)
    \/ On("provision", Apply) \/ On("awaitInstall", AwaitInstall)
    \/ On("waitStopped", WaitStopped) \/ On("restart", Restart) \/ On("awaitSSH", AwaitSSH)
    \/ On("checkCloudInit", CheckCloudInit)
    \/ On("openLog", OpenOverlay) \/ On("openSnapshots", OpenOverlay)

Messages ==
    \/ On("vmsLoaded", VMsLoaded) \/ On("vmStarted", VMStarted)
    \/ On("installRestarted", InstallRestarted) \/ On("sshReady", SSHReady)
    \/ On("provisionDone", ProvisionDone)
    \/ On("cloudInitWaiting", CloudInit) \/ On("cloudInitDone", CloudInit)
    \/ On("cloudInitTick", CloudInitTick)
    \/ On("vmSaved", VMSaved) \/ On("screenList", ScreenMsg)
    \/ On("logOpened", DetailMsg) \/ On("snapshotsOpened", DetailMsg)
    \/ On("vmReloaded", DetailMsg) \/ On("tick", DetailMsg)

Next == Keys \/ Working \/ Messages \/ Elsewhere \/ InstallerEnds

(* A goroutine runs its command to the end and the loop takes every        *)
(* message; core.Apply returns.  Only these two are needed.                *)
Fairness == WF_vars(On("provision", Apply)) /\ WF_vars(On("provisionDone", ProvisionDone))
Spec     == Init /\ [][Next]_vars /\ Fairness

------------------------------------------------------------------------------
(* Properties                                                              *)

Row   == {v \in Shown : v.n \in VMs}
Model == [screen : {"list", "form", "detail", "edit"}, vms : SUBSET Row,
          pendingDelete : VMs \cup {None}, status : VMs \cup {None}, detail : Shown,
          overlay : {"none", "pager", "snapshots"}, edit : VMs \cup {None}, detailGen : Nat,
          provisioning : SUBSET VMs, cloudInit : [VMs -> {"none", "waiting", "done"}]]

TypeOK ==
    /\ mode \in [VMs -> {"live", "disk", "cloud"}]
    /\ vm \in [VMs -> Machine]
    /\ m \in Model
    /\ m.screen \in {"detail", "edit"} => m.detail.n \in VMs
    /\ m.screen = "edit" => m.edit \in VMs
    /\ m.overlay # "none" => m.detail.n \in VMs
    /\ IsABag(cmds)
    /\ keys \in 0..MaxKeys
    /\ outside \in 0..MaxOutside

(* The spinner's map and the runs in flight agree: a VM is marked as       *)
(* provisioning exactly while one run of it is under way or has its result *)
(* on the way, so no second ssh session writes into the same log, from     *)
(* either "p" key or the sshd watch, and no mark outlives its run.         *)
Runs(n) == {c \in BagToSet(cmds) : c.op \in {"provision", "provisionDone"} /\ c.n = n}
OneProvision ==
    \A n \in VMs : IF n \in m.provisioning THEN \E c \in Runs(n) : Runs(n) = {c} /\ cmds[c] = 1
                  ELSE Runs(n) = {}

(* However the user goes in and out of the detail and edit screens, at     *)
(* most one tick of the current generation is in flight: an older chain    *)
(* dies at its next tick and never runs beside the new one.                *)
OneTickChain == Copies(Tick(m.detailGen), cmds) <= 1

(* Nothing is doubled by keys and messages that cross: neither the run in  *)
(* a guest nor the tick chain of the screen.                               *)
OneOfEach == OneProvision /\ OneTickChain

(* Once "delete X? y/N" is on screen nothing but a key takes it away or    *)
(* changes which VM it names: a late watch, list or result never hides or  *)
(* re-aims the question.                                                   *)
PromptStays ==
    [][m.pendingDelete # None /\ keys' = keys
         => m'.pendingDelete = m.pendingDelete /\ m'.status = m.status]_vars

(* A mark in the provisioning map is always taken away again, whatever     *)
(* screen or overlay is open when the result arrives.                      *)
ProvisioningEnds == \A n \in VMs : n \in m.provisioning ~> n \notin m.provisioning

(* "then stoat notices the install and offers to apply recipes": when the  *)
(* restart after an unattended install is reported, with no question open, *)
(* a VM that is up, installed and has recipes to apply is watched for      *)
(* sshd.                                                                   *)
InstallFollowed ==
    [][\A n \in VMs :
         LET c == Cmd("installRestarted", n)
         IN  Copies(c, cmds') < Copies(c, cmds) /\ m.pendingDelete = None
             /\ vm[n].state = "running" /\ vm[n].installed /\ vm[n].work = "pending"
             => BagIn(Cmd("awaitSSH", n), cmds')]_vars

(* The detail screen, when nothing covers it, has a tick on the way: the   *)
(* log tail and the state it shows keep moving.                            *)
DetailTicks ==
    m.screen = "detail" /\ m.overlay = "none" => BagIn(Tick(m.detailGen), cmds)

==============================================================================
