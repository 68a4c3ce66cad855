--------------------------- MODULE SnapshotsPane ---------------------------
(***************************************************************************)
(* The snapshots pane of the terminal interface (internal/tui/snapshots.go *)
(* and its place in detail.go): S reads a VM's snapshots and opens the     *)
(* pane; take, restore and delete each run off the UI goroutine and read   *)
(* the snapshots again.  Commands and messages in flight are a bag, as in  *)
(* TUI, which has the pane only as an overlay that swallows messages.      *)
(*                                                                         *)
(* The cursor can be moved to every row, so r and d act on any of them.    *)
(* The error line and all drawing are left out.                            *)
(***************************************************************************)
EXTENDS Naturals, Sequences, FiniteSets, Bags, BagsExt

CONSTANTS
    SnapVMs,      \* the VMs
    Tags,         \* snapshot tags
    NoTag,        \* no VM, no tag
    MaxPresses,   \* keys pressed in a behaviour
    MaxOthers     \* snapshots changed by other processes

ASSUME SnapAssumption ==
    NoTag \notin SnapVMs \cup Tags /\ MaxPresses \in Nat /\ MaxOthers \in Nat

VARIABLES
    disk,      \* the tags in each VM's qcow2
    at,        \* the VM of the detail screen; NoTag on the list
    pane,      \* the pane: its VM (NoTag when closed), its rows, its prompt
    work,      \* bag of commands running and messages not yet delivered
    presses,   \* keys pressed so far
    others,    \* changes made elsewhere so far
    asked,     \* history: the actions confirmed, as the pane put them
    done,      \* history: the actions carried out
    clean      \* history: one command at a time, none failed, no other process

paneVars == <<disk, at, pane, work, presses, others, asked, done, clean>>

Actions == {"take", "restore", "delete"}
Prompts == {"none"} \cup Actions
Closed  == [vm |-> NoTag, rows |-> {}, prompt |-> "none", tag |-> NoTag]

Job(op, v, t)  == [op |-> op, vm |-> v, tag |-> t, rows |-> {}]
Message(op, c) == [op |-> op, vm |-> c.vm, tag |-> NoTag, rows |-> disk[c.vm]]

PaneInit ==
    /\ disk \in [SnapVMs -> SUBSET Tags]
    /\ at = NoTag
    /\ pane = Closed
    /\ work = EmptyBag
    /\ presses = 0
    /\ others = 0
    /\ asked = {}
    /\ done = {}
    /\ clean = TRUE

------------------------------------------------------------------------------
(* Keys                                                                    *)

PaneKey ==
    /\ presses < MaxPresses
    /\ presses' = presses + 1
    /\ UNCHANGED <<disk, others, done>>

Quiet    == UNCHANGED <<work, asked, clean>>
Issue(c) == work' = BagAdd(work, c) /\ clean' = (clean /\ work = EmptyBag)
InPane(p) == PaneKey /\ pane.vm # NoTag /\ pane.prompt = p

(* The list and the detail screen: a visit begins without a pane.          *)
EnterDetail ==
    /\ PaneKey /\ Quiet
    /\ at = NoTag
    /\ at' \in SnapVMs
    /\ pane' = Closed

LeaveDetail ==
    /\ PaneKey /\ Quiet
    /\ at # NoTag /\ pane.vm = NoTag
    /\ at' = NoTag
    /\ UNCHANGED pane

(* S: the read runs in the background; the screen may have changed when    *)
(* its answer comes.                                                       *)
openSnapshots ==
    /\ PaneKey
    /\ at # NoTag /\ pane.vm = NoTag
    /\ Issue(Job("open", at, NoTag))
    /\ UNCHANGED <<at, pane, asked>>

(* esc closes the pane, or only the tag prompt.                            *)
Esc ==
    /\ PaneKey /\ Quiet
    /\ pane.vm # NoTag /\ pane.prompt \in {"none", "take"}
    /\ pane' = IF pane.prompt = "none" THEN Closed ELSE [pane EXCEPT !.prompt = "none"]
    /\ UNCHANGED at

AskTag ==
    /\ InPane("none") /\ Quiet
    /\ pane' = [pane EXCEPT !.prompt = "take"]
    /\ UNCHANGED at

(* r, d: the question names the row under the cursor, and keeps a copy of  *)
(* it; an empty pane has none.                                             *)
Ask ==
    /\ InPane("none") /\ Quiet
    /\ \E p \in {"restore", "delete"}, t \in pane.rows :
        pane' = [pane EXCEPT !.prompt = p, !.tag = t]
    /\ UNCHANGED at

(* enter on the typed tag.                                                 *)
updateTaking ==
    /\ InPane("take")
    /\ \E t \in Tags :
        /\ Issue(Job("take", pane.vm, t))
        /\ asked' = asked \cup {<<pane.vm, "take", t>>}
    /\ pane' = [pane EXCEPT !.prompt = "none"]
    /\ UNCHANGED at

MutConfirm(p) ==
    /\ InPane(p)
    /\ pane' = [pane EXCEPT !.prompt = "none", !.tag = NoTag]
    /\ Issue(Job(p, at, pane.tag))
    /\ asked' = asked \cup {<<pane.vm, p, pane.tag>>}
    /\ UNCHANGED at

(* y: the answered question's action, on the pane's own VM.                *)
Confirm(p) ==
    /\ InPane(p)
    /\ pane' = [pane EXCEPT !.prompt = "none", !.tag = NoTag]
    /\ Issue(Job(p, pane.vm, pane.tag))
    /\ asked' = asked \cup {<<pane.vm, p, pane.tag>>}
    /\ UNCHANGED at

(* Any other key.                                                          *)
Cancel(p) ==
    /\ InPane(p) /\ Quiet
    /\ pane' = [pane EXCEPT !.prompt = "none", !.tag = NoTag]
    /\ UNCHANGED at

updatePendingConfirm == \E p \in {"restore", "delete"} : Confirm(p) \/ Cancel(p)

------------------------------------------------------------------------------
(* Commands: core's snapshot operations, then a fresh read.  Each may fail *)
(* (the VM runs, is gone or has no such tag, qemu-img fails).              *)

Idle         == UNCHANGED <<at, pane, presses, others, asked, clean>>
Turns(c, d)  == work' = BagAdd(BagRemove(work, c), d)
Running(ops) == {c \in BagToSet(work) : c.op \in ops}

After(c) == CASE c.op = "take"   -> disk[c.vm] \cup {c.tag}
              [] c.op = "delete" -> disk[c.vm] \ {c.tag}
              [] OTHER           -> disk[c.vm]

MutAct(c) ==
    /\ Idle
    /\ c.op = "take" \/ c.tag \in disk[c.vm]
    /\ disk' = [disk EXCEPT ![c.vm] = After(c)]
    /\ done' = done \cup {<<c.vm, c.op, c.tag>>}
    /\ Turns(c, Message("refreshed", c))

(* snapshotAction: restore and delete ask for the tag first.               *)
Act(c) ==
    /\ Idle
    /\ c.op = "take" \/ c.tag \in disk[c.vm]
    /\ disk' = [disk EXCEPT ![c.vm] = After(c)]
    /\ done' = done \cup {<<c.vm, c.op, c.tag>>}
    /\ Turns(c, Job("read", c.vm, NoTag))

Fails(c)  == Idle /\ UNCHANGED <<disk, done>> /\ Turns(c, Message("failed", c))
Reread(c) == Idle /\ UNCHANGED <<disk, done>> /\ Turns(c, Message("refreshed", c))
Opens(c)  == Idle /\ UNCHANGED <<disk, done>> /\ Turns(c, Message("opened", c))

snapshotAction ==
    \/ \E c \in Running(Actions) : Act(c)
    \/ \E c \in Running(Actions \cup {"open", "read"}) : Fails(c)
    \/ \E c \in Running({"read"}) : Reread(c)
    \/ \E c \in Running({"open"}) : Opens(c)

------------------------------------------------------------------------------
(* Messages.  They reach the pane on the detail screen only; there the     *)
(* pane, when it is open, takes each of them.                              *)

Deliver(c) ==
    /\ work' = BagRemove(work, c)
    /\ UNCHANGED <<disk, at, presses, others, asked, done>>

(* snapshotsOpenedMsg carries its VM: the pane is that VM's, whichever the *)
(* detail screen shows by now.                                             *)
Opened(c) ==
    /\ Deliver(c)
    /\ pane' = IF at # NoTag /\ pane.vm = NoTag
               THEN [Closed EXCEPT !.vm = c.vm, !.rows = c.rows] ELSE pane
    /\ UNCHANGED clean

(* snapshotsRefreshedMsg does not: the open pane takes its rows, whatever  *)
(* prompt it has, and keeps the prompt.                                    *)
Refreshed(c) ==
    /\ Deliver(c)
    /\ pane' = IF pane.vm # NoTag THEN [pane EXCEPT !.rows = c.rows] ELSE pane
    /\ UNCHANGED clean

(* A failure is shown and leaves the rows as they were.                    *)
Failed(c) == Deliver(c) /\ clean' = FALSE /\ UNCHANGED pane

SnapMessages ==
    \/ \E c \in Running({"opened"}) : Opened(c)
    \/ \E c \in Running({"refreshed"}) : Refreshed(c)
    \/ \E c \in Running({"failed"}) : Failed(c)

(* `stoat snapshot` in another process.                                    *)
OtherProcess ==
    /\ others < MaxOthers
    /\ others' = others + 1
    /\ \E v \in SnapVMs, S \in SUBSET Tags : disk' = [disk EXCEPT ![v] = S]
    /\ clean' = FALSE
    /\ UNCHANGED <<at, pane, work, presses, asked, done>>

PaneKeys == EnterDetail \/ LeaveDetail \/ openSnapshots \/ Esc \/ AskTag \/ Ask
            \/ updateTaking \/ updatePendingConfirm
PaneNext == PaneKeys \/ snapshotAction \/ SnapMessages \/ OtherProcess
PaneSpec == PaneInit /\ [][PaneNext]_paneVars

------------------------------------------------------------------------------
(* Properties                                                              *)

Pane == [vm : SnapVMs \cup {NoTag}, rows : SUBSET Tags, prompt : Prompts, tag : Tags \cup {NoTag}]

PaneTypeOK ==
    /\ disk \in [SnapVMs -> SUBSET Tags]
    /\ at \in SnapVMs \cup {NoTag}
    /\ pane \in Pane
    /\ pane.prompt \in {"restore", "delete"} <=> pane.tag # NoTag
    /\ IsABag(work)
    /\ \A c \in BagToSet(work) :
         c.vm \in SnapVMs /\ c.rows \subseteq Tags /\ (c.op \in Actions => c.tag \in Tags)
    /\ presses \in 0..MaxPresses /\ others \in 0..MaxOthers
    /\ clean \in BOOLEAN

(* A snapshot is taken, restored or deleted only where the pane named that *)
(* VM and that tag and the user confirmed it, whatever arrived between the *)
(* question and its answer and whichever VM's detail lies under the pane:  *)
(* a restore has no way back.                                              *)
DoneWasAsked == done \subseteq asked

(* "A successful action re-reads core.Snapshots so the list matches        *)
(* reality": with one command at a time, none failing and no other process *)
(* at work, a pane with nothing in flight shows the snapshots its VM has.  *)
RowsAreCurrent ==
    clean /\ work = EmptyBag /\ pane.vm # NoTag => pane.rows = disk[pane.vm]

(* The pane does what it asked and shows what there is.                    *)
PaneFaithful == DoneWasAsked /\ RowsAreCurrent

(* "By the time it arrives, the modal is back at the plain list": a result *)
(* finds no prompt open.  It does not hold: the keyboard is free while the *)
(* action runs.                                                            *)
ResultFindsList ==
    [][\A c \in Running({"refreshed"}) :
         work' = BagRemove(work, c) => pane.prompt = "none"]_paneVars

==============================================================================
