----------------------------- MODULE TUIProofs -----------------------------
(***************************************************************************)
(* The terminal interface proved, for any number of VMs, snapshots, keys   *)
(* and messages in flight: nothing is doubled, a question on screen is the *)
(* user's to answer, and the snapshots pane carries out what was confirmed *)
(* and shows what there is.                                                *)
(***************************************************************************)
EXTENDS TUI, SnapshotsPane, TLAPS

-----------------------------------------------------------------------------
(* Bags: how many copies of each element the operators leave *)

LEMMA CopiesFacts ==
    ASSUME NEW B, IsABag(B), NEW x
    PROVE  /\ Copies(x, B) \in Nat /\ (x \in BagToSet(B) <=> Copies(x, B) > 0)
           /\ x \in BagToSet(B) => Copies(x, B) = B[x]
  BY DEF IsABag, Copies, BagIn, BagToSet

LEMMA AddCopies ==
    ASSUME NEW B, IsABag(B), NEW x
    PROVE  /\ IsABag(BagAdd(B, x))
           /\ \A y : Copies(y, BagAdd(B, x)) = IF y = x THEN Copies(y, B) + 1 ELSE Copies(y, B)
  BY DEF IsABag, BagAdd, Copies, BagIn, BagToSet

LEMMA RemoveCopies ==
    ASSUME NEW B, IsABag(B), NEW x, x \in BagToSet(B)
    PROVE  /\ IsABag(BagRemove(B, x))
           /\ \A y : Copies(y, BagRemove(B, x)) = IF y = x THEN Copies(y, B) - 1 ELSE Copies(y, B)
  BY DEF IsABag, BagRemove, Copies, BagIn, BagToSet

LEMMA UnionCopies ==
    ASSUME NEW B, IsABag(B), NEW S
    PROVE  /\ IsABag(B (+) SetToBag(S))
           /\ \A y : Copies(y, B (+) SetToBag(S)) = IF y \in S THEN Copies(y, B) + 1 ELSE Copies(y, B)
  BY DEF IsABag, SetToBag, (+), Copies, BagIn, BagToSet

LEMMA EmptyBagFacts ==
    /\ IsABag(EmptyBag) /\ BagToSet(EmptyBag) = {}
    /\ \A B : IsABag(B) /\ BagToSet(B) = {} => B = EmptyBag
  BY DEF IsABag, EmptyBag, SetToBag, BagToSet

-----------------------------------------------------------------------------
(* The snapshots pane *)

\* With one command at a time there is one thing in flight.
OneInFlight == clean => \A c, d \in BagToSet(work) : c = d /\ Copies(c, work) = 1

\* What is to be done was confirmed.
JobsAsked == \A c \in BagToSet(work) : c.op \in Actions => <<c.vm, c.op, c.tag>> \in asked

\* What is in flight knows the disk as it is, and the pane is still the one it
\* was sent for, or closed.
InFlightIsCurrent ==
    clean => \A c \in BagToSet(work) :
      /\ c.op \in {"opened", "refreshed"} => c.rows = disk[c.vm]
      /\ c.op \in {"open", "opened"} => pane.vm = NoTag
      /\ c.op \in Actions \cup {"read", "refreshed"} => pane.vm \in {NoTag, c.vm}

PaneInv == PaneTypeOK /\ OneInFlight /\ JobsAsked /\ InFlightIsCurrent /\ PaneFaithful

LEMMA PaneInvInit == PaneInit => PaneInv
  <1> SUFFICES ASSUME PaneInit PROVE PaneInv
    OBVIOUS
  <1>1. Closed \in Pane /\ Closed.vm = NoTag /\ Closed.prompt = "none" /\ Closed.tag = NoTag
    BY DEF Closed, Pane, Prompts
  <1>2. IsABag(work) /\ BagToSet(work) = {}
    BY EmptyBagFacts DEF PaneInit
  <1> QED
    BY <1>1, <1>2, SnapAssumption DEF PaneInit, PaneInv, PaneTypeOK, OneInFlight, JobsAsked, InFlightIsCurrent,
       PaneFaithful, DoneWasAsked, RowsAreCurrent

\* What a key leaves alone: only the pane's prompt, the place, or one command more.
LEMMA PaneKeysStep ==
    ASSUME PaneInv, PaneKeys
    PROVE  PaneInv'
  <1>1. /\ PaneTypeOK /\ OneInFlight /\ JobsAsked /\ InFlightIsCurrent /\ PaneFaithful
        /\ pane \in Pane /\ IsABag(work)
    BY DEF PaneInv, PaneTypeOK
  <1>2. /\ UNCHANGED <<disk, others, done>> /\ presses' \in 0..MaxPresses
    <2>1. PaneKey
      BY DEF PaneKeys, EnterDetail, LeaveDetail, openSnapshots, Esc, AskTag, Ask, updateTaking,
         updatePendingConfirm, Confirm, Cancel, InPane
    <2> QED
      BY <1>1, <2>1, SnapAssumption DEF PaneKey, PaneTypeOK
  <1>3. Closed \in Pane /\ Closed.vm = NoTag /\ Closed.prompt = "none" /\ Closed.tag = NoTag
    BY DEF Closed, Pane, Prompts
  \* A key that issues nothing.
  <1>4. ASSUME Quiet, pane'.vm \in {pane.vm, NoTag}, pane'.vm # NoTag => pane'.rows = pane.rows,
               pane' \in Pane, pane'.prompt \in {"restore", "delete"} <=> pane'.tag # NoTag,
               at' \in SnapVMs \cup {NoTag}
        PROVE  PaneInv'
    <2>1. UNCHANGED <<work, asked, clean>>
      BY <1>4 DEF Quiet
    <2>2. PaneTypeOK'
      BY <1>1, <1>2, <1>4, <2>1 DEF PaneTypeOK
    <2>3. OneInFlight' /\ JobsAsked' /\ InFlightIsCurrent'
      BY <1>1, <1>2, <1>4, <2>1 DEF OneInFlight, JobsAsked, InFlightIsCurrent
    <2>4. PaneFaithful'
      BY <1>1, <1>2, <1>4, <2>1 DEF PaneFaithful, DoneWasAsked, RowsAreCurrent
    <2> QED
      BY <2>2, <2>3, <2>4 DEF PaneInv
  \* A key that issues a command.
  <1>5. ASSUME NEW c, Issue(c), c.vm \in SnapVMs, c.rows = {}, c.op \in Actions \cup {"open"},
               c.op \in Actions => c.tag \in Tags /\ <<c.vm, c.op, c.tag>> \in asked' /\ c.vm = pane.vm,
               c.op = "open" => pane.vm = NoTag,
               asked \subseteq asked', pane'.vm = pane.vm,
               pane' \in Pane, pane'.prompt \in {"restore", "delete"} <=> pane'.tag # NoTag, at' = at
        PROVE  PaneInv'
    <2>1. /\ IsABag(work') /\ \A y : Copies(y, work') = IF y = c THEN Copies(y, work) + 1 ELSE Copies(y, work)
          /\ clean' = (clean /\ work = EmptyBag)
      BY <1>1, <1>5, AddCopies DEF Issue
    <2>2. BagToSet(work') = BagToSet(work) \cup {c}
      BY <1>1, <2>1, CopiesFacts
    <2>3. clean' => BagToSet(work') = {c} /\ Copies(c, work') = 1
      <3>1. work = EmptyBag => BagToSet(work) = {}
        BY EmptyBagFacts
      <3>2. c \notin BagToSet(work) => Copies(c, work) = 0
        BY <1>1, CopiesFacts
      <3>3. Copies(c, work') = Copies(c, work) + 1
        BY <2>1
      <3>4. clean' => work = EmptyBag
        BY <2>1
      <3> QED
        BY <2>2, <3>1, <3>2, <3>3, <3>4
    <2>4. work' # EmptyBag
      BY <2>2, EmptyBagFacts
    <2>5. PaneTypeOK'
      BY <1>1, <1>2, <1>5, <2>1, <2>2 DEF PaneTypeOK
    <2>6. OneInFlight' /\ JobsAsked'
      BY <1>1, <1>5, <2>2, <2>3 DEF OneInFlight, JobsAsked
    <2>7. InFlightIsCurrent'
      BY <1>5, <2>3 DEF InFlightIsCurrent, Actions
    <2>8. PaneFaithful'
      BY <1>1, <1>2, <1>5, <2>4 DEF PaneFaithful, DoneWasAsked, RowsAreCurrent
    <2> QED
      BY <2>5, <2>6, <2>7, <2>8 DEF PaneInv
  <1>6. CASE EnterDetail \/ LeaveDetail
    <2>1. /\ Quiet /\ pane' \in {Closed, pane} /\ at' \in SnapVMs \cup {NoTag}
      BY <1>6 DEF EnterDetail, LeaveDetail
    <2> QED
      BY <1>1, <1>3, <1>4, <2>1 DEF PaneTypeOK
  <1>7. CASE openSnapshots
    <2> DEFINE c == Job("open", at, NoTag)
    <2>1. /\ Issue(c) /\ UNCHANGED <<at, pane, asked>> /\ at \in SnapVMs /\ pane.vm = NoTag
      BY <1>1, <1>7 DEF openSnapshots, PaneTypeOK
    <2>2. c.vm = at /\ c.rows = {} /\ c.op = "open"
      BY DEF Job
    <2> HIDE DEF c
    <2> QED
      BY <1>1, <1>5, <2>1, <2>2 DEF PaneTypeOK, Actions
  <1>8. CASE Esc
    <2>1. /\ Quiet /\ at' = at /\ pane.prompt \in {"none", "take"}
          /\ pane' = Closed \/ pane' = [pane EXCEPT !.prompt = "none"]
      BY <1>8 DEF Esc
    <2>2. [pane EXCEPT !.prompt = "none"] \in Pane
      BY <1>1 DEF Pane, Prompts
    <2>3. pane' \in Pane /\ pane'.vm \in {pane.vm, NoTag} /\ (pane'.vm # NoTag => pane'.rows = pane.rows)
          /\ (pane'.prompt \in {"restore", "delete"} <=> pane'.tag # NoTag)
      BY <1>1, <1>3, <2>1, <2>2 DEF PaneTypeOK, Pane
    <2> QED
      BY <1>1, <1>4, <2>1, <2>3 DEF PaneTypeOK
  <1>9. CASE AskTag
    <2>1. Quiet /\ at' = at /\ pane.prompt = "none" /\ pane' = [pane EXCEPT !.prompt = "take"]
      BY <1>9 DEF AskTag, InPane
    <2>2. pane' \in Pane /\ pane'.vm = pane.vm /\ pane'.rows = pane.rows
          /\ (pane'.prompt \in {"restore", "delete"} <=> pane'.tag # NoTag)
      BY <1>1, <2>1 DEF PaneTypeOK, Pane, Prompts, Actions
    <2> QED
      BY <1>1, <1>4, <2>1, <2>2 DEF PaneTypeOK
  <1>10. CASE Ask
    <2>1. PICK p \in {"restore", "delete"}, t \in pane.rows :
             Quiet /\ at' = at /\ pane' = [pane EXCEPT !.prompt = p, !.tag = t]
      BY <1>10 DEF Ask, InPane
    <2>2. t \in Tags /\ t # NoTag
      BY <1>1, SnapAssumption DEF Pane
    <2>3. pane' \in Pane /\ pane'.vm = pane.vm /\ pane'.rows = pane.rows
          /\ pane'.prompt = p /\ pane'.tag = t
      BY <1>1, <2>1, <2>2 DEF Pane, Prompts, Actions
    <2> QED
      BY <1>1, <1>4, <2>1, <2>2, <2>3 DEF PaneTypeOK
  <1>11. CASE updateTaking
    <2>1. PICK t \in Tags : /\ Issue(Job("take", pane.vm, t)) /\ asked' = asked \cup {<<pane.vm, "take", t>>}
                            /\ pane' = [pane EXCEPT !.prompt = "none"] /\ at' = at
                            /\ pane.vm # NoTag /\ pane.prompt = "take"
      BY <1>11 DEF updateTaking, InPane
    <2> DEFINE c == Job("take", pane.vm, t)
    <2>2. c.vm = pane.vm /\ c.rows = {} /\ c.op = "take" /\ c.tag = t /\ Issue(c)
      BY <2>1 DEF Job
    <2>3. pane' \in Pane /\ pane'.vm = pane.vm /\ (pane'.prompt \in {"restore", "delete"} <=> pane'.tag # NoTag)
          /\ pane.vm \in SnapVMs
      BY <1>1, <2>1 DEF PaneTypeOK, Pane, Prompts
    <2> HIDE DEF c
    <2> QED
      BY <1>5, <2>1, <2>2, <2>3 DEF Actions
  <1>12. CASE updatePendingConfirm
    <2>1. PICK p \in {"restore", "delete"} : Confirm(p) \/ Cancel(p)
      BY <1>12 DEF updatePendingConfirm
    <2>2. /\ pane.vm \in SnapVMs /\ pane.prompt = p /\ pane.tag \in Tags /\ at' = at
          /\ pane' = [pane EXCEPT !.prompt = "none", !.tag = NoTag]
      BY <1>1, <2>1 DEF Confirm, Cancel, InPane, PaneTypeOK, Pane
    <2>3. pane' \in Pane /\ pane'.vm = pane.vm /\ pane'.rows = pane.rows /\ pane'.prompt = "none" /\ pane'.tag = NoTag
      BY <1>1, <2>2 DEF Pane, Prompts
    <2>4. CASE Confirm(p)
      <3> DEFINE c == Job(p, pane.vm, pane.tag)
      <3>1. c.vm = pane.vm /\ c.rows = {} /\ c.op = p /\ c.tag = pane.tag
            /\ Issue(c) /\ asked' = asked \cup {<<pane.vm, p, pane.tag>>}
        BY <2>4 DEF Job, Confirm
      <3> HIDE DEF c
      <3> QED
        BY <1>5, <2>2, <2>3, <3>1 DEF Actions
    <2>5. CASE Cancel(p)
      <3>1. Quiet
        BY <2>5 DEF Cancel
      <3> QED
        BY <1>1, <1>4, <2>2, <2>3, <3>1 DEF PaneTypeOK
    <2> QED
      BY <2>1, <2>4, <2>5
  <1> QED
    BY <1>6, <1>7, <1>8, <1>9, <1>10, <1>11, <1>12 DEF PaneKeys

\* A command turns into the next one, or into its message.
LEMMA TurnsCopies ==
    ASSUME IsABag(work), NEW c, c \in BagToSet(work), NEW d, work' = BagAdd(BagRemove(work, c), d)
    PROVE  /\ IsABag(work') /\ BagToSet(work') \subseteq BagToSet(work) \cup {d} /\ d \in BagToSet(work')
           /\ \A y : y # d => Copies(y, work') <= Copies(y, work)
           /\ Copies(c, work) = 1 /\ BagToSet(work) = {c}
                => BagToSet(work') = {d} /\ Copies(d, work') = 1
  <1> DEFINE B == BagRemove(work, c)
  <1>1. /\ IsABag(B)
        /\ \A y : Copies(y, B) = IF y = c THEN Copies(y, work) - 1 ELSE Copies(y, work)
    BY RemoveCopies
  <1> HIDE DEF B
  <1>2. work' = BagAdd(B, d)
    BY DEF B
  <1>3. /\ IsABag(work')
        /\ \A y : Copies(y, work') = IF y = d THEN Copies(y, B) + 1 ELSE Copies(y, B)
    BY <1>1, <1>2, AddCopies
  <1>4. \A y : /\ Copies(y, B) \in Nat /\ Copies(y, work) \in Nat /\ Copies(y, work') \in Nat
               /\ y \in BagToSet(work) <=> Copies(y, work) > 0
               /\ y \in BagToSet(work') <=> Copies(y, work') > 0
    BY <1>1, <1>3, CopiesFacts
  <1>5. \A y : y # d => Copies(y, work') <= Copies(y, work)
    BY <1>1, <1>3, <1>4
  <1>6. BagToSet(work') \subseteq BagToSet(work) \cup {d} /\ d \in BagToSet(work')
    BY <1>3, <1>4, <1>5
  <1>7. ASSUME Copies(c, work) = 1, BagToSet(work) = {c}
        PROVE  BagToSet(work') = {d} /\ Copies(d, work') = 1
    <2>1. \A y : Copies(y, B) = 0
      BY <1>1, <1>4, <1>7
    <2> QED
      BY <1>3, <1>4, <2>1
  <1> QED
    BY <1>3, <1>5, <1>6, <1>7

\* A command at work: it may change the disk of its own VM, once.
LEMMA PaneWorkStep ==
    ASSUME PaneInv, snapshotAction
    PROVE  PaneInv'
  <1>1. /\ PaneTypeOK /\ OneInFlight /\ JobsAsked /\ InFlightIsCurrent /\ PaneFaithful
        /\ pane \in Pane /\ IsABag(work) /\ Idle
    BY DEF PaneInv, PaneTypeOK, snapshotAction, Act, Fails, Reread, Opens
  <1>2. ASSUME NEW c \in BagToSet(work), NEW d, Turns(c, d), d.vm = c.vm, d.rows \subseteq Tags,
               d.op \in {"read", "refreshed", "opened", "failed"},
               d.op \in {"opened", "refreshed"} => d.rows = disk'[c.vm],
               d.op = "opened" => c.op = "open",
               d.op \in {"read", "refreshed"} => c.op \in Actions \cup {"read"},
               disk' \in [SnapVMs -> SUBSET Tags],
               done' \subseteq asked
        PROVE  PaneInv'
    <2>1. /\ IsABag(work') /\ BagToSet(work') \subseteq BagToSet(work) \cup {d} /\ d \in BagToSet(work')
          /\ Copies(c, work) = 1 /\ BagToSet(work) = {c} => BagToSet(work') = {d} /\ Copies(d, work') = 1
      BY <1>1, <1>2, TurnsCopies DEF Turns
    <2>2. UNCHANGED <<at, pane, presses, others, asked, clean>>
      BY <1>1 DEF Idle
    <2>3. clean => BagToSet(work) = {c} /\ Copies(c, work) = 1
      BY <1>1 DEF OneInFlight
    <2>4. clean => BagToSet(work') = {d} /\ Copies(d, work') = 1
      BY <2>1, <2>3
    <2>5. work' # EmptyBag
      BY <2>1, EmptyBagFacts
    <2>6. d.op \notin Actions /\ c.vm \in SnapVMs
      BY <1>1, <1>2 DEF Actions, PaneTypeOK
    <2>7. PaneTypeOK'
      BY <1>1, <1>2, <2>1, <2>2, <2>6 DEF PaneTypeOK
    <2>8. OneInFlight' /\ JobsAsked'
      BY <1>1, <1>2, <2>1, <2>2, <2>4, <2>6 DEF OneInFlight, JobsAsked
    <2>9. InFlightIsCurrent'
      <3>1. clean => /\ d.op = "opened" => pane.vm = NoTag
                     /\ d.op \in {"read", "refreshed"} => pane.vm \in {NoTag, c.vm}
        BY <1>1, <1>2 DEF InFlightIsCurrent
      <3> QED
        BY <1>2, <2>2, <2>4, <2>6, <3>1 DEF InFlightIsCurrent
    <2>10. PaneFaithful'
      BY <1>2, <2>2, <2>5 DEF PaneFaithful, DoneWasAsked, RowsAreCurrent
    <2> QED
      BY <2>7, <2>8, <2>9, <2>10 DEF PaneInv
  <1>3. ASSUME NEW c \in BagToSet(work), NEW op, UNCHANGED <<disk, done>>, Turns(c, Message(op, c)),
               \/ op = "opened" /\ c.op = "open"
               \/ op = "refreshed" /\ c.op = "read"
               \/ op = "failed"
        PROVE  PaneInv'
    <2> DEFINE d == Message(op, c)
    <2>1. d.vm = c.vm /\ d.rows = disk[c.vm] /\ d.op = op
      BY DEF Message
    <2>2. /\ c.vm \in SnapVMs /\ disk \in [SnapVMs -> SUBSET Tags] /\ done \subseteq asked
          /\ Turns(c, d)
      BY <1>1, <1>3 DEF PaneTypeOK, PaneFaithful, DoneWasAsked
    <2> HIDE DEF d
    <2> QED
      BY <1>2, <1>3, <2>1, <2>2
  <1>4. CASE \E c \in Running(Actions) : Act(c)
    <2>1. PICK c \in BagToSet(work) : c.op \in Actions /\ Act(c)
      BY <1>4 DEF Running
    <2> DEFINE d == Job("read", c.vm, NoTag)
    <2>2. d.vm = c.vm /\ d.rows = {} /\ d.op = "read" /\ Turns(c, d)
      BY <2>1 DEF Job, Act
    <2>3. /\ disk \in [SnapVMs -> SUBSET Tags] /\ c.vm \in SnapVMs /\ c.tag \in Tags
          /\ done \subseteq asked /\ <<c.vm, c.op, c.tag>> \in asked
      BY <1>1, <2>1 DEF PaneTypeOK, PaneFaithful, DoneWasAsked, JobsAsked
    <2>4. After(c) \in SUBSET Tags
      BY <2>3 DEF After
    <2>5. disk' \in [SnapVMs -> SUBSET Tags] /\ done' \subseteq asked
      BY <2>1, <2>3, <2>4 DEF Act
    <2> HIDE DEF d
    <2> QED
      BY <1>2, <2>1, <2>2, <2>5
  <1>5. CASE \E c \in Running(Actions \cup {"open", "read"}) : Fails(c)
    BY <1>3, <1>5 DEF Running, Fails
  <1>6. CASE \E c \in Running({"read"}) : Reread(c)
    BY <1>3, <1>6 DEF Running, Reread
  <1>7. CASE \E c \in Running({"open"}) : Opens(c)
    <2>1. PICK c \in BagToSet(work) : c.op = "open" /\ Opens(c)
      BY <1>7 DEF Running
    <2> QED
      BY <1>3, <2>1 DEF Opens
  <1> QED
    BY <1>4, <1>5, <1>6, <1>7 DEF snapshotAction

\* A message at the pane.
LEMMA PaneMessageStep ==
    ASSUME PaneInv, SnapMessages
    PROVE  PaneInv'
  <1>1. /\ PaneTypeOK /\ OneInFlight /\ JobsAsked /\ InFlightIsCurrent /\ PaneFaithful
        /\ pane \in Pane /\ IsABag(work)
    BY DEF PaneInv, PaneTypeOK
  <1>2. ASSUME NEW c \in BagToSet(work), Deliver(c), pane' \in Pane,
               pane'.prompt \in {"restore", "delete"} <=> pane'.tag # NoTag,
               clean' \in BOOLEAN, clean' => clean,
               clean' /\ pane'.vm # NoTag => pane'.rows = disk[pane'.vm]
        PROVE  PaneInv'
    <2>1. /\ UNCHANGED <<disk, at, presses, others, asked, done>>
          /\ IsABag(work') /\ \A y : Copies(y, work') = IF y = c THEN Copies(y, work) - 1 ELSE Copies(y, work)
      BY <1>1, <1>2, RemoveCopies DEF Deliver
    <2>2. \A y : /\ Copies(y, work) \in Nat /\ (y \in BagToSet(work) <=> Copies(y, work) > 0)
                 /\ Copies(y, work') \in Nat /\ (y \in BagToSet(work') <=> Copies(y, work') > 0)
      BY <1>1, <2>1, CopiesFacts
    <2>3. BagToSet(work') \subseteq BagToSet(work)
      BY <2>1, <2>2
    <2>4. clean => BagToSet(work') = {}
      <3>1. clean => BagToSet(work) = {c} /\ Copies(c, work) = 1
        BY <1>1 DEF OneInFlight
      <3> QED
        BY <2>1, <2>2, <2>3, <3>1
    <2>5. PaneTypeOK'
      BY <1>1, <1>2, <2>1, <2>3 DEF PaneTypeOK
    <2>6. OneInFlight' /\ JobsAsked' /\ InFlightIsCurrent'
      BY <1>1, <1>2, <2>1, <2>3, <2>4 DEF OneInFlight, JobsAsked, InFlightIsCurrent
    <2>7. PaneFaithful'
      BY <1>1, <1>2, <2>1 DEF PaneFaithful, DoneWasAsked, RowsAreCurrent
    <2> QED
      BY <2>5, <2>6, <2>7 DEF PaneInv
  <1>3. \A c \in BagToSet(work) : c.vm \in SnapVMs /\ c.rows \subseteq Tags
    BY <1>1 DEF PaneTypeOK
  <1>4. CASE \E c \in Running({"opened"}) : Opened(c)
    <2>1. PICK c \in BagToSet(work) : c.op = "opened" /\ Opened(c)
      BY <1>4 DEF Running
    <2>2. /\ Deliver(c) /\ clean' = clean /\ (clean => pane.vm = NoTag /\ c.rows = disk[c.vm])
          /\ pane' = [Closed EXCEPT !.vm = c.vm, !.rows = c.rows] \/ pane' = pane
      BY <1>1, <2>1 DEF Opened, InFlightIsCurrent
    <2>3. Closed \in Pane /\ Closed.prompt = "none" /\ Closed.tag = NoTag
      BY DEF Closed, Pane, Prompts
    <2>4. PICK q : q = [Closed EXCEPT !.vm = c.vm, !.rows = c.rows]
      OBVIOUS
    <2>5. q \in Pane /\ q.vm = c.vm /\ q.rows = c.rows /\ q.prompt = "none" /\ q.tag = NoTag
      BY <1>3, <2>1, <2>3, <2>4 DEF Pane
    <2>6. pane' = q \/ pane' = pane
      BY <2>2, <2>4
    <2> QED
      BY <1>1, <1>2, <2>1, <2>2, <2>5, <2>6 DEF PaneTypeOK
  <1>5. CASE \E c \in Running({"refreshed"}) : Refreshed(c)
    <2>1. PICK c \in BagToSet(work) : c.op = "refreshed" /\ Refreshed(c)
      BY <1>5 DEF Running
    <2>2. /\ Deliver(c) /\ clean' = clean
          /\ (clean => pane.vm \in {NoTag, c.vm} /\ c.rows = disk[c.vm])
          /\ pane' = IF pane.vm # NoTag THEN [pane EXCEPT !.rows = c.rows] ELSE pane
      BY <1>1, <2>1 DEF Refreshed, InFlightIsCurrent
    <2>3. PICK q : q = [pane EXCEPT !.rows = c.rows]
      OBVIOUS
    <2>4. q \in Pane /\ q.vm = pane.vm /\ q.rows = c.rows /\ q.prompt = pane.prompt /\ q.tag = pane.tag
      BY <1>1, <1>3, <2>1, <2>3 DEF Pane
    <2>5. CASE pane.vm # NoTag
      <3>1. pane' = q
        BY <2>2, <2>3, <2>5
      <3> QED
        BY <1>1, <1>2, <2>1, <2>2, <2>4, <2>5, <3>1 DEF PaneTypeOK
    <2>6. CASE pane.vm = NoTag
      <3>1. pane' = pane
        BY <2>2, <2>6
      <3> QED
        BY <1>1, <1>2, <2>1, <2>2, <2>6, <3>1 DEF PaneTypeOK
    <2> QED
      BY <2>5, <2>6
  <1>6. CASE \E c \in Running({"failed"}) : Failed(c)
    BY <1>1, <1>2, <1>6 DEF Running, Failed, PaneTypeOK
  <1> QED
    BY <1>4, <1>5, <1>6 DEF SnapMessages

LEMMA PaneOtherStep ==
    ASSUME PaneInv, OtherProcess
    PROVE  PaneInv'
  <1>1. /\ PaneTypeOK /\ JobsAsked /\ PaneFaithful
        /\ UNCHANGED <<at, pane, work, presses, asked, done>> /\ clean' = FALSE
    BY DEF PaneInv, OtherProcess
  <1>2. disk' \in [SnapVMs -> SUBSET Tags] /\ others' \in 0..MaxOthers
    BY <1>1, SnapAssumption DEF OtherProcess, PaneTypeOK
  <1>3. PaneTypeOK'
    BY <1>1, <1>2 DEF PaneTypeOK
  <1>4. OneInFlight' /\ JobsAsked' /\ InFlightIsCurrent' /\ PaneFaithful'
    BY <1>1 DEF OneInFlight, JobsAsked, InFlightIsCurrent, PaneFaithful, DoneWasAsked, RowsAreCurrent
  <1> QED
    BY <1>3, <1>4 DEF PaneInv

LEMMA PaneInvHolds == PaneSpec => []PaneInv
  <1>1. PaneInv /\ [PaneNext]_paneVars => PaneInv'
    <2>1. ASSUME PaneInv, PaneNext PROVE PaneInv'
      BY <2>1, PaneKeysStep, PaneWorkStep, PaneMessageStep, PaneOtherStep DEF PaneNext
    <2>2. ASSUME PaneInv, UNCHANGED paneVars PROVE PaneInv'
      <3>1. UNCHANGED disk /\ UNCHANGED at /\ UNCHANGED pane /\ UNCHANGED work /\ UNCHANGED presses
            /\ UNCHANGED others /\ UNCHANGED asked /\ UNCHANGED done /\ UNCHANGED clean
        BY <2>2 DEF paneVars
      <3> QED
        BY <2>2, <3>1 DEF PaneInv, PaneTypeOK, OneInFlight, JobsAsked, InFlightIsCurrent, PaneFaithful,
           DoneWasAsked, RowsAreCurrent
    <2> QED
      BY <2>1, <2>2
  <1> QED
    BY <1>1, PaneInvInit, PTL DEF PaneSpec

\* The types of the pane's state: the question on screen has its tag, and
\* nothing in flight is about a VM or a tag that is none.
THEOREM PaneTypes == PaneSpec => []PaneTypeOK
  <1>1. PaneInv => PaneTypeOK
    BY DEF PaneInv
  <1> QED
    BY <1>1, PaneInvHolds, PTL

\* What is done to a snapshot was confirmed for that VM and tag; and with one
\* command at a time a pane with nothing in flight shows the snapshots there are.
THEOREM PaneStaysFaithful == PaneSpec => []PaneFaithful
  <1>1. PaneInv => PaneFaithful
    BY DEF PaneInv
  <1> QED
    BY <1>1, PaneInvHolds, PTL

-----------------------------------------------------------------------------
(* The message loop: what is in flight *)

IsRun(c) == c.op \in {"provision", "provisionDone"}

\* A command or message is about a VM, and carries a row, rows or a generation
\* where it is of a kind that does.
Well(c) ==
    /\ c.op \in {"load", "loadThenList", "vmsLoaded", "screenList", "tick"} \/ c.n \in VMs
    /\ c.op \in {"start", "vmStarted", "provision", "vmReloaded"} => c.v \in Row
    /\ c.op = "vmsLoaded" => c.vms \subseteq Row
    /\ c.op = "tick" => c.gen \in Nat /\ c = Tick(c.gen)

CmdsWell     == \A c \in BagToSet(cmds) : Well(c)
TicksAreOld  == \A c \in BagToSet(cmds) : c.op = "tick" => c.gen <= m.detailGen
RunsMarked   == \A c \in BagToSet(cmds) : IsRun(c) => c.n \in m.provisioning /\ Copies(c, cmds) = 1
RunsAlone    == \A c, d \in BagToSet(cmds) : IsRun(c) /\ IsRun(d) /\ c.n = d.n => c = d
MarksHaveRun == \A n \in m.provisioning : \E c \in BagToSet(cmds) : IsRun(c) /\ c.n = n
RunInv       == RunsMarked /\ RunsAlone /\ MarksHaveRun
TickInv      == TicksAreOld /\ OneTickChain

LoopInv == TypeOK /\ CmdsWell /\ RunInv /\ TickInv

LEMMA RunInvIsOneProvision == ASSUME TypeOK, RunInv PROVE OneProvision
  <1> SUFFICES ASSUME NEW n \in VMs
               PROVE  IF n \in m.provisioning THEN \E c \in Runs(n) : Runs(n) = {c} /\ cmds[c] = 1
                      ELSE Runs(n) = {}
    BY DEF OneProvision
  <1>1. CASE n \in m.provisioning
    <2>1. PICK c \in BagToSet(cmds) : IsRun(c) /\ c.n = n
      BY <1>1 DEF RunInv, MarksHaveRun
    <2>2. c \in Runs(n) /\ Runs(n) = {c}
      BY <2>1 DEF Runs, RunInv, RunsAlone, IsRun
    <2>3. cmds[c] = 1
      BY <2>1, CopiesFacts DEF RunInv, RunsMarked, TypeOK
    <2> QED
      BY <1>1, <2>2, <2>3
  <1>2. CASE n \notin m.provisioning
    BY <1>2 DEF Runs, RunInv, RunsMarked, IsRun
  <1> QED
    BY <1>1, <1>2

\* What a command or message made by its constructor is.
LEMMA CmdFacts ==
    /\ \A op, n : Cmd(op, n).op = op /\ Cmd(op, n).n = n
    /\ \A op, v : OfVM(op, v).op = op /\ OfVM(op, v).n = v.n /\ OfVM(op, v).v = v
    /\ \A g : Tick(g).op = "tick" /\ Tick(g).gen = g
    /\ Load.op = "load"
    /\ \A vms : Loaded(vms).op = "vmsLoaded" /\ Loaded(vms).vms = vms
  BY DEF Cmd, OfVM, Tick, Load, Loaded

LEMMA RowFacts ==
    ASSUME TypeOK
    PROVE  (\A n \in VMs : Read(n) \in Row /\ Read(n).n = n) /\ List \subseteq Row
  BY DEF TypeOK, Machine, Read, As, Row, Shown, List

\* One step of the bag: R is taken out and S is put in.
Moves(R, S) ==
    /\ IsABag(cmds')
    /\ \A y : Copies(y, cmds') =
         (Copies(y, cmds) - (IF y \in R THEN 1 ELSE 0)) + (IF y \in S THEN 1 ELSE 0)

LEMMA ReturnMoves ==
    ASSUME IsABag(cmds), NEW S, cmds' = cmds (+) Batch(S)
    PROVE  Moves({}, S)
  <1>1. /\ IsABag(cmds')
        /\ \A y : Copies(y, cmds') = IF y \in S THEN Copies(y, cmds) + 1 ELSE Copies(y, cmds)
    BY UnionCopies DEF Batch
  <1>2. \A y : Copies(y, cmds) \in Nat
    BY CopiesFacts
  <1> QED
    BY <1>1, <1>2 DEF Moves

LEMMA HandledMoves ==
    ASSUME IsABag(cmds), NEW c \in BagToSet(cmds), NEW S, cmds' = BagRemove(cmds, c) (+) Batch(S)
    PROVE  Moves({c}, S)
  <1> DEFINE B == BagRemove(cmds, c)
  <1>1. IsABag(B) /\ \A y : Copies(y, B) = IF y = c THEN Copies(y, cmds) - 1 ELSE Copies(y, cmds)
    BY RemoveCopies
  <1> HIDE DEF B
  <1>2. cmds' = B (+) SetToBag(S)
    BY DEF B, Batch
  <1>3. /\ IsABag(cmds')
        /\ \A y : Copies(y, cmds') = IF y \in S THEN Copies(y, B) + 1 ELSE Copies(y, B)
    BY <1>1, <1>2, UnionCopies
  <1>4. \A y : Copies(y, cmds) \in Nat /\ Copies(y, B) \in Nat
    BY <1>1, CopiesFacts
  <1> QED
    BY <1>1, <1>3, <1>4 DEF Moves

LEMMA EndsMoves ==
    ASSUME IsABag(cmds), NEW c \in BagToSet(cmds), Ends(c)
    PROVE  Moves({c}, {})
  <1>1. /\ IsABag(cmds')
        /\ \A y : Copies(y, cmds') = IF y = c THEN Copies(y, cmds) - 1 ELSE Copies(y, cmds)
    BY RemoveCopies DEF Ends
  <1>2. \A y : Copies(y, cmds) \in Nat
    BY CopiesFacts
  <1> QED
    BY <1>1, <1>2 DEF Moves

LEMMA BecomesMoves ==
    ASSUME IsABag(cmds), NEW c \in BagToSet(cmds), NEW d, Becomes(c, d)
    PROVE  Moves({c}, {d})
  <1> DEFINE B == BagRemove(cmds, c)
  <1>1. IsABag(B) /\ \A y : Copies(y, B) = IF y = c THEN Copies(y, cmds) - 1 ELSE Copies(y, cmds)
    BY RemoveCopies
  <1> HIDE DEF B
  <1>2. cmds' = BagAdd(B, d)
    BY DEF B, Becomes
  <1>3. /\ IsABag(cmds')
        /\ \A y : Copies(y, cmds') = IF y = d THEN Copies(y, B) + 1 ELSE Copies(y, B)
    BY <1>1, <1>2, AddCopies
  <1>4. \A y : Copies(y, cmds) \in Nat /\ Copies(y, B) \in Nat
    BY <1>1, CopiesFacts
  <1> QED
    BY <1>1, <1>3, <1>4 DEF Moves

\* What is in flight after the step.
LEMMA MovesMembers ==
    ASSUME IsABag(cmds), NEW R, NEW S, R \subseteq BagToSet(cmds), Moves(R, S)
    PROVE  /\ IsABag(cmds')
           /\ BagToSet(cmds') \subseteq BagToSet(cmds) \cup S
           /\ S \subseteq BagToSet(cmds')
           /\ BagToSet(cmds) \ R \subseteq BagToSet(cmds')
           /\ \A y : Copies(y, cmds) \in Nat /\ Copies(y, cmds') \in Nat
           /\ \A y : y \notin R \cup S => Copies(y, cmds') = Copies(y, cmds)
           /\ \A y \in R : Copies(y, cmds) = 1 /\ y \notin S => y \notin BagToSet(cmds')
           /\ \A y : y \in S /\ y \notin BagToSet(cmds) => Copies(y, cmds') = 1
           /\ \A y \in R : y \in S => Copies(y, cmds') = Copies(y, cmds)
           /\ \A y : y \notin S => Copies(y, cmds') <= Copies(y, cmds)
  <1>1. IsABag(cmds')
    BY DEF Moves
  <1>2. \A y : /\ Copies(y, cmds) \in Nat /\ Copies(y, cmds') \in Nat
               /\ y \in BagToSet(cmds) <=> Copies(y, cmds) > 0
               /\ y \in BagToSet(cmds') <=> Copies(y, cmds') > 0
    BY <1>1, CopiesFacts
  <1>3. \A y : Copies(y, cmds') =
         (Copies(y, cmds) - (IF y \in R THEN 1 ELSE 0)) + (IF y \in S THEN 1 ELSE 0)
    BY DEF Moves
  <1>4. /\ \A y : y \notin R \cup S => Copies(y, cmds') = Copies(y, cmds)
        /\ \A y : y \in R /\ y \in S => Copies(y, cmds') = Copies(y, cmds)
        /\ \A y : y \in R /\ y \notin S => Copies(y, cmds') = Copies(y, cmds) - 1
        /\ \A y : y \notin R /\ y \in S => Copies(y, cmds') = Copies(y, cmds) + 1
    BY <1>2, <1>3
  <1>5. \A y \in R : Copies(y, cmds) > 0
    BY <1>2
  <1>6. BagToSet(cmds') \subseteq BagToSet(cmds) \cup S /\ S \subseteq BagToSet(cmds')
    BY <1>2, <1>4, <1>5
  <1>7. BagToSet(cmds) \ R \subseteq BagToSet(cmds')
    BY <1>2, <1>4
  <1>8. /\ \A y \in R : Copies(y, cmds) = 1 /\ y \notin S => y \notin BagToSet(cmds')
        /\ \A y : y \in S /\ y \notin BagToSet(cmds) => Copies(y, cmds') = 1
        /\ \A y : y \notin S => Copies(y, cmds') <= Copies(y, cmds)
    BY <1>2, <1>4, <1>5
  <1> QED
    BY <1>1, <1>2, <1>4, <1>6, <1>7, <1>8

-----------------------------------------------------------------------------
(* What a step of the loop does to the two counts *)

\* The detail screen's generation stays, and a tick of it only replaces itself;
\* or a new generation begins, with at most one tick of it.
TicksGoOn(R, S) ==
    \/ /\ m'.detailGen = m.detailGen
       /\ \A d \in S : d.op = "tick" => d \in R /\ d.gen = m.detailGen
    \/ /\ m'.detailGen = m.detailGen + 1
       /\ \A d \in S : d.op = "tick" => d.gen <= m'.detailGen

LEMMA TicksKept ==
    ASSUME TypeOK, CmdsWell, TickInv, NEW R, NEW S, R \subseteq BagToSet(cmds), Moves(R, S), TicksGoOn(R, S)
    PROVE  TickInv'
  <1>1. IsABag(cmds) /\ m.detailGen \in Nat
    BY DEF TypeOK, Model
  <1>2. /\ BagToSet(cmds') \subseteq BagToSet(cmds) \cup S
        /\ \A y : Copies(y, cmds) \in Nat /\ Copies(y, cmds') \in Nat
        /\ \A y \in R : y \in S => Copies(y, cmds') = Copies(y, cmds)
        /\ \A y : y \notin S => Copies(y, cmds') <= Copies(y, cmds)
        /\ \A y : y \in S /\ y \notin BagToSet(cmds) => Copies(y, cmds') = 1
    BY <1>1, MovesMembers
  <1>3. \A g : Tick(g).op = "tick" /\ Tick(g).gen = g
    BY CmdFacts
  <1>4. \A c \in BagToSet(cmds) : c.op = "tick" => c.gen \in Nat /\ c.gen <= m.detailGen
    BY DEF CmdsWell, Well, TickInv, TicksAreOld
  <1>5. TicksAreOld'
    BY <1>1, <1>2, <1>4 DEF TicksAreOld, TicksGoOn
  <1>6. CASE m'.detailGen = m.detailGen /\ \A d \in S : d.op = "tick" => d \in R /\ d.gen = m.detailGen
    BY <1>1, <1>2, <1>3, <1>5, <1>6 DEF TickInv, OneTickChain
  <1>7. CASE m'.detailGen = m.detailGen + 1
    <2>1. Tick(m'.detailGen) \notin BagToSet(cmds)
      BY <1>1, <1>3, <1>4, <1>7
    <2>2. Copies(Tick(m'.detailGen), cmds) = 0
      BY <1>1, <2>1, CopiesFacts
    <2>3. Copies(Tick(m'.detailGen), cmds') <= 1
      BY <1>2, <2>1, <2>2
    <2> QED
      BY <1>5, <2>3 DEF TickInv, OneTickChain
  <1> QED
    BY <1>6, <1>7 DEF TicksGoOn

\* The mark of a VM comes with its one run, its one run reports, and the mark
\* goes with the report; any other step leaves both alone.
RunsGoOn(R, S) ==
    \/ m'.provisioning = m.provisioning /\ \A d \in R \cup S : ~IsRun(d)
    \/ \E v \in Row : /\ v.n \notin m.provisioning /\ m'.provisioning = m.provisioning \cup {v.n}
                      /\ S = {OfVM("provision", v)} /\ \A d \in R : ~IsRun(d)
    \/ \E c : /\ R = {c} /\ c.op = "provision" /\ S = {Cmd("provisionDone", c.n)}
              /\ m'.provisioning = m.provisioning
    \/ \E c : /\ R = {c} /\ c.op = "provisionDone" /\ S = {}
              /\ m'.provisioning = m.provisioning \ {c.n}

LEMMA RunsKept ==
    ASSUME TypeOK, RunInv, NEW R, NEW S, R \subseteq BagToSet(cmds), Moves(R, S), RunsGoOn(R, S)
    PROVE  RunInv'
  <1>1. IsABag(cmds)
    BY DEF TypeOK
  <1>2. /\ BagToSet(cmds') \subseteq BagToSet(cmds) \cup S
        /\ S \subseteq BagToSet(cmds')
        /\ BagToSet(cmds) \ R \subseteq BagToSet(cmds')
        /\ \A y : y \notin R \cup S => Copies(y, cmds') = Copies(y, cmds)
        /\ \A y \in R : Copies(y, cmds) = 1 /\ y \notin S => y \notin BagToSet(cmds')
        /\ \A y : y \in S /\ y \notin BagToSet(cmds) => Copies(y, cmds') = 1
    BY <1>1, MovesMembers
  <1>3. /\ \A c \in BagToSet(cmds) : IsRun(c) => c.n \in m.provisioning /\ Copies(c, cmds) = 1
        /\ \A c, d \in BagToSet(cmds) : IsRun(c) /\ IsRun(d) /\ c.n = d.n => c = d
        /\ \A n \in m.provisioning : \E c \in BagToSet(cmds) : IsRun(c) /\ c.n = n
    BY DEF RunInv, RunsMarked, RunsAlone, MarksHaveRun
  <1>4. CASE m'.provisioning = m.provisioning /\ \A d \in R \cup S : ~IsRun(d)
    <2>1. \A c : IsRun(c) => /\ c \in BagToSet(cmds') <=> c \in BagToSet(cmds)
                             /\ Copies(c, cmds') = Copies(c, cmds)
      BY <1>2, <1>4
    <2> QED
      BY <1>3, <1>4, <2>1 DEF RunInv, RunsMarked, RunsAlone, MarksHaveRun
  <1>5. CASE \E v \in Row : /\ v.n \notin m.provisioning /\ m'.provisioning = m.provisioning \cup {v.n}
                            /\ S = {OfVM("provision", v)} /\ \A d \in R : ~IsRun(d)
    <2>1. PICK v \in Row : /\ v.n \notin m.provisioning /\ m'.provisioning = m.provisioning \cup {v.n}
                           /\ S = {OfVM("provision", v)} /\ \A d \in R : ~IsRun(d)
      BY <1>5
    <2>2. PICK d : d = OfVM("provision", v)
      OBVIOUS
    <2>3. IsRun(d) /\ d.n = v.n /\ S = {d}
      BY <2>1, <2>2, CmdFacts DEF IsRun
    <2>4. d \notin BagToSet(cmds)
      BY <1>3, <2>1, <2>3
    <2>5. \A c : IsRun(c) /\ c # d => /\ c \in BagToSet(cmds') <=> c \in BagToSet(cmds)
                                      /\ Copies(c, cmds') = Copies(c, cmds)
      BY <1>2, <2>1, <2>3
    <2>6. d \in BagToSet(cmds') /\ Copies(d, cmds') = 1
      BY <1>2, <2>3, <2>4
    <2> QED
      BY <1>3, <2>1, <2>3, <2>4, <2>5, <2>6 DEF RunInv, RunsMarked, RunsAlone, MarksHaveRun
  <1>6. CASE \E c : /\ R = {c} /\ c.op = "provision" /\ S = {Cmd("provisionDone", c.n)}
                    /\ m'.provisioning = m.provisioning
    <2>1. PICK c : /\ R = {c} /\ c.op = "provision" /\ S = {Cmd("provisionDone", c.n)}
                   /\ m'.provisioning = m.provisioning
      BY <1>6
    <2>2. PICK d : d = Cmd("provisionDone", c.n)
      OBVIOUS
    <2>3. IsRun(d) /\ d.n = c.n /\ d.op = "provisionDone" /\ S = {d} /\ IsRun(c) /\ c # d
      BY <2>1, <2>2, CmdFacts DEF IsRun
    <2>4. d \notin BagToSet(cmds) /\ c \in BagToSet(cmds)
      BY <1>3, <2>1, <2>3
    <2>5. \A x : IsRun(x) /\ x \notin {c, d} => /\ x \in BagToSet(cmds') <=> x \in BagToSet(cmds)
                                                /\ Copies(x, cmds') = Copies(x, cmds)
      BY <1>2, <2>1, <2>3
    <2>6. d \in BagToSet(cmds') /\ Copies(d, cmds') = 1 /\ c \notin BagToSet(cmds')
      BY <1>2, <1>3, <2>1, <2>3, <2>4
    <2> QED
      BY <1>3, <2>1, <2>3, <2>4, <2>5, <2>6 DEF RunInv, RunsMarked, RunsAlone, MarksHaveRun
  <1>7. CASE \E c : /\ R = {c} /\ c.op = "provisionDone" /\ S = {}
                    /\ m'.provisioning = m.provisioning \ {c.n}
    <2>1. PICK c : /\ R = {c} /\ c.op = "provisionDone" /\ S = {}
                   /\ m'.provisioning = m.provisioning \ {c.n}
      BY <1>7
    <2>2. IsRun(c) /\ c \in BagToSet(cmds)
      BY <2>1 DEF IsRun
    <2>3. \A x : IsRun(x) /\ x # c => /\ x \in BagToSet(cmds') <=> x \in BagToSet(cmds)
                                      /\ Copies(x, cmds') = Copies(x, cmds)
      BY <1>2, <2>1
    <2>4. c \notin BagToSet(cmds')
      BY <1>2, <1>3, <2>1, <2>2
    <2> QED
      BY <1>3, <2>1, <2>2, <2>3, <2>4 DEF RunInv, RunsMarked, RunsAlone, MarksHaveRun
  <1> QED
    BY <1>4, <1>5, <1>6, <1>7 DEF RunsGoOn

-----------------------------------------------------------------------------
(* A step of the loop keeps the invariant, by kind of step *)

Places(x) ==
    /\ x.screen \in {"detail", "edit"} => x.detail.n \in VMs
    /\ x.screen = "edit" => x.edit \in VMs
    /\ x.overlay # "none" => x.detail.n \in VMs

Plain(d) == Well(d) /\ ~IsRun(d) /\ d.op # "tick"

LEMMA TypeFacts ==
    ASSUME LoopInv
    PROVE  /\ mode \in [VMs -> {"live", "disk", "cloud"}] /\ vm \in [VMs -> Machine]
           /\ m \in Model /\ Places(m) /\ IsABag(cmds) /\ \A c \in BagToSet(cmds) : Well(c)
           /\ m.vms \subseteq Row /\ m.detail \in Shown /\ m.edit \in VMs \cup {None} /\ m.detailGen \in Nat
           /\ m.provisioning \subseteq VMs /\ m.cloudInit \in [VMs -> {"none", "waiting", "done"}]
           /\ m.pendingDelete \in VMs \cup {None} /\ m.status \in VMs \cup {None}
           /\ keys \in 0..MaxKeys /\ outside \in 0..MaxOutside
           /\ \A n \in VMs : Read(n) \in Row /\ Read(n).n = n
           /\ List \subseteq Row
  <1>1. TypeOK /\ CmdsWell
    BY DEF LoopInv
  <1>2. (\A n \in VMs : Read(n) \in Row /\ Read(n).n = n) /\ List \subseteq Row
    BY <1>1, RowFacts
  <1> QED
    BY <1>1, <1>2 DEF TypeOK, CmdsWell, Places, Model

LEMMA WellFacts ==
    /\ \A n \in VMs : \A op : op \notin {"start", "vmStarted", "provision", "vmReloaded", "vmsLoaded", "tick"}
         => Well(Cmd(op, n))
    /\ \A op \in {"load", "loadThenList", "screenList"} : \A n : Plain(Cmd(op, n))
    /\ Plain(Load)
    /\ \A vms \in SUBSET Row : Plain(Loaded(vms))
    /\ \A v \in Row : \A op : op \notin {"vmsLoaded", "tick"} => Well(OfVM(op, v))
    /\ \A g \in Nat : Well(Tick(g))
  <1>1. \A v \in Row : v.n \in VMs
    BY DEF Row
  <1> QED
    BY <1>1, CmdFacts DEF Well, Plain, IsRun

LEMMA StepKept ==
    ASSUME LoopInv, mode' = mode, vm' \in [VMs -> Machine], m' \in Model, Places(m'),
           keys' \in 0..MaxKeys, outside' \in 0..MaxOutside,
           NEW R, NEW S, R \subseteq BagToSet(cmds), Moves(R, S), \A d \in S : Well(d),
           TicksGoOn(R, S), RunsGoOn(R, S)
    PROVE  LoopInv'
  <1>1. TypeOK /\ CmdsWell /\ RunInv /\ TickInv /\ IsABag(cmds)
    BY DEF LoopInv, TypeOK
  <1>2. IsABag(cmds') /\ BagToSet(cmds') \subseteq BagToSet(cmds) \cup S
    BY <1>1, MovesMembers
  <1>3. RunInv' /\ TickInv'
    BY <1>1, RunsKept, TicksKept
  <1>4. TypeOK'
    BY <1>1, <1>2 DEF TypeOK, Places
  <1>5. CmdsWell'
    BY <1>1, <1>2 DEF CmdsWell
  <1> QED
    BY <1>3, <1>4, <1>5 DEF LoopInv

\* A key: no run begins, and a new visit begins with its tick.
LEMMA KeyKept ==
    ASSUME LoopInv, Press, vm' \in [VMs -> Machine], NEW next \in Model, Places(next), NEW S, Return(next, S),
           next.provisioning = m.provisioning,
           \/ next.detailGen = m.detailGen /\ \A d \in S : Plain(d)
           \/ next.detailGen = m.detailGen + 1 /\ S = {Tick(m.detailGen + 1)}
    PROVE  LoopInv'
  <1>1. /\ m' = next /\ cmds' = cmds (+) Batch(S) /\ mode' = mode
        /\ IsABag(cmds) /\ m.detailGen \in Nat
        /\ Tick(m.detailGen + 1).op = "tick" /\ Tick(m.detailGen + 1).gen = m.detailGen + 1
    BY TypeFacts, CmdFacts DEF Return, Press
  <1>2. Moves({}, S)
    BY <1>1, ReturnMoves
  <1>3. keys' \in 0..MaxKeys /\ outside' \in 0..MaxOutside
    BY TypeFacts, BoundsAssumption DEF Press
  <1>4. \A d \in S : Well(d) /\ ~IsRun(d)
    BY <1>1, WellFacts DEF Plain, IsRun
  <1>5. TicksGoOn({}, S)
    BY <1>1 DEF TicksGoOn, Plain
  <1>6. RunsGoOn({}, S)
    BY <1>1, <1>4 DEF RunsGoOn
  <1> QED
    BY <1>1, <1>2, <1>3, <1>4, <1>5, <1>6, StepKept

\* A run's mark and its command.
LEMMA ProvisioningFacts ==
    ASSUME LoopInv, NEW n \in VMs
    PROVE  /\ Provisioning(n) \in Model
           /\ Provisioning(n).provisioning = m.provisioning \cup {n}
           /\ Provisioning(n).detailGen = m.detailGen
           /\ Places(Provisioning(n))
  <1>1. PICK q : q = Provisioning(n)
    OBVIOUS
  <1>2. m \in Model /\ Places(m)
    BY TypeFacts
  <1>3. /\ q \in Model /\ q.provisioning = m.provisioning \cup {n} /\ q.detailGen = m.detailGen
        /\ q.screen = m.screen /\ q.detail = m.detail /\ q.edit = m.edit /\ q.overlay = m.overlay
    BY <1>1, <1>2 DEF Provisioning, Model
  <1> QED
    BY <1>1, <1>2, <1>3 DEF Places

LEMMA KeyRuns ==
    ASSUME LoopInv, Key, NEW v \in Row, Provisions(v),
           Return(Provisioning(v.n), {OfVM("provision", v)})
    PROVE  LoopInv'
  <1>1. v.n \in VMs /\ v.n \notin m.provisioning
    BY DEF Row, Provisions
  <1>2. PICK q, d : q = Provisioning(v.n) /\ d = OfVM("provision", v)
    OBVIOUS
  <1>3. /\ q \in Model /\ q.provisioning = m.provisioning \cup {v.n} /\ q.detailGen = m.detailGen /\ Places(q)
        /\ d.op = "provision" /\ Well(d)
    BY <1>1, <1>2, ProvisioningFacts, CmdFacts, WellFacts
  <1>4. /\ m' = q /\ cmds' = cmds (+) Batch({d}) /\ mode' = mode /\ IsABag(cmds) /\ vm' = vm
        /\ vm \in [VMs -> Machine]
    BY <1>2, TypeFacts DEF Return, Press, Key
  <1>5. Moves({}, {d})
    BY <1>4, ReturnMoves
  <1>6. keys' \in 0..MaxKeys /\ outside' \in 0..MaxOutside
    BY TypeFacts, BoundsAssumption DEF Key, Press
  <1>7. TicksGoOn({}, {d}) /\ RunsGoOn({}, {d})
    BY <1>1, <1>2, <1>3, <1>4 DEF TicksGoOn, RunsGoOn
  <1> QED
    BY <1>3, <1>4, <1>5, <1>6, <1>7, StepKept

\* A command at work that is no run.
LEMMA WorkKept ==
    ASSUME LoopInv, World, vm' \in [VMs -> Machine], NEW c \in BagToSet(cmds), ~IsRun(c),
           NEW S, Moves({c}, S), \A d \in S : Plain(d)
    PROVE  LoopInv'
  <1>1. /\ UNCHANGED <<mode, m, keys, outside>> /\ m \in Model /\ Places(m)
        /\ keys \in 0..MaxKeys /\ outside \in 0..MaxOutside
    BY TypeFacts DEF World
  <1>2. TicksGoOn({c}, S) /\ RunsGoOn({c}, S)
    BY <1>1 DEF TicksGoOn, RunsGoOn, Plain
  <1> QED
    BY <1>1, <1>2, StepKept DEF Plain

\* A message that is no report.
LEMMA MessageKept ==
    ASSUME LoopInv, Still, NEW c \in BagToSet(cmds), ~IsRun(c),
           NEW next \in Model, Places(next), NEW S, Handled(c, next, S),
           next.provisioning = m.provisioning, \A d \in S : Well(d) /\ ~IsRun(d),
           \/ next.detailGen = m.detailGen /\ \A d \in S : d.op = "tick" => d = c /\ d.gen = m.detailGen
           \/ next.detailGen = m.detailGen + 1 /\ \A d \in S : d.op = "tick" => d.gen = m.detailGen + 1
    PROVE  LoopInv'
  <1>1. /\ m' = next /\ cmds' = BagRemove(cmds, c) (+) Batch(S) /\ UNCHANGED <<mode, vm, keys, outside>>
        /\ IsABag(cmds) /\ m.detailGen \in Nat /\ vm \in [VMs -> Machine]
        /\ keys \in 0..MaxKeys /\ outside \in 0..MaxOutside
    BY TypeFacts DEF Handled, Still
  <1>2. Moves({c}, S)
    BY <1>1, HandledMoves
  <1>3. TicksGoOn({c}, S)
    BY <1>1 DEF TicksGoOn
  <1>4. RunsGoOn({c}, S)
    BY <1>1 DEF RunsGoOn
  <1> QED
    BY <1>1, <1>2, <1>3, <1>4, StepKept

-----------------------------------------------------------------------------
(* Keys *)

LEMMA ListKeysStep ==
    ASSUME LoopInv, ListKeys
    PROVE  LoopInv'
  <1>1. /\ m \in Model /\ Places(m) /\ m.vms \subseteq Row /\ m.pendingDelete \in VMs \cup {None}
        /\ m.detailGen \in Nat /\ vm \in [VMs -> Machine] /\ None \in VMs \cup {None}
        /\ \A n \in VMs : Read(n) \in Row /\ Read(n).n = n
        /\ \A v \in Row : v.n \in VMs /\ v \in Shown
    BY TypeFacts DEF Row
  <1>2. Key
    BY DEF ListKeys, ListEnter, ListDelete, Answer, ListProvision, ListNew, ListDetail, ListEsc, ListKey
  <1>3. Press /\ vm' \in [VMs -> Machine]
    BY <1>1, <1>2 DEF Key
  <1>4. CASE ListEnter
    <2>1. PICK v \in m.vms, op \in {"stop", "start"} : Return([m EXCEPT !.status = None], {OfVM(op, v)})
      BY <1>4 DEF ListEnter
    <2>2. PICK q, d : q = [m EXCEPT !.status = None] /\ d = OfVM(op, v)
      OBVIOUS
    <2>3. /\ q \in Model /\ q.provisioning = m.provisioning /\ q.detailGen = m.detailGen
          /\ q.screen = m.screen /\ q.detail = m.detail /\ q.edit = m.edit /\ q.overlay = m.overlay
      BY <1>1, <2>2 DEF Model
    <2>4. Plain(d) /\ Return(q, {d})
      BY <1>1, <2>1, <2>2, WellFacts, CmdFacts DEF Plain, IsRun
    <2> QED
      BY <1>1, <1>3, <2>3, <2>4, KeyKept DEF Places
  <1>5. CASE ListDelete
    <2>1. PICK v \in m.vms : Return([m EXCEPT !.status = v.n, !.pendingDelete = v.n], {})
      BY <1>5 DEF ListDelete
    <2>2. PICK q : q = [m EXCEPT !.status = v.n, !.pendingDelete = v.n]
      OBVIOUS
    <2>3. /\ q \in Model /\ q.provisioning = m.provisioning /\ q.detailGen = m.detailGen
          /\ q.screen = m.screen /\ q.detail = m.detail /\ q.edit = m.edit /\ q.overlay = m.overlay
      BY <1>1, <2>2 DEF Model
    <2>4. Return(q, {})
      BY <2>1, <2>2
    <2> QED
      BY <1>1, <1>3, <2>3, <2>4, KeyKept DEF Places
  <1>6. CASE Answer
    <2>1. PICK q, d : q = [m EXCEPT !.pendingDelete = None, !.status = None] /\ d = Cmd("delete", m.pendingDelete)
      OBVIOUS
    <2>2. m.pendingDelete \in VMs /\ (Return(q, {d}) \/ Return(q, {}))
      BY <1>1, <1>6, <2>1 DEF Answer
    <2>3. /\ q \in Model /\ q.provisioning = m.provisioning /\ q.detailGen = m.detailGen
          /\ q.screen = m.screen /\ q.detail = m.detail /\ q.edit = m.edit /\ q.overlay = m.overlay
      BY <1>1, <2>1 DEF Model
    <2>4. Plain(d)
      BY <2>1, <2>2, WellFacts, CmdFacts DEF Plain, IsRun
    <2> QED
      BY <1>1, <1>3, <2>2, <2>3, <2>4, KeyKept DEF Places
  <1>7. CASE ListProvision
    <2>1. PICK v \in m.vms : Provisions(v) /\ Return(Provisioning(v.n), {OfVM("provision", v)})
      BY <1>7 DEF ListProvision
    <2> QED
      BY <1>1, <1>2, <2>1, KeyRuns
  <1>8. CASE ListNew
    <2>1. PICK q : q = [m EXCEPT !.screen = "form"]
      OBVIOUS
    <2>2. /\ q \in Model /\ q.provisioning = m.provisioning /\ q.detailGen = m.detailGen
          /\ q.screen = "form" /\ q.detail = m.detail /\ q.overlay = m.overlay
      BY <1>1, <2>1 DEF Model
    <2>3. Return(q, {})
      BY <1>8, <2>1 DEF ListNew
    <2> QED
      BY <1>1, <1>3, <2>2, <2>3, KeyKept DEF Places
  <1>9. CASE ListDetail
    <2>1. PICK v \in m.vms :
             Return([m EXCEPT !.detail = Read(v.n), !.overlay = "none", !.screen = "detail", !.detailGen = @ + 1],
                    {Tick(m.detailGen + 1)})
      BY <1>9 DEF ListDetail
    <2>2. PICK q, w, g : /\ w = Read(v.n) /\ g = m.detailGen + 1
                         /\ q = [m EXCEPT !.detail = w, !.overlay = "none", !.screen = "detail", !.detailGen = g]
      OBVIOUS
    <2>3. w \in Shown /\ w.n \in VMs /\ g \in Nat
      BY <1>1, <2>1, <2>2
    <2>4. /\ q \in Model /\ q.provisioning = m.provisioning /\ q.detailGen = g
          /\ q.screen = "detail" /\ q.detail = w /\ q.overlay = "none"
      BY <1>1, <2>2, <2>3 DEF Model
    <2>5. Return(q, {Tick(m.detailGen + 1)})
      BY <2>1, <2>2
    <2> QED
      BY <1>3, <2>2, <2>3, <2>4, <2>5, KeyKept DEF Places
  <1>10. CASE ListEsc
    <2>1. PICK q : q = [m EXCEPT !.status = None]
      OBVIOUS
    <2>2. /\ q \in Model /\ q.provisioning = m.provisioning /\ q.detailGen = m.detailGen
          /\ q.screen = m.screen /\ q.detail = m.detail /\ q.edit = m.edit /\ q.overlay = m.overlay
      BY <1>1, <2>1 DEF Model
    <2>3. Return(q, {})
      BY <1>10, <2>1 DEF ListEsc
    <2> QED
      BY <1>1, <1>3, <2>2, <2>3, KeyKept DEF Places
  <1> QED
    BY <1>4, <1>5, <1>6, <1>7, <1>8, <1>9, <1>10 DEF ListKeys

LEMMA DetailKeysStep ==
    ASSUME LoopInv, DetailKeys
    PROVE  LoopInv'
  <1>1. /\ m \in Model /\ Places(m) /\ vm \in [VMs -> Machine] /\ m.detail \in Shown
        /\ m.detailGen \in Nat
        /\ \A n \in VMs : Read(n) \in Row /\ Read(n).n = n
        /\ \A v \in Row : v.n \in VMs /\ v \in Shown
    BY TypeFacts DEF Row
  <1>2. Press /\ m.screen = "detail" /\ m.detail.n \in VMs
    BY <1>1 DEF DetailKeys, DetailEsc, DetailEdit, DetailEditor, DetailInstalled, DetailProvision, DetailDisplay,
       DetailOpen, OverlayEsc, DetailKey, Key, Places
  <1>3. m.detail.n \in VMs \cup {None} /\ None \in VMs \cup {None}
    BY <1>2
  <1>4. CASE DetailEsc
    <2>1. PICK q : q = [m EXCEPT !.screen = "list"]
      OBVIOUS
    <2>2. /\ q \in Model /\ q.provisioning = m.provisioning /\ q.detailGen = m.detailGen
          /\ q.screen = "list" /\ q.detail = m.detail /\ q.overlay = m.overlay
      BY <1>1, <2>1 DEF Model
    <2>3. Return(q, {Load}) /\ vm' = vm /\ Plain(Load)
      BY <1>4, <2>1, WellFacts DEF DetailEsc
    <2> QED
      BY <1>1, <1>2, <2>2, <2>3, KeyKept DEF Places
  <1>5. CASE DetailEdit
    <2>1. PICK q : q = [m EXCEPT !.edit = m.detail.n, !.screen = "edit", !.status = None]
      OBVIOUS
    <2>2. /\ q \in Model /\ q.provisioning = m.provisioning /\ q.detailGen = m.detailGen
          /\ q.detail = m.detail /\ q.edit = m.detail.n
      BY <1>1, <1>3, <2>1 DEF Model
    <2>3. Return(q, {}) /\ vm' = vm
      BY <1>5, <2>1 DEF DetailEdit
    <2> QED
      BY <1>1, <1>2, <2>2, <2>3, KeyKept DEF Places
  <1>6. CASE DetailEditor
    <2>1. PICK s \in {"stopped", "broken"} :
             /\ vm' = [vm EXCEPT ![m.detail.n].state = IF @ = "running" THEN @ ELSE s]
             /\ Return(m, {OfVM("vmReloaded", As(m.detail.n, vm'[m.detail.n]))})
      BY <1>6 DEF DetailEditor
    <2>2. PICK n : n = m.detail.n
      OBVIOUS
    <2>3. PICK st : st = IF vm[n].state = "running" THEN vm[n].state ELSE s
      OBVIOUS
    <2>4. /\ n \in VMs /\ vm[n] \in Machine /\ st \in States
          /\ vm' = [vm EXCEPT ![n] = [vm[n] EXCEPT !.state = st]]
      BY <1>1, <1>2, <2>1, <2>2, <2>3 DEF States
    <2>5. [vm[n] EXCEPT !.state = st] \in Machine
      BY <2>4 DEF Machine
    <2>6. vm' \in [VMs -> Machine] /\ vm'[n] \in Machine
      BY <1>1, <2>4, <2>5
    <2>7. PICK v, d : v = As(n, vm'[n]) /\ d = OfVM("vmReloaded", v)
      OBVIOUS
    <2>8. v \in Row
      BY <2>4, <2>6, <2>7 DEF As, Row, Shown, Machine
    <2>9. Plain(d) /\ Return(m, {d})
      BY <2>1, <2>2, <2>7, <2>8, WellFacts, CmdFacts DEF Plain, IsRun
    <2> QED
      BY <1>1, <1>2, <2>6, <2>9, KeyKept
  <1>7. CASE DetailInstalled
    <2>1. PICK n, b : n = m.detail.n /\ b = (~m.detail.installed)
      OBVIOUS
    <2>2. /\ vm' = [vm EXCEPT ![n].installed = b]
          /\ Return([m EXCEPT !.detail = As(n, vm'[n])], {Load})
      BY <1>7, <2>1 DEF DetailInstalled
    <2>3. n \in VMs /\ b \in BOOLEAN /\ vm[n] \in Machine
      BY <1>1, <1>2, <2>1
    <2>4. [vm[n] EXCEPT !.installed = b] \in Machine
      BY <2>3 DEF Machine
    <2>5. vm' \in [VMs -> Machine] /\ vm'[n] \in Machine
      BY <1>1, <2>2, <2>3, <2>4
    <2>6. PICK w, q : w = As(n, vm'[n]) /\ q = [m EXCEPT !.detail = w]
      OBVIOUS
    <2>7. w \in Shown /\ w.n = n
      BY <2>3, <2>5, <2>6 DEF As, Shown, Machine
    <2>8. /\ q \in Model /\ q.provisioning = m.provisioning /\ q.detailGen = m.detailGen
          /\ q.screen = m.screen /\ q.detail = w /\ q.edit = m.edit /\ q.overlay = m.overlay
      BY <1>1, <2>6, <2>7 DEF Model
    <2>9. Return(q, {Load}) /\ Plain(Load)
      BY <2>2, <2>6, WellFacts
    <2> QED
      BY <1>1, <1>2, <2>3, <2>5, <2>7, <2>8, <2>9, KeyKept DEF Places
  <1>8. CASE DetailProvision
    <2>1. PICK v : v = Read(m.detail.n)
      OBVIOUS
    <2>2. /\ v \in Row /\ Provisions(v) /\ Return(Provisioning(v.n), {OfVM("provision", v)}) /\ Key
      BY <1>1, <1>2, <1>8, <2>1 DEF DetailProvision, DetailKey, Key
    <2> QED
      BY <2>2, KeyRuns
  <1>9. CASE DetailDisplay
    <2>1. PICK w, q : w = Read(m.detail.n) /\ q = [m EXCEPT !.detail = w]
      OBVIOUS
    <2>2. w \in Shown /\ w.n = m.detail.n
      BY <1>1, <1>2, <2>1
    <2>3. /\ q \in Model /\ q.provisioning = m.provisioning /\ q.detailGen = m.detailGen
          /\ q.screen = m.screen /\ q.detail = w /\ q.edit = m.edit /\ q.overlay = m.overlay
      BY <1>1, <2>1, <2>2 DEF Model
    <2>4. Return(q, {}) /\ vm' = vm
      BY <1>9, <2>1 DEF DetailDisplay
    <2> QED
      BY <1>1, <1>2, <2>2, <2>3, <2>4, KeyKept DEF Places
  <1>10. CASE DetailOpen
    <2>1. PICK op \in {"openLog", "openSnapshots"} : Return(m, {Cmd(op, m.detail.n)}) /\ vm' = vm
      BY <1>10 DEF DetailOpen
    <2>2. PICK d : d = Cmd(op, m.detail.n)
      OBVIOUS
    <2>3. Plain(d) /\ Return(m, {d})
      BY <1>2, <2>1, <2>2, WellFacts, CmdFacts DEF Plain, IsRun
    <2> QED
      BY <1>1, <1>2, <2>1, <2>3, KeyKept
  <1>11. CASE OverlayEsc
    <2>1. PICK q : q = [m EXCEPT !.overlay = "none"]
      OBVIOUS
    <2>2. /\ q \in Model /\ q.provisioning = m.provisioning /\ q.detailGen = m.detailGen
          /\ q.screen = m.screen /\ q.detail = m.detail /\ q.edit = m.edit /\ q.overlay = "none"
      BY <1>1, <2>1 DEF Model
    <2>3. Return(q, {}) /\ vm' = vm
      BY <1>11, <2>1 DEF OverlayEsc, Key
    <2> QED
      BY <1>1, <1>2, <2>2, <2>3, KeyKept DEF Places
  <1> QED
    BY <1>4, <1>5, <1>6, <1>7, <1>8, <1>9, <1>10, <1>11 DEF DetailKeys

\* The keys of the form and of the edit screen.
LEMMA FormKeysStep ==
    ASSUME LoopInv, FormEsc \/ FormEnter \/ EditEsc \/ EditEnter
    PROVE  LoopInv'
  <1>1. /\ m \in Model /\ Places(m) /\ vm \in [VMs -> Machine] /\ m.detailGen \in Nat /\ None \in VMs \cup {None}
    BY TypeFacts
  <1>2. Press
    BY DEF FormEsc, FormEnter, EditEsc, EditEnter, Key
  <1>3. CASE FormEsc
    <2>1. PICK q : q = [m EXCEPT !.screen = "list", !.status = None]
      OBVIOUS
    <2>2. /\ q \in Model /\ q.provisioning = m.provisioning /\ q.detailGen = m.detailGen
          /\ q.screen = "list" /\ q.detail = m.detail /\ q.overlay = m.overlay
      BY <1>1, <2>1 DEF Model
    <2>3. Return(q, {}) /\ vm' = vm
      BY <1>3, <2>1 DEF FormEsc, Key
    <2> QED
      BY <1>1, <1>2, <2>2, <2>3, KeyKept DEF Places
  <1>4. CASE FormEnter
    <2>1. PICK n \in VMs : Return(m, {Cmd("create", n)}) /\ vm' = vm
      BY <1>4 DEF FormEnter, Key
    <2>2. PICK d : d = Cmd("create", n)
      OBVIOUS
    <2>3. Plain(d) /\ Return(m, {d})
      BY <2>1, <2>2, WellFacts, CmdFacts DEF Plain, IsRun
    <2> QED
      BY <1>1, <1>2, <2>1, <2>3, KeyKept
  <1>5. CASE EditEsc
    <2>0. PICK g : g = m.detailGen + 1
      OBVIOUS
    <2>1. PICK q : q = [m EXCEPT !.screen = "detail", !.detailGen = g]
      OBVIOUS
    <2>t. g \in Nat
      BY <1>1, <2>0
    <2>2. /\ q \in Model /\ q.provisioning = m.provisioning /\ q.detailGen = g
          /\ q.screen = "detail" /\ q.detail = m.detail /\ q.overlay = m.overlay
      BY <1>1, <2>1, <2>t DEF Model
    <2>3. Return(q, {Tick(m.detailGen + 1)}) /\ vm' = vm /\ m.screen = "edit"
      BY <1>5, <2>0, <2>1 DEF EditEsc, Key
    <2> QED
      BY <1>1, <1>2, <2>0, <2>2, <2>3, KeyKept DEF Places
  <1>6. CASE EditEnter
    <2>1. PICK n : n = m.edit
      OBVIOUS
    <2>2. n \in VMs /\ Saves(n) /\ Return(m, {Cmd("vmSaved", n)})
      BY <1>1, <1>6, <2>1 DEF EditEnter, Places
    <2>3. PICK w \in {vm[n].work, "none", "pending"} : vm' = [vm EXCEPT ![n].work = w]
      BY <2>2 DEF Saves
    <2>4. w \in Works /\ vm[n] \in Machine
      BY <1>1, <2>2, <2>3 DEF Machine, Works
    <2>5. [vm[n] EXCEPT !.work = w] \in Machine
      BY <2>4 DEF Machine
    <2>6. vm' \in [VMs -> Machine]
      BY <1>1, <2>2, <2>3, <2>5
    <2>7. PICK d : d = Cmd("vmSaved", n)
      OBVIOUS
    <2>8. Plain(d) /\ Return(m, {d})
      BY <2>2, <2>7, WellFacts, CmdFacts DEF Plain, IsRun
    <2> QED
      BY <1>1, <1>2, <2>6, <2>8, KeyKept
  <1> QED
    BY <1>3, <1>4, <1>5, <1>6

-----------------------------------------------------------------------------
(* Commands at work *)

\* A VM whose record or state changes stays a VM.
LEMMA MachineEdits ==
    ASSUME LoopInv, NEW n \in VMs
    PROVE  /\ vm[n] \in Machine /\ Booted(n) \in Machine
           /\ \A s \in States : [vm EXCEPT ![n].state = s] \in [VMs -> Machine]
           /\ [vm EXCEPT ![n] = Booted(n)] \in [VMs -> Machine]
  <1>1. vm \in [VMs -> Machine] /\ vm[n] \in Machine
    BY TypeFacts
  <1>2. PICK b : b = (vm[n].installed \/ (mode[n] = "disk" /\ vm[n].written))
    OBVIOUS
  <1>3. b \in BOOLEAN /\ "running" \in States
    BY <1>1, <1>2 DEF Machine, States
  <1>4. Booted(n) = [vm[n] EXCEPT !.state = "running", !.installed = b]
    BY <1>1, <1>2 DEF Booted, Machine
  <1>5. Booted(n) \in Machine
    BY <1>1, <1>3, <1>4 DEF Machine
  <1>6. \A s \in States : [vm[n] EXCEPT !.state = s] \in Machine
    BY <1>1 DEF Machine
  <1>7. \A s \in States : [vm EXCEPT ![n].state = s] \in [VMs -> Machine]
    BY <1>1, <1>6
  <1> QED
    BY <1>1, <1>5, <1>7

\* A command that ends, or becomes one other, and is no run.
LEMMA TurnKept ==
    ASSUME LoopInv, World, vm' \in [VMs -> Machine], NEW c \in BagToSet(cmds), ~IsRun(c),
           Ends(c) \/ \E d : Plain(d) /\ Becomes(c, d)
    PROVE  LoopInv'
  <1>1. IsABag(cmds)
    BY TypeFacts
  <1>2. CASE Ends(c)
    <2>1. Moves({c}, {})
      BY <1>1, <1>2, EndsMoves
    <2> QED
      BY <2>1, WorkKept
  <1>3. ASSUME NEW d, Plain(d), Becomes(c, d) PROVE LoopInv'
    <2>1. Moves({c}, {d})
      BY <1>1, <1>3, BecomesMoves
    <2> QED
      BY <1>3, <2>1, WorkKept
  <1> QED
    BY <1>2, <1>3

\* The messages and commands a command becomes.
LEMMA PlainCmds ==
    /\ \A n \in VMs : \A op \in {"waitStopped", "restart", "installRestarted", "sshReady", "awaitInstall", "awaitSSH",
          "checkCloudInit", "cloudInitWaiting", "cloudInitDone", "cloudInitTick", "logOpened",
          "snapshotsOpened"} : Plain(Cmd(op, n))
    /\ \A v \in Row : Plain(OfVM("vmStarted", v))
  BY WellFacts, CmdFacts DEF Plain, IsRun

\* A run in flight reports.
LEMMA ApplyStep ==
    ASSUME LoopInv, NEW c \in BagToSet(cmds), c.op = "provision", Apply(c)
    PROVE  LoopInv'
  <1>1. /\ IsABag(cmds) /\ Well(c) /\ vm \in [VMs -> Machine] /\ m \in Model /\ Places(m)
        /\ keys \in 0..MaxKeys /\ outside \in 0..MaxOutside
    BY TypeFacts
  <1>2. c.n \in VMs /\ UNCHANGED <<mode, m, keys, outside>>
    BY <1>1 DEF Well, Apply, World
  <1>3. PICK w, d : /\ w = (IF vm[c.n].work = "pending" THEN "applied" ELSE vm[c.n].work)
                    /\ d = Cmd("provisionDone", c.n)
    OBVIOUS
  <1>4. w \in Works /\ vm[c.n] \in Machine
    BY <1>1, <1>2, <1>3 DEF Machine, Works
  <1>5. [vm[c.n] EXCEPT !.work = w] \in Machine
    BY <1>4 DEF Machine
  <1>6. vm' = [vm EXCEPT ![c.n] = [vm[c.n] EXCEPT !.work = w]] \/ vm' = vm
    BY <1>1, <1>2, <1>3 DEF Apply
  <1>7. vm' \in [VMs -> Machine]
    BY <1>1, <1>2, <1>5, <1>6
  <1>8. Moves({c}, {d})
    BY <1>1, <1>3, BecomesMoves DEF Apply
  <1>9. Well(d) /\ d.op = "provisionDone"
    BY <1>2, <1>3, WellFacts, CmdFacts
  <1>10. TicksGoOn({c}, {d}) /\ RunsGoOn({c}, {d})
    BY <1>2, <1>3, <1>9 DEF TicksGoOn, RunsGoOn
  <1> QED
    BY <1>1, <1>2, <1>7, <1>8, <1>9, <1>10, StepKept

LEMMA WorkingStep ==
    ASSUME LoopInv, Working
    PROVE  LoopInv'
  <1>1. /\ IsABag(cmds) /\ vm \in [VMs -> Machine] /\ \A c \in BagToSet(cmds) : Well(c)
        /\ List \subseteq Row
    BY TypeFacts
  <1>2. \A c \in BagToSet(cmds) :
          c.op \in {"start", "stop", "delete", "create", "awaitInstall", "waitStopped", "restart", "awaitSSH",
                    "checkCloudInit", "openLog", "openSnapshots"} => c.n \in VMs /\ ~IsRun(c)
    BY <1>1 DEF Well, IsRun
  <1>3. {"stopped", "running", "absent", "broken"} \subseteq States
    BY DEF States
  <1>4. ASSUME NEW c \in BagToSet(cmds), c.op = "start", StartVM(c) PROVE LoopInv'
    <2>1. World /\ c.n \in VMs /\ c.v \in Row /\ ~IsRun(c)
      BY <1>1, <1>2, <1>4 DEF StartVM, Well
    <2>2. vm' \in [VMs -> Machine]
      BY <1>1, <1>4, <2>1, MachineEdits DEF StartVM
    <2>3. Ends(c) \/ \E d : Plain(d) /\ Becomes(c, d)
      BY <1>4, <2>1, PlainCmds DEF StartVM
    <2> QED
      BY <2>1, <2>2, <2>3, TurnKept
  <1>5. ASSUME NEW c \in BagToSet(cmds), c.op = "stop", StopVM(c) PROVE LoopInv'
    <2>1. World /\ c.n \in VMs /\ ~IsRun(c) /\ Becomes(c, Load) /\ Plain(Load)
      BY <1>2, <1>5, WellFacts DEF StopVM
    <2>2. vm' \in [VMs -> Machine]
      BY <1>1, <1>3, <1>5, <2>1, MachineEdits DEF StopVM
    <2> QED
      BY <2>1, <2>2, TurnKept
  <1>6. ASSUME NEW c \in BagToSet(cmds), c.op = "delete", DeleteVM(c) PROVE LoopInv'
    <2>1. World /\ c.n \in VMs /\ ~IsRun(c) /\ Becomes(c, Load) /\ Plain(Load)
      BY <1>2, <1>6, WellFacts DEF DeleteVM
    <2>2. vm' \in [VMs -> Machine]
      BY <1>1, <1>3, <1>6, <2>1, MachineEdits DEF DeleteVM
    <2> QED
      BY <2>1, <2>2, TurnKept
  <1>7. ASSUME NEW c \in BagToSet(cmds), c.op = "create", CreateVM(c) PROVE LoopInv'
    <2>1. /\ World /\ c.n \in VMs /\ ~IsRun(c)
          /\ Becomes(c, Cmd("loadThenList", None)) /\ Plain(Cmd("loadThenList", None))
      BY <1>2, <1>7, WellFacts DEF CreateVM
    <2>2. [state |-> "stopped", installed |-> FALSE, written |-> FALSE, work |-> "pending"] \in Machine
      BY DEF Machine, States, Works
    <2>3. vm' \in [VMs -> Machine]
      BY <1>1, <1>7, <2>1, <2>2 DEF CreateVM
    <2> QED
      BY <2>1, <2>3, TurnKept
  <1>8. ASSUME NEW c \in BagToSet(cmds), c.op \in {"load", "loadThenList"}, LoadVMs(c) PROVE LoopInv'
    <2>1. World /\ vm' = vm /\ ~IsRun(c) /\ Plain(Loaded(List)) /\ Plain(Cmd("screenList", None))
      BY <1>1, <1>8, WellFacts DEF LoadVMs, Calm, IsRun
    <2>2. CASE c.op = "load"
      BY <1>1, <1>8, <2>1, <2>2, TurnKept DEF LoadVMs
    <2>3. CASE c.op = "loadThenList"
      <3>1. Moves({c}, {Loaded(List), Cmd("screenList", None)})
        BY <1>1, <1>8, <2>3, HandledMoves DEF LoadVMs
      <3> QED
        BY <1>1, <2>1, <3>1, WorkKept
    <2> QED
      BY <1>8, <2>2, <2>3
  <1>9. ASSUME NEW c \in BagToSet(cmds), Calm, c.n \in VMs, ~IsRun(c),
               Ends(c) \/ \E op \in {"waitStopped", "restart", "sshReady", "cloudInitWaiting", "cloudInitDone",
                                     "logOpened", "snapshotsOpened"} : Becomes(c, Cmd(op, c.n))
        PROVE  LoopInv'
    <2>1. Ends(c) \/ \E d : Plain(d) /\ Becomes(c, d)
      BY <1>9, PlainCmds
    <2> QED
      BY <1>1, <1>9, <2>1, TurnKept DEF Calm
  <1>10. ASSUME NEW c \in BagToSet(cmds), c.op = "restart", Restart(c) PROVE LoopInv'
    <2>1. World /\ c.n \in VMs /\ ~IsRun(c)
      BY <1>2, <1>10 DEF Restart
    <2>2. vm' \in [VMs -> Machine]
      BY <1>1, <1>10, <2>1, MachineEdits DEF Restart
    <2>3. Ends(c) \/ \E d : Plain(d) /\ Becomes(c, d)
      BY <1>10, <2>1, PlainCmds DEF Restart
    <2> QED
      BY <2>1, <2>2, <2>3, TurnKept
  <1>11. ASSUME NEW c \in BagToSet(cmds), c.op = "awaitInstall", AwaitInstall(c) PROVE LoopInv'
    BY <1>2, <1>9, <1>11 DEF AwaitInstall
  <1>12. ASSUME NEW c \in BagToSet(cmds), c.op = "waitStopped", WaitStopped(c) PROVE LoopInv'
    BY <1>2, <1>9, <1>12 DEF WaitStopped
  <1>13. ASSUME NEW c \in BagToSet(cmds), c.op = "awaitSSH", AwaitSSH(c) PROVE LoopInv'
    BY <1>2, <1>9, <1>13 DEF AwaitSSH
  <1>14. ASSUME NEW c \in BagToSet(cmds), c.op = "checkCloudInit", CheckCloudInit(c) PROVE LoopInv'
    BY <1>2, <1>9, <1>14 DEF CheckCloudInit
  <1>15. ASSUME NEW c \in BagToSet(cmds), c.op \in {"openLog", "openSnapshots"}, OpenOverlay(c) PROVE LoopInv'
    BY <1>2, <1>9, <1>15 DEF OpenOverlay
  <1> QED
    BY <1>4, <1>5, <1>6, <1>7, <1>8, <1>10, <1>11, <1>12, <1>13, <1>14, <1>15, ApplyStep
    DEF Working, On, InFlight

-----------------------------------------------------------------------------
(* Messages *)

\* A message that changes neither count and puts S under way.
LEMMA PlainMessage ==
    ASSUME LoopInv, Still, NEW c \in BagToSet(cmds), ~IsRun(c),
           NEW next \in Model, Places(next), NEW S, Handled(c, next, S),
           next.provisioning = m.provisioning, next.detailGen = m.detailGen, \A d \in S : Plain(d)
    PROVE  LoopInv'
  BY MessageKept DEF Plain

\* What a cloud-init poll answered, as the list shows it.
LEMMA CloudInitEdit ==
    ASSUME LoopInv, NEW n \in VMs, NEW x \in {"waiting", "done"}
    PROVE  LET q == [m EXCEPT !.cloudInit[n] = x]
           IN  q \in Model /\ Places(q) /\ q.provisioning = m.provisioning /\ q.detailGen = m.detailGen
  <1>1. m \in Model /\ Places(m) /\ m.cloudInit \in [VMs -> {"none", "waiting", "done"}]
    BY TypeFacts
  <1>2. PICK f, q : f = [m.cloudInit EXCEPT ![n] = x] /\ q = [m EXCEPT !.cloudInit = f]
    OBVIOUS
  <1>3. f \in [VMs -> {"none", "waiting", "done"}]
    BY <1>1, <1>2
  <1>4. /\ q \in Model /\ q.provisioning = m.provisioning /\ q.detailGen = m.detailGen
        /\ q.screen = m.screen /\ q.detail = m.detail /\ q.edit = m.edit /\ q.overlay = m.overlay
    BY <1>1, <1>2, <1>3 DEF Model
  <1>5. q = [m EXCEPT !.cloudInit[n] = x]
    BY <1>2
  <1> QED
    BY <1>1, <1>4, <1>5 DEF Places

LEMMA SSHReadyStep ==
    ASSUME LoopInv, NEW c \in BagToSet(cmds), c.op = "sshReady", SSHReady(c)
    PROVE  LoopInv'
  <1>1. /\ IsABag(cmds) /\ Well(c) /\ vm \in [VMs -> Machine] /\ m \in Model /\ Places(m) /\ m.vms \subseteq Row
        /\ keys \in 0..MaxKeys /\ outside \in 0..MaxOutside
    BY TypeFacts
  <1>2. Still /\ c.n \in VMs /\ ~IsRun(c)
    BY <1>1 DEF SSHReady, Well, IsRun
  <1>3. CASE ~AutoProvisions(c.n)
    <2>1. Handled(c, m, {})
      BY <1>3 DEF SSHReady
    <2> QED
      BY <1>1, <1>2, <2>1, PlainMessage
  <1>4. CASE AutoProvisions(c.n)
    <2>1. PICK v \in ByName(c.n) : Handled(c, Provisioning(c.n), {OfVM("provision", v)})
      BY <1>4 DEF SSHReady
    <2>2. c.n \notin m.provisioning
      BY <1>4 DEF AutoProvisions, ByName, Provisions
    <2>3. v \in Row /\ v.n = c.n
      BY <1>1, <2>1 DEF ByName
    <2>4. PICK q, d : q = Provisioning(c.n) /\ d = OfVM("provision", v)
      OBVIOUS
    <2>5. /\ q \in Model /\ q.provisioning = m.provisioning \cup {v.n} /\ q.detailGen = m.detailGen /\ Places(q)
          /\ d.op = "provision" /\ Well(d)
      BY <1>2, <2>3, <2>4, ProvisioningFacts, WellFacts, CmdFacts
    <2>6. m' = q /\ cmds' = BagRemove(cmds, c) (+) Batch({d}) /\ UNCHANGED <<mode, vm, keys, outside>>
      BY <1>2, <2>1, <2>4 DEF Handled, Still
    <2>7. Moves({c}, {d})
      BY <1>1, <2>6, HandledMoves
    <2>8. TicksGoOn({c}, {d}) /\ RunsGoOn({c}, {d})
      BY <1>2, <2>2, <2>3, <2>4, <2>5, <2>6 DEF TicksGoOn, RunsGoOn
    <2> QED
      BY <1>1, <2>5, <2>6, <2>7, <2>8, StepKept
  <1> QED
    BY <1>3, <1>4

LEMMA ProvisionDoneStep ==
    ASSUME LoopInv, NEW c \in BagToSet(cmds), c.op = "provisionDone", ProvisionDone(c)
    PROVE  LoopInv'
  <1>1. /\ IsABag(cmds) /\ Well(c) /\ vm \in [VMs -> Machine] /\ m \in Model /\ Places(m)
        /\ keys \in 0..MaxKeys /\ outside \in 0..MaxOutside
    BY TypeFacts
  <1>2. PICK q : q = [m EXCEPT !.provisioning = @ \ {c.n}]
    OBVIOUS
  <1>3. /\ q \in Model /\ q.provisioning = m.provisioning \ {c.n} /\ q.detailGen = m.detailGen
        /\ q.screen = m.screen /\ q.detail = m.detail /\ q.edit = m.edit /\ q.overlay = m.overlay
    BY <1>1, <1>2 DEF Model
  <1>4. m' = q /\ cmds' = BagRemove(cmds, c) (+) Batch({}) /\ UNCHANGED <<mode, vm, keys, outside>>
    BY <1>2 DEF ProvisionDone, Handled, Still
  <1>5. Moves({c}, {})
    BY <1>1, <1>4, HandledMoves
  <1>6. TicksGoOn({c}, {}) /\ RunsGoOn({c}, {})
    BY <1>3, <1>4 DEF TicksGoOn, RunsGoOn
  <1>7. Places(q)
    BY <1>1, <1>3 DEF Places
  <1> QED
    BY <1>1, <1>3, <1>4, <1>5, <1>6, <1>7, StepKept

LEMMA VMSavedStep ==
    ASSUME LoopInv, NEW c \in BagToSet(cmds), c.op = "vmSaved", VMSaved(c)
    PROVE  LoopInv'
  <1>1. /\ Well(c) /\ m \in Model /\ Places(m) /\ m.detailGen \in Nat
        /\ \A n \in VMs : Read(n) \in Row /\ Read(n).n = n
        /\ \A v \in Row : v \in Shown
    BY TypeFacts DEF Row
  <1>2. Still /\ c.n \in VMs /\ c.n \in VMs \cup {None} /\ ~IsRun(c)
    BY <1>1 DEF VMSaved, Well, IsRun
  <1>3. CASE ~Exists(c.n)
    <2>1. Handled(c, m, {})
      BY <1>3 DEF VMSaved
    <2> QED
      BY <1>1, <1>2, <2>1, PlainMessage
  <1>4. CASE Exists(c.n)
    <2>1. PICK g, w, q, t : /\ g = m.detailGen + 1 /\ w = Read(c.n) /\ t = Tick(m.detailGen + 1)
                            /\ q = [m EXCEPT !.detail = w, !.edit = c.n, !.screen = "detail", !.detailGen = g]
      OBVIOUS
    <2>2. g \in Nat /\ w \in Shown /\ w.n = c.n /\ Well(t) /\ t.op = "tick" /\ t.gen = g /\ ~IsRun(t)
      BY <1>1, <1>2, <2>1, WellFacts, CmdFacts DEF IsRun
    <2>3. /\ q \in Model /\ q.provisioning = m.provisioning /\ q.detailGen = g
          /\ q.screen = "detail" /\ q.detail = w /\ q.overlay = m.overlay
      BY <1>1, <1>2, <2>1, <2>2 DEF Model
    <2>4. Handled(c, q, {Load, t})
      BY <1>4, <2>1 DEF VMSaved
    <2>5. Plain(Load) /\ Places(q)
      BY <1>1, <1>2, <2>2, <2>3, WellFacts DEF Places
    <2>6. /\ q.detailGen = m.detailGen + 1
          /\ \A d \in {Load, t} : Well(d) /\ ~IsRun(d) /\ (d.op = "tick" => d.gen = m.detailGen + 1)
      BY <2>1, <2>2, <2>3, <2>5 DEF Plain
    <2> QED
      BY <1>2, <2>3, <2>4, <2>5, <2>6, MessageKept
  <1> QED
    BY <1>3, <1>4

LEMMA DetailMsgStep ==
    ASSUME LoopInv, NEW c \in BagToSet(cmds), DetailMsg(c),
           c.op \in {"logOpened", "snapshotsOpened", "vmReloaded", "tick"}
    PROVE  LoopInv'
  <1>1. Well(c) /\ m \in Model /\ Places(m) /\ m.detailGen \in Nat
    BY TypeFacts
  <1>2. Still /\ ~IsRun(c)
    BY DEF DetailMsg, IsRun
  <1>3. CASE m.screen # "detail" \/ m.overlay # "none"
    <2>1. Handled(c, m, {})
      BY <1>3 DEF DetailMsg
    <2> QED
      BY <1>1, <1>2, <2>1, PlainMessage
  <1>4. CASE m.screen = "detail" /\ m.overlay = "none" /\ c.op \in {"logOpened", "snapshotsOpened"}
    <2>1. PICK o \in {"pager", "snapshots"} : Handled(c, [m EXCEPT !.overlay = o], {})
      BY <1>4 DEF DetailMsg
    <2>2. PICK q : q = [m EXCEPT !.overlay = o]
      OBVIOUS
    <2>3. /\ q \in Model /\ q.provisioning = m.provisioning /\ q.detailGen = m.detailGen
          /\ q.screen = m.screen /\ q.detail = m.detail /\ q.edit = m.edit
      BY <1>1, <2>2 DEF Model
    <2>4. Places(q) /\ Handled(c, q, {})
      BY <1>1, <1>4, <2>1, <2>2, <2>3 DEF Places
    <2> QED
      BY <1>2, <2>3, <2>4, PlainMessage
  <1>5. CASE m.screen = "detail" /\ m.overlay = "none" /\ c.op = "vmReloaded"
    <2>1. PICK q : q = [m EXCEPT !.detail = c.v]
      OBVIOUS
    <2>2. c.v \in Shown /\ c.v.n \in VMs
      BY <1>1, <1>5 DEF Well, Row
    <2>3. /\ q \in Model /\ q.provisioning = m.provisioning /\ q.detailGen = m.detailGen
          /\ q.screen = m.screen /\ q.detail = c.v /\ q.edit = m.edit
      BY <1>1, <2>1, <2>2 DEF Model
    <2>4. Handled(c, q, {Load}) /\ Plain(Load)
      BY <1>5, <2>1, WellFacts DEF DetailMsg
    <2>5. Places(q)
      BY <1>1, <2>2, <2>3 DEF Places
    <2> QED
      BY <1>2, <2>3, <2>4, <2>5, PlainMessage
  <1>6. CASE m.screen = "detail" /\ m.overlay = "none" /\ c.op = "tick"
    <2>1. Handled(c, m, IF c.gen = m.detailGen THEN {Tick(m.detailGen)} ELSE {})
      BY <1>6 DEF DetailMsg
    <2>2. c = Tick(c.gen)
      BY <1>1, <1>6 DEF Well
    <2>3. CASE c.gen = m.detailGen
      <3>1. Handled(c, m, {c})
        BY <2>1, <2>2, <2>3
      <3> QED
        BY <1>1, <1>2, <2>3, <3>1, MessageKept
    <2>4. CASE c.gen # m.detailGen
      <3>1. Handled(c, m, {})
        BY <2>1, <2>4
      <3> QED
        BY <1>1, <1>2, <3>1, PlainMessage
    <2> QED
      BY <2>3, <2>4
  <1> QED
    BY <1>3, <1>4, <1>5, <1>6

LEMMA MessagesStep ==
    ASSUME LoopInv, Messages
    PROVE  LoopInv'
  <1>1. m \in Model /\ Places(m) /\ \A c \in BagToSet(cmds) : Well(c)
    BY TypeFacts
  <1>2. Plain(Load) /\ \A n \in VMs : \A op \in {"checkCloudInit", "cloudInitTick", "awaitInstall", "awaitSSH"} : Plain(Cmd(op, n))
    BY WellFacts, PlainCmds
  <1>3. ASSUME NEW c \in BagToSet(cmds), c.op = "vmsLoaded", VMsLoaded(c) PROVE LoopInv'
    <2>1. PICK q : q = [m EXCEPT !.vms = c.vms]
      OBVIOUS
    <2>2. c.vms \in SUBSET Row /\ ~IsRun(c)
      BY <1>1, <1>3 DEF Well, IsRun
    <2>3. /\ q \in Model /\ q.provisioning = m.provisioning /\ q.detailGen = m.detailGen
          /\ q.screen = m.screen /\ q.detail = m.detail /\ q.edit = m.edit /\ q.overlay = m.overlay
      BY <1>1, <2>1, <2>2 DEF Model
    <2>4. Still /\ Handled(c, q, {}) /\ Places(q)
      BY <1>1, <1>3, <2>1, <2>3 DEF VMsLoaded, Places
    <2> QED
      BY <2>2, <2>3, <2>4, PlainMessage
  <1>4. ASSUME NEW c \in BagToSet(cmds), c.op = "vmStarted", VMStarted(c) PROVE LoopInv'
    <2>1. Still /\ c.n \in VMs /\ ~IsRun(c)
      BY <1>1, <1>4 DEF VMStarted, Well, IsRun
    <2>2. CASE mode[c.n] = "cloud"
      <3>1. Handled(c, [m EXCEPT !.cloudInit[c.n] = "waiting"], {Load, Cmd("checkCloudInit", c.n)})
        BY <1>4, <2>2 DEF VMStarted
      <3>2. PICK q, d : q = [m EXCEPT !.cloudInit[c.n] = "waiting"] /\ d = Cmd("checkCloudInit", c.n)
        OBVIOUS
      <3>3. q \in Model /\ Places(q) /\ q.provisioning = m.provisioning /\ q.detailGen = m.detailGen
        BY <2>1, <3>2, CloudInitEdit
      <3>4. Handled(c, q, {Load, d}) /\ Plain(d)
        BY <1>2, <2>1, <3>1, <3>2
      <3> QED
        BY <1>2, <2>1, <3>3, <3>4, PlainMessage
    <2>3. CASE mode[c.n] # "cloud"
      <3>1. \E S \in {{Load}, {Load, Cmd("awaitInstall", c.n)}, {Load, Cmd("awaitSSH", c.n)}} : Handled(c, m, S)
        BY <1>4, <2>3 DEF VMStarted
      <3>2. \A S \in {{Load}, {Load, Cmd("awaitInstall", c.n)}, {Load, Cmd("awaitSSH", c.n)}} :
              \A d \in S : Plain(d)
        BY <1>2, <2>1
      <3> QED
        BY <1>1, <2>1, <3>1, <3>2, PlainMessage
    <2> QED
      BY <2>2, <2>3
  <1>5. ASSUME NEW c \in BagToSet(cmds), c.op = "installRestarted", InstallRestarted(c) PROVE LoopInv'
    <2>1. Still /\ c.n \in VMs /\ ~IsRun(c)
      BY <1>1, <1>5 DEF InstallRestarted, Well, IsRun
    <2>2. \E S \in {{}, {Cmd("awaitSSH", c.n)}} : Handled(c, m, S)
      BY <1>5 DEF InstallRestarted
    <2>3. \A S \in {{}, {Cmd("awaitSSH", c.n)}} : \A d \in S : Plain(d)
      BY <1>2, <2>1
    <2> QED
      BY <1>1, <2>1, <2>2, <2>3, PlainMessage
  \* A row named n asks about n.
  <1>9. ASSUME NEW op, NEW n
        PROVE  {Cmd(op, v.n) : v \in {w \in ByName(n) : w.state = "running"}} \in SUBSET {Cmd(op, n)}
    BY DEF ByName
  <1>6. ASSUME NEW c \in BagToSet(cmds), c.op \in {"cloudInitWaiting", "cloudInitDone"}, CloudInit(c) PROVE LoopInv'
    <2>1. Still /\ c.n \in VMs /\ ~IsRun(c)
      BY <1>1, <1>6 DEF CloudInit, Well, IsRun
    <2>2. \E x \in {"waiting", "done"} : \E S \in SUBSET {Cmd("cloudInitTick", c.n)} :
            Handled(c, [m EXCEPT !.cloudInit[c.n] = x], S)
      BY <1>6, <1>9 DEF CloudInit
    <2>3. PICK x \in {"waiting", "done"}, S \in SUBSET {Cmd("cloudInitTick", c.n)} :
            Handled(c, [m EXCEPT !.cloudInit[c.n] = x], S)
      BY <2>2
    <2>4. PICK q : q = [m EXCEPT !.cloudInit[c.n] = x]
      OBVIOUS
    <2>5. q \in Model /\ Places(q) /\ q.provisioning = m.provisioning /\ q.detailGen = m.detailGen
      BY <2>1, <2>4, CloudInitEdit
    <2>6. Handled(c, q, S) /\ \A d \in S : Plain(d)
      BY <1>2, <2>1, <2>3, <2>4
    <2> QED
      BY <2>1, <2>5, <2>6, PlainMessage
  <1>8. ASSUME NEW c \in BagToSet(cmds), c.op = "cloudInitTick", CloudInitTick(c) PROVE LoopInv'
    <2>1. Still /\ c.n \in VMs /\ ~IsRun(c)
      BY <1>1, <1>8 DEF CloudInitTick, Well, IsRun
    <2>2. PICK S \in SUBSET {Cmd("checkCloudInit", c.n)} : Handled(c, m, S)
      BY <1>8, <1>9 DEF CloudInitTick
    <2>3. \A d \in S : Plain(d)
      BY <1>2, <2>1, <2>2
    <2> QED
      BY <1>1, <2>1, <2>2, <2>3, PlainMessage
  <1>7. ASSUME NEW c \in BagToSet(cmds), c.op = "screenList", ScreenMsg(c) PROVE LoopInv'
    <2>1. PICK q : q = [m EXCEPT !.screen = "list"]
      OBVIOUS
    <2>2. /\ q \in Model /\ q.provisioning = m.provisioning /\ q.detailGen = m.detailGen
          /\ q.screen = "list" /\ q.detail = m.detail /\ q.overlay = m.overlay
      BY <1>1, <2>1 DEF Model
    <2>3. Still /\ Handled(c, q, {}) /\ Places(q) /\ ~IsRun(c)
      BY <1>1, <1>7, <2>1, <2>2 DEF ScreenMsg, Places, IsRun
    <2> QED
      BY <2>2, <2>3, PlainMessage
  <1> QED
    BY <1>3, <1>4, <1>5, <1>6, <1>7, <1>8, SSHReadyStep, ProvisionDoneStep, VMSavedStep, DetailMsgStep
    DEF Messages, On, InFlight

-----------------------------------------------------------------------------
(* The loop and the world around it *)

LEMMA OutsideStep ==
    ASSUME LoopInv, Elsewhere \/ InstallerEnds
    PROVE  LoopInv'
  <1>1. /\ UNCHANGED <<mode, m, cmds, keys>> /\ vm \in [VMs -> Machine]
        /\ {"stopped", "absent"} \subseteq States
    BY TypeFacts DEF Elsewhere, InstallerEnds, States
  <1>2. outside' \in 0..MaxOutside
    BY TypeFacts, BoundsAssumption DEF Elsewhere, InstallerEnds
  <1>3. vm' \in [VMs -> Machine]
    <2>1. CASE Elsewhere
      BY <1>1, <2>1, MachineEdits DEF Elsewhere
    <2>2. CASE InstallerEnds
      <3>1. PICK n \in VMs : vm' = [vm EXCEPT ![n].state = "stopped", ![n].written = TRUE]
        BY <2>2 DEF InstallerEnds
      <3>2. [vm[n] EXCEPT !.state = "stopped", !.written = TRUE] \in Machine
        BY <1>1 DEF Machine
      <3>3. vm' = [vm EXCEPT ![n] = [vm[n] EXCEPT !.state = "stopped", !.written = TRUE]]
        BY <1>1, <3>1 DEF Machine
      <3> QED
        BY <1>1, <3>2, <3>3
    <2> QED
      BY <2>1, <2>2
  <1>4. TypeOK'
    BY <1>1, <1>2, <1>3 DEF LoopInv, TypeOK
  <1>5. CmdsWell' /\ RunInv' /\ TickInv'
    BY <1>1 DEF LoopInv, CmdsWell, RunInv, RunsMarked, RunsAlone, MarksHaveRun, TickInv, TicksAreOld, OneTickChain
  <1> QED
    BY <1>4, <1>5 DEF LoopInv

LEMMA LoopInvInit == Init => LoopInv
  <1> SUFFICES ASSUME Init PROVE LoopInv
    OBVIOUS
  <1>1. PICK f \in Fleets : /\ mode = [n \in VMs |-> f[n].mode]
                            /\ vm = [n \in VMs |-> [state |-> "stopped", installed |-> FALSE, written |-> FALSE,
                                                    work |-> f[n].work]]
    BY DEF Init
  <1>2. f \in [VMs -> [mode : {"live", "disk", "cloud"}, work : {"none", "pending"}]]
    BY FleetsAssumption DEF VMs
  <1>3. mode \in [VMs -> {"live", "disk", "cloud"}] /\ vm \in [VMs -> Machine]
    BY <1>1, <1>2 DEF Machine, States, Works
  <1>4. NoVM \in Shown /\ None \in VMs \cup {None}
    BY DEF NoVM, Shown, States, Works
  <1>5. m \in Model /\ m.screen = "list" /\ m.overlay = "none" /\ m.provisioning = {} /\ m.detailGen = 0
    BY <1>4 DEF Init, Model
  <1>6. IsABag(EmptyBag) /\ BagToSet(EmptyBag) = {}
    BY EmptyBagFacts
  <1>7. /\ IsABag(cmds) /\ BagToSet(cmds) = {Load} /\ Plain(Load)
    BY WellFacts DEF Init, Batch, SetToBag, IsABag, BagToSet
  <1>8. TypeOK
    BY <1>3, <1>5, <1>7, BoundsAssumption DEF Init, TypeOK
  <1>9. CmdsWell /\ RunInv /\ TicksAreOld
    BY <1>5, <1>7 DEF CmdsWell, Plain, RunInv, RunsMarked, RunsAlone, MarksHaveRun, TicksAreOld
  <1>10. OneTickChain
    <2>1. Tick(m.detailGen) \notin BagToSet(cmds)
      BY <1>7, CmdFacts DEF Plain
    <2>2. Copies(Tick(m.detailGen), cmds) = 0
      BY <1>7, <2>1, CopiesFacts
    <2> QED
      BY <2>2 DEF OneTickChain
  <1> QED
    BY <1>8, <1>9, <1>10 DEF LoopInv, TickInv

LEMMA LoopInvHolds == Spec => []LoopInv
  <1>1. LoopInv /\ [Next]_vars => LoopInv'
    <2>1. ASSUME LoopInv, Next PROVE LoopInv'
      BY <2>1, ListKeysStep, DetailKeysStep, FormKeysStep, WorkingStep, MessagesStep, OutsideStep DEF Next, Keys
    <2>2. ASSUME LoopInv, UNCHANGED vars PROVE LoopInv'
      <3>1. UNCHANGED mode /\ UNCHANGED vm /\ UNCHANGED m /\ UNCHANGED cmds /\ UNCHANGED keys /\ UNCHANGED outside
        BY <2>2 DEF vars
      <3> QED
        BY <2>2, <3>1 DEF LoopInv, TypeOK, CmdsWell, RunInv, RunsMarked, RunsAlone, MarksHaveRun,
           TickInv, TicksAreOld, OneTickChain
    <2> QED
      BY <2>1, <2>2
  <1> QED
    BY <1>1, LoopInvInit, PTL DEF Spec

\* The types of the program's state.
THEOREM TypeCorrect == Spec => []TypeOK
  <1>1. LoopInv => TypeOK
    BY DEF LoopInv
  <1> QED
    BY <1>1, LoopInvHolds, PTL

\* A VM is marked as provisioning exactly while one run of it is under way or
\* reports, and the screen has at most one tick of its own generation.
THEOREM NothingIsDoubled == Spec => []OneOfEach
  <1>1. LoopInv => OneOfEach
    BY RunInvIsOneProvision DEF LoopInv, TickInv, OneOfEach
  <1> QED
    BY <1>1, LoopInvHolds, PTL

PromptStep ==
    m.pendingDelete # None /\ keys' = keys => m'.pendingDelete = m.pendingDelete /\ m'.status = m.status

\* No message takes the delete question away or changes which VM it names.
THEOREM TheQuestionStays == Spec => PromptStays
  <1>1. LoopInv /\ [Next]_vars => [PromptStep]_vars
    <2> SUFFICES ASSUME LoopInv, Next, m.pendingDelete # None, keys' = keys
                 PROVE  m'.pendingDelete = m.pendingDelete /\ m'.status = m.status
      BY DEF PromptStep
    <2>1. m \in Model /\ keys \in Nat
      BY TypeFacts, BoundsAssumption
    <2>2. ~Keys
      <3>1. ~Press
        BY <2>1 DEF Press
      <3> QED
        BY <3>1 DEF Keys, ListKeys, DetailKeys, ListEnter, ListDelete, Answer, ListProvision, ListNew, ListDetail,
           ListEsc, FormEsc, FormEnter, DetailEsc, DetailEdit, DetailEditor, DetailInstalled, DetailProvision,
           DetailDisplay, DetailOpen, OverlayEsc, EditEsc, EditEnter, ListKey, DetailKey, Key
    <2>3. CASE Working
      <3>1. m' = m
        BY <2>3 DEF Working, On, StartVM, StopVM, DeleteVM, CreateVM, LoadVMs, Apply, AwaitInstall, WaitStopped,
           Restart, AwaitSSH, CheckCloudInit, OpenOverlay, World, Calm
      <3> QED
        BY <3>1
    <2>4. CASE Messages
      <3>1. ASSUME NEW c, SSHReady(c) PROVE m' = m
        BY <3>1 DEF SSHReady, AutoProvisions, Handled
      <3>2. ASSUME NEW c, VMsLoaded(c) \/ VMStarted(c) \/ InstallRestarted(c) \/ ProvisionDone(c)
                          \/ CloudInit(c) \/ CloudInitTick(c)
                          \/ VMSaved(c) \/ ScreenMsg(c) \/ DetailMsg(c)
            PROVE  m'.pendingDelete = m.pendingDelete /\ m'.status = m.status
        BY <2>1, <3>2 DEF Model, VMsLoaded, VMStarted, InstallRestarted, ProvisionDone, CloudInit, CloudInitTick,
           VMSaved, ScreenMsg, DetailMsg, Handled
      <3> QED
        BY <2>4, <3>1, <3>2 DEF Messages, On
    <2>5. CASE Elsewhere \/ InstallerEnds
      BY <2>5 DEF Elsewhere, InstallerEnds
    <2> QED
      BY <2>2, <2>3, <2>4, <2>5 DEF Next
  <1> QED
    BY <1>1, LoopInvHolds, PTL DEF Spec, PromptStays, PromptStep
=============================================================================
